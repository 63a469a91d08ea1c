------------------------- MODULE VaultDeployProofs -------------------------
(***************************************************************************)
(* Proofs about VaultDeploy: what is live is in the vault or journaled,    *)
(* outcomes are true, a completed journal was cleared, and only two races  *)
(* escape the recheck of the tree, for any deploys, drains, trees and      *)
(* workloads.                                                              *)
(***************************************************************************)
EXTENDS VaultDeploy, TLAPS

Places == {"idle", "check", "capture", "lanes", "token", "commit", "override", "done", "dead"}
DrainPlaces == {"idle", "next", "push", "published", "complete", "completed", "done"}
Refusals == {"DEPLOY_BLOCKED_PUSH_FAILED", "SNAPSHOT_MOVED_DURING_DEPLOY", "OVERRIDE_NOT_AUTHORIZED"}
Outcomes == {"none", "SNAPSHOT_DIRTY_TREE", "DEPLOY_FAILED_UNVAULTED", "DEPLOY_FAILED_VAULTED",
             "DEPLOYED_AND_VAULTED", "DEPLOYED_UNVAULTED_OVERRIDE"} \cup Refusals
Locals ==
  [dirty : BOOLEAN, override : BOOLEAN, head : Trees \cup {None}, oid : Oids \cup {NoOid},
   captured : Trees \cup {None}, art : Trees \cup {None}, lease : Oids \cup {NoOid},
   plan : {"running", "ok", "failed"}, push : {"start", "ready", "ok", "failed"}, receipt : BOOLEAN,
   since : Nat, slipped : BOOLEAN, changes : Int]
DrainLocals ==
  [at : DrainPlaces, todo : SUBSET (Deploys \X Journals), d : Deploys \cup {None}, lease : Oids \cup {NoOid}]
CaptureHeads == [oid : Oids, capture : Deploys, digest : BOOLEAN]

Types ==
  /\ tree \in Trees /\ head \in Trees /\ edits \in Nat
  /\ at \in [Deploys -> Places]
  /\ my \in [Deploys -> Locals]
  /\ outcome \in [Deploys -> Outcomes]
  /\ journal \in [Deploys -> Journals \cup {NoJournal}]
  /\ drain \in [Drains -> DrainLocals]
  /\ pushed \in Seq(CaptureHeads)
  /\ op \in [Deploys -> {"none", "planned", "vaulted", "override", "cleared"}]

Over == {"override", "done", "dead"}
Live == {"vaulted", "override", "cleared"}

\* A deploy whose journal a drain may have read: its snapshot will not change.
Snapped(d) == at[d] \in Over /\ my[d].oid \in Oids
Pushed(d) == \E g \in 1 .. Len(pushed) : pushed[g].capture = d

\* What a deploy and its operation have come to, given where it is.
Flow(d) ==
  /\ at[d] \in {"idle", "check", "capture"} =>
       my[d].plan = "running" /\ my[d].push = "start" /\ op[d] = "none"
  /\ at[d] = "lanes" =>
       /\ op[d] = IF my[d].plan = "ok" THEN "planned" ELSE "none"
       /\ my[d].push = "ok" => my[d].plan # "running" /\ Pushed(d) /\ (my[d].plan = "ok" /\ my[d].receipt => VaultedFor(d))
  /\ at[d] \in {"token", "commit"} => op[d] = "planned" /\ VaultedFor(d) /\ Pushed(d)
  /\ at[d] = "override" => op[d] = "planned" /\ journal[d] # NoJournal
  /\ at[d] \in {"lanes", "token", "commit", "override"} => my[d].oid \in Oids /\ my[d].captured \in Trees
  /\ my[d].plan = "ok" => my[d].art \in Trees
  /\ journal[d] # NoJournal => Snapped(d)
  /\ op[d] \in Live => at[d] \in {"done", "dead"}

\* What journal and outcome say of it.
Told(d) ==
  /\ op[d] \in {"vaulted", "cleared"} => VaultedFor(d)
  /\ op[d] = "override" => journal[d] # NoJournal
  /\ journal[d].state \in {"published", "completed"} => VaultedFor(d)
  /\ journal[d].state = "completed" => op[d] = "cleared"
  /\ outcome[d] # "none" => at[d] = "done"
  /\ outcome[d] = "DEPLOYED_AND_VAULTED" => op[d] = "vaulted"
  /\ outcome[d] = "DEPLOYED_UNVAULTED_OVERRIDE" => op[d] \in {"override", "cleared"} /\ journal[d] # NoJournal
  /\ outcome[d] = "DEPLOY_FAILED_VAULTED" => Pushed(d)
  /\ outcome[d] \in Refusals => op[d] \in {"none", "planned"}

\* What the reads of the tree have to do with each other, counted in changes of it.
Seen(d) ==
  LET m == my[d] IN
  /\ at[d] \in {"check", "capture", "lanes"} => m.since >= edits
  /\ at[d] = "check" => m.oid = NoOid /\ m.head \in Trees /\ (m.since = edits => head = m.head)
  /\ at[d] = "capture" /\ m.oid # NoOid =>
       m.oid = <<m.head, None>> /\ m.head \in Trees /\ (m.since = edits => tree = m.head)
  /\ at[d] = "lanes" =>
       /\ ~m.slipped => m.oid[1] = m.captured
       /\ m.since = edits => tree = m.captured
       /\ m.plan = "ok" /\ m.art # m.captured =>
            m.since > edits /\ (tree = m.captured => m.since - edits >= 2)
  /\ (at[d] \in {"token", "commit", "override"} \/ op[d] \in Live) /\ m.art # m.oid[1] =>
       m.slipped \/ m.changes >= 2

\* What a drain has read and done.
Draining(x) ==
  LET r == drain[x] IN
  /\ \A j \in r.todo : /\ Snapped(j[1])
                       /\ j[2].state \in {"pending", "published"}
                       /\ j[2].state = "published" => VaultedFor(j[1])
  /\ r.at \in {"push", "published", "complete", "completed"} => r.d \in Deploys /\ Snapped(r.d)
  /\ r.at \in {"published", "complete", "completed"} => VaultedFor(r.d)
  /\ r.at = "completed" => op[r.d] = "cleared"

Sound(d) == Flow(d) /\ Told(d) /\ Seen(d)
IInv == Types /\ (\A d \in Deploys : Sound(d)) /\ \A x \in Drains : Draining(x)
-----------------------------------------------------------------------------
(* What does not change back.                                              *)

\* Heads are only added.
Grown ==
  \/ pushed' = pushed
  \/ \E h \in CaptureHeads : pushed' = Append(pushed, h)

LEMMA Longer ==
  ASSUME Types, Grown
  PROVE  /\ pushed' \in Seq(CaptureHeads)
         /\ \A g \in 1 .. Len(pushed) : g \in 1 .. Len(pushed') /\ pushed'[g] = pushed[g]
  BY DEF Types, Grown

LEMMA PushedStays == ASSUME Types, Grown, NEW d, Pushed(d) PROVE Pushed(d)'
  BY Longer DEF Pushed

LEMMA VaultedStays ==
  ASSUME Types, Grown, NEW d, VaultedFor(d), my'[d].oid = my[d].oid PROVE VaultedFor(d)'
  BY Longer DEF VaultedFor

\* A deploy that a step leaves alone, as far as the vault and the tree let it.
LEMMA Unmoving ==
  ASSUME Types, Grown, NEW d \in Deploys, Sound(d),
         at'[d] = at[d], my'[d] = my[d], outcome'[d] = outcome[d], journal'[d] = journal[d], op'[d] = op[d],
         UNCHANGED <<tree, head, edits>>
  PROVE  Sound(d)'
  <1>1. Flow(d)'
    BY PushedStays, VaultedStays DEF Sound, Flow, Snapped
  <1>2. Told(d)'
    BY PushedStays, VaultedStays DEF Sound, Told
  <1>3. Seen(d)'
    BY DEF Sound, Seen
  <1>4. QED
    BY <1>1, <1>2, <1>3 DEF Sound

\* What drains rely on.
Relied ==
  \A d \in Deploys :
    /\ Snapped(d) => Snapped(d)' /\ my'[d].oid = my[d].oid
    /\ op[d] = "cleared" => op'[d] = "cleared"

\* What a drain listed stays true, deploys that are listed do not change.
LEMMA StillListed ==
  ASSUME Types, Grown, Relied, NEW x \in Drains, Draining(x), NEW j \in drain[x].todo
  PROVE  /\ Snapped(j[1])'
         /\ j[2].state \in {"pending", "published"}
         /\ j[2].state = "published" => VaultedFor(j[1])'
  <1>1. PICK d : d = j[1]
    OBVIOUS
  <1>2. d \in Deploys
    BY <1>1 DEF Types, DrainLocals
  <1>3. Snapped(d) /\ (j[2].state = "published" => VaultedFor(d)) /\ j[2].state \in {"pending", "published"}
    BY <1>1 DEF Draining
  <1>4. Snapped(d)' /\ (j[2].state = "published" => VaultedFor(d)')
    BY <1>2, <1>3, VaultedStays DEF Relied
  <1>5. QED
    BY <1>1, <1>3, <1>4

LEMMA StillDraining ==
  ASSUME Types, Grown, Relied, NEW x \in Drains, Draining(x), drain'[x] = drain[x]
  PROVE  Draining(x)'
  <1> DEFINE r == drain[x]
  <1>0. r \in DrainLocals
    BY DEF Types
  <1>1. \A j \in r.todo : /\ Snapped(j[1])'
                          /\ j[2].state \in {"pending", "published"}
                          /\ j[2].state = "published" => VaultedFor(j[1])'
    BY StillListed
  <1>2. PICK d : d = r.d
    OBVIOUS
  <1>3. r.at \in {"push", "published", "complete", "completed"} => d \in Deploys /\ Snapped(d) /\ Snapped(d)'
    BY <1>2 DEF Draining, Relied
  <1>4. r.at \in {"published", "complete", "completed"} => VaultedFor(d)'
    BY <1>2, <1>3, VaultedStays DEF Draining, Relied
  <1>5. r.at = "completed" => op'[d] = "cleared"
    BY <1>2, <1>3 DEF Draining, Relied
  <1>6. QED
    BY <1>1, <1>2, <1>3, <1>4, <1>5 DEF Draining

\* A step of one deploy.
LEMMA Stepped ==
  ASSUME IInv, NEW d \in Deploys, Types', Grown, UNCHANGED <<tree, head, edits, drain>>,
         \A e \in Deploys \ {d} : /\ at'[e] = at[e] /\ my'[e] = my[e] /\ outcome'[e] = outcome[e]
                                  /\ journal'[e] = journal[e] /\ op'[e] = op[e],
         Snapped(d) => Snapped(d)' /\ my'[d].oid = my[d].oid,
         op[d] = "cleared" => op'[d] = "cleared",
         Sound(d)'
  PROVE  IInv'
  <1>1. \A e \in Deploys : Sound(e)'
    BY Unmoving DEF IInv
  <1>2. Relied
    BY DEF Relied, Snapped
  <1>3. \A x \in Drains : Draining(x)'
    BY <1>2, StillDraining DEF IInv
  <1>4. QED
    BY <1>1, <1>3 DEF IInv
-----------------------------------------------------------------------------
(* Capture.                                                                *)

LEMMA Constants == None \notin Trees /\ None \notin Deploys
  BY DeployAssumption

LEMMA FreshLocal ==
  /\ Fresh \in Locals /\ Fresh.plan = "running" /\ Fresh.push = "start" /\ Fresh.oid = NoOid
  /\ ~Fresh.receipt /\ Fresh.changes = 0
  BY DEF Fresh, Locals

LEMMA Before ==
  ASSUME IInv, NEW d \in Deploys, at[d] \in {"idle", "check", "capture", "lanes", "token", "commit"}
  PROVE  /\ ~Snapped(d) /\ op[d] \in {"none", "planned"} /\ journal[d] = NoJournal /\ outcome[d] = "none"
         /\ Types /\ Flow(d) /\ Told(d) /\ Seen(d) /\ my[d] \in Locals
  <1>1. Types /\ Flow(d) /\ Told(d) /\ Seen(d) /\ my[d] \in Locals
    BY DEF IInv, Sound, Types
  <1>2. ~Snapped(d) /\ journal[d] = NoJournal
    BY <1>1 DEF Snapped, Flow, Over
  <1>3. op[d] \in {"none", "planned"}
    BY <1>1 DEF Flow, Live, Types
  <1>4. QED
    BY <1>1, <1>2, <1>3 DEF Told

\* Nothing is told of a deploy that has no journal, no live operation and no outcome.
LEMMA Untold ==
  ASSUME NEW d \in Deploys, op[d] \in {"none", "planned"}, journal[d] = NoJournal, outcome[d] = "none"
  PROVE  Told(d)
  BY DEF Told, NoJournal, Refusals

LEMMA InspectKept == ASSUME IInv, NEW d \in Deploys, Inspect(d) PROVE IInv'
  <1>0. /\ Types /\ Flow(d) /\ at[d] = "idle" /\ ~Snapped(d) /\ op[d] \in {"none", "planned"}
        /\ journal[d] = NoJournal /\ outcome[d] = "none"
    BY Before DEF Inspect
  <1>1. PICK dirty, override \in BOOLEAN :
           Local(d, [Fresh EXCEPT !.dirty = dirty, !.override = override, !.head = head, !.since = edits])
    BY DEF Inspect
  <1>2. PICK m : m = [Fresh EXCEPT !.dirty = dirty, !.override = override, !.head = head, !.since = edits]
    OBVIOUS
  <1>3. /\ m \in Locals /\ m.plan = "running" /\ m.push = "start" /\ m.oid = NoOid /\ m.head = head
        /\ m.since = edits
    BY <1>0, <1>2, FreshLocal DEF Types, Locals
  <1>4. /\ my' = [my EXCEPT ![d] = m] /\ at' = [at EXCEPT ![d] = "check"]
        /\ UNCHANGED <<tree, head, edits, outcome, journal, drain, pushed, op>>
    BY <1>1, <1>2 DEF Inspect, Local, Goto, WorkTree, Platform
  <1>5. Types' /\ Grown /\ at'[d] = "check" /\ my'[d] = m
    BY <1>0, <1>3, <1>4 DEF Types, Grown, Places
  <1>6. Flow(d)'
    BY <1>0, <1>3, <1>4, <1>5 DEF Flow, Live
  <1>7. Told(d)'
    BY <1>0, <1>4 DEF Told, NoJournal, Refusals
  <1>8. Seen(d)'
    BY <1>0, <1>3, <1>4, <1>5 DEF Seen, Live, Types
  <1>9. QED
    BY <1>0, <1>4, <1>5, <1>6, <1>7, <1>8, Stepped DEF Sound, Types

LEMMA CheckKept == ASSUME IInv, NEW d \in Deploys, Check(d) PROVE IInv'
  <1>0. /\ Types /\ Flow(d) /\ Seen(d) /\ at[d] = "check" /\ ~Snapped(d) /\ op[d] = "none"
        /\ journal[d] = NoJournal /\ outcome[d] = "none" /\ my[d] \in Locals
        /\ UNCHANGED <<tree, head, edits, journal, drain, pushed, op>> /\ Grown
    BY Before DEF Check, WorkTree, Platform, Grown, Flow
  <1>1. ASSUME NEW m \in Locals, my' = [my EXCEPT ![d] = m], at' = [at EXCEPT ![d] = "capture"],
               outcome' = outcome,
               m.plan = "running" /\ m.push = "start" /\ m.since = my[d].since,
               m.oid = NoOid \/ (tree = head /\ m.oid = <<my[d].head, None>> /\ m.head = my[d].head)
        PROVE  IInv'
    <2>1. Types' /\ at'[d] = "capture" /\ my'[d] = m
      BY <1>0, <1>1 DEF Types, Places
    <2>2. Flow(d)'
      BY <1>0, <1>1, <2>1 DEF Flow, Live
    <2>3. Told(d)'
      BY <1>0, <1>1 DEF Told, NoJournal, Refusals
    <2>4. Seen(d)'
      BY <1>0, <1>1, <2>1 DEF Seen, Live
    <2>5. QED
      BY <1>0, <1>1, <2>1, <2>2, <2>3, <2>4, Stepped DEF Sound, Types
  <1>2. CASE /\ tree = head
             /\ Local(d, [my[d] EXCEPT !.oid = <<my[d].head, None>>]) /\ Goto(d, "capture") /\ UNCHANGED outcome
    <2>1. PICK m : m = [my[d] EXCEPT !.oid = <<my[d].head, None>>]
      OBVIOUS
    <2>2. my[d].head \in Trees /\ <<my[d].head, None>> \in Oids
      BY <1>0 DEF Seen, Oids
    <2>3. /\ m \in Locals /\ m.plan = my[d].plan /\ m.push = my[d].push /\ m.since = my[d].since
          /\ m.oid = <<my[d].head, None>> /\ m.head = my[d].head
      BY <1>0, <2>1, <2>2 DEF Locals
    <2>4. my' = [my EXCEPT ![d] = m] /\ at' = [at EXCEPT ![d] = "capture"]
      BY <1>2, <2>1 DEF Local, Goto
    <2>5. QED
      BY <1>0, <1>1, <1>2, <2>3, <2>4 DEF Flow
  <1>3. CASE Goto(d, "capture") /\ UNCHANGED <<my, outcome>>
    <2>1. my' = [my EXCEPT ![d] = my[d]] /\ at' = [at EXCEPT ![d] = "capture"]
      BY <1>0, <1>3 DEF Goto, Types
    <2>2. QED
      BY <1>0, <1>1, <1>3, <2>1 DEF Flow, Seen
  <1>4. CASE Return(d, "SNAPSHOT_DIRTY_TREE") /\ UNCHANGED my
    <2>1. at' = [at EXCEPT ![d] = "done"] /\ outcome' = [outcome EXCEPT ![d] = "SNAPSHOT_DIRTY_TREE"]
      BY <1>4 DEF Return, Goto
    <2>2. Types' /\ at'[d] = "done" /\ outcome'[d] = "SNAPSHOT_DIRTY_TREE" /\ my'[d] = my[d]
      BY <1>0, <1>4, <2>1 DEF Types, Places, Outcomes
    <2>3. Flow(d)'
      BY <1>0, <2>2 DEF Flow, Live
    <2>4. Told(d)'
      BY <1>0, <2>2 DEF Told, NoJournal, Refusals
    <2>5. Seen(d)'
      BY <1>0, <2>2 DEF Seen, Live
    <2>6. QED
      BY <1>0, <1>4, <2>1, <2>2, <2>3, <2>4, <2>5, Stepped DEF Sound, Types
  <1>5. QED
    BY <1>2, <1>3, <1>4 DEF Check

LEMMA CaptureKept == ASSUME IInv, NEW d \in Deploys, Capture(d) PROVE IInv'
  <1> DEFINE old == my[d]
             clean == old.oid # NoOid
             oid == IF clean THEN old.oid ELSE <<tree, d>>
             slipped == clean /\ edits # old.since
  <1>0. /\ Types /\ Flow(d) /\ Seen(d) /\ at[d] = "capture" /\ ~Snapped(d) /\ op[d] = "none"
        /\ journal[d] = NoJournal /\ outcome[d] = "none" /\ old \in Locals
        /\ UNCHANGED <<tree, head, edits, outcome, journal, drain, pushed, op>> /\ Grown
    BY Before DEF Capture, WorkTree, Platform, Grown, Flow
  <1>1. PICK m : m = [old EXCEPT !.captured = tree, !.oid = oid, !.slipped = slipped, !.since = edits]
    OBVIOUS
  <1>2. my' = [my EXCEPT ![d] = m] /\ at' = [at EXCEPT ![d] = "lanes"]
    BY <1>1 DEF Capture, Local, Goto
  <1>3. oid \in Oids /\ slipped \in BOOLEAN /\ tree \in Trees /\ edits \in Nat
    BY <1>0 DEF Types, Seen, Oids
  <1>4. ~slipped => oid[1] = tree
    <2>1. CASE clean
      BY <1>0, <2>1 DEF Seen
    <2>2. CASE ~clean
      BY <2>2
    <2>3. QED
      BY <2>1, <2>2
  <1> HIDE DEF oid, slipped, clean
  <1>5. /\ m \in Locals /\ m.captured = tree /\ m.oid = oid /\ m.slipped = slipped /\ m.since = edits
        /\ m.plan = old.plan /\ m.push = old.push
    BY <1>0, <1>1, <1>3 DEF Locals
  <1>6. Types' /\ at'[d] = "lanes" /\ my'[d] = m
    BY <1>0, <1>2, <1>5 DEF Types, Places
  <1>7. Flow(d)'
    BY <1>0, <1>3, <1>5, <1>6 DEF Flow, Live
  <1>8. Told(d)'
    BY <1>0, <1>6 DEF Told, NoJournal, Refusals
  <1>9. Seen(d)'
    BY <1>0, <1>3, <1>4, <1>5, <1>6 DEF Seen, Live, Flow
  <1>10. QED
    BY <1>0, <1>2, <1>6, <1>7, <1>8, <1>9, Stepped DEF Sound, Types

-----------------------------------------------------------------------------
(* The lanes.                                                              *)

LEMMA LaneKept ==
  ASSUME IInv, NEW d \in Deploys, at[d] = "lanes", NEW m \in Locals, my' = [my EXCEPT ![d] = m],
         m.oid = my[d].oid, m.captured = my[d].captured, m.slipped = my[d].slipped, m.since = my[d].since,
         UNCHANGED <<tree, head, edits, at, outcome, journal, drain>>, Grown,
         op' = [op EXCEPT ![d] = IF m.plan = "ok" THEN "planned" ELSE "none"],
         m.push = "ok" => m.plan # "running" /\ Pushed(d)' /\ (m.plan = "ok" /\ m.receipt => VaultedFor(d)'),
         m.plan = "ok" => m.art = tree \/ (my[d].plan = "ok" /\ m.art = my[d].art)
  PROVE  IInv'
  <1>0. /\ Types /\ Flow(d) /\ Seen(d) /\ ~Snapped(d)
        /\ journal[d] = NoJournal /\ outcome[d] = "none" /\ my[d] \in Locals
    BY Before
  <1>1. /\ Types' /\ at'[d] = "lanes" /\ my'[d] = m
        /\ op'[d] = IF m.plan = "ok" THEN "planned" ELSE "none"
    BY <1>0, Longer DEF Types
  <1>2. Flow(d)'
    BY <1>0, <1>1 DEF Flow, Live, Types
  <1>3. Told(d)'
    BY <1>0, <1>1 DEF Told, NoJournal, Refusals
  <1>4. Seen(d)'
    <2>1. edits \in Nat /\ m.since \in Nat
      BY <1>0 DEF Types, Locals
    <2>2. ASSUME m.plan = "ok", m.art # m.captured
          PROVE  m.since > edits /\ (tree = m.captured => m.since - edits >= 2)
      BY <1>0, <2>1, <2>2 DEF Seen
    <2>3. QED
      BY <1>0, <1>1, <2>2 DEF Seen, Live
  <1>5. QED
    BY <1>0, <1>1, <1>2, <1>3, <1>4, Stepped DEF Sound, Flow, Types

LEMMA PlanKept == ASSUME IInv, NEW d \in Deploys, Plan(d) PROVE IInv'
  <1> DEFINE old == my[d]
  <1>0. /\ Types /\ Flow(d) /\ at[d] = "lanes" /\ old \in Locals /\ old.plan = "running" /\ op[d] = "none"
        /\ UNCHANGED <<tree, head, edits, at, outcome, journal, drain, pushed>> /\ Grown
        /\ old.push = "ok" => Pushed(d)
    BY Before DEF Plan, WorkTree, Grown, Flow
  <1>a. Pushed(d) => Pushed(d)'
    BY <1>0, PushedStays
  <1>1. CASE Local(d, [my[d] EXCEPT !.plan = "ok", !.art = tree]) /\ op' = [op EXCEPT ![d] = "planned"]
    <2>1. PICK m : m = [old EXCEPT !.plan = "ok", !.art = tree]
      OBVIOUS
    <2>2. /\ m \in Locals /\ m.plan = "ok" /\ m.art = tree /\ m.push = old.push /\ m.receipt = old.receipt
          /\ m.oid = old.oid /\ m.captured = old.captured /\ m.slipped = old.slipped /\ m.since = old.since
      BY <1>0, <2>1 DEF Types, Locals
    <2>3. my' = [my EXCEPT ![d] = m]
      BY <1>1, <2>1 DEF Local
    <2>4. old.push # "ok"
      BY <1>0 DEF Flow
    <2>5. QED
      BY <1>0, <1>1, <2>2, <2>3, <2>4, LaneKept
  <1>2. CASE Local(d, [my[d] EXCEPT !.plan = "failed"]) /\ UNCHANGED op
    <2>1. PICK m : m = [old EXCEPT !.plan = "failed"]
      OBVIOUS
    <2>2. /\ m \in Locals /\ m.plan = "failed" /\ m.push = old.push /\ m.receipt = old.receipt
          /\ m.oid = old.oid /\ m.captured = old.captured /\ m.slipped = old.slipped /\ m.since = old.since
      BY <1>0, <2>1 DEF Locals
    <2>3. my' = [my EXCEPT ![d] = m] /\ op' = [op EXCEPT ![d] = "none"]
      BY <1>0, <1>2, <2>1 DEF Local, Types
    <2>4. QED
      BY <1>0, <1>a, <2>2, <2>3, LaneKept
  <1>3. QED
    BY <1>1, <1>2 DEF Plan

LEMMA MaterializeKept == ASSUME IInv, NEW d \in Deploys, Materialize(d) PROVE IInv'
  <1> DEFINE old == my[d]
  <1>0. /\ Types /\ Flow(d) /\ at[d] = "lanes" /\ old \in Locals
        /\ op[d] = IF old.plan = "ok" THEN "planned" ELSE "none"
        /\ UNCHANGED <<tree, head, edits, at, outcome, journal, drain, pushed, op>> /\ Grown
    BY Before DEF Materialize, WorkTree, Platform, Grown, Flow
  <1>1. Latest \in Oids \cup {NoOid}
    <2>1. pushed # <<>> => pushed[Len(pushed)] \in CaptureHeads
      BY <1>0 DEF Types
    <2>2. QED
      BY <2>1 DEF Latest, CaptureHeads
  <1>2. ASSUME NEW m \in Locals, my' = [my EXCEPT ![d] = m], m.push # "ok", m.plan = old.plan, m.art = old.art,
               m.oid = old.oid, m.captured = old.captured, m.slipped = old.slipped, m.since = old.since
        PROVE  IInv'
    <2>1. op' = [op EXCEPT ![d] = IF m.plan = "ok" THEN "planned" ELSE "none"]
      BY <1>0, <1>2 DEF Types
    <2>2. QED
      BY <1>0, <1>2, <2>1, LaneKept
  <1>3. CASE Local(d, [my[d] EXCEPT !.lease = Latest, !.push = "ready"])
    <2>1. PICK m : m = [old EXCEPT !.lease = Latest, !.push = "ready"]
      OBVIOUS
    <2>2. /\ m \in Locals /\ m.push # "ok" /\ m.plan = old.plan /\ m.art = old.art
          /\ m.oid = old.oid /\ m.captured = old.captured /\ m.slipped = old.slipped /\ m.since = old.since
      BY <1>0, <1>1, <2>1 DEF Locals
    <2>3. QED
      BY <1>2, <1>3, <2>1, <2>2 DEF Local
  <1>4. CASE Local(d, [my[d] EXCEPT !.push = "failed"])
    <2>1. PICK m : m = [old EXCEPT !.push = "failed"]
      OBVIOUS
    <2>2. /\ m \in Locals /\ m.push # "ok" /\ m.plan = old.plan /\ m.art = old.art
          /\ m.oid = old.oid /\ m.captured = old.captured /\ m.slipped = old.slipped /\ m.since = old.since
      BY <1>0, <2>1 DEF Locals
    <2>3. QED
      BY <1>2, <1>4, <2>1, <2>2 DEF Local
  <1>5. QED
    BY <1>3, <1>4 DEF Materialize

\* An admitted head binds the capture it names.
LEMMA Bound ==
  ASSUME Types, NEW h \in CaptureHeads, pushed' = Append(pushed, h)
  PROVE  /\ Grown /\ Pushed(h.capture)'
         /\ h = [oid |-> my'[h.capture].oid, capture |-> h.capture, digest |-> TRUE] => VaultedFor(h.capture)'
  <1>1. /\ Len(pushed') = Len(pushed) + 1 /\ Len(pushed) \in Nat /\ pushed'[Len(pushed) + 1] = h
    BY DEF Types
  <1>2. PICK n \in 1 .. Len(pushed') : pushed'[n] = h
    BY <1>1
  <1>3. Grown
    BY DEF Grown
  <1>4. QED
    BY <1>2, <1>3 DEF Pushed, VaultedFor

LEMMA PushKept == ASSUME IInv, NEW d \in Deploys, Push(d) PROVE IInv'
  <1> DEFINE old == my[d]
  <1>0. /\ Types /\ Flow(d) /\ at[d] = "lanes" /\ old \in Locals /\ old.oid \in Oids
        /\ op[d] = IF old.plan = "ok" THEN "planned" ELSE "none"
        /\ old.plan # "running"
        /\ UNCHANGED <<tree, head, edits, at, outcome, journal, drain, op>>
        /\ op \in [Deploys -> {"none", "planned", "vaulted", "override", "cleared"}]
    BY Before DEF Push, WorkTree, Flow, Types
  <1>1. ASSUME NEW m \in Locals, my' = [my EXCEPT ![d] = m], m.plan = old.plan, m.art = old.art,
               m.oid = old.oid, m.captured = old.captured, m.slipped = old.slipped, m.since = old.since,
               Grown, m.push = "ok" => Pushed(d)' /\ (m.plan = "ok" => VaultedFor(d)')
        PROVE  IInv'
    <2>1. op' = [op EXCEPT ![d] = IF m.plan = "ok" THEN "planned" ELSE "none"]
      BY <1>0, <1>1
    <2>2. QED
      BY <1>0, <1>1, <2>1, LaneKept
  <1>2. CASE Local(d, [old EXCEPT !.push = "failed"]) /\ Grown
    <2>1. PICK m : m = [old EXCEPT !.push = "failed"]
      OBVIOUS
    <2>2. /\ m \in Locals /\ m.push # "ok" /\ m.plan = old.plan /\ m.art = old.art
          /\ m.oid = old.oid /\ m.captured = old.captured /\ m.slipped = old.slipped /\ m.since = old.since
      BY <1>0, <2>1 DEF Locals
    <2>3. QED
      BY <1>1, <1>2, <2>1, <2>2 DEF Local
  <1>3. CASE Admit(old.lease, old.oid, d, old.plan = "ok")
    <2>1. PICK h : h = [oid |-> old.oid, capture |-> d, digest |-> old.plan = "ok"]
      OBVIOUS
    <2>2. h \in CaptureHeads /\ h.capture = d /\ pushed' = Append(pushed, h)
      BY <1>0, <1>3, <2>1 DEF CaptureHeads, Admit
    <2>3. old.plan = "ok" => h = [oid |-> old.oid, capture |-> d, digest |-> TRUE]
      BY <2>1
    <2>4. Grown /\ Pushed(d)'
      BY <1>0, <2>2, Bound
    <2>5. ASSUME my'[d].oid = old.oid, old.plan = "ok" PROVE VaultedFor(d)'
      BY <1>0, <2>2, <2>3, <2>5, Bound
    <2>6. ASSUME NEW m \in Locals, my' = [my EXCEPT ![d] = m], m.plan = old.plan, m.art = old.art,
                 m.oid = old.oid, m.captured = old.captured, m.slipped = old.slipped, m.since = old.since
          PROVE  IInv'
      <3>1. my'[d].oid = old.oid
        BY <1>0, <2>6 DEF Types
      <3>2. QED
        BY <1>1, <2>4, <2>5, <2>6, <3>1
    <2>7. CASE Local(d, [old EXCEPT !.push = "ok", !.receipt = TRUE])
      <3>1. PICK m : m = [old EXCEPT !.push = "ok", !.receipt = TRUE]
        OBVIOUS
      <3>2. /\ m \in Locals /\ m.plan = old.plan /\ m.art = old.art
            /\ m.oid = old.oid /\ m.captured = old.captured /\ m.slipped = old.slipped /\ m.since = old.since
        BY <1>0, <3>1 DEF Locals
      <3>3. QED
        BY <2>6, <2>7, <3>1, <3>2 DEF Local
    <2>8. CASE Local(d, [old EXCEPT !.push = "ok"])
      <3>1. PICK m : m = [old EXCEPT !.push = "ok"]
        OBVIOUS
      <3>2. /\ m \in Locals /\ m.plan = old.plan /\ m.art = old.art
            /\ m.oid = old.oid /\ m.captured = old.captured /\ m.slipped = old.slipped /\ m.since = old.since
        BY <1>0, <3>1 DEF Locals
      <3>3. QED
        BY <2>6, <2>8, <3>1, <3>2 DEF Local
    <2>9. QED
      <3>1. \/ Local(d, [old EXCEPT !.push = "ok", !.receipt = TRUE])
            \/ Local(d, [old EXCEPT !.push = "ok"])
            \/ Local(d, [old EXCEPT !.push = "failed"])
        BY DEF Push
      <3>2. QED
        BY <1>2, <2>4, <2>7, <2>8, <3>1
  <1>4. QED
    BY <1>2, <1>3 DEF Push, Grown

-----------------------------------------------------------------------------
(* The outcomes.                                                           *)

\* A deploy that ends with nothing activated, in an outcome or in a crash.
LEMMA EndKept ==
  ASSUME IInv, NEW d \in Deploys, at[d] \in {"check", "capture", "lanes", "token", "commit"},
         NEW l \in {"done", "dead"}, NEW result \in Outcomes,
         at' = [at EXCEPT ![d] = l], outcome' = [outcome EXCEPT ![d] = result],
         UNCHANGED <<tree, head, edits, my, journal, drain, pushed, op>>,
         result # "none" => l = "done",
         result \notin {"DEPLOYED_AND_VAULTED", "DEPLOYED_UNVAULTED_OVERRIDE"},
         result = "DEPLOY_FAILED_VAULTED" => Pushed(d)
  PROVE  IInv'
  <1>0. /\ Types /\ Flow(d) /\ ~Snapped(d) /\ op[d] \in {"none", "planned"}
        /\ journal[d] = NoJournal /\ my[d] \in Locals /\ Grown
    BY Before DEF Grown
  <1>1. Types' /\ at'[d] = l /\ outcome'[d] = result /\ my'[d] = my[d] /\ op'[d] = op[d]
    BY <1>0 DEF Types, Places
  <1>2. Flow(d)'
    BY <1>0, <1>1 DEF Flow, Live
  <1>3. Told(d)'
    BY <1>0, <1>1, PushedStays DEF Told, NoJournal
  <1>4. Seen(d)'
    BY <1>0, <1>1 DEF Seen, Live
  <1>5. QED
    BY <1>0, <1>1, <1>2, <1>3, <1>4, Stepped DEF Sound, Types

LEMMA NotedLocal ==
  ASSUME Types, NEW d \in Deploys, NEW m, m = Noted(d)
  PROVE  /\ m \in Locals /\ m.plan = my[d].plan /\ m.push = my[d].push /\ m.receipt = my[d].receipt
         /\ m.art = my[d].art /\ m.oid = my[d].oid /\ m.captured = my[d].captured /\ m.slipped = my[d].slipped
         /\ m.changes = my[d].since - edits
  <1>1. my[d] \in Locals /\ edits \in Nat
    BY DEF Types
  <1>2. my[d].since - edits \in Int
    BY <1>1 DEF Locals
  <1>3. QED
    BY <1>1, <1>2 DEF Noted, Locals

\* The recheck: who goes on to a commit has been seen unmoved.
LEMMA GoesOn ==
  ASSUME IInv, NEW d \in Deploys, at[d] = "lanes", my[d].plan = "ok", Unmoved(d), Local(d, Noted(d)),
         NEW l \in {"token", "override"}, Goto(d, l),
         journal' = [journal EXCEPT ![d] = IF l = "token" THEN NoJournal
                                           ELSE [state |-> "pending", receipt |-> FALSE]],
         l = "token" => Pushed(d) /\ VaultedFor(d),
         UNCHANGED <<tree, head, edits, outcome, drain, pushed, op>>
  PROVE  IInv'
  <1>0. /\ Types /\ Flow(d) /\ Seen(d) /\ ~Snapped(d) /\ op[d] = "planned"
        /\ journal[d] = NoJournal /\ outcome[d] = "none" /\ my[d] \in Locals /\ Grown
    BY Before DEF Grown, Flow
  <1>1. PICK m : m = Noted(d)
    OBVIOUS
  <1>2. /\ m \in Locals /\ m.plan = "ok" /\ m.push = my[d].push /\ m.receipt = my[d].receipt
        /\ m.art = my[d].art /\ m.oid = my[d].oid /\ m.captured = my[d].captured /\ m.slipped = my[d].slipped
        /\ m.changes = my[d].since - edits
    BY <1>0, <1>1, NotedLocal
  <1>3. PICK new : new = [state |-> "pending", receipt |-> FALSE]
    OBVIOUS
  <1>4. new \in Journals /\ new.state = "pending" /\ new # NoJournal
    BY <1>3 DEF Journals, NoJournal
  <1>5. /\ my' = [my EXCEPT ![d] = m] /\ at' = [at EXCEPT ![d] = l]
        /\ journal' = [journal EXCEPT ![d] = IF l = "token" THEN NoJournal ELSE new]
    BY <1>1, <1>3 DEF Local, Goto
  <1>6. Types' /\ at'[d] = l /\ my'[d] = m /\ journal'[d] = IF l = "token" THEN NoJournal ELSE new
    BY <1>0, <1>2, <1>4, <1>5 DEF Types, Places
  <1>7. l = "token" => Pushed(d)' /\ VaultedFor(d)'
    BY <1>0, <1>2, <1>6, PushedStays, VaultedStays
  <1>8. Flow(d)'
    BY <1>0, <1>2, <1>4, <1>6, <1>7 DEF Flow, Live, Snapped, Over
  <1>9. Told(d)'
    BY <1>0, <1>4, <1>6 DEF Told, NoJournal, Refusals
  <1>10. Seen(d)'
    <2>1. m.art # m.oid[1] => m.slipped \/ m.changes >= 2
      BY <1>0, <1>2 DEF Seen, Unmoved
    <2>2. QED
      BY <1>0, <1>6, <2>1 DEF Seen, Live
  <1>11. QED
    BY <1>0, <1>5, <1>6, <1>8, <1>9, <1>10, Stepped DEF Sound, Types

LEMMA DecideKept == ASSUME IInv, NEW d \in Deploys, Decide(d) PROVE IInv'
  <1>0. /\ Types /\ Flow(d) /\ at[d] = "lanes" /\ journal[d] = NoJournal
        /\ UNCHANGED <<tree, head, edits, drain, pushed, op>>
    BY Before DEF Decide, WorkTree, Platform
  <1>1. ASSUME NEW result \in Outcomes, Return(d, result), UNCHANGED <<my, journal>>,
               result \notin {"none", "DEPLOYED_AND_VAULTED", "DEPLOYED_UNVAULTED_OVERRIDE"},
               result = "DEPLOY_FAILED_VAULTED" => Pushed(d)
        PROVE  IInv'
    BY <1>0, <1>1, EndKept DEF Return, Goto
  <1>2. CASE my[d].push = "failed" /\ Unvaulted(d)
    <2>1. ASSUME my[d].plan = "ok", Unmoved(d), Local(d, Noted(d)), Goto(d, "override"), UNCHANGED outcome,
                 journal' = [journal EXCEPT ![d] = [state |-> "pending", receipt |-> FALSE]]
          PROVE  IInv'
      BY <1>0, <2>1, GoesOn
    <2>2. QED
      BY <1>1, <1>2, <2>1 DEF Unvaulted, Outcomes, Refusals
  <1>3. CASE my[d].push = "ok" /\ Vaulted(d)
    <2>1. Pushed(d) /\ (my[d].plan = "ok" /\ my[d].receipt => VaultedFor(d))
      BY <1>0, <1>3 DEF Flow
    <2>2. journal' = [journal EXCEPT ![d] = NoJournal]
      BY <1>0, <1>3 DEF Vaulted, Types
    <2>3. ASSUME my[d].plan = "ok", my[d].receipt, Unmoved(d), Local(d, Noted(d)), Goto(d, "token"), UNCHANGED outcome
          PROVE  IInv'
      BY <1>0, <2>1, <2>2, <2>3, GoesOn
    <2>4. QED
      BY <1>1, <1>3, <2>1, <2>3 DEF Vaulted, Outcomes, Refusals
  <1>4. QED
    BY <1>2, <1>3 DEF Decide

LEMMA ExchangeKept == ASSUME IInv, NEW d \in Deploys, Exchange(d) PROVE IInv'
  <1>0. /\ Types /\ Flow(d) /\ Seen(d) /\ at[d] = "token" /\ ~Snapped(d) /\ op[d] = "planned" /\ my[d] \in Locals
        /\ journal[d] = NoJournal /\ outcome[d] = "none" /\ Pushed(d) /\ VaultedFor(d)
        /\ UNCHANGED <<tree, head, edits, my, journal, drain, pushed, op>> /\ Grown
    BY Before DEF Exchange, WorkTree, Platform, Grown, Flow
  <1>1. CASE Return(d, "DEPLOY_FAILED_VAULTED")
    BY <1>0, <1>1, EndKept DEF Return, Goto, Outcomes
  <1>2. CASE Goto(d, "commit") /\ UNCHANGED outcome
    <2>1. Types' /\ at'[d] = "commit"
      BY <1>0, <1>2 DEF Types, Places, Goto
    <2>2. Pushed(d)' /\ VaultedFor(d)'
      BY <1>0, PushedStays, VaultedStays
    <2>3. Flow(d)'
      BY <1>0, <2>1, <2>2 DEF Flow, Live
    <2>4. Told(d)'
      BY <1>0, <1>2 DEF Told, NoJournal, Refusals
    <2>5. Seen(d)'
      BY <1>0, <2>1 DEF Seen, Live
    <2>6. QED
      BY <1>0, <1>2, <2>1, <2>3, <2>4, <2>5, Stepped DEF Sound, Types, Goto
  <1>3. QED
    BY <1>1, <1>2 DEF Exchange

LEMMA CommitVaultedKept == ASSUME IInv, NEW d \in Deploys, CommitVaulted(d) PROVE IInv'
  <1>0. /\ Types /\ Flow(d) /\ Seen(d) /\ at[d] = "commit" /\ ~Snapped(d) /\ op[d] = "planned" /\ my[d] \in Locals
        /\ journal[d] = NoJournal /\ outcome[d] = "none" /\ Pushed(d) /\ VaultedFor(d)
        /\ UNCHANGED <<tree, head, edits, my, journal, drain, pushed>> /\ Grown
    BY Before DEF CommitVaulted, WorkTree, Grown, Flow
  <1>1. CASE Return(d, "DEPLOY_FAILED_VAULTED") /\ UNCHANGED op
    BY <1>0, <1>1, EndKept DEF Return, Goto, Outcomes
  <1>2. ASSUME NEW result \in {"DEPLOYED_AND_VAULTED", "DEPLOY_FAILED_VAULTED"}, Return(d, result),
               op' = [op EXCEPT ![d] = "vaulted"]
        PROVE  IInv'
    <2>1. Types' /\ at'[d] = "done" /\ outcome'[d] = result /\ op'[d] = "vaulted"
      BY <1>0, <1>2 DEF Types, Places, Outcomes, Return, Goto
    <2>2. Pushed(d)' /\ VaultedFor(d)'
      BY <1>0, PushedStays, VaultedStays
    <2>3. Flow(d)'
      BY <1>0, <2>1, <2>2 DEF Flow, Live
    <2>4. Told(d)'
      BY <1>0, <1>2, <2>1, <2>2 DEF Told, NoJournal, Refusals
    <2>5. Seen(d)'
      BY <1>0, <2>1 DEF Seen, Live
    <2>6. QED
      BY <1>0, <1>2, <2>1, <2>3, <2>4, <2>5, Stepped DEF Sound, Types, Return, Goto
  <1>3. QED
    BY <1>1, <1>2 DEF CommitVaulted

LEMMA CommitOverrideKept == ASSUME IInv, NEW d \in Deploys, CommitOverride(d) PROVE IInv'
  <1>0. /\ Types /\ Flow(d) /\ Told(d) /\ Seen(d) /\ at[d] = "override" /\ Snapped(d) /\ op[d] = "planned"
        /\ journal[d] # NoJournal /\ outcome[d] = "none" /\ my[d] \in Locals
        /\ UNCHANGED <<tree, head, edits, my, drain, pushed>> /\ Grown
    BY DEF IInv, Sound, CommitOverride, WorkTree, Grown, Flow, Told, Types
  <1>1. ASSUME NEW result \in {"DEPLOYED_UNVAULTED_OVERRIDE", "DEPLOY_FAILED_UNVAULTED", "OVERRIDE_NOT_AUTHORIZED"},
               Return(d, result), NEW o \in {"planned", "override"}, op' = [op EXCEPT ![d] = o],
               NEW j \in {journal[d], NoJournal}, journal' = [journal EXCEPT ![d] = j],
               result = "DEPLOYED_UNVAULTED_OVERRIDE" => o = "override",
               o = "override" => j = journal[d] /\ result # "OVERRIDE_NOT_AUTHORIZED"
        PROVE  IInv'
    <2>1. /\ Types' /\ at'[d] = "done" /\ outcome'[d] = result /\ op'[d] = o /\ journal'[d] = j
          /\ Snapped(d)'
      BY <1>0, <1>1 DEF Types, Places, Outcomes, Refusals, Return, Goto, Snapped, Over
    <2>2. VaultedFor(d) => VaultedFor(d)'
      BY <1>0, VaultedStays
    <2>3. Flow(d)'
      BY <1>0, <1>1, <2>1 DEF Flow, Live
    <2>4. Told(d)'
      BY <1>0, <1>1, <2>1, <2>2 DEF Told, NoJournal, Refusals
    <2>5. Seen(d)'
      BY <1>0, <2>1 DEF Seen, Live
    <2>6. QED
      BY <1>0, <1>1, <2>1, <2>3, <2>4, <2>5, Stepped DEF Sound, Types, Return, Goto
  <1>2. journal = [journal EXCEPT ![d] = journal[d]] /\ op = [op EXCEPT ![d] = "planned"]
    BY <1>0 DEF Types
  <1>3. QED
    BY <1>0, <1>1, <1>2 DEF CommitOverride

LEMMA CrashKept == ASSUME IInv, NEW d \in Deploys, Crash(d) PROVE IInv'
  <1>0. /\ Types /\ Flow(d) /\ Told(d) /\ Seen(d) /\ at[d] \in Places \ {"idle", "done", "dead"} /\ my[d] \in Locals
        /\ at' = [at EXCEPT ![d] = "dead"] /\ outcome[d] = "none"
        /\ UNCHANGED <<tree, head, edits, my, outcome, journal, drain, pushed, op>> /\ Grown
    BY DEF IInv, Sound, Crash, Goto, WorkTree, Grown, Told, Types
  <1>1. CASE at[d] = "override"
    <2>1. Types' /\ at'[d] = "dead" /\ (Snapped(d) => Snapped(d)')
      BY <1>0 DEF Types, Places, Snapped, Over
    <2>2. VaultedFor(d) => VaultedFor(d)'
      BY <1>0, VaultedStays
    <2>3. Flow(d)'
      BY <1>0, <1>1, <2>1 DEF Flow, Live
    <2>4. Told(d)'
      BY <1>0, <1>1, <2>1, <2>2 DEF Told, Refusals
    <2>5. Seen(d)'
      BY <1>0, <1>1, <2>1 DEF Seen, Live, Flow
    <2>6. QED
      BY <1>0, <2>1, <2>3, <2>4, <2>5, Stepped DEF Sound, Types
  <1>2. CASE at[d] # "override"
    <2>1. at[d] \in {"check", "capture", "lanes", "token", "commit"}
      BY <1>0, <1>2 DEF Places
    <2>2. outcome' = [outcome EXCEPT ![d] = "none"] /\ "none" \in Outcomes
      BY <1>0 DEF Types, Outcomes
    <2>3. QED
      BY <1>0, <2>1, <2>2, EndKept
  <1>3. QED
    BY <1>1, <1>2

-----------------------------------------------------------------------------
(* The drains.                                                             *)

\* A step of one drain over the deploy d.
LEMMA DrainStepped ==
  ASSUME IInv, NEW x \in Drains, Types', Grown, UNCHANGED <<tree, head, edits, at, my, outcome>>,
         \A y \in Drains \ {x} : drain'[y] = drain[y],
         \A d \in Deploys : \/ journal'[d] = journal[d] /\ op'[d] = op[d]
                            \/ Sound(d)' /\ (op[d] = "cleared" => op'[d] = "cleared"),
         Draining(x)'
  PROVE  IInv'
  <1>1. \A d \in Deploys : Sound(d)'
    BY Unmoving DEF IInv
  <1>2. Relied
    BY DEF Relied, Snapped
  <1>3. \A y \in Drains : Draining(y)'
    BY <1>2, StillDraining DEF IInv
  <1>4. QED
    BY <1>1, <1>3 DEF IInv

\* A drain that goes on with the rest of what it listed.
LEMMA NextKept ==
  ASSUME IInv, NEW x \in Drains, NEW r \in DrainLocals, drain' = [drain EXCEPT ![x] = r],
         r.todo \subseteq drain[x].todo, r.at \in {"idle", "next"},
         UNCHANGED <<tree, head, edits, at, my, outcome, journal, op>>, Grown
  PROVE  IInv'
  <1>0. Types /\ Draining(x) /\ drain[x] \in DrainLocals
    BY DEF IInv, Types
  <1>1. Types' /\ drain'[x] = r
    BY <1>0, Longer DEF Types
  <1>2. \A j \in r.todo : /\ Snapped(j[1])'
                          /\ j[2].state \in {"pending", "published"}
                          /\ j[2].state = "published" => VaultedFor(j[1])'
    BY <1>0, StillListed DEF Relied, Snapped
  <1>3. Draining(x)'
    BY <1>1, <1>2 DEF Draining
  <1>4. QED
    BY <1>0, <1>1, <1>3, DrainStepped DEF Types

LEMMA RestingLocal == Resting \in DrainLocals /\ Resting.at = "idle" /\ Resting.todo = {}
  BY DEF Resting, DrainLocals, DrainPlaces

LEMMA ListKept == ASSUME IInv, NEW x \in Drains, List(x) PROVE IInv'
  <1>0. /\ Types /\ UNCHANGED <<tree, head, edits, at, my, outcome, journal, pushed, op>> /\ Grown
    BY DEF IInv, List, WorkTree, Deploying, Platform, Grown
  <1>1. PICK todo : todo = {<<d, journal[d]>> : d \in Listed}
    OBVIOUS
  <1>2. todo \subseteq Deploys \X Journals
    <2>1. \A d \in Listed : d \in Deploys /\ journal[d] \in Journals
      BY <1>0 DEF Listed, Types, NoJournal
    <2>2. QED
      BY <1>1, <2>1
  <1>3. PICK r : r = [Resting EXCEPT !.at = "next", !.todo = todo]
    OBVIOUS
  <1>4. r \in DrainLocals /\ r.at = "next" /\ r.todo = todo
    BY <1>2, <1>3, RestingLocal DEF DrainLocals, DrainPlaces
  <1>5. drain' = [drain EXCEPT ![x] = r]
    BY <1>1, <1>3 DEF List, Drained
  <1>6. Types' /\ drain'[x] = r
    BY <1>0, <1>4, <1>5 DEF Types
  <1>7. ASSUME NEW j \in todo
        PROVE  /\ Snapped(j[1])'
               /\ j[2].state \in {"pending", "published"}
               /\ j[2].state = "published" => VaultedFor(j[1])'
    <2>1. PICK d \in Listed : j = <<d, journal[d]>>
      BY <1>1
    <2>2. d \in Deploys /\ journal[d].state \in {"pending", "published"} /\ journal[d] # NoJournal
      BY <2>1 DEF Listed, NoJournal
    <2>3. Snapped(d) /\ (journal[d].state = "published" => VaultedFor(d))
      BY <2>2 DEF IInv, Sound, Flow, Told
    <2>4. Snapped(d)' /\ (VaultedFor(d) => VaultedFor(d)')
      BY <1>0, <2>3, VaultedStays DEF Snapped
    <2>5. QED
      BY <2>1, <2>2, <2>3, <2>4
  <1>8. Draining(x)'
    BY <1>4, <1>6, <1>7 DEF Draining
  <1>9. QED
    BY <1>0, <1>5, <1>6, <1>8, DrainStepped DEF Types

\* A drain that takes the next step for the deploy it is at.
LEMMA StepKept ==
  ASSUME IInv, NEW x \in Drains, NEW r \in DrainLocals, drain' = [drain EXCEPT ![x] = r],
         r.todo \subseteq drain[x].todo, r.at \in {"push", "published", "complete", "completed"},
         r.d \in Deploys, Snapped(r.d), r.at \in {"published", "complete", "completed"} => VaultedFor(r.d)',
         r.at = "completed" => op'[r.d] = "cleared",
         UNCHANGED <<tree, head, edits, at, my, outcome>>, Grown, Types',
         \A d \in Deploys : \/ journal'[d] = journal[d] /\ op'[d] = op[d]
                            \/ Sound(d)' /\ (op[d] = "cleared" => op'[d] = "cleared")
  PROVE  IInv'
  <1>0. Types /\ Draining(x) /\ drain[x] \in DrainLocals
    BY DEF IInv, Types
  <1>1. drain'[x] = r
    BY <1>0 DEF Types
  <1>2. \A j \in r.todo : /\ Snapped(j[1])'
                          /\ j[2].state \in {"pending", "published"}
                          /\ j[2].state = "published" => VaultedFor(j[1])'
    BY <1>0, StillListed DEF Relied, Snapped
  <1>3. PICK d : d = r.d
    OBVIOUS
  <1>4. Snapped(d)'
    BY <1>3 DEF Snapped
  <1>5. Draining(x)'
    BY <1>1, <1>2, <1>3, <1>4 DEF Draining
  <1>6. QED
    BY <1>0, <1>5, DrainStepped DEF Types

LEMMA LatestOid == ASSUME Types PROVE Latest \in Oids \cup {NoOid}
  <1>1. pushed # <<>> => pushed[Len(pushed)] \in CaptureHeads
    BY DEF Types
  <1>2. QED
    BY <1>1 DEF Latest, CaptureHeads

\* A drain that gives up a step goes on with the next journal.
LEMMA SkipKept ==
  ASSUME IInv, NEW x \in Drains, Drained(x, [drain[x] EXCEPT !.at = "next"]),
         UNCHANGED <<tree, head, edits, at, my, outcome, journal, op>>, Grown
  PROVE  IInv'
  <1>1. PICK r : r = [drain[x] EXCEPT !.at = "next"]
    OBVIOUS
  <1>2. r \in DrainLocals /\ r.at = "next" /\ r.todo = drain[x].todo
    BY <1>1 DEF IInv, Types, DrainLocals, DrainPlaces
  <1>3. QED
    BY <1>1, <1>2, NextKept DEF Drained

LEMMA PickKept == ASSUME IInv, NEW x \in Drains, Pick(x) PROVE IInv'
  <1> DEFINE old == drain[x]
  <1>0. /\ Types /\ Draining(x) /\ old \in DrainLocals
        /\ UNCHANGED <<tree, head, edits, at, my, outcome, journal, pushed, op>> /\ Grown
    BY DEF IInv, Types, Pick, WorkTree, Deploying, Platform, Grown
  <1>1. CASE Drained(x, Resting)
    BY <1>0, <1>1, RestingLocal, NextKept DEF Drained
  <1>2. ASSUME NEW j \in old.todo,
               Drained(x, [old EXCEPT !.todo = @ \ {j}, !.d = j[1], !.lease = Latest,
                      !.at = IF j[2].state = "pending" THEN "push" ELSE IF j[2].receipt THEN "complete" ELSE "next"])
        PROVE  IInv'
    <2>1. PICK l : l = IF j[2].state = "pending" THEN "push" ELSE IF j[2].receipt THEN "complete" ELSE "next"
      OBVIOUS
    <2>2. PICK d : d = j[1]
      OBVIOUS
    <2>3. PICK r : r = [old EXCEPT !.todo = @ \ {j}, !.d = d, !.lease = Latest, !.at = l]
      OBVIOUS
    <2>4. d \in Deploys /\ l \in DrainPlaces
      BY <1>0, <2>1, <2>2 DEF DrainLocals, DrainPlaces
    <2>5. r \in DrainLocals /\ r.at = l /\ r.d = d /\ r.todo \subseteq old.todo
      BY <1>0, <2>3, <2>4, LatestOid DEF DrainLocals
    <2>6. drain' = [drain EXCEPT ![x] = r]
      BY <1>2, <2>1, <2>2, <2>3 DEF Drained
    <2>7. Snapped(d) /\ (l = "complete" => VaultedFor(d)) /\ l \in {"push", "complete", "next"}
      BY <1>0, <2>1, <2>2 DEF Draining
    <2>8. VaultedFor(d) => VaultedFor(d)'
      BY <1>0, VaultedStays
    <2>9. Types'
      BY <1>0, <2>5, <2>6 DEF Types
    <2>10. CASE l = "next"
      BY <1>0, <2>5, <2>6, <2>10, NextKept
    <2>11. CASE l \in {"push", "complete"}
      BY <1>0, <2>4, <2>5, <2>6, <2>7, <2>8, <2>9, <2>11, StepKept
    <2>12. QED
      BY <2>7, <2>10, <2>11
  <1>3. QED
    BY <1>1, <1>2 DEF Pick

LEMMA PublishKept == ASSUME IInv, NEW x \in Drains, Publish(x) PROVE IInv'
  <1> DEFINE old == drain[x]
  <1>0. /\ Types /\ Draining(x) /\ old \in DrainLocals /\ old.at = "push"
        /\ UNCHANGED <<tree, head, edits, at, my, outcome, journal, op>>
        /\ old.d \in Deploys /\ Snapped(old.d)
    BY DEF IInv, Types, Publish, WorkTree, Deploying, Draining
  <1>1. CASE Admit(old.lease, my[old.d].oid, old.d, TRUE)
    <2>1. PICK d, h : d = old.d /\ h = [oid |-> my[d].oid, capture |-> d, digest |-> TRUE]
      OBVIOUS
    <2>2. h \in CaptureHeads /\ h.capture = d /\ pushed' = Append(pushed, h) /\ d \in Deploys /\ Snapped(d)
      BY <1>0, <1>1, <2>1 DEF CaptureHeads, Admit, Snapped
    <2>3. Grown /\ VaultedFor(d)'
      BY <1>0, <2>1, <2>2, Bound
    <2>4. CASE Drained(x, [old EXCEPT !.at = "published"])
      <3>1. PICK r : r = [old EXCEPT !.at = "published"]
        OBVIOUS
      <3>2. r \in DrainLocals /\ r.at = "published" /\ r.d = d /\ r.todo = old.todo
        BY <1>0, <2>1, <3>1 DEF DrainLocals, DrainPlaces
      <3>3. drain' = [drain EXCEPT ![x] = r]
        BY <2>4, <3>1 DEF Drained
      <3>4. Types'
        BY <1>0, <2>3, <3>2, <3>3, Longer DEF Types
      <3>5. QED
        BY <1>0, <2>2, <2>3, <3>2, <3>3, <3>4, StepKept
    <2>5. CASE Drained(x, [old EXCEPT !.at = "next"])
      BY <1>0, <2>3, <2>5, SkipKept
    <2>6. QED
      BY <1>0, <2>4, <2>5, SkipKept DEF Publish, Grown
  <1>2. CASE Drained(x, [old EXCEPT !.at = "next"]) /\ pushed' = pushed
    BY <1>0, <1>2, SkipKept DEF Grown
  <1>3. QED
    BY <1>1, <1>2 DEF Publish

LEMMA RecordKept == ASSUME IInv, NEW x \in Drains, Record(x) PROVE IInv'
  <1> DEFINE old == drain[x]
  <1>0. /\ Types /\ Draining(x) /\ old \in DrainLocals /\ old.at = "published"
        /\ UNCHANGED <<tree, head, edits, at, my, outcome, pushed, op>> /\ Grown
    BY DEF IInv, Types, Record, WorkTree, Deploying, Draining, Grown
  <1>1. PICK d : d = old.d
    OBVIOUS
  <1>2. d \in Deploys /\ Snapped(d) /\ VaultedFor(d) /\ VaultedFor(d)' /\ Snapped(d)' /\ Sound(d)
    <2>1. d \in Deploys /\ Snapped(d) /\ VaultedFor(d)
      BY <1>0, <1>1 DEF Draining
    <2>2. QED
      BY <1>0, <2>1, VaultedStays DEF Snapped, IInv
  <1>3. ASSUME NEW b \in BOOLEAN, NEW l \in {"complete", "next"},
               journal' = [journal EXCEPT ![d] = [state |-> "published", receipt |-> b]],
               Drained(x, [old EXCEPT !.at = l])
        PROVE  IInv'
    <2>1. PICK j : j = [state |-> "published", receipt |-> b]
      OBVIOUS
    <2>2. j \in Journals /\ j.state = "published" /\ j # NoJournal
      BY <2>1 DEF Journals, NoJournal
    <2>3. journal' = [journal EXCEPT ![d] = j]
      BY <1>3, <2>1
    <2>4. PICK r : r = [old EXCEPT !.at = l]
      OBVIOUS
    <2>5. r \in DrainLocals /\ r.at = l /\ r.d = d /\ r.todo = old.todo
      BY <1>0, <1>1, <2>4 DEF DrainLocals, DrainPlaces
    <2>6. drain' = [drain EXCEPT ![x] = r]
      BY <1>3, <2>4 DEF Drained
    <2>7. Types' /\ journal'[d] = j /\ \A e \in Deploys \ {d} : journal'[e] = journal[e]
      BY <1>0, <1>2, <2>2, <2>3, <2>5, <2>6 DEF Types
    <2>8. Sound(d)'
      <3>1. Flow(d)'
        BY <1>0, <1>2, <2>2, <2>7 DEF Sound, Flow, Snapped, Over
      <3>2. Told(d)'
        BY <1>0, <1>2, <2>2, <2>7, PushedStays DEF Sound, Told
      <3>3. Seen(d)'
        BY <1>0, <1>2 DEF Sound, Seen
      <3>4. QED
        BY <3>1, <3>2, <3>3 DEF Sound
    <2>9. \A e \in Deploys : \/ journal'[e] = journal[e] /\ op'[e] = op[e]
                             \/ Sound(e)' /\ (op[e] = "cleared" => op'[e] = "cleared")
      BY <1>0, <2>7, <2>8
    <2>10. CASE l = "complete"
      BY <1>0, <1>2, <2>5, <2>6, <2>7, <2>9, <2>10, StepKept
    <2>11. CASE l = "next"
      <3>1. Draining(x)'
        <4>1. \A k \in r.todo : /\ Snapped(k[1])'
                                /\ k[2].state \in {"pending", "published"}
                                /\ k[2].state = "published" => VaultedFor(k[1])'
          BY <1>0, <2>5, StillListed DEF Relied, Snapped
        <4>2. drain'[x] = r
          BY <1>0, <2>6 DEF Types
        <4>3. QED
          BY <2>5, <2>11, <4>1, <4>2 DEF Draining
      <3>2. QED
        BY <1>0, <2>6, <2>7, <2>9, <3>1, DrainStepped DEF Types
    <2>12. QED
      BY <2>10, <2>11
  <1>4. QED
    BY <1>1, <1>3 DEF Record

LEMMA CompleteKept == ASSUME IInv, NEW x \in Drains, Complete(x) PROVE IInv'
  <1> DEFINE old == drain[x]
  <1>0. /\ Types /\ Draining(x) /\ old \in DrainLocals /\ old.at = "complete"
        /\ UNCHANGED <<tree, head, edits, at, my, outcome, journal, pushed>> /\ Grown
    BY DEF IInv, Types, Complete, WorkTree, Deploying, Draining, Grown
  <1>1. PICK d : d = old.d
    OBVIOUS
  <1>2. d \in Deploys /\ Snapped(d) /\ VaultedFor(d) /\ VaultedFor(d)' /\ Snapped(d)' /\ Sound(d)
    <2>1. d \in Deploys /\ Snapped(d) /\ VaultedFor(d)
      BY <1>0, <1>1 DEF Draining
    <2>2. QED
      BY <1>0, <2>1, VaultedStays DEF Snapped, IInv
  <1>3. CASE op[d] \in {"override", "cleared"} /\ op' = [op EXCEPT ![d] = "cleared"]
    <2>1. op' \in [Deploys -> {"none", "planned", "vaulted", "override", "cleared"}] /\ op'[d] = "cleared"
          /\ \A e \in Deploys \ {d} : op'[e] = op[e]
      BY <1>0, <1>2, <1>3 DEF Types
    <2>2. Sound(d)'
      <3>1. Flow(d)'
        BY <1>0, <1>2, <1>3, <2>1 DEF Sound, Flow, Snapped, Over, Live
      <3>2. Told(d)'
        BY <1>0, <1>2, <1>3, <2>1, PushedStays DEF Sound, Told, Refusals
      <3>3. Seen(d)'
        BY <1>0, <1>2, <1>3, <2>1 DEF Sound, Seen, Live
      <3>4. QED
        BY <3>1, <3>2, <3>3 DEF Sound
    <2>3. \A e \in Deploys : \/ journal'[e] = journal[e] /\ op'[e] = op[e]
                             \/ Sound(e)' /\ (op[e] = "cleared" => op'[e] = "cleared")
      BY <1>0, <2>1, <2>2
    <2>4. ASSUME NEW l \in {"completed", "next"}, Drained(x, [old EXCEPT !.at = l]) PROVE IInv'
      <3>1. PICK r : r = [old EXCEPT !.at = l]
        OBVIOUS
      <3>2. r \in DrainLocals /\ r.at = l /\ r.d = d /\ r.todo = old.todo
        BY <1>0, <1>1, <3>1 DEF DrainLocals, DrainPlaces
      <3>3. drain' = [drain EXCEPT ![x] = r]
        BY <2>4, <3>1 DEF Drained
      <3>4. Types' /\ drain'[x] = r
        BY <1>0, <2>1, <3>2, <3>3 DEF Types
      <3>5. \A k \in r.todo : /\ Snapped(k[1])'
                              /\ k[2].state \in {"pending", "published"}
                              /\ k[2].state = "published" => VaultedFor(k[1])'
        <4>1. Relied
          BY <1>0, <2>1 DEF Relied, Snapped
        <4>2. QED
          BY <1>0, <3>2, <4>1, StillListed
      <3>6. Draining(x)'
        BY <1>2, <2>1, <3>2, <3>4, <3>5 DEF Draining
      <3>7. QED
        BY <1>0, <2>3, <3>3, <3>4, <3>6, DrainStepped DEF Types
    <2>5. QED
      <3>1. Drained(x, [old EXCEPT !.at = "completed"]) \/ Drained(x, [old EXCEPT !.at = "next"])
        BY DEF Complete
      <3>2. QED
        BY <2>4, <3>1
  <1>4. CASE Drained(x, [old EXCEPT !.at = "next"]) /\ UNCHANGED op
    BY <1>0, <1>4, SkipKept
  <1>5. QED
    BY <1>1, <1>3, <1>4 DEF Complete

LEMMA FinishKept == ASSUME IInv, NEW x \in Drains, Finish(x) PROVE IInv'
  <1> DEFINE old == drain[x]
  <1>0. /\ Types /\ Draining(x) /\ old \in DrainLocals /\ old.at = "completed"
        /\ UNCHANGED <<tree, head, edits, at, my, outcome, pushed, op>> /\ Grown
    BY DEF IInv, Types, Finish, WorkTree, Deploying, Platform, Draining, Grown
  <1>1. PICK d : d = old.d
    OBVIOUS
  <1>2. /\ d \in Deploys /\ Snapped(d) /\ VaultedFor(d) /\ VaultedFor(d)' /\ Snapped(d)' /\ Sound(d)
        /\ op[d] = "cleared"
    <2>1. d \in Deploys /\ Snapped(d) /\ VaultedFor(d) /\ op[d] = "cleared"
      BY <1>0, <1>1 DEF Draining
    <2>2. QED
      BY <1>0, <2>1, VaultedStays DEF Snapped, IInv
  <1>3. PICK j : j = [state |-> "completed", receipt |-> TRUE]
    OBVIOUS
  <1>4. j \in Journals /\ j.state = "completed" /\ j # NoJournal
    BY <1>3 DEF Journals, NoJournal
  <1>5. journal' = [journal EXCEPT ![d] = j]
    BY <1>1, <1>3 DEF Finish
  <1>6. PICK r : r = [old EXCEPT !.at = "next"]
    OBVIOUS
  <1>7. r \in DrainLocals /\ r.at = "next" /\ r.todo = old.todo
    BY <1>0, <1>6 DEF DrainLocals, DrainPlaces
  <1>8. drain' = [drain EXCEPT ![x] = r]
    BY <1>6 DEF Finish, Drained
  <1>9. Types' /\ drain'[x] = r /\ journal'[d] = j /\ \A e \in Deploys \ {d} : journal'[e] = journal[e]
    BY <1>0, <1>2, <1>4, <1>5, <1>7, <1>8 DEF Types
  <1>10. Sound(d)'
    <2>1. Flow(d)'
      BY <1>0, <1>2, <1>4, <1>9 DEF Sound, Flow, Snapped, Over
    <2>2. Told(d)'
      BY <1>0, <1>2, <1>4, <1>9, PushedStays DEF Sound, Told
    <2>3. Seen(d)'
      BY <1>0, <1>2 DEF Sound, Seen
    <2>4. QED
      BY <2>1, <2>2, <2>3 DEF Sound
  <1>11. \A k \in r.todo : /\ Snapped(k[1])'
                           /\ k[2].state \in {"pending", "published"}
                           /\ k[2].state = "published" => VaultedFor(k[1])'
    BY <1>0, <1>7, StillListed DEF Relied, Snapped
  <1>12. Draining(x)'
    BY <1>7, <1>9, <1>11 DEF Draining
  <1>13. QED
    BY <1>0, <1>8, <1>9, <1>10, <1>12, DrainStepped DEF Types

LEMMA CrashDrainKept == ASSUME IInv, NEW x \in Drains, CrashDrain(x) PROVE IInv'
  BY RestingLocal, NextKept DEF CrashDrain, Drained, WorkTree, Deploying, Grown

-----------------------------------------------------------------------------
(* The tree, and the theorems.                                             *)

\* A change of the tree or of HEAD is one that every deploy under way can count.
LEMMA TreeKept == ASSUME IInv, Edit \/ GitCommit PROVE IInv'
  <1>0. /\ Types /\ edits > 0 /\ edits' = edits - 1 /\ edits \in Nat
        /\ UNCHANGED <<at, my, outcome, journal, drain, pushed, op>> /\ Grown
        /\ tree' \in Trees /\ head' \in Trees
    BY DEF IInv, Types, Edit, GitCommit, Deploying, Platform, Grown
  <1>1. Types'
    BY <1>0 DEF Types
  <1>2. Relied
    BY <1>0 DEF Relied, Snapped
  <1>3. \A x \in Drains : Draining(x)'
    BY <1>0, <1>2, StillDraining DEF IInv
  <1>4. ASSUME NEW d \in Deploys PROVE Sound(d)'
    <2>1. Flow(d)'
      BY <1>0, PushedStays, VaultedStays DEF IInv, Sound, Flow, Snapped
    <2>2. Told(d)'
      BY <1>0, PushedStays, VaultedStays DEF IInv, Sound, Told
    <2>3. Seen(d)'
      <3>1. Seen(d) /\ my[d].since \in Nat /\ my'[d] = my[d] /\ at'[d] = at[d] /\ op'[d] = op[d]
        BY <1>0 DEF IInv, Sound, Types, Locals
      <3>2. QED
        BY <1>0, <3>1 DEF Seen
    <2>4. QED
      BY <2>1, <2>2, <2>3 DEF Sound
  <1>5. QED
    BY <1>1, <1>3, <1>4 DEF IInv

LEMMA InitInv == Init => IInv
  <1> SUFFICES ASSUME Init PROVE IInv
    OBVIOUS
  <1>1. PICK w \in Workloads :
          /\ head = w.head /\ edits = w.edits /\ faults = [lost |-> w.faults, crash |-> w.crashes]
          /\ at = [d \in Deploys |-> IF d \in w.deploys THEN "idle" ELSE "done"]
          /\ drain = [x \in Drains |-> IF x \in w.drains THEN Resting ELSE [Resting EXCEPT !.at = "done"]]
    BY DEF Init
  <1>2. head \in Trees /\ edits \in Nat
    BY <1>1, DeployAssumption
  <1>3. [Resting EXCEPT !.at = "done"] \in DrainLocals
    BY RestingLocal DEF DrainLocals, DrainPlaces
  <1>4. Types
    BY <1>1, <1>2, <1>3, RestingLocal, FreshLocal DEF Init, Types, Places, Outcomes
  <1>5. ASSUME NEW d \in Deploys PROVE Sound(d)
    <2>1. /\ at[d] \in {"idle", "done"} /\ my[d] = Fresh /\ outcome[d] = "none" /\ journal[d] = NoJournal
          /\ op[d] = "none"
      BY <1>1 DEF Init
    <2>2. Flow(d)
      BY <2>1, FreshLocal DEF Flow, Live
    <2>3. Told(d)
      BY <2>1 DEF Told, NoJournal, Refusals
    <2>4. Seen(d)
      BY <2>1 DEF Seen, Live
    <2>5. QED
      BY <2>2, <2>3, <2>4 DEF Sound
  <1>6. ASSUME NEW x \in Drains PROVE Draining(x)
    <2>1. drain[x].todo = {} /\ drain[x].at \in {"idle", "done"}
      BY <1>1 DEF Resting
    <2>2. QED
      BY <2>1 DEF Draining
  <1>7. QED
    BY <1>4, <1>5, <1>6 DEF IInv

LEMMA IInvKept == IInv /\ [Next]_vars => IInv'
  <1> SUFFICES ASSUME IInv, [Next]_vars PROVE IInv'
    OBVIOUS
  <1>1. ASSUME NEW d \in Deploys, Deploy(d) PROVE IInv'
    BY <1>1, InspectKept, CheckKept, CaptureKept, PlanKept, MaterializeKept, PushKept, DecideKept,
       ExchangeKept, CommitVaultedKept, CommitOverrideKept DEF Deploy
  <1>2. ASSUME NEW x \in Drains, Drain(x) PROVE IInv'
    BY <1>2, ListKept, PickKept, PublishKept, RecordKept, CompleteKept, FinishKept DEF Drain
  <1>3. CASE UNCHANGED vars
    BY <1>3 DEF vars, IInv, Types, Sound, Flow, Told, Seen, Draining, Snapped, Pushed, VaultedFor
  <1>4. QED
    BY <1>1, <1>2, <1>3, CrashKept, CrashDrainKept, TreeKept DEF Next

LEMMA Invariant == Spec => []IInv
  BY InitInv, IInvKept, PTL DEF Spec

\* The tree, the deploys, the drains, the journals and the vault have their types.
THEOREM TypeCorrect == Spec => []TypeOK
  <1>1. IInv => TypeOK
    <2> SUFFICES ASSUME IInv PROVE TypeOK
      OBVIOUS
    <2>1. /\ {tree, head} \subseteq Trees /\ edits \in Nat
          /\ op \in [Deploys -> {"none", "planned", "vaulted", "override", "cleared"}]
          /\ journal \in [Deploys -> Journals \cup {NoJournal}]
      BY DEF IInv, Types
    <2>2. \A g \in 1 .. Len(pushed) : pushed[g] \in [oid : Oids, capture : Deploys, digest : BOOLEAN]
      <3>1. pushed \in Seq(CaptureHeads)
        BY DEF IInv, Types
      <3>2. \A g \in 1 .. Len(pushed) : pushed[g] \in CaptureHeads
        BY <3>1
      <3>3. QED
        BY <3>2 DEF CaptureHeads
    <2>3. \A d \in Deploys : Flow(d)
      BY DEF IInv, Sound
    <2>4. QED
      BY <2>1, <2>2, <2>3 DEF TypeOK, Flow
  <1>2. QED
    BY <1>1, Invariant, PTL

\* Whatever crashes, what is live is bound by an admitted head or journaled (the
\* journal is written before the override's commit, and cleared after its push).
THEOREM LiveIsAccounted == Spec => []ActivatedIsAccounted
  <1>1. IInv => ActivatedIsAccounted
    BY DEF IInv, Sound, Told, ActivatedIsAccounted
  <1>2. QED
    BY <1>1, Invariant, PTL

\* Each outcome of runVaultDeploy says what is in the vault and what may be live.
THEOREM OutcomesAreTrue == Spec => []OutcomeTrue
  <1>1. IInv => OutcomeTrue
    <2> SUFFICES ASSUME IInv, NEW d \in Deploys
                 PROVE  LET live == op[d] \in {"vaulted", "override", "cleared"} IN
                   /\ outcome[d] = "DEPLOYED_AND_VAULTED" => op[d] = "vaulted" /\ VaultedFor(d)
                   /\ outcome[d] = "DEPLOYED_UNVAULTED_OVERRIDE" => live /\ journal[d] # NoJournal
                   /\ outcome[d] = "DEPLOY_FAILED_VAULTED" => \E g \in 1 .. Len(pushed) : pushed[g].capture = d
                   /\ outcome[d] \in Refusals => ~live
      BY DEF OutcomeTrue, Refusals
    <2>1. Told(d)
      BY DEF IInv, Sound
    <2>2. QED
      BY <2>1 DEF Told, Pushed
  <1>2. QED
    BY <1>1, Invariant, PTL

\* A release of another tree than its commit's escapes assertCapturedSetUnchanged
\* only over two changes, or over one between the reads of the capture.
THEOREM TwoRacesEscape == Spec => []OnlyRacesEscape
  <1>1. IInv => OnlyRacesEscape
    BY DEF IInv, Sound, Seen, Live, OnlyRacesEscape
  <1>2. QED
    BY <1>1, Invariant, PTL

\* A journal is recorded as completed after the platform cleared its operation.
THEOREM CompletedWasCleared == Spec => []CompletedIsCleared
  <1>1. IInv => CompletedIsCleared
    BY DEF IInv, Sound, Told, CompletedIsCleared
  <1>2. QED
    BY <1>1, Invariant, PTL
=============================================================================
