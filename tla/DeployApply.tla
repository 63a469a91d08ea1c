---------------------------- MODULE DeployApply ----------------------------
(***************************************************************************)
(* Deploy.apply (sdk/src/namespaces/deploy.ts): an attempt plans a release *)
(* against a base, uploads the content the gateway lacks, rehearses the    *)
(* migrations, commits the plan and polls its operation; a failure the     *)
(* gateway marks safe to retry starts another attempt, with a new plan.    *)
(* Calls run concurrently against one project.  Any request may be lost,   *)
(* before or after it took effect; each kind of request has a retry policy *)
(* of its own.                                                             *)
(***************************************************************************)
EXTENDS Naturals, FiniteSets

CONSTANTS
  Calls,        \* concurrent apply() calls
  Files, Migrations,
  Specs,        \* what the calls are given: functions from calls to Request
  None,
  MaxRetries,   \* ApplyOptions.maxRetries (2 in the code)
  Sends,        \* attempts of one request (3 in the code)
  MaxFaults,    \* bound: answers lost and operations that fail
  MaxPromotes   \* bound: promotions of an earlier release

\* The spec of a call, and from its options whether it may rehearse.
Request == [base : {"current", "pinned"}, migrations : SUBSET Migrations, files : SUBSET Files,
            rehearse : {"auto", "disabled", "reviewed", "ci"}]

ASSUME ApplyAssumption ==
  /\ Specs \subseteq [Calls -> Request]
  /\ MaxRetries \in Nat /\ Sends \in Nat \ {0} /\ MaxFaults \in Nat /\ MaxPromotes \in Nat
  /\ None \notin Calls \X (1 .. MaxRetries + 1)

VARIABLES
  spec,      \* what each call was given: fixed by Init
  plans,     \* the gateway's plan of each attempt of each call, and its operation
  live,      \* the plan whose release is live, or None
  cas,       \* the content the gateway holds
  uploads,   \* the content plan each call has open
  proc,      \* what each call is doing
  result,    \* how each call ended, or "none"
  faults, promotes

gateway == <<plans, live, cas, uploads>>
vars == <<spec, gateway, proc, result, faults, promotes>>

Attempts == 1 .. MaxRetries + 1
Releases == (Calls \X Attempts) \cup {None}

Errors == {"conflict", "interrupted", "broken"}
\* An absent error is no error.
ASSUME AbsentAssumption == None \notin Errors
\* fresh: the migrations the plan lists as new; ran: those its operation ran.
Plan == [made : BOOLEAN, base : Releases, missing : SUBSET Files, fresh : SUBSET Migrations,
         rehearsal : {"none", "available", "running", "passed", "failed", "interrupted", "broken"},
         op : {"planned", "running", "pending", "static", "ready", "failed"},
         error : Errors \cup {None}, ran : SUBSET Migrations]
NoPlan == [made |-> FALSE, base |-> None, missing |-> {}, fresh |-> {}, rehearsal |-> "none",
           op |-> "planned", error |-> None, ran |-> {}]
NoUpload == [want |-> {}, staged |-> {}]
Results == Errors \cup {"ready", "network", "upload", "rehearsal", "slow", "unsure", "timeout",
                        "unread", "activation"}

TypeOK ==
  /\ spec \in Specs
  /\ plans \in [Calls -> [Attempts -> Plan]]
  /\ live \in Releases /\ cas \subseteq Files
  /\ uploads \in [Calls -> [want : SUBSET Files, staged : SUBSET Files]]
  /\ proc \in [Calls -> [pc : {"plan", "open", "put", "finalize", "rehearse", "rehearsing",
                               "commit", "read", "poll", "done"},
                         attempt : Attempts, sends : 0 .. Sends - 1, pin : Releases]]
  /\ result \in [Calls -> Results \cup {"none"}]
  /\ faults \in 0 .. MaxFaults /\ promotes \in 0 .. MaxPromotes

Init ==
  /\ spec \in Specs
  /\ plans = [p \in Calls |-> [a \in Attempts |-> NoPlan]]
  /\ live = None /\ cas = {} /\ uploads = [p \in Calls |-> NoUpload]
  /\ proc = [p \in Calls |-> [pc |-> "plan", attempt |-> 1, sends |-> 0, pin |-> None]]
  /\ result = [p \in Calls |-> "none"]
  /\ faults = 0 /\ promotes = 0

-----------------------------------------------------------------------------

at(p, l) == proc[p].pc = l
Current(p) == plans[p][proc[p].attempt]
SetPlan(p, plan) == plans' = [plans EXCEPT ![p][proc[p].attempt] = plan]

Goto(p, l) == proc' = [proc EXCEPT ![p].pc = l, ![p].sends = 0] /\ UNCHANGED result

Ends(p, r) == proc' = [proc EXCEPT ![p].pc = "done", ![p].sends = 0] /\ result' = [result EXCEPT ![p] = r]

\* isSafeDeployApplyRetry: codes the gateway marks safe to retry; a conflict only
\* when the spec follows the current release.
SafeToRetry(p, error) ==
  \/ error = "interrupted"
  \/ error = "conflict" /\ spec[p].base = "current"

\* The retry loop of apply().
Fails(p, error) ==
  IF SafeToRetry(p, error) /\ proc[p].attempt <= MaxRetries
  THEN /\ proc' = [proc EXCEPT ![p].pc = "plan", ![p].attempt = @ + 1, ![p].sends = 0]
       /\ UNCHANGED result
  ELSE Ends(p, error)

\* One more answer was lost: send again, or give up.
Lost(p, r) ==
  /\ faults < MaxFaults /\ faults' = faults + 1
  /\ IF proc[p].sends + 1 < Sends
     THEN proc' = [proc EXCEPT ![p].sends = @ + 1] /\ UNCHANGED result
     ELSE Ends(p, r)

\* A lost answer of a request that is sent once.
LostOnce(p, r) == faults < MaxFaults /\ faults' = faults + 1 /\ Ends(p, r)

-----------------------------------------------------------------------------
(* Plan.                                                                    *)

\* Mutant: a replan keeps the base of the first plan.
BaseOfFirst(p) ==
  CASE spec[p].base = "pinned" -> proc[p].pin
    [] proc[p].attempt > 1     -> plans[p][1].base
    [] OTHER                   -> live

BaseOf(p) == IF spec[p].base = "current" THEN live ELSE proc[p].pin

\* The project's migration registry: what any operation ran stays applied.
Applied == UNION {plans[q][a].ran : q \in Calls, a \in Attempts}
Unapplied(p) == spec[p].migrations \ Applied

\* The envelope of the plan offers a rehearsal of migrations over a live release,
\* but never to a CI session.  (Newer gateways do not offer one of unchanged
\* migrations either: the client comes to the same by itself.)
Envelope(p) ==
  IF spec[p].migrations # {} /\ live # None /\ spec[p].rehearse # "ci" THEN "available" ELSE "none"

\* normalizePlanResponse: the plan names what content is missing, which migrations
\* are new and whether a rehearsal is available.
NewPlan(p) ==
  [made |-> TRUE, base |-> BaseOf(p), missing |-> spec[p].files \ cas, fresh |-> Unapplied(p),
   rehearsal |-> Envelope(p), op |-> "planned", error |-> None, ran |-> {}]

\* A pinned spec names a release its author saw before the call.
Pin(p) ==
  /\ at(p, "plan") /\ proc[p].attempt = 1 /\ spec[p].base = "pinned" /\ proc[p].pin # live
  /\ proc' = [proc EXCEPT ![p].pin = live]
  /\ UNCHANGED <<spec, gateway, result, faults, promotes>>

MakePlan(p) ==
  /\ at(p, "plan")
  /\ \/ /\ SetPlan(p, NewPlan(p))
        /\ \/ Goto(p, IF spec[p].files \ cas # {} THEN "open" ELSE "rehearse") /\ faults' = faults
           \/ LostOnce(p, "network")
     \/ LostOnce(p, "network") /\ UNCHANGED plans
     \/ \* the gateway refuses a reviewed plan that is out of date
        spec[p].rehearse = "reviewed" /\ Ends(p, "broken") /\ UNCHANGED <<plans, faults>>
  /\ UNCHANGED <<spec, live, cas, uploads, promotes>>

-----------------------------------------------------------------------------
(* Upload: uploadMissing.                                                   *)

\* A content plan opens a session for what is still missing; repeating the
\* request opens another.
OpenUpload(p) ==
  /\ at(p, "open")
  /\ \/ /\ uploads' = [uploads EXCEPT ![p] = [NoUpload EXCEPT !.want = Current(p).missing \ cas]]
        /\ Goto(p, "put") /\ faults' = faults
     \/ Lost(p, "network") /\ UNCHANGED uploads
  /\ UNCHANGED <<spec, plans, live, cas, promotes>>

\* Mutant: a lost PUT is taken for done.
PutFileOnce(p) ==
  /\ at(p, "put")
  /\ \/ /\ uploads' = [uploads EXCEPT ![p].staged = @ \cup uploads[p].want]
        /\ Goto(p, "finalize") /\ faults' = faults
     \/ /\ faults < MaxFaults /\ faults' = faults + 1
        /\ Goto(p, "finalize") /\ UNCHANGED uploads
  /\ UNCHANGED <<spec, plans, live, cas, promotes>>

PutFile(p) ==
  /\ at(p, "put")
  /\ LET todo == uploads[p].want \ uploads[p].staged IN
     IF todo = {}
     THEN Goto(p, "finalize") /\ UNCHANGED <<uploads, faults>>
     ELSE \/ \E f \in todo :
               /\ uploads' = [uploads EXCEPT ![p].staged = @ \cup {f}]
               /\ Goto(p, "put") /\ faults' = faults
          \/ Lost(p, "upload") /\ UNCHANGED uploads
  /\ UNCHANGED <<spec, plans, live, cas, promotes>>

\* commitContentPlanWithRetry: the repeat of a commit that took effect answers
\* PLAN_ALREADY_COMMITTED, which is success from the second send on.
Finalize(p) ==
  /\ at(p, "finalize")
  /\ \/ /\ cas' = cas \cup uploads[p].staged
        /\ (Goto(p, "rehearse") /\ faults' = faults) \/ Lost(p, "network")
     \/ Lost(p, "network") /\ UNCHANGED cas
     \/ \* the encoder is out of time or full
        /\ faults < MaxFaults /\ faults' = faults + 1
        /\ Fails(p, "interrupted") /\ UNCHANGED cas
  /\ UNCHANGED <<spec, plans, live, uploads, promotes>>

-----------------------------------------------------------------------------
(* Rehearsal: rehearseBeforeCommit, pollRehearsal.                          *)

\* noRehearse, a reviewed plan, an envelope that offers no rehearsal, and migrations
\* that were all applied before.
Skips(p) ==
  \/ spec[p].rehearse \in {"disabled", "reviewed"}
  \/ Current(p).rehearsal # "available"
  \/ Current(p).fresh = {}

\* Mutant: a second attempt is not rehearsed again.
RehearseFirst(p) ==
  /\ at(p, "rehearse")
  /\ IF Skips(p) \/ proc[p].attempt > 1
     THEN Goto(p, "commit") /\ UNCHANGED <<plans, faults>>
     ELSE /\ SetPlan(p, [Current(p) EXCEPT !.rehearsal = "running"])
          /\ (Goto(p, "rehearsing") /\ faults' = faults) \/ LostOnce(p, "network")
  /\ UNCHANGED <<spec, live, cas, uploads, promotes>>

Rehearse(p) ==
  /\ at(p, "rehearse")
  /\ IF Skips(p)
     THEN Goto(p, "commit") /\ UNCHANGED <<plans, faults>>
     ELSE \/ /\ SetPlan(p, [Current(p) EXCEPT !.rehearsal = "running"])
             /\ (Goto(p, "rehearsing") /\ faults' = faults) \/ LostOnce(p, "network")
          \/ LostOnce(p, "network") /\ UNCHANGED plans
  /\ UNCHANGED <<spec, live, cas, uploads, promotes>>

PollRehearsal(p) ==
  /\ at(p, "rehearsing")
  /\ \/ Current(p).rehearsal = "passed" /\ Goto(p, "commit") /\ faults' = faults
     \/ Current(p).rehearsal = "failed" /\ Ends(p, "rehearsal") /\ faults' = faults
     \/ \* it ended without a report, with an error of its own
        /\ Current(p).rehearsal \in {"interrupted", "broken"}
        /\ Fails(p, Current(p).rehearsal) /\ faults' = faults
     \/ Current(p).rehearsal = "running" /\ Ends(p, "slow") /\ faults' = faults
     \/ Lost(p, "network")
  /\ UNCHANGED <<spec, gateway, promotes>>

-----------------------------------------------------------------------------
(* Commit and poll: sendCommitWithRetry, pollUntilReady.                    *)

\* Mutant: a commit that was never answered is reported as any other lost request.
CommitLost(p) ==
  /\ at(p, "commit")
  /\ \/ /\ IF Current(p).op = "planned"
           THEN SetPlan(p, [Current(p) EXCEPT !.op = "running"])
           ELSE UNCHANGED plans
        /\ (Goto(p, "read") /\ faults' = faults) \/ Lost(p, "network")
     \/ Lost(p, "network") /\ UNCHANGED plans
  /\ UNCHANGED <<spec, live, cas, uploads, promotes>>

\* Mutant: a commit that was never answered starts another attempt.
CommitReplanned(p) ==
  /\ at(p, "commit")
  /\ \/ /\ IF Current(p).op = "planned"
           THEN SetPlan(p, [Current(p) EXCEPT !.op = "running"])
           ELSE UNCHANGED plans
        /\ \/ Goto(p, "read") /\ faults' = faults
           \/ faults < MaxFaults /\ faults' = faults + 1 /\ Fails(p, "interrupted")
     \/ Lost(p, "unsure") /\ UNCHANGED plans
  /\ UNCHANGED <<spec, live, cas, uploads, promotes>>

\* A plan commits once: a repeat answers with the state of its operation.
Commit(p) ==
  /\ at(p, "commit")
  /\ \/ /\ IF Current(p).op = "planned"
           THEN SetPlan(p, [Current(p) EXCEPT !.op = "running"])
           ELSE UNCHANGED plans
        /\ \/ /\ faults' = faults
              /\ CASE Current(p).op = "ready"  -> Ends(p, "ready")
                   [] Current(p).op = "failed" -> Fails(p, Current(p).error)
                   [] OTHER                    -> Goto(p, "read")
           \/ Lost(p, "unsure")
     \/ Lost(p, "unsure") /\ UNCHANGED plans
  /\ UNCHANGED <<spec, live, cas, uploads, promotes>>

\* The first read of the operation is sent once.
ReadOperation(p) ==
  /\ at(p, "read")
  /\ \/ Goto(p, "poll") /\ faults' = faults
     \/ LostOnce(p, "unread")
  /\ UNCHANGED <<spec, gateway, promotes>>

\* Mutant: no limit on the polls.
TimesOutNever(p) == FALSE

\* A poll that finds the operation still running after COMMIT_POLL_TIMEOUT_MS.
TimesOut(p) == Current(p).op \in {"running", "pending"}

Poll(p) ==
  /\ at(p, "poll")
  /\ \/ Current(p).op = "ready" /\ Ends(p, "ready") /\ faults' = faults
     \/ Current(p).op = "failed" /\ Fails(p, Current(p).error) /\ faults' = faults
     \/ Current(p).op = "static" /\ Ends(p, "activation") /\ faults' = faults
     \/ TimesOut(p) /\ Ends(p, "timeout") /\ faults' = faults
     \/ Lost(p, "unread")
  /\ UNCHANGED <<spec, gateway, promotes>>

-----------------------------------------------------------------------------
(* The gateway.                                                             *)

Operation(p, a, plan) == plans' = [plans EXCEPT ![p][a] = plan]

\* What an operation runs of its migrations is what the registry lacks.
Migrated(p, a) == [plans[p][a] EXCEPT !.ran = @ \cup Unapplied(p)]

\* Migrations run before the activation, which compares the base with the live
\* release; a commit may also be refused before them.
Activate(p, a) ==
  /\ plans[p][a].op = "running"
  /\ IF plans[p][a].base = live
     THEN /\ Operation(p, a, [Migrated(p, a) EXCEPT !.op = "ready"])
          /\ live' = <<p, a>>
     ELSE /\ \E plan \in {plans[p][a], Migrated(p, a)} :
               Operation(p, a, [plan EXCEPT !.op = "failed", !.error = "conflict"])
          /\ UNCHANGED live
  /\ UNCHANGED <<spec, cas, uploads, proc, result, faults, promotes>>

\* The task is replaced mid-commit, or a phase fails, before or after the
\* migrations: nothing is activated.
Break(p, a) ==
  /\ faults < MaxFaults /\ faults' = faults + 1
  /\ plans[p][a].op = "running"
  /\ \E plan \in {plans[p][a], Migrated(p, a)}, e \in {"interrupted", "broken"} :
       Operation(p, a, [plan EXCEPT !.op = "failed", !.error = e])
  /\ UNCHANGED <<spec, live, cas, uploads, proc, result, promotes>>

\* The migrations are in, and the activation waits for a resume, with an error that
\* may pass or a static one.
Stall(p, a) ==
  /\ faults < MaxFaults /\ faults' = faults + 1
  /\ plans[p][a].op = "running"
  /\ \E to \in {"pending", "static"} : Operation(p, a, [Migrated(p, a) EXCEPT !.op = to])
  /\ UNCHANGED <<spec, live, cas, uploads, proc, result, promotes>>

Resume(p, a) ==
  /\ plans[p][a].op \in {"pending", "static"}
  /\ Operation(p, a, [plans[p][a] EXCEPT !.op = "running"])
  /\ UNCHANGED <<spec, live, cas, uploads, proc, result, faults, promotes>>

\* A rehearsal reports, or its task is stopped.
RehearsalEnds(p, a) ==
  /\ plans[p][a].rehearsal = "running"
  /\ \/ \E r \in {"passed", "failed"} :
           Operation(p, a, [plans[p][a] EXCEPT !.rehearsal = r]) /\ faults' = faults
     \/ /\ faults < MaxFaults /\ faults' = faults + 1
        /\ \E r \in {"interrupted", "broken"} : Operation(p, a, [plans[p][a] EXCEPT !.rehearsal = r])
  /\ UNCHANGED <<spec, live, cas, uploads, proc, result, promotes>>

\* promote(): an earlier release is live again.
Promote ==
  /\ promotes < MaxPromotes /\ promotes' = promotes + 1
  /\ \E p \in Calls, a \in Attempts :
       /\ plans[p][a].op = "ready" /\ live # <<p, a>>
       /\ live' = <<p, a>>
  /\ UNCHANGED <<spec, plans, cas, uploads, proc, result, faults>>

-----------------------------------------------------------------------------

Step(p) ==
  \/ MakePlan(p) \/ OpenUpload(p) \/ PutFile(p) \/ Finalize(p) \/ Rehearse(p) \/ PollRehearsal(p)
  \/ Commit(p) \/ ReadOperation(p) \/ Poll(p)

Gateway(p, a) ==
  Activate(p, a) \/ Break(p, a) \/ Stall(p, a) \/ Resume(p, a) \/ RehearsalEnds(p, a)

Next ==
  \/ \E p \in Calls : Pin(p) \/ Step(p)
  \/ \E p \in Calls, a \in Attempts : Gateway(p, a)
  \/ Promote

\* A call runs on; an operation need not get anywhere.
Spec == Init /\ [][Next]_vars /\ \A p \in Calls : WF_vars(Step(p))

-----------------------------------------------------------------------------
(* Properties.                                                              *)

Activated(p) == {a \in Attempts : plans[p][a].op = "ready"}

\* However many requests are lost and attempts made, one apply() activates one
\* release: no attempt is started while an earlier one may still take effect.
AppliedOnce == \A p \in Calls : \A a, b \in Activated(p) : a = b

\* What apply() reports is so, and stays so: after "ready" its release is active,
\* and after an error that says nothing was activated, no attempt of it ever is.
ReportIsTrue ==
  \A p \in Calls :
    /\ result[p] = "ready" => proc[p].attempt \in Activated(p)
    /\ result[p] \in Errors \cup {"network", "upload", "rehearsal", "slow"} => Activated(p) = {}

\* Unless its caller said noRehearse, brought a reviewed plan or is a CI session, a
\* call runs migrations on a project whose live release it was planned over only
\* after that very plan passed a rehearsal: also in a second attempt, and when the
\* operation then fails.  That all migrations were applied when the plan was made
\* is a reason to skip that stays true.
RehearsedOrFirst ==
  \A p \in Calls : \A a \in Attempts :
    spec[p].rehearse = "auto" /\ plans[p][a].base # None /\ plans[p][a].ran # {}
      => plans[p][a].rehearsal = "passed"

\* A plan is committed when the gateway holds all its content, whatever was lost on
\* the way and whoever uploaded it.
ContentBeforeCommit ==
  \A p \in Calls : \A a \in Attempts : plans[p][a].op # "planned" => spec[p].files \subseteq cas

\* Each conflict of a call that follows the current release is due to an activation
\* or a promotion of its own: a replan is over what is live then, so a call never
\* loses two attempts to one competitor.
ConflictsAreOthers ==
  \A p \in Calls : spec[p].base = "current" =>
    Cardinality({a \in Attempts : plans[p][a].error = "conflict"})
      <= Cardinality({q \in Calls \ {p} : Activated(q) # {}}) + promotes

\* Every apply() returns or throws, also when its operation stalls for ever.
EveryApplyEnds == \A p \in Calls : <>(result[p] # "none")
=============================================================================
