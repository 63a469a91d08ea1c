-------------------------- MODULE DeployApplyProofs --------------------------
(***************************************************************************)
(* Proofs about DeployApply: one release per call, true reports, rehearsed *)
(* and complete content, for any calls and specs and any number of         *)
(* attempts, sends and faults; and that every conflict has a cause of its  *)
(* own: Counts pays for each one with an activation or a promotion.        *)
(***************************************************************************)
EXTENDS DeployApply, FiniteSetTheorems, TLAPS

Places == {"plan", "open", "put", "finalize", "rehearse", "rehearsing", "commit", "read", "poll", "done"}
Before == {"plan", "open", "put", "finalize", "rehearse", "rehearsing"}
Place == [pc : Places, attempt : Attempts, sends : 0 .. Sends - 1, pin : Releases]
Upload == [want : SUBSET Files, staged : SUBSET Files]

Types ==
  /\ spec \in Specs
  /\ plans \in [Calls -> [Attempts -> Plan]]
  /\ live \in Releases /\ cas \in SUBSET Files
  /\ uploads \in [Calls -> Upload]
  /\ proc \in [Calls -> Place]
  /\ result \in [Calls -> Results \cup {"none"}]
  /\ faults \in 0 .. MaxFaults /\ promotes \in 0 .. MaxPromotes

\* Results that promise that nothing was activated.
Nothing == Errors \cup {"network", "upload", "rehearsal", "slow"}

\* Attempts come one after the other: an earlier one is over, a later one not begun.
Ordered(p) ==
  /\ \A a \in Attempts : a > proc[p].attempt => plans[p][a] = NoPlan
  /\ \A a \in Attempts : a < proc[p].attempt => plans[p][a].op \in {"planned", "failed"}
  /\ proc[p].pc \in Before => Current(p).op = "planned"
  /\ proc[p].pc # "done" => result[p] = "none"
  /\ result[p] \in Nothing => Current(p).op \in {"planned", "failed"}
  /\ result[p] = "ready" => Current(p).op = "ready"
  /\ \A a \in Attempts : plans[p][a].op = "failed" => plans[p][a].error \in Errors
  /\ \A a \in Attempts : plans[p][a].op # "planned" => plans[p][a].made
  /\ proc[p].pc \notin {"plan", "done"} => Current(p).made

\* What may be committed: what was rehearsed, or needs or gets no rehearsal.
Cleared(p, plan) ==
  \/ plan.rehearsal \in {"none", "passed"}
  \/ plan.rehearsal = "available" /\ (spec[p].rehearse \in {"disabled", "reviewed"} \/ plan.fresh = {})

\* A plan over a live release offers a rehearsal of its migrations.
Offered(p, plan) ==
  spec[p].migrations # {} /\ spec[p].rehearse # "ci" => plan.rehearsal # "none"

Rehearsed(p) ==
  /\ live = None => proc[p].pin = None
  /\ \A a \in Attempts : /\ plans[p][a].base # None => Offered(p, plans[p][a])
                         /\ plans[p][a].op # "planned" => Cleared(p, plans[p][a])
  /\ proc[p].pc \in {"open", "put", "finalize", "rehearse"} => Current(p).rehearsal \in {"none", "available"}
  /\ proc[p].pc \in {"commit", "read", "poll"} => Cleared(p, Current(p))

\* Where the content of a spec is, as the upload goes on.
Stocked(p) ==
  /\ proc[p].pc = "open"     => spec[p].files \subseteq cas \cup Current(p).missing
  /\ proc[p].pc = "put"      => spec[p].files \subseteq cas \cup uploads[p].want
  /\ proc[p].pc = "finalize" => spec[p].files \subseteq cas \cup uploads[p].staged
  /\ proc[p].pc \in {"rehearse", "rehearsing", "commit", "read", "poll"} => spec[p].files \subseteq cas
  /\ \A a \in Attempts : plans[p][a].op # "planned" => spec[p].files \subseteq cas

Sound(p) == Ordered(p) /\ Rehearsed(p) /\ Stocked(p)
IInv == Types /\ \A p \in Calls : Sound(p)
-----------------------------------------------------------------------------
(* What the operators do.                                                  *)

LEMMA FirstAttempt == 1 \in Attempts /\ 0 \in 0 .. Sends - 1 /\ 0 \in 0 .. MaxFaults /\ 0 \in 0 .. MaxPromotes
  BY ApplyAssumption DEF ApplyAssumption, Attempts

LEMMA NoPlanType == NoPlan \in Plan
  BY DEF NoPlan, Plan, Releases

LEMMA OnePlan ==
  ASSUME plans \in [Calls -> [Attempts -> Plan]], NEW p \in Calls, NEW a \in Attempts, NEW new \in Plan,
         plans' = [plans EXCEPT ![p][a] = new]
  PROVE  /\ plans' \in [Calls -> [Attempts -> Plan]]
         /\ plans'[p][a] = new
         /\ \A b \in Attempts \ {a} : plans'[p][b] = plans[p][b]
         /\ \A q \in Calls \ {p} : plans'[q] = plans[q]
  OBVIOUS

\* The place of one call changes; its attempt and its pin are given.
Moved(p, l, a, pin) ==
  /\ proc' \in [Calls -> Place]
  /\ proc'[p].pc = l /\ proc'[p].attempt = a /\ proc'[p].pin = pin
  /\ \A q \in Calls \ {p} : proc'[q] = proc[q]

Ended(p, r) ==
  /\ Moved(p, "done", proc[p].attempt, proc[p].pin)
  /\ result' \in [Calls -> Results \cup {"none"}]
  /\ result'[p] = r
  /\ \A q \in Calls \ {p} : result'[q] = result[q]

LEMMA GotoMoves ==
  ASSUME Types, NEW p \in Calls, NEW l \in Places, Goto(p, l)
  PROVE  Moved(p, l, proc[p].attempt, proc[p].pin) /\ result' = result
  BY FirstAttempt, ZenonT(60) DEF Types, Goto, Moved, Place

LEMMA EndsMoves ==
  ASSUME Types, NEW p \in Calls, NEW r \in Results, Ends(p, r) PROVE Ended(p, r)
  BY FirstAttempt, ZenonT(60) DEF Types, Ends, Ended, Moved, Place, Places

LEMMA LostMoves ==
  ASSUME Types, NEW p \in Calls, NEW r \in Results, Lost(p, r)
  PROVE  /\ faults' \in 0 .. MaxFaults
         /\ \/ Moved(p, proc[p].pc, proc[p].attempt, proc[p].pin) /\ result' = result
            \/ Ended(p, r)
  <1>1. faults' \in 0 .. MaxFaults
    BY ApplyAssumption DEF ApplyAssumption, Types, Lost
  <1>2. CASE proc[p].sends + 1 < Sends
    <2>1. proc' = [proc EXCEPT ![p].sends = @ + 1] /\ result' = result
      BY <1>2 DEF Lost
    <2>2. proc[p] \in Place
      BY DEF Types
    <2>3. proc[p].sends + 1 \in 0 .. Sends - 1
      BY <1>2, <2>2, ApplyAssumption DEF ApplyAssumption, Place
    <2>4. Moved(p, proc[p].pc, proc[p].attempt, proc[p].pin)
      BY <2>1, <2>2, <2>3 DEF Types, Moved, Place
    <2>5. QED
      BY <1>1, <2>1, <2>4
  <1>3. CASE ~(proc[p].sends + 1 < Sends)
    BY <1>1, <1>3, EndsMoves DEF Lost
  <1>4. QED
    BY <1>2, <1>3

LEMMA LostOnceMoves ==
  ASSUME Types, NEW p \in Calls, NEW r \in Results, LostOnce(p, r)
  PROVE  faults' \in 0 .. MaxFaults /\ Ended(p, r)
  BY EndsMoves, ApplyAssumption DEF ApplyAssumption, Types, LostOnce

LEMMA FailsMoves ==
  ASSUME Types, NEW p \in Calls, NEW e \in Errors, Fails(p, e)
  PROVE  \/ /\ proc[p].attempt + 1 \in Attempts
            /\ Moved(p, "plan", proc[p].attempt + 1, proc[p].pin) /\ result' = result
         \/ Ended(p, e)
  <1>1. CASE SafeToRetry(p, e) /\ proc[p].attempt <= MaxRetries
    <2>1. /\ proc' = [proc EXCEPT ![p].pc = "plan", ![p].attempt = @ + 1, ![p].sends = 0]
          /\ result' = result
      BY <1>1 DEF Fails
    <2>2. proc[p] \in Place
      BY DEF Types
    <2>3. proc[p].attempt + 1 \in Attempts
      BY <1>1, <2>2, ApplyAssumption DEF ApplyAssumption, Place, Attempts
    <2>4. Moved(p, "plan", proc[p].attempt + 1, proc[p].pin)
      BY <2>1, <2>2, <2>3, FirstAttempt DEF Types, Moved, Place, Places
    <2>5. QED
      BY <2>1, <2>3, <2>4
  <1>2. CASE ~(SafeToRetry(p, e) /\ proc[p].attempt <= MaxRetries)
    BY <1>2, EndsMoves DEF Fails, Results
  <1>3. QED
    BY <1>1, <1>2

\* A call that a step leaves alone stays sound.
LEMMA Bystander ==
  ASSUME NEW q \in Calls, Sound(q), spec' = spec, plans'[q] = plans[q], proc'[q] = proc[q],
         result'[q] = result[q], uploads'[q] = uploads[q], cas \subseteq cas',
         live' = live \/ live' # None
  PROVE  Sound(q)'
  <1>1. Ordered(q)'
    BY DEF Sound, Ordered, Current
  <1>2. Rehearsed(q)'
    BY DEF Sound, Rehearsed, Offered, Cleared, Current
  <1>3. Stocked(q)'
    BY DEF Sound, Stocked, Current
  <1>4. QED
    BY <1>1, <1>2, <1>3 DEF Sound

LEMMA Joined ==
  ASSUME IInv, NEW p \in Calls, Types', Sound(p)', spec' = spec, cas \subseteq cas',
         live' = live \/ live' # None,
         \A q \in Calls \ {p} : /\ plans'[q] = plans[q] /\ proc'[q] = proc[q]
                                /\ result'[q] = result[q] /\ uploads'[q] = uploads[q]
  PROVE  IInv'
  BY Bystander DEF IInv

\* A call that ends, or sends again, with the plans as they are.
LEMMA EndIsSound ==
  ASSUME Types, NEW p \in Calls, Sound(p), NEW r \in Results, Ended(p, r),
         r \in Nothing => Current(p).op \in {"planned", "failed"},
         r = "ready" => Current(p).op = "ready",
         spec' = spec, plans' = plans, live' = live, cas \subseteq cas'
  PROVE  Sound(p)'
  <1>1. proc'[p].pc = "done" /\ proc'[p].attempt = proc[p].attempt /\ proc'[p].pin = proc[p].pin /\ result'[p] = r
    BY DEF Ended, Moved
  <1>2. Ordered(p)'
    BY <1>1 DEF Sound, Ordered, Current, Before
  <1>3. Rehearsed(p)'
    BY <1>1 DEF Sound, Rehearsed, Offered, Cleared, Current
  <1>4. Stocked(p)'
    BY <1>1 DEF Sound, Stocked, Current
  <1>5. QED
    BY <1>2, <1>3, <1>4 DEF Sound

LEMMA StayIsSound ==
  ASSUME Types, NEW p \in Calls, Sound(p), Moved(p, proc[p].pc, proc[p].attempt, proc[p].pin),
         result' = result, spec' = spec, plans' = plans, live' = live, cas \subseteq cas', uploads' = uploads
  PROVE  Sound(p)'
  <1>1. proc'[p].pc = proc[p].pc /\ proc'[p].attempt = proc[p].attempt /\ proc'[p].pin = proc[p].pin
    BY DEF Moved
  <1>2. Ordered(p)'
    BY <1>1 DEF Sound, Ordered, Current, Before
  <1>3. Rehearsed(p)'
    BY <1>1 DEF Sound, Rehearsed, Offered, Cleared, Current
  <1>4. Stocked(p)'
    BY <1>1 DEF Sound, Stocked, Current
  <1>5. QED
    BY <1>2, <1>3, <1>4 DEF Sound

LEMMA LostIsSound ==
  ASSUME Types, NEW p \in Calls, Sound(p), NEW r \in Results, Lost(p, r),
         r \in Nothing => Current(p).op \in {"planned", "failed"}, r # "ready",
         spec' = spec, plans' = plans, live' = live, cas \subseteq cas', uploads' = uploads
  PROVE  Sound(p)'
  BY LostMoves, EndIsSound, StayIsSound

LEMMA FailIsSound ==
  ASSUME Types, NEW p \in Calls, Sound(p), NEW e \in Errors, Fails(p, e), proc[p].pc # "done",
         Current(p).op \in {"planned", "failed"},
         spec' = spec, plans' = plans, live' = live, cas \subseteq cas'
  PROVE  Sound(p)'
  <1>1. CASE /\ proc[p].attempt + 1 \in Attempts
             /\ Moved(p, "plan", proc[p].attempt + 1, proc[p].pin) /\ result' = result
    <2>1. /\ proc'[p].pc = "plan" /\ proc'[p].attempt = proc[p].attempt + 1 /\ proc'[p].pin = proc[p].pin
          /\ result'[p] = "none" /\ proc[p].attempt \in Nat
      BY <1>1 DEF Moved, Types, Place, Attempts, Sound, Ordered
    <2>2. Current(p)' = NoPlan
      BY <1>1, <2>1 DEF Sound, Ordered, Current, Attempts
    <2>3. \A a \in Attempts : a < proc[p].attempt + 1 => plans[p][a].op \in {"planned", "failed"}
      BY <2>1 DEF Sound, Ordered, Current, Attempts
    <2>4. \A a \in Attempts : a > proc[p].attempt + 1 => plans[p][a] = NoPlan
      BY <2>1 DEF Sound, Ordered, Attempts
    <2>a. Current(p)'.op = "planned" /\ "none" \notin Nothing
      BY <2>2 DEF NoPlan, Nothing, Errors
    <2>b. \A a \in Attempts : plans[p][a].op = "failed" => plans[p][a].error \in Errors
      BY DEF Sound, Ordered
    <2>c. \A a \in Attempts : plans'[p][a].op # "planned" => plans'[p][a].made
      BY DEF Sound, Ordered
    <2>5. Ordered(p)'
      BY <2>1, <2>3, <2>4, <2>a, <2>b, <2>c DEF Ordered
    <2>6. Rehearsed(p)'
      BY <2>1 DEF Sound, Rehearsed, Offered, Cleared
    <2>7. Stocked(p)'
      BY <2>1 DEF Sound, Stocked
    <2>8. QED
      BY <2>5, <2>6, <2>7 DEF Sound
  <1>2. CASE Ended(p, e)
    BY <1>2, EndIsSound DEF Results, Errors
  <1>3. QED
    BY <1>1, <1>2, FailsMoves

\* The ways on from a place, with the plans as they are.
LEMMA GoKept ==
  ASSUME IInv, NEW p \in Calls, NEW l \in Places \ {"open", "done"}, Goto(p, l), proc[p].pc \notin {"plan", "done"},
         l \in Before => Current(p).op = "planned",
         l \in {"put", "finalize", "rehearse"} => Current(p).rehearsal \in {"none", "available"},
         l \in {"commit", "read", "poll"} => Cleared(p, Current(p)),
         l = "put" => spec[p].files \subseteq cas' \cup uploads'[p].want,
         l = "finalize" => spec[p].files \subseteq cas' \cup uploads'[p].staged,
         l \in {"rehearse", "rehearsing", "commit", "read", "poll"} => spec[p].files \subseteq cas',
         UNCHANGED <<spec, plans, live, promotes, faults>>, cas' \in SUBSET Files, cas \subseteq cas',
         uploads' \in [Calls -> Upload], \A q \in Calls \ {p} : uploads'[q] = uploads[q]
  PROVE  IInv'
  <1>1. Types /\ Sound(p) /\ result[p] = "none"
    BY DEF IInv, Sound, Ordered
  <1>2. Moved(p, l, proc[p].attempt, proc[p].pin) /\ result' = result
    BY <1>1, GotoMoves
  <1>3. Types'
    BY <1>1, <1>2 DEF Types, Moved
  <1>4. proc'[p].pc = l /\ proc'[p].attempt = proc[p].attempt /\ proc'[p].pin = proc[p].pin
    BY <1>2 DEF Moved
  <1>5. Ordered(p)'
    BY <1>1, <1>2, <1>4 DEF Sound, Ordered, Current, Nothing, Errors
  <1>6. Rehearsed(p)'
    BY <1>1, <1>4 DEF Sound, Rehearsed, Offered, Cleared, Current
  <1>7. Stocked(p)'
    BY <1>1, <1>4 DEF Sound, Stocked, Current
  <1>8. Sound(p)'
    BY <1>5, <1>6, <1>7 DEF Sound
  <1>9. QED
    BY <1>2, <1>3, <1>8, Joined DEF Moved

LEMMA LostKept ==
  ASSUME IInv, NEW p \in Calls, NEW r \in Results, Lost(p, r) \/ LostOnce(p, r),
         r \in Nothing => Current(p).op \in {"planned", "failed"}, r # "ready",
         UNCHANGED <<spec, plans, live, uploads, promotes>>, cas' \in SUBSET Files, cas \subseteq cas'
  PROVE  IInv'
  <1>1. Types /\ Sound(p)
    BY DEF IInv
  <1>2. /\ faults' \in 0 .. MaxFaults
        /\ \/ Moved(p, proc[p].pc, proc[p].attempt, proc[p].pin) /\ result' = result
           \/ Ended(p, r)
    BY <1>1, LostMoves, LostOnceMoves
  <1>3. Types'
    BY <1>1, <1>2 DEF Types, Moved, Ended
  <1>4. Sound(p)'
    BY <1>1, <1>2, EndIsSound, StayIsSound
  <1>5. QED
    BY <1>2, <1>3, <1>4, Joined DEF Moved, Ended

LEMMA EndKept ==
  ASSUME IInv, NEW p \in Calls, NEW r \in Results, Ends(p, r),
         r \in Nothing => Current(p).op \in {"planned", "failed"},
         r = "ready" => Current(p).op = "ready",
         UNCHANGED <<spec, gateway, promotes, faults>>
  PROVE  IInv'
  <1>1. Types /\ Sound(p) /\ UNCHANGED <<plans, live, cas, uploads>>
    BY DEF IInv, gateway
  <1>2. Ended(p, r)
    BY <1>1, EndsMoves
  <1>3. Types'
    BY <1>1, <1>2 DEF Types, Moved, Ended
  <1>4. Sound(p)'
    BY <1>1, <1>2, EndIsSound
  <1>5. QED
    BY <1>1, <1>2, <1>3, <1>4, Joined DEF Moved, Ended

LEMMA FailKept ==
  ASSUME IInv, NEW p \in Calls, NEW e \in Errors, Fails(p, e), proc[p].pc # "done",
         Current(p).op \in {"planned", "failed"}, faults' \in 0 .. MaxFaults,
         UNCHANGED <<spec, gateway, promotes>>
  PROVE  IInv'
  <1>1. Types /\ Sound(p) /\ UNCHANGED <<plans, live, cas, uploads>>
    BY DEF IInv, gateway
  <1>2. \/ Moved(p, "plan", proc[p].attempt + 1, proc[p].pin) /\ result' = result
        \/ Ended(p, e)
    BY <1>1, FailsMoves
  <1>3. Types'
    BY <1>1, <1>2 DEF Types, Moved, Ended
  <1>4. Sound(p)'
    BY <1>1, FailIsSound
  <1>5. QED
    BY <1>1, <1>2, <1>3, <1>4, Joined DEF Moved, Ended
-----------------------------------------------------------------------------
(* The steps of a call.                                                    *)

LEMMA PinKept == ASSUME IInv, NEW p \in Calls, Pin(p) PROVE IInv'
  <1>1. Types /\ Sound(p)
    BY DEF IInv
  <1>2. proc' = [proc EXCEPT ![p].pin = live] /\ UNCHANGED <<spec, gateway, result, faults, promotes>>
    BY DEF Pin
  <1>3. Moved(p, proc[p].pc, proc[p].attempt, live)
    BY <1>1, <1>2 DEF Types, Moved, Place
  <1>4. Types'
    BY <1>1, <1>2, <1>3 DEF Types, Moved, gateway
  <1>5. Sound(p)'
    <2>1. Ordered(p)'
      BY <1>1, <1>2, <1>3 DEF Moved, Sound, Ordered, Current, gateway
    <2>2. Rehearsed(p)'
      BY <1>1, <1>2, <1>3 DEF Moved, Sound, Rehearsed, Offered, Cleared, Current, gateway
    <2>3. Stocked(p)'
      BY <1>1, <1>2, <1>3 DEF Moved, Sound, Stocked, Current, gateway
    <2>4. QED
      BY <2>1, <2>2, <2>3 DEF Sound
  <1>6. QED
    BY <1>2, <1>3, <1>4, <1>5, Joined DEF Moved, gateway

LEMMA MakePlanKept == ASSUME IInv, NEW p \in Calls, MakePlan(p) PROVE IInv'
  <1> DEFINE new == NewPlan(p)
             a == proc[p].attempt
  <1>1. Types /\ Sound(p) /\ proc[p].pc = "plan"
    BY DEF IInv, MakePlan, at
  <1>2. /\ a \in Attempts /\ proc[p].pin \in Releases /\ proc[p].pin \in Releases
        /\ spec[p].files \subseteq Files /\ UNCHANGED <<spec, live, cas, uploads, promotes>>
    BY <1>1, ApplyAssumption DEF ApplyAssumption, Request, Types, Place, MakePlan
  <1>3. /\ new.op = "planned" /\ new.made /\ new.error = None
        /\ new.base = BaseOf(p) /\ new.missing = spec[p].files \ cas
        /\ new.rehearsal = Envelope(p) /\ new.rehearsal \in {"none", "available"}
        /\ new \in Plan
    <2>2. BaseOf(p) \in Releases
      BY <1>1, <1>2 DEF BaseOf, Types
    <2>3. Unapplied(p) \in SUBSET Migrations /\ Envelope(p) \in {"none", "available"}
      BY <1>1, ApplyAssumption DEF ApplyAssumption, Request, Types, Unapplied, Envelope
    <2>4. QED
      BY <1>2, <2>2, <2>3 DEF NewPlan, Plan, Releases
  <1> HIDE DEF new
  <1>4. ASSUME LostOnce(p, "network"), UNCHANGED plans PROVE IInv'
    <2>1. Ended(p, "network") /\ faults' \in 0 .. MaxFaults
      BY <1>1, <1>4, LostOnceMoves DEF Results
    <2>2. Types'
      BY <1>1, <1>2, <1>4, <2>1 DEF Types, Ended, Moved
    <2>3. Current(p).op = "planned"
      BY <1>1 DEF Sound, Ordered, Before
    <2>4. Sound(p)'
      BY <1>1, <1>2, <1>4, <2>1, <2>3, EndIsSound DEF Results
    <2>5. QED
      BY <1>2, <1>4, <2>1, <2>2, <2>4, Joined DEF Ended, Moved
  <1>5. ASSUME SetPlan(p, new),
               \/ /\ Goto(p, IF spec[p].files \ cas # {} THEN "open" ELSE "rehearse")
                  /\ faults' = faults
               \/ LostOnce(p, "network")
        PROVE  IInv'
    <2>1. /\ plans' \in [Calls -> [Attempts -> Plan]]
          /\ plans'[p][a] = new
          /\ \A b \in Attempts \ {a} : plans'[p][b] = plans[p][b]
          /\ \A q \in Calls \ {p} : plans'[q] = plans[q]
      BY <1>1, <1>2, <1>3, <1>5, OnePlan DEF SetPlan, Types
    <2>2. \/ /\ Moved(p, IF spec[p].files \ cas # {} THEN "open" ELSE "rehearse", a, proc[p].pin)
             /\ result' = result /\ faults' = faults
          \/ Ended(p, "network") /\ faults' \in 0 .. MaxFaults
      BY <1>1, <1>5, GotoMoves, LostOnceMoves DEF Places, Results
    <2>3. Types'
      BY <1>1, <1>2, <2>1, <2>2 DEF Types, Ended, Moved
    <2>4. /\ proc'[p].attempt = a /\ proc'[p].pin = proc[p].pin
          /\ \/ /\ proc'[p].pc = IF spec[p].files \ cas # {} THEN "open" ELSE "rehearse"
                /\ result'[p] = "none"
             \/ proc'[p].pc = "done" /\ result'[p] = "network"
      BY <1>1, <2>2 DEF Ended, Moved, Sound, Ordered
    <2>5. Ordered(p)'
      BY <1>1, <1>2, <1>3, <2>1, <2>4 DEF Sound, Ordered, Current, Before, Nothing, Errors, Attempts
    <2>6. Rehearsed(p)'
      <3>1. new.base # None => Offered(p, new)
        BY <1>1, <1>3 DEF BaseOf, Envelope, Sound, Rehearsed, Offered
      <3>2. QED
        BY <1>1, <1>2, <1>3, <2>1, <2>4, <3>1 DEF Sound, Rehearsed, Offered, Cleared, Current
    <2>7. Stocked(p)'
      BY <1>1, <1>2, <1>3, <2>1, <2>4 DEF Sound, Stocked, Current
    <2>8. Sound(p)'
      BY <2>5, <2>6, <2>7 DEF Sound
    <2>9. QED
      BY <1>2, <2>1, <2>2, <2>3, <2>8, Joined DEF Ended, Moved
  <1>6. ASSUME Ends(p, "broken"), UNCHANGED <<plans, faults>> PROVE IInv'
    BY <1>1, <1>2, <1>6, EndKept DEF Results, Errors, Sound, Ordered, Before, gateway
  <1>7. QED
    BY <1>4, <1>5, <1>6 DEF MakePlan, new

LEMMA UploadKept ==
  ASSUME IInv, NEW p \in Calls, OpenUpload(p) \/ PutFile(p) \/ Finalize(p) PROVE IInv'
  <1>1. Types /\ Sound(p)
    BY DEF IInv
  <1>2. /\ Current(p) \in Plan /\ uploads[p] \in Upload /\ spec[p].files \subseteq Files
        /\ UNCHANGED <<spec, plans, live, promotes>>
    BY <1>1, ApplyAssumption DEF ApplyAssumption, Request, Types, Place, Current, OpenUpload, PutFile, Finalize
  <1>3. /\ Current(p).op = "planned" /\ proc[p].pc \in {"open", "put", "finalize"}
        /\ Current(p).rehearsal \in {"none", "available"}
    BY <1>1 DEF Sound, Ordered, Rehearsed, Before, OpenUpload, PutFile, Finalize, at
  <1>4. CASE OpenUpload(p)
    <2>1. CASE Lost(p, "network") /\ UNCHANGED uploads
      BY <1>2, <1>3, <1>4, <2>1, LostKept DEF OpenUpload, Results, Types, IInv
    <2>2. CASE /\ uploads' = [uploads EXCEPT ![p] = [NoUpload EXCEPT !.want = Current(p).missing \ cas]]
               /\ Goto(p, "put") /\ faults' = faults
      <3>1. [NoUpload EXCEPT !.want = Current(p).missing \ cas]
              = [want |-> Current(p).missing \ cas, staged |-> {}]
        BY DEF NoUpload
      <3>2. Current(p).missing \ cas \in SUBSET Files
        BY <1>2 DEF Plan
      <3>3. /\ uploads' \in [Calls -> Upload] /\ uploads'[p].want = Current(p).missing \ cas
            /\ \A q \in Calls \ {p} : uploads'[q] = uploads[q]
        BY <1>1, <2>2, <3>1, <3>2 DEF Types, Upload
      <3>4. cas' = cas /\ cas \in SUBSET Files
        BY <1>1, <1>4 DEF OpenUpload, Types
      <3>5. spec[p].files \subseteq cas' \cup uploads'[p].want
        BY <1>1, <1>4, <3>3, <3>4 DEF OpenUpload, at, Sound, Stocked
      <3>6. QED
        BY <1>2, <1>3, <2>2, <3>3, <3>4, <3>5, GoKept DEF Places
    <2>3. QED
      BY <1>4, <2>1, <2>2 DEF OpenUpload
  <1>5. CASE PutFile(p)
    <2> DEFINE todo == uploads[p].want \ uploads[p].staged
    <2>0. cas' = cas /\ cas \in SUBSET Files /\ spec[p].files \subseteq cas \cup uploads[p].want
      BY <1>1, <1>5 DEF PutFile, at, Types, Sound, Stocked
    <2>1. CASE todo = {} /\ Goto(p, "finalize") /\ UNCHANGED <<uploads, faults>>
      BY <1>1, <1>2, <1>3, <2>0, <2>1, GoKept DEF Places, Types
    <2>2. CASE \E f \in todo : /\ uploads' = [uploads EXCEPT ![p].staged = @ \cup {f}]
                               /\ Goto(p, "put") /\ faults' = faults
      <3>1. PICK f \in todo : uploads' = [uploads EXCEPT ![p].staged = @ \cup {f}]
        BY <2>2
      <3>2. f \in Files
        BY <1>2 DEF Upload
      <3>3. /\ uploads' \in [Calls -> Upload] /\ uploads'[p].want = uploads[p].want
            /\ \A q \in Calls \ {p} : uploads'[q] = uploads[q]
        BY <1>1, <1>2, <3>1, <3>2 DEF Types, Upload
      <3>4. QED
        BY <1>2, <1>3, <2>0, <2>2, <3>3, GoKept DEF Places
    <2>3. CASE Lost(p, "upload") /\ UNCHANGED uploads
      BY <1>2, <1>3, <2>0, <2>3, LostKept DEF Results
    <2>4. QED
      BY <1>5, <2>1, <2>2, <2>3 DEF PutFile
  <1>6. CASE Finalize(p)
    <2>0. /\ UNCHANGED uploads /\ cas \in SUBSET Files /\ uploads[p].staged \in SUBSET Files
          /\ spec[p].files \subseteq cas \cup uploads[p].staged
      BY <1>1, <1>2, <1>6 DEF Finalize, at, Types, Upload, Sound, Stocked
    <2>1. CASE cas' = cas \cup uploads[p].staged /\ Goto(p, "rehearse") /\ faults' = faults
      <3>1. cas' \in SUBSET Files /\ cas \subseteq cas' /\ spec[p].files \subseteq cas'
        BY <2>0, <2>1
      <3>2. QED
        BY <1>1, <1>2, <1>3, <2>0, <2>1, <3>1, GoKept DEF Places, Types
    <2>2. CASE cas' \in {cas, cas \cup uploads[p].staged} /\ Lost(p, "network")
      BY <1>2, <1>3, <2>0, <2>2, LostKept DEF Results
    <2>3. CASE cas' = cas /\ faults < MaxFaults /\ faults' = faults + 1 /\ Fails(p, "interrupted")
      <3>1. faults' \in 0 .. MaxFaults /\ "interrupted" \in Errors
        BY <1>1, <2>3, ApplyAssumption DEF ApplyAssumption, Types, Errors
      <3>2. QED
        BY <1>2, <1>3, <2>0, <2>3, <3>1, FailKept DEF gateway
    <2>4. QED
      BY <1>6, <2>1, <2>2, <2>3 DEF Finalize
  <1>7. QED
    BY <1>4, <1>5, <1>6

LEMMA WaitKept ==
  ASSUME IInv, NEW p \in Calls, PollRehearsal(p) \/ ReadOperation(p) \/ Poll(p) PROVE IInv'
  <1>1. Types /\ Sound(p) /\ Current(p) \in Plan
    BY DEF IInv, Types, Place, Current
  <1>2. /\ UNCHANGED <<spec, plans, live, uploads, promotes>> /\ cas' = cas /\ cas \in SUBSET Files
        /\ uploads \in [Calls -> Upload] /\ UNCHANGED gateway
    BY <1>1 DEF PollRehearsal, ReadOperation, Poll, gateway, Types
  <1>3. CASE PollRehearsal(p)
    <2>1. Current(p).op = "planned" /\ proc[p].pc = "rehearsing" /\ spec[p].files \subseteq cas
      BY <1>1, <1>3 DEF PollRehearsal, at, Sound, Ordered, Stocked, Before
    <2>2. CASE Current(p).rehearsal \in {"interrupted", "broken"} /\ Fails(p, Current(p).rehearsal) /\ faults' = faults
      <3>1. faults' \in 0 .. MaxFaults /\ Current(p).rehearsal \in Errors
        BY <1>1, <2>2 DEF Types, Errors
      <3>2. QED
        BY <1>2, <1>3, <2>1, <2>2, <3>1, FailKept DEF PollRehearsal
    <2>3. CASE Current(p).rehearsal = "passed" /\ Goto(p, "commit") /\ faults' = faults
      BY <1>2, <2>1, <2>3, GoKept DEF Places, Before, Cleared
    <2>4. QED
      BY <1>2, <1>3, <2>1, <2>2, <2>3, EndKept, LostKept DEF PollRehearsal, Results
  <1>4. CASE ReadOperation(p)
    <2>1. /\ proc[p].pc = "read" /\ spec[p].files \subseteq cas
          /\ Cleared(p, Current(p))
      BY <1>1, <1>4 DEF ReadOperation, at, Sound, Stocked, Rehearsed
    <2>2. QED
      BY <1>2, <1>4, <2>1, GoKept, LostKept DEF ReadOperation, Places, Before, Results, Nothing, Errors
  <1>5. CASE Poll(p)
    <2>1. proc[p].pc = "poll"
      BY <1>5 DEF Poll, at
    <2>2. CASE Current(p).op = "failed" /\ Fails(p, Current(p).error) /\ faults' = faults
      <3>1. Current(p).error \in Errors
        BY <1>1, <2>2 DEF Sound, Ordered, Current, Types, Place
      <3>2. faults' \in 0 .. MaxFaults
        BY <1>1, <2>2 DEF Types
      <3>3. QED
        BY <1>2, <1>5, <2>1, <2>2, <3>1, <3>2, FailKept DEF Poll
    <2>3. CASE Current(p).op = "ready" /\ Ends(p, "ready") /\ faults' = faults
      BY <1>2, <2>3, EndKept DEF Results, Nothing, Errors
    <2>4. CASE (Ends(p, "activation") \/ Ends(p, "timeout")) /\ faults' = faults
      BY <1>2, <2>4, EndKept DEF Results, Nothing, Errors
    <2>5. CASE Lost(p, "unread")
      BY <1>2, <2>5, LostKept DEF Results, Nothing, Errors
    <2>6. QED
      BY <1>5, <2>2, <2>3, <2>4, <2>5 DEF Poll
  <1>6. QED
    BY <1>3, <1>4, <1>5

\* A call changes the plan of its attempt and stays, goes on or ends.
LEMMA ChangedKept ==
  ASSUME IInv, NEW p \in Calls, NEW new \in Plan, SetPlan(p, new),
         new.base = Current(p).base, new.made = Current(p).made, new.fresh = Current(p).fresh,
         \/ /\ proc[p].pc = "rehearse" /\ new.op = "planned" /\ new.rehearsal = "running"
            /\ (Goto(p, "rehearsing") /\ faults' = faults) \/ LostOnce(p, "network")
         \/ /\ proc[p].pc = "commit" /\ new.op = "running" /\ new.rehearsal = Current(p).rehearsal
            /\ (Goto(p, "read") /\ faults' = faults) \/ Lost(p, "unsure"),
         UNCHANGED <<spec, live, cas, uploads, promotes>>
  PROVE  IInv'
  <1> DEFINE a == proc[p].attempt
  <1>1. Types /\ Sound(p) /\ a \in Attempts
    BY DEF IInv, Types, Place
  <1>2. /\ plans' \in [Calls -> [Attempts -> Plan]]
        /\ plans'[p][a] = new
        /\ \A b \in Attempts \ {a} : plans'[p][b] = plans[p][b]
        /\ \A q \in Calls \ {p} : plans'[q] = plans[q]
    BY <1>1, OnePlan DEF SetPlan, Types
  <1>3. /\ faults' \in 0 .. MaxFaults
        /\ \/ \E l \in {"rehearsing", "commit", "read"} : Moved(p, l, a, proc[p].pin) /\ result' = result
           \/ \E r \in {"network", "unsure"} : Ended(p, r)
    BY <1>1, GotoMoves, LostMoves, LostOnceMoves DEF Places, Results, Types
  <1>4. Types'
    BY <1>1, <1>2, <1>3 DEF Types, Moved, Ended
  <1>5. /\ proc'[p].attempt = a /\ proc'[p].pin = proc[p].pin
        /\ \/ /\ proc[p].pc = "rehearse" /\ new.op = "planned" /\ new.rehearsal = "running"
              /\ \/ proc'[p].pc = "rehearsing" /\ result'[p] = result[p]
                 \/ proc'[p].pc = "done" /\ result'[p] = "network"
           \/ /\ proc[p].pc = "commit" /\ new.op = "running" /\ new.rehearsal = Current(p).rehearsal
              /\ \/ proc'[p].pc \in {"commit", "read"} /\ result'[p] = result[p]
                 \/ proc'[p].pc = "done" /\ result'[p] = "unsure"
    BY <1>1, GotoMoves, LostMoves, LostOnceMoves DEF Places, Results, Moved, Ended
  <1>6. Ordered(p)'
    BY <1>1, <1>2, <1>5, SMTT(30) DEF Sound, Ordered, Current, Before, Nothing, Errors, Attempts
  <1>7. Rehearsed(p)'
    BY <1>1, <1>2, <1>5, SMTT(30) DEF Sound, Rehearsed, Offered, Cleared, Current
  <1>8. Stocked(p)'
    BY <1>1, <1>2, <1>5, SMTT(30) DEF Sound, Stocked, Current
  <1>9. Sound(p)'
    BY <1>6, <1>7, <1>8 DEF Sound
  <1>10. QED
    BY <1>2, <1>3, <1>4, <1>9, Joined DEF Moved, Ended

LEMMA RehearseKept == ASSUME IInv, NEW p \in Calls, Rehearse(p) PROVE IInv'
  <1>1. /\ Types /\ Sound(p) /\ Current(p) \in Plan
        /\ UNCHANGED <<spec, live, cas, uploads, promotes>> /\ proc[p].pc = "rehearse"
    BY DEF IInv, Types, Place, Current, Rehearse, at
  <1>2. /\ Current(p).op = "planned" /\ spec[p].files \subseteq cas
        /\ cas \in SUBSET Files /\ uploads \in [Calls -> Upload]
    BY <1>1 DEF Sound, Ordered, Stocked, Before, Types
  <1>3. CASE Skips(p) /\ Goto(p, "commit") /\ UNCHANGED <<plans, faults>>
    <2>1. Cleared(p, Current(p))
      BY <1>1, <1>3 DEF Skips, Sound, Rehearsed, Cleared
    <2>2. QED
      BY <1>1, <1>2, <1>3, <2>1, GoKept DEF Places, Before
  <1>4. CASE LostOnce(p, "network") /\ UNCHANGED plans
    BY <1>1, <1>2, <1>4, LostKept DEF Results
  <1>5. CASE /\ SetPlan(p, [Current(p) EXCEPT !.rehearsal = "running"])
             /\ (Goto(p, "rehearsing") /\ faults' = faults) \/ LostOnce(p, "network")
    <2> DEFINE new == [Current(p) EXCEPT !.rehearsal = "running"]
    <2>1. /\ new \in Plan /\ new.base = Current(p).base /\ new.made = Current(p).made
          /\ new.fresh = Current(p).fresh
          /\ new.op = "planned" /\ new.rehearsal = "running"
      BY <1>1, <1>2 DEF Plan
    <2>2. QED
      BY <1>1, <1>5, <2>1, ChangedKept
  <1>6. QED
    BY <1>3, <1>4, <1>5 DEF Rehearse

LEMMA CommitKept == ASSUME IInv, NEW p \in Calls, Commit(p) PROVE IInv'
  <1>1. /\ Types /\ Sound(p) /\ Current(p) \in Plan
        /\ UNCHANGED <<spec, live, cas, uploads, promotes>> /\ proc[p].pc = "commit"
    BY DEF IInv, Types, Place, Current, Commit, at
  <1>2. /\ spec[p].files \subseteq cas /\ Cleared(p, Current(p))
        /\ cas \in SUBSET Files /\ uploads \in [Calls -> Upload]
    BY <1>1 DEF Sound, Rehearsed, Stocked, Types
  <1>3. CASE Lost(p, "unsure") /\ UNCHANGED plans
    BY <1>1, <1>2, <1>3, LostKept DEF Results, Nothing, Errors
  <1>4. CASE /\ Current(p).op = "planned" /\ SetPlan(p, [Current(p) EXCEPT !.op = "running"])
             /\ (Goto(p, "read") /\ faults' = faults) \/ Lost(p, "unsure")
    <2> DEFINE new == [Current(p) EXCEPT !.op = "running"]
    <2>1. /\ new \in Plan /\ new.base = Current(p).base /\ new.made = Current(p).made
          /\ new.fresh = Current(p).fresh
          /\ new.op = "running" /\ new.rehearsal = Current(p).rehearsal
      BY <1>1 DEF Plan
    <2>2. QED
      BY <1>1, <1>4, <2>1, ChangedKept
  <1>5. CASE /\ UNCHANGED plans /\ faults' = faults
             /\ \/ Current(p).op = "ready" /\ Ends(p, "ready")
                \/ Current(p).op = "failed" /\ Fails(p, Current(p).error)
                \/ Goto(p, "read")
    <2>1. CASE Current(p).op = "ready" /\ Ends(p, "ready")
      BY <1>1, <1>2, <1>5, <2>1, EndKept DEF gateway, Results, Nothing, Errors
    <2>2. CASE Current(p).op = "failed" /\ Fails(p, Current(p).error)
      <3>1. Current(p).error \in Errors
        BY <1>1, <2>2 DEF Sound, Ordered, Current, Types, Place
      <3>2. faults' \in 0 .. MaxFaults
        BY <1>1, <1>5 DEF Types
      <3>3. QED
        BY <1>1, <1>5, <2>2, <3>1, <3>2, FailKept DEF gateway
    <2>3. CASE Goto(p, "read")
      BY <1>1, <1>2, <1>5, <2>3, GoKept DEF Places, Before
    <2>4. QED
      BY <1>5, <2>1, <2>2, <2>3
  <1>6. QED
    BY <1>1, <1>3, <1>4, <1>5 DEF Commit
-----------------------------------------------------------------------------
(* The steps of the gateway.                                               *)

\* An operation that was started is of the attempt its call is in, or ended in.
LEMMA StartedIsCurrent ==
  ASSUME IInv, NEW p \in Calls, NEW a \in Attempts, plans[p][a].op \notin {"planned", "failed", "ready"}
  PROVE  /\ a = proc[p].attempt /\ proc[p].pc \notin Before /\ result[p] \notin Nothing \cup {"ready"}
         /\ spec[p].files \subseteq cas /\ Cleared(p, plans[p][a]) /\ plans[p][a].made
  <1>1. Sound(p) /\ proc[p].attempt \in Attempts /\ plans[p][a] \in Plan
    BY DEF IInv, Types, Place
  <1>2. ~(a > proc[p].attempt)
    BY <1>1 DEF Sound, Ordered, NoPlan
  <1>3. ~(a < proc[p].attempt)
    BY <1>1 DEF Sound, Ordered
  <1>4. a = proc[p].attempt
    BY <1>1, <1>2, <1>3, ApplyAssumption DEF ApplyAssumption, Attempts
  <1>5. QED
    BY <1>1, <1>4 DEF Sound, Ordered, Rehearsed, Stocked, Current

LEMMA OperationKept ==
  ASSUME IInv, NEW p \in Calls, NEW a \in Attempts, NEW new \in Plan,
         plans[p][a].op \in {"running", "pending", "static"},
         plans' = [plans EXCEPT ![p][a] = new],
         new.op = "failed" => new.error \in Errors, new.op # "planned",
         new.base = plans[p][a].base, new.rehearsal = plans[p][a].rehearsal,
         new.made = plans[p][a].made, new.fresh = plans[p][a].fresh,
         UNCHANGED <<spec, cas, uploads, proc, result, promotes>>, faults' \in 0 .. MaxFaults,
         live' = live \/ live' = <<p, a>>
  PROVE  IInv'
  <1>1. Types /\ Sound(p) /\ proc[p].attempt \in Attempts
    BY DEF IInv, Types, Place
  <1>2. /\ plans' \in [Calls -> [Attempts -> Plan]]
        /\ plans'[p][a] = new
        /\ \A b \in Attempts \ {a} : plans'[p][b] = plans[p][b]
        /\ \A q \in Calls \ {p} : plans'[q] = plans[q]
    BY <1>1, OnePlan DEF Types
  <1>3. /\ a = proc[p].attempt /\ proc[p].pc \notin Before /\ result[p] \notin Nothing \cup {"ready"}
        /\ spec[p].files \subseteq cas /\ Cleared(p, plans[p][a]) /\ plans[p][a].made
    BY StartedIsCurrent
  <1>4. live' \in Releases /\ (live' = live \/ live' # None)
    BY <1>1, ApplyAssumption DEF ApplyAssumption, Types, Releases, Attempts
  <1>5. Types'
    BY <1>1, <1>2, <1>4 DEF Types
  <1>6. Ordered(p)'
    <2>1. Current(p)' = new /\ new.made
      BY <1>2, <1>3 DEF Current
    <2>2. /\ \A b \in Attempts : plans'[p][b].op # "planned" => plans'[p][b].made
          /\ \A b \in Attempts : plans'[p][b].op = "failed" => plans'[p][b].error \in Errors
      <3> SUFFICES ASSUME NEW b \in Attempts
                   PROVE  /\ plans'[p][b].op # "planned" => plans'[p][b].made
                          /\ plans'[p][b].op = "failed" => plans'[p][b].error \in Errors
        OBVIOUS
      <3>1. CASE b = a
        BY <1>2, <2>1, <3>1
      <3>2. CASE b # a
        BY <1>1, <1>2, <3>2 DEF Sound, Ordered
      <3> QED
        BY <3>1, <3>2
    <2>3. /\ \A b \in Attempts : b > proc[p].attempt => plans'[p][b] = NoPlan
          /\ \A b \in Attempts : b < proc[p].attempt => plans'[p][b].op \in {"planned", "failed"}
      <3> SUFFICES ASSUME NEW b \in Attempts
                   PROVE  /\ b > proc[p].attempt => plans'[p][b] = NoPlan
                          /\ b < proc[p].attempt => plans'[p][b].op \in {"planned", "failed"}
        OBVIOUS
      <3>1. CASE b = a
        BY <1>1, <1>3, <3>1, ApplyAssumption DEF ApplyAssumption, Attempts
      <3>2. CASE b # a
        BY <1>1, <1>2, <3>2 DEF Sound, Ordered
      <3> QED
        BY <3>1, <3>2
    <2>4. proc[p].pc # "done" => result[p] = "none"
      BY <1>1 DEF Sound, Ordered
    <2> QED
      BY <1>3, <2>1, <2>2, <2>3, <2>4, SMTT(30) DEF Ordered
  <1>7. Rehearsed(p)'
    <2>1. /\ Offered(p, new)' <=> Offered(p, plans[p][a])
          /\ Cleared(p, new)' <=> Cleared(p, plans[p][a])
      BY DEF Offered, Cleared
    <2>2. \A b \in Attempts \ {a} : /\ Offered(p, plans[p][b])' <=> Offered(p, plans[p][b])
                                    /\ Cleared(p, plans[p][b])' <=> Cleared(p, plans[p][b])
      BY <1>2 DEF Offered, Cleared
    <2>3. live' = None => proc'[p].pin = None
      BY <1>1, <1>4 DEF Sound, Rehearsed
    <2>4. \A b \in Attempts : /\ plans'[p][b].base # None => Offered(p, plans[p][b])'
                              /\ plans'[p][b].op # "planned" => Cleared(p, plans[p][b])'
      <3> SUFFICES ASSUME NEW b \in Attempts
                   PROVE  /\ plans'[p][b].base # None => Offered(p, plans[p][b])'
                          /\ plans'[p][b].op # "planned" => Cleared(p, plans[p][b])'
        OBVIOUS
      <3>1. CASE b = a
        BY <1>1, <1>2, <1>3, <2>1, <3>1 DEF Sound, Rehearsed
      <3>2. CASE b # a
        BY <1>1, <1>2, <2>2, <3>2 DEF Sound, Rehearsed
      <3> QED
        BY <3>1, <3>2
    <2>5. Current(p)' = new /\ proc'[p].pc \notin {"open", "put", "finalize", "rehearse"}
      BY <1>2, <1>3 DEF Current, Before
    <2>6. Cleared(p, Current(p))'
      BY <1>2, <1>3, <2>1, <2>5
    <2> QED
      BY <2>3, <2>4, <2>5, <2>6 DEF Rehearsed
  <1>8. Stocked(p)'
    BY <1>1, <1>2, <1>3 DEF Sound, Stocked, Current, Before
  <1>9. Sound(p)'
    BY <1>6, <1>7, <1>8 DEF Sound
  <1>10. QED
    BY <1>2, <1>4, <1>5, <1>9, Joined

\* How an operation leaves its plan: its state, and the migrations it ran.
LEMMA MigratedPlan ==
  ASSUME Types, NEW p \in Calls, NEW a \in Attempts, NEW plan \in {plans[p][a], Migrated(p, a)}
  PROVE  /\ plan \in Plan /\ plan.base = plans[p][a].base /\ plan.rehearsal = plans[p][a].rehearsal
         /\ plan.made = plans[p][a].made /\ plan.fresh = plans[p][a].fresh
         /\ plan.op = plans[p][a].op /\ plan.error = plans[p][a].error
         /\ plan.ran \in {plans[p][a].ran, plans[p][a].ran \cup Unapplied(p)}
  <1>1. plans[p][a] \in Plan /\ Unapplied(p) \subseteq Migrations
    BY ApplyAssumption DEF ApplyAssumption, Request, Types, Unapplied
  <1>2. QED
    BY <1>1 DEF Migrated, Plan

LEMMA GatewayKept ==
  ASSUME IInv, NEW p \in Calls, NEW a \in Attempts, Gateway(p, a) PROVE IInv'
  <1> DEFINE old == plans[p][a]
  <1>1. Types /\ Sound(p) /\ old \in Plan
    BY DEF IInv, Types
  <1>2. CASE Activate(p, a)
    <2>1. CASE old.base = live
      <3> DEFINE new == [Migrated(p, a) EXCEPT !.op = "ready"]
      <3>1. plans' = [plans EXCEPT ![p][a] = new] /\ live' = <<p, a>>
        BY <1>2, <2>1 DEF Activate, Operation
      <3>2. /\ new \in Plan /\ new.op = "ready" /\ new.base = old.base
            /\ new.rehearsal = old.rehearsal /\ new.made = old.made /\ new.fresh = old.fresh
        BY <1>1, MigratedPlan DEF Plan
      <3>3. QED
        BY <1>1, <1>2, <3>1, <3>2, OperationKept DEF Activate, Types
    <2>2. CASE old.base # live
      <3>1. PICK plan \in {old, Migrated(p, a)} :
              plans' = [plans EXCEPT ![p][a] = [plan EXCEPT !.op = "failed", !.error = "conflict"]]
        BY <1>2, <2>2 DEF Activate, Operation
      <3> DEFINE new == [plan EXCEPT !.op = "failed", !.error = "conflict"]
      <3>a. /\ plan \in Plan /\ plan.base = old.base /\ plan.rehearsal = old.rehearsal
            /\ plan.made = old.made /\ plan.fresh = old.fresh
        BY <1>1, MigratedPlan
      <3>2. /\ new \in Plan /\ new.op = "failed" /\ new.error \in Errors /\ new.base = old.base
            /\ new.rehearsal = old.rehearsal /\ new.made = old.made /\ new.fresh = old.fresh
        BY <3>a DEF Plan, Errors
      <3>3. QED
        BY <1>1, <1>2, <2>2, <3>1, <3>2, OperationKept DEF Activate, Types
    <2>3. QED
      BY <2>1, <2>2
  <1>3. CASE Break(p, a)
    <2>1. PICK plan \in {old, Migrated(p, a)}, e \in {"interrupted", "broken"} :
            plans' = [plans EXCEPT ![p][a] = [plan EXCEPT !.op = "failed", !.error = e]]
      BY <1>3 DEF Break, Operation
    <2> DEFINE new == [plan EXCEPT !.op = "failed", !.error = e]
    <2>a. /\ plan \in Plan /\ plan.base = old.base /\ plan.rehearsal = old.rehearsal
          /\ plan.made = old.made /\ plan.fresh = old.fresh
      BY <1>1, MigratedPlan
    <2>3. /\ new \in Plan /\ new.op = "failed" /\ new.error \in Errors /\ new.base = old.base
          /\ new.rehearsal = old.rehearsal /\ new.made = old.made /\ new.fresh = old.fresh
      BY <2>a DEF Plan, Errors
    <2>4. faults' \in 0 .. MaxFaults
      BY <1>1, <1>3, ApplyAssumption DEF ApplyAssumption, Break, Types
    <2>5. QED
      BY <1>1, <1>3, <2>1, <2>3, <2>4, OperationKept DEF Break
  <1>4. CASE Stall(p, a) \/ Resume(p, a)
    <2>1. PICK plan \in {old, Migrated(p, a)}, to \in {"running", "pending", "static"} :
            plans' = [plans EXCEPT ![p][a] = [plan EXCEPT !.op = to]]
      BY <1>4 DEF Stall, Resume, Operation
    <2> DEFINE new == [plan EXCEPT !.op = to]
    <2>3. /\ new \in Plan /\ new.op = to /\ new.base = old.base
          /\ new.rehearsal = old.rehearsal /\ new.made = old.made /\ new.fresh = old.fresh
      BY <1>1, MigratedPlan DEF Plan
    <2>4. faults' \in 0 .. MaxFaults
      BY <1>1, <1>4, ApplyAssumption DEF ApplyAssumption, Stall, Resume, Types
    <2>5. old.op \in {"running", "pending", "static"}
      BY <1>4 DEF Stall, Resume
    <2>6. QED
      BY <1>1, <1>4, <2>1, <2>3, <2>4, <2>5, OperationKept DEF Stall, Resume
  <1>5. CASE RehearsalEnds(p, a)
    <2>1. PICK r \in {"passed", "failed", "interrupted", "broken"} :
            plans' = [plans EXCEPT ![p][a] = [old EXCEPT !.rehearsal = r]]
      BY <1>5 DEF RehearsalEnds, Operation
    <2> DEFINE new == [old EXCEPT !.rehearsal = r]
    <2>2. plans' = [plans EXCEPT ![p][a] = new]
      BY <2>1
    <2>3. /\ new \in Plan /\ new.op = old.op /\ new.base = old.base /\ new.error = old.error
          /\ new.made = old.made /\ new.rehearsal = r
      BY <1>1 DEF Plan
    <2>4. /\ plans' \in [Calls -> [Attempts -> Plan]]
          /\ plans'[p][a] = new
          /\ \A b \in Attempts \ {a} : plans'[p][b] = plans[p][b]
          /\ \A q \in Calls \ {p} : plans'[q] = plans[q]
      BY <1>1, <2>2, <2>3, OnePlan DEF Types
    <2>5. /\ UNCHANGED <<spec, live, cas, uploads, proc, result, promotes>> /\ faults' \in 0 .. MaxFaults
          /\ old.rehearsal = "running"
      BY <1>1, <1>5, ApplyAssumption DEF ApplyAssumption, RehearsalEnds, Types
    <2>6. old.op = "planned" /\ ~(a > proc[p].attempt)
      BY <1>1, <2>5 DEF Sound, Rehearsed, Cleared, Ordered, NoPlan
    <2>7. Types'
      BY <1>1, <2>4, <2>5 DEF Types
    <2>8. proc[p].attempt \in Attempts
      BY <1>1 DEF Types, Place
    <2>9. Ordered(p)'
      <3> HIDE DEF new
      <3>1. \A b \in Attempts : /\ plans'[p][b].op = plans[p][b].op /\ plans'[p][b].error = plans[p][b].error
                                /\ plans'[p][b].made = plans[p][b].made
        BY <1>1, <2>3, <2>4
      <3>2. \A b \in Attempts : b > proc[p].attempt => plans'[p][b] = plans[p][b]
        BY <2>4, <2>6
      <3>3. Ordered(p) /\ UNCHANGED <<proc, result>>
        BY <1>1, <2>5 DEF Sound
      <3>4. Current(p)'.op = Current(p).op /\ Current(p)'.made = Current(p).made
        BY <2>8, <3>1, <3>3 DEF Current
      <3> QED
        BY <3>1, <3>2, <3>3, <3>4 DEF Ordered
    <2>10. Rehearsed(p)'
      <3>1. ~(proc[p].pc \in {"open", "put", "finalize", "rehearse", "commit", "read", "poll"} /\ proc[p].attempt = a)
        BY <1>1, <2>5 DEF Sound, Rehearsed, Cleared, Current
      <3>2. /\ proc[p].pc \in {"open", "put", "finalize", "rehearse", "commit", "read", "poll"}
               => Current(p)' = Current(p)
            /\ UNCHANGED <<spec, live, proc>>
        BY <2>4, <2>5, <2>8, <3>1 DEF Current
      <3>3. ASSUME NEW b \in Attempts
            PROVE  /\ plans'[p][b].base # None => Offered(p, plans'[p][b])
                   /\ plans'[p][b].op # "planned" => Cleared(p, plans'[p][b])
        <4>1. CASE b = a
          <5>1. plans'[p][b] = new /\ new.op = "planned" /\ new.rehearsal # "none"
            BY <2>3, <2>4, <2>6, <4>1
          <5> HIDE DEF new
          <5>2. QED
            BY <5>1 DEF Offered
        <4>2. CASE b # a
          BY <1>1, <2>4, <4>2 DEF Sound, Rehearsed, Offered, Cleared
        <4>3. QED
          BY <4>1, <4>2
      <3>4. QED
        BY <1>1, <3>2, <3>3 DEF Sound, Rehearsed, Offered, Cleared
    <2>11. Stocked(p)'
      <3>1. Current(p)'.missing = Current(p).missing
        BY <1>1, <2>2, <2>4, <2>5, <2>8 DEF Current, Plan
      <3>2. QED
        BY <1>1, <2>3, <2>4, <2>5, <2>6, <2>8, <3>1, ZenonT(60) DEF Sound, Stocked, Current
    <2>12. Sound(p)'
      BY <2>9, <2>10, <2>11 DEF Sound
    <2>13. QED
      BY <2>4, <2>5, <2>7, <2>12, Joined
  <1>6. QED
    BY <1>2, <1>3, <1>4, <1>5 DEF Gateway

LEMMA PromoteKept == ASSUME IInv, Promote PROVE IInv'
  <1>1. PICK p \in Calls, a \in Attempts : live' = <<p, a>>
    BY DEF Promote
  <1>2. live' \in Releases /\ live' # None
    BY <1>1, ApplyAssumption DEF ApplyAssumption, Releases, Attempts
  <1>3. UNCHANGED <<spec, plans, cas, uploads, proc, result, faults>> /\ promotes' \in 0 .. MaxPromotes
    BY ApplyAssumption DEF ApplyAssumption, Promote, IInv, Types
  <1>4. Types'
    BY <1>2, <1>3 DEF IInv, Types
  <1>5. \A q \in Calls : Sound(q)'
    BY <1>2, <1>3, Bystander DEF IInv
  <1>6. QED
    BY <1>4, <1>5 DEF IInv
-----------------------------------------------------------------------------
(* The theorems.                                                           *)

LEMMA InitInv == Init => IInv
  <1> SUFFICES ASSUME Init PROVE IInv
    OBVIOUS
  <1>1. Types
    <2>1. \A p \in Calls : proc[p] \in Place /\ uploads[p] \in Upload
      BY FirstAttempt DEF Init, Place, Places, Releases, Upload, NoUpload
    <2>2. proc \in [Calls -> Place] /\ uploads \in [Calls -> Upload]
      BY <2>1 DEF Init
    <2>3. QED
      BY <2>2, FirstAttempt, NoPlanType DEF Init, Types, Releases
  <1>2. \A p \in Calls : Sound(p)
    BY FirstAttempt DEF Init, Sound, Ordered, Rehearsed, Offered, Cleared, Stocked, Current, NoPlan, Nothing, Errors
  <1>3. QED
    BY <1>1, <1>2 DEF IInv

LEMMA IInvKept == IInv /\ [Next]_vars => IInv'
  <1> SUFFICES ASSUME IInv, [Next]_vars PROVE IInv'
    OBVIOUS
  <1>1. CASE UNCHANGED vars
    BY <1>1 DEF vars, gateway, IInv, Types, Sound, Ordered, Rehearsed, Offered, Cleared, Stocked, Current
  <1>2. ASSUME NEW p \in Calls, Pin(p) \/ Step(p) PROVE IInv'
    BY <1>2, PinKept, MakePlanKept, UploadKept, RehearseKept, WaitKept, CommitKept DEF Step
  <1>3. CASE Promote
    BY <1>3, PromoteKept
  <1>4. QED
    BY <1>1, <1>2, <1>3, GatewayKept DEF Next

\* Every variable stays in its type: no call has more attempts or sends than it may.
THEOREM TypeCorrect == Spec => []TypeOK
  <1>1. IInv => TypeOK
    BY DEF IInv, Types, TypeOK, Place, Places, Upload
  <1>2. QED
    BY InitInv, IInvKept, <1>1, PTL DEF Spec

\* apply() activates one release at most, through lost answers and replans.
THEOREM AppliesOnce == Spec => []AppliedOnce
  <1>1. IInv => AppliedOnce
    <2> SUFFICES ASSUME IInv, NEW p \in Calls, NEW a \in Activated(p) PROVE a = proc[p].attempt
      BY DEF AppliedOnce
    <2>1. Sound(p) /\ proc[p].attempt \in Attempts /\ a \in Attempts /\ plans[p][a].op = "ready"
      BY DEF IInv, Types, Place, Activated
    <2>2. ~(a > proc[p].attempt) /\ ~(a < proc[p].attempt)
      BY <2>1 DEF Sound, Ordered, NoPlan
    <2>3. QED
      BY <2>1, <2>2, ApplyAssumption DEF ApplyAssumption, Attempts
  <1>2. QED
    BY InitInv, IInvKept, <1>1, PTL DEF Spec

\* What apply() returns or throws agrees with what its operation did.
THEOREM ReportsAreTrue == Spec => []ReportIsTrue
  <1>1. IInv => ReportIsTrue
    <2> SUFFICES ASSUME IInv, NEW p \in Calls
                 PROVE  /\ result[p] = "ready" => proc[p].attempt \in Activated(p)
                        /\ result[p] \in Nothing => Activated(p) = {}
      BY DEF ReportIsTrue, Nothing
    <2>1. Sound(p) /\ proc[p].attempt \in Attempts
      BY DEF IInv, Types, Place
    <2>2. result[p] = "ready" => proc[p].attempt \in Activated(p)
      BY <2>1 DEF Sound, Ordered, Current, Activated
    <2>3. ASSUME result[p] \in Nothing, NEW a \in Attempts PROVE plans[p][a].op # "ready"
      <3>1. CASE a = proc[p].attempt
        BY <2>1, <2>3, <3>1 DEF Sound, Ordered, Current
      <3>2. CASE a # proc[p].attempt
        <4>1. a > proc[p].attempt \/ a < proc[p].attempt
          BY <2>1, <3>2, ApplyAssumption DEF ApplyAssumption, Attempts
        <4>2. QED
          BY <2>1, <4>1 DEF Sound, Ordered, NoPlan
      <3>3. QED
        BY <3>1, <3>2
    <2>4. QED
      BY <2>2, <2>3 DEF Activated
  <1>2. QED
    BY InitInv, IInvKept, <1>1, PTL DEF Spec

\* The registry: what a plan does not list as new is applied, and an operation runs
\* nothing but what its plan lists.
Registered(p) ==
  \A a \in Attempts :
    /\ plans[p][a].made => spec[p].migrations \subseteq Applied \cup plans[p][a].fresh
    /\ plans[p][a].ran \subseteq plans[p][a].fresh
    /\ plans[p][a].fresh \subseteq spec[p].migrations
    /\ plans[p][a].op = "planned" => plans[p][a].ran = {}
Registry == \A p \in Calls : Registered(p)

\* The registry only grows, so one plan that changes leaves the others right.
LEMMA ChangeRegisters ==
  ASSUME Types, Registry, NEW p \in Calls, NEW a \in Attempts, NEW new \in Plan,
         plans' = [plans EXCEPT ![p][a] = new], spec' = spec,
         plans[p][a].ran \subseteq new.ran,
         new.made => spec[p].migrations \subseteq Applied \cup new.fresh,
         new.ran \subseteq new.fresh, new.fresh \subseteq spec[p].migrations,
         new.op = "planned" => new.ran = {}
  PROVE  Registry'
  <1>1. /\ plans'[p][a] = new
        /\ \A q \in Calls, b \in Attempts : q # p \/ b # a => plans'[q][b] = plans[q][b]
    BY DEF Types
  <1>2. Applied \subseteq Applied'
    <2> SUFFICES ASSUME NEW m \in Applied PROVE m \in Applied'
      OBVIOUS
    <2>1. PICK q \in Calls, b \in Attempts : m \in plans[q][b].ran
      BY DEF Applied
    <2>2. m \in plans'[q][b].ran
      BY <1>1, <2>1
    <2> QED
      BY <2>2 DEF Applied
  <1>3. ASSUME NEW q \in Calls, NEW b \in Attempts
        PROVE  /\ plans'[q][b].made => spec'[q].migrations \subseteq Applied' \cup plans'[q][b].fresh
               /\ plans'[q][b].ran \subseteq plans'[q][b].fresh
               /\ plans'[q][b].fresh \subseteq spec'[q].migrations
               /\ plans'[q][b].op = "planned" => plans'[q][b].ran = {}
    <2>1. CASE q = p /\ b = a
      BY <1>1, <1>2, <2>1
    <2>2. CASE q # p \/ b # a
      BY <1>1, <1>2, <2>2 DEF Registry, Registered
    <2> QED
      BY <2>1, <2>2
  <1> QED
    BY <1>3 DEF Registry, Registered

\* A step that leaves the migrations of a plan as they are.
LEMMA KeepRegisters ==
  ASSUME Types, Registry, NEW p \in Calls, NEW a \in Attempts, NEW new \in Plan,
         plans' = [plans EXCEPT ![p][a] = new], spec' = spec,
         new.made = plans[p][a].made, new.fresh = plans[p][a].fresh, new.ran = plans[p][a].ran,
         new.op = "planned" => plans[p][a].op = "planned"
  PROVE  Registry'
  <1>1. /\ plans[p][a].made => spec[p].migrations \subseteq Applied \cup plans[p][a].fresh
        /\ plans[p][a].ran \subseteq plans[p][a].fresh
        /\ plans[p][a].fresh \subseteq spec[p].migrations
        /\ plans[p][a].op = "planned" => plans[p][a].ran = {}
    BY DEF Registry, Registered
  <1> QED
    BY <1>1, ChangeRegisters

\* An operation that may have run its migrations.
LEMMA OperationRegisters ==
  ASSUME IInv, Registry, NEW p \in Calls, NEW a \in Attempts, plans[p][a].op # "planned",
         NEW plan \in {plans[p][a], Migrated(p, a)}, NEW new \in Plan,
         plans' = [plans EXCEPT ![p][a] = new], spec' = spec,
         new.made = plan.made, new.fresh = plan.fresh, new.ran = plan.ran, new.op # "planned"
  PROVE  Registry'
  <1>1. /\ plan.made = plans[p][a].made /\ plan.fresh = plans[p][a].fresh
        /\ plan.ran \in {plans[p][a].ran, plans[p][a].ran \cup Unapplied(p)} /\ Types
    BY MigratedPlan DEF IInv
  <1>2. plans[p][a].made
    BY DEF IInv, Sound, Ordered
  <1>3. /\ spec[p].migrations \subseteq Applied \cup plans[p][a].fresh
        /\ plans[p][a].ran \subseteq plans[p][a].fresh
        /\ plans[p][a].fresh \subseteq spec[p].migrations
    BY <1>2 DEF Registry, Registered
  <1>4. Unapplied(p) \subseteq plans[p][a].fresh
    BY <1>3 DEF Unapplied
  <1>5. plans[p][a].ran \subseteq new.ran /\ new.ran \subseteq new.fresh
    BY <1>1, <1>3, <1>4
  <1> QED
    BY <1>1, <1>3, <1>5, ChangeRegisters

LEMMA CallRegisters == ASSUME IInv, Registry, NEW p \in Calls, Pin(p) \/ Step(p) PROVE Registry'
  <1>1. Types /\ Sound(p) /\ proc[p].attempt \in Attempts /\ Current(p) \in Plan /\ spec' = spec
    BY DEF IInv, Types, Place, Current, Pin, Step, MakePlan, OpenUpload, PutFile, Finalize, Rehearse,
           PollRehearsal, Commit, ReadOperation, Poll
  <1>2. CASE UNCHANGED plans
    BY <1>1, <1>2 DEF Registry, Registered, Applied
  <1>3. CASE proc[p].pc = "plan" /\ SetPlan(p, NewPlan(p))
    <2> DEFINE new == NewPlan(p)
    <2>1. Unapplied(p) \in SUBSET Migrations /\ Envelope(p) \in {"none", "available"} /\ BaseOf(p) \in Releases
      BY <1>1, ApplyAssumption DEF ApplyAssumption, Request, Types, Place, Unapplied, Envelope, BaseOf
    <2>2. spec[p].files \ cas \in SUBSET Files
      BY <1>1, ApplyAssumption DEF ApplyAssumption, Request, Types
    <2>3. new \in Plan /\ new.fresh = Unapplied(p) /\ new.ran = {}
      BY <2>1, <2>2 DEF NewPlan, Plan
    <2>4. plans' = [plans EXCEPT ![p][proc[p].attempt] = new]
      BY <1>3 DEF SetPlan
    <2>5. Current(p).ran = {}
      <3>1. Current(p).op = "planned"
        BY <1>1, <1>3 DEF Sound, Ordered, Before
      <3> QED
        BY <1>1, <3>1 DEF Registry, Registered, Current
    <2> HIDE DEF new
    <2>6. spec[p].migrations \subseteq Applied \cup new.fresh /\ new.fresh \subseteq spec[p].migrations
      BY <2>3 DEF Unapplied
    <2> QED
      BY <1>1, <2>3, <2>4, <2>5, <2>6, ChangeRegisters DEF Current
  <1>4. CASE \/ SetPlan(p, [Current(p) EXCEPT !.rehearsal = "running"])
             \/ SetPlan(p, [Current(p) EXCEPT !.op = "running"])
    <2>1. PICK new \in {[Current(p) EXCEPT !.rehearsal = "running"], [Current(p) EXCEPT !.op = "running"]} :
            plans' = [plans EXCEPT ![p][proc[p].attempt] = new]
      BY <1>4 DEF SetPlan
    <2>2. /\ new \in Plan /\ new.made = Current(p).made /\ new.fresh = Current(p).fresh
          /\ new.ran = Current(p).ran /\ new.op \in {Current(p).op, "running"}
      BY <1>1 DEF Plan
    <2> QED
      BY <1>1, <2>1, <2>2, KeepRegisters DEF Current
  <1> QED
    BY <1>2, <1>3, <1>4 DEF Pin, Step, MakePlan, at, OpenUpload, PutFile, Finalize, Rehearse, PollRehearsal,
                            Commit, ReadOperation, Poll, gateway

LEMMA GatewayRegisters ==
  ASSUME IInv, Registry, NEW p \in Calls, NEW a \in Attempts, Gateway(p, a) PROVE Registry'
  <1> DEFINE old == plans[p][a]
  <1>1. Types /\ old \in Plan /\ spec' = spec
    BY DEF IInv, Types, Gateway, Activate, Break, Stall, Resume, RehearsalEnds
  <1>a. ASSUME NEW plan \in {old, Migrated(p, a)}, NEW to \in {"ready", "pending", "static", "running"},
               old.op # "planned", plans' = [plans EXCEPT ![p][a] = [plan EXCEPT !.op = to]]
        PROVE  Registry'
    <2>1. plan \in Plan
      BY <1>1, MigratedPlan
    <2> DEFINE new == [plan EXCEPT !.op = to]
    <2>2. new \in Plan /\ new.made = plan.made /\ new.fresh = plan.fresh /\ new.ran = plan.ran /\ new.op = to
      BY <2>1 DEF Plan
    <2> QED
      BY <1>1, <1>a, <2>2, OperationRegisters, ZenonT(60)
  <1>b. ASSUME NEW plan \in {old, Migrated(p, a)}, NEW e \in Errors, old.op # "planned",
               plans' = [plans EXCEPT ![p][a] = [plan EXCEPT !.op = "failed", !.error = e]]
        PROVE  Registry'
    <2>1. plan \in Plan
      BY <1>1, MigratedPlan
    <2> DEFINE new == [plan EXCEPT !.op = "failed", !.error = e]
    <2>2. new \in Plan /\ new.made = plan.made /\ new.fresh = plan.fresh /\ new.ran = plan.ran /\ new.op = "failed"
      BY <2>1 DEF Plan
    <2> QED
      BY <1>1, <1>b, <2>2, OperationRegisters
  <1>2. CASE Activate(p, a) \/ Break(p, a) \/ Stall(p, a) \/ Resume(p, a)
    <2>0. old.op # "planned"
      BY <1>2 DEF Activate, Break, Stall, Resume
    <2>1. CASE Activate(p, a) /\ old.base = live
      <3>1. plans' = [plans EXCEPT ![p][a] = [Migrated(p, a) EXCEPT !.op = "ready"]]
        BY <2>1 DEF Activate, Operation
      <3> QED
        BY <1>a, <2>0, <3>1
    <2>2. CASE Activate(p, a) /\ old.base # live
      <3>1. PICK plan \in {old, Migrated(p, a)} :
              plans' = [plans EXCEPT ![p][a] = [plan EXCEPT !.op = "failed", !.error = "conflict"]]
        BY <2>2 DEF Activate, Operation
      <3>2. "conflict" \in Errors
        BY DEF Errors
      <3> QED
        BY <1>b, <2>0, <3>1, <3>2, ZenonT(60)
    <2>3. CASE Break(p, a)
      <3>1. PICK plan \in {old, Migrated(p, a)}, e \in {"interrupted", "broken"} :
              plans' = [plans EXCEPT ![p][a] = [plan EXCEPT !.op = "failed", !.error = e]]
        BY <2>3 DEF Break, Operation
      <3>2. e \in Errors
        BY DEF Errors
      <3> QED
        BY <1>b, <2>0, <3>1, <3>2, ZenonT(60)
    <2>4. CASE Stall(p, a)
      <3>1. PICK to \in {"pending", "static"} :
              plans' = [plans EXCEPT ![p][a] = [Migrated(p, a) EXCEPT !.op = to]]
        BY <2>4 DEF Stall, Operation
      <3> QED
        BY <1>a, <2>0, <3>1
    <2>5. CASE Resume(p, a)
      <3>1. plans' = [plans EXCEPT ![p][a] = [old EXCEPT !.op = "running"]]
        BY <2>5 DEF Resume, Operation
      <3> QED
        BY <1>a, <2>0, <3>1
    <2> QED
      BY <1>2, <2>1, <2>2, <2>3, <2>4, <2>5
  <1>3. CASE RehearsalEnds(p, a)
    <2>1. PICK r \in {"passed", "failed", "interrupted", "broken"} :
            plans' = [plans EXCEPT ![p][a] = [old EXCEPT !.rehearsal = r]]
      BY <1>3 DEF RehearsalEnds, Operation
    <2> DEFINE new == [old EXCEPT !.rehearsal = r]
    <2>2. new \in Plan /\ new.made = old.made /\ new.fresh = old.fresh /\ new.ran = old.ran /\ new.op = old.op
      BY <1>1 DEF Plan
    <2> QED
      BY <1>1, <2>1, <2>2, KeepRegisters
  <1> QED
    BY <1>2, <1>3 DEF Gateway

LEMMA InitRegistry == Init => Registry
  BY DEF Init, NoPlan, Registry, Registered

\* A call that may rehearse runs migrations over a live release only when that plan
\* passed its rehearsal, for any calls, specs, retries and faults: the three ways to
\* skip one that are left to it are a plan over nothing, no migrations, and none that
\* is new, and what is not new is not run.
THEOREM MigrationsRehearsed == Spec => []RehearsedOrFirst
  <1>1. IInv /\ Registry => RehearsedOrFirst
    <2> SUFFICES ASSUME IInv, Registry, NEW p \in Calls, NEW a \in Attempts,
                        spec[p].rehearse = "auto", plans[p][a].base # None, plans[p][a].ran # {}
                 PROVE  plans[p][a].rehearsal = "passed"
      BY DEF RehearsedOrFirst
    <2>1. plans[p][a].op # "planned" /\ plans[p][a].fresh # {} /\ spec[p].migrations # {}
      BY DEF Registry, Registered
    <2>2. Cleared(p, plans[p][a]) /\ Offered(p, plans[p][a])
      BY <2>1 DEF IInv, Sound, Rehearsed
    <2> QED
      BY <2>1, <2>2 DEF Cleared, Offered
  <1>2. IInv /\ Registry /\ [Next]_vars => Registry'
    <2> SUFFICES ASSUME IInv, Registry, [Next]_vars PROVE Registry'
      OBVIOUS
    <2>1. CASE UNCHANGED <<spec, plans>>
      BY <2>1 DEF Registry, Registered, Applied
    <2> QED
      BY <2>1, CallRegisters, GatewayRegisters DEF Next, Promote, vars, gateway
  <1> QED
    BY <1>1, <1>2, InitInv, IInvKept, InitRegistry, PTL DEF Spec

\* No plan is committed before the gateway holds its content.
THEOREM ContentComesFirst == Spec => []ContentBeforeCommit
  <1>1. IInv => ContentBeforeCommit
    BY DEF IInv, Sound, Stocked, ContentBeforeCommit
  <1>2. QED
    BY InitInv, IInvKept, <1>1, PTL DEF Spec
-----------------------------------------------------------------------------
(* Conflicts, counted: each attempt of a call that lost its base lost it   *)
(* to an activation or a promotion no earlier attempt had lost to.         *)

Clashes(p) == {a \in Attempts : plans[p][a].error = "conflict"}
Winners == {q \in Calls : Activated(q) # {}}
Rivals(p) == Cardinality(Winners \ {p}) + promotes

\* The plan of this attempt may still be activated, and its base is live no more.
Going(p) ==
  \/ Current(p).op \in {"running", "pending", "static"}
  \/ Current(p).op = "planned" /\ proc[p].pc \notin {"plan", "done"}
Beaten(p) == Going(p) /\ Current(p).base # live

Counted(p) ==
  spec[p].base = "current" =>
    /\ Cardinality(Clashes(p)) <= Rivals(p)
    /\ Beaten(p) => Cardinality(Clashes(p)) + 1 <= Rivals(p)

Counts ==
  /\ IsFiniteSet(Winners)
  /\ \A p \in Calls, a \in Attempts : plans[p][a].error = "conflict" => plans[p][a].op = "failed"
  /\ \A p \in Calls : Counted(p)

\* What no step but an activation and a promotion changes.
Uneventful ==
  /\ UNCHANGED <<spec, promotes>>
  /\ \A p \in Calls, a \in Attempts :
       /\ plans'[p][a].error = "conflict" <=> plans[p][a].error = "conflict"
       /\ plans'[p][a].op = "ready" <=> plans[p][a].op = "ready"
       /\ plans'[p][a].error = "conflict" => plans'[p][a].op = "failed"
  /\ \A p \in Calls : spec[p].base = "current" /\ Beaten(p)' => Beaten(p)

LEMMA UneventfulCounts == ASSUME Counts, Uneventful PROVE Counts'
  <1>1. /\ \A p \in Calls : Clashes(p)' = Clashes(p)
        /\ Winners' = Winners
    BY DEF Uneventful, Clashes, Winners, Activated
  <1>2. \A p \in Calls : Rivals(p)' = Rivals(p)
    BY <1>1 DEF Uneventful, Rivals
  <1> QED
    BY <1>1, <1>2 DEF Counts, Counted, Uneventful

\* A call that moves on, or ends, with the plans as they are.
LEMMA MoveCounts ==
  ASSUME Types, Counts, NEW p \in Calls, NEW l \in Places, NEW pin, Moved(p, l, proc[p].attempt, pin),
         l \in {"plan", "done"} \/ proc[p].pc \notin {"plan", "done"}, UNCHANGED <<spec, plans, live, promotes>>
  PROVE  Counts'
  <1>1. /\ proc'[p].pc = l /\ proc'[p].attempt = proc[p].attempt
        /\ \A q \in Calls \ {p} : proc'[q] = proc[q]
    BY DEF Moved
  <1>2. \A q \in Calls : Beaten(q)' => Beaten(q)
    BY <1>1 DEF Beaten, Going, Current
  <1> QED
    BY <1>2, UneventfulCounts DEF Uneventful, Counts

\* A call whose attempt failed has no plan yet, or ends.
LEMMA FailCounts ==
  ASSUME IInv, Counts, NEW p \in Calls, NEW e \in Errors, Fails(p, e), UNCHANGED <<spec, plans, live, promotes>>
  PROVE  Counts'
  <1>1. Types /\ Sound(p)
    BY DEF IInv
  <1>2. CASE Moved(p, "plan", proc[p].attempt + 1, proc[p].pin) /\ proc[p].attempt + 1 \in Attempts
    <2>1. /\ proc'[p].pc = "plan" /\ proc'[p].attempt = proc[p].attempt + 1
          /\ \A q \in Calls \ {p} : proc'[q] = proc[q]
      BY <1>2 DEF Moved
    <2>2. Current(p)'.op = "planned"
      <3>1. proc[p].attempt + 1 > proc[p].attempt
        BY <1>1 DEF Types, Place, Attempts
      <3>2. plans[p][proc[p].attempt + 1] = NoPlan
        BY <1>1, <1>2, <3>1 DEF Sound, Ordered
      <3> QED
        BY <2>1, <3>2 DEF Current, NoPlan
    <2>3. \A q \in Calls : Beaten(q)' => Beaten(q)
      BY <2>1, <2>2 DEF Beaten, Going, Current
    <2> QED
      BY <2>3, UneventfulCounts DEF Uneventful, Counts
  <1>3. CASE Ended(p, e)
    BY <1>1, <1>3, MoveCounts DEF Ended, Places
  <1> QED
    BY <1>1, <1>2, <1>3, FailsMoves

LEMMA GoCounts ==
  ASSUME IInv, Counts, NEW p \in Calls, NEW l \in Places, Goto(p, l), proc[p].pc \notin {"plan", "done"},
         UNCHANGED <<spec, plans, live, promotes>>
  PROVE  Counts'
  BY GotoMoves, MoveCounts DEF IInv

LEMMA EndCounts ==
  ASSUME IInv, Counts, NEW p \in Calls, NEW r \in Results, Ends(p, r), UNCHANGED <<spec, plans, live, promotes>>
  PROVE  Counts'
  BY EndsMoves, MoveCounts DEF IInv, Ended, Places

LEMMA LostCounts ==
  ASSUME IInv, Counts, NEW p \in Calls, NEW r \in Results, Lost(p, r) \/ LostOnce(p, r),
         proc[p].pc \notin {"plan", "done"} \/ LostOnce(p, r), UNCHANGED <<spec, plans, live, promotes>>
  PROVE  Counts'
  <1>1. Types /\ proc[p].pc \in Places
    BY DEF IInv, Types, Place
  <1> QED
    BY <1>1, LostMoves, LostOnceMoves, MoveCounts DEF Ended, Places

\* A plan that is made is over what is live.
LEMMA PlanCounts == ASSUME IInv, Counts, NEW p \in Calls, Pin(p) \/ MakePlan(p) PROVE Counts'
  <1>1. Types /\ Sound(p) /\ proc[p].attempt \in Attempts /\ proc[p].pc = "plan" /\ Current(p).op = "planned"
    BY DEF IInv, Types, Place, Pin, MakePlan, at, Sound, Ordered, Before
  <1>2. CASE Pin(p)
    <2>1. /\ Moved(p, "plan", proc[p].attempt, live) /\ UNCHANGED <<spec, plans, live, promotes>>
      BY <1>1, <1>2 DEF Pin, gateway, Types, Moved, Place
    <2> QED
      BY <1>1, <2>1, MoveCounts DEF Places
  <1>3. CASE LostOnce(p, "network") /\ UNCHANGED <<spec, plans, live, promotes>>
    BY <1>3, LostCounts DEF Results
  <1>4. CASE /\ SetPlan(p, NewPlan(p)) /\ UNCHANGED <<spec, live, promotes>>
             /\ Goto(p, IF spec[p].files \ cas # {} THEN "open" ELSE "rehearse") \/ LostOnce(p, "network")
    <2>1. proc'[p].attempt = proc[p].attempt /\ \A q \in Calls \ {p} : proc'[q] = proc[q]
      BY <1>1, <1>4, GotoMoves, LostOnceMoves DEF Moved, Ended, Places, Results
    <2> DEFINE new == NewPlan(p)
    <2>2. new.op = "planned" /\ new.error = None /\ (spec[p].base = "current" => new.base = live)
      BY DEF NewPlan, BaseOf
    <2>3. plans' = [plans EXCEPT ![p][proc[p].attempt] = new]
      BY <1>4 DEF SetPlan
    <2> HIDE DEF new
    <2>4. /\ plans'[p][proc[p].attempt] = new
          /\ \A q \in Calls, b \in Attempts : q # p \/ b # proc[p].attempt => plans'[q][b] = plans[q][b]
      BY <1>1, <2>3 DEF Types
    <2>5. ASSUME NEW q \in Calls, spec[q].base = "current", Beaten(q)' PROVE Beaten(q)
      <3>1. CASE q = p
        BY <1>4, <2>1, <2>2, <2>4, <2>5, <3>1 DEF Beaten, Current
      <3>2. CASE q # p
        <4>1. proc[q].attempt \in Attempts
          BY <1>1 DEF Types, Place
        <4> QED
          BY <1>4, <2>1, <2>4, <2>5, <3>2, <4>1 DEF Beaten, Going, Current
      <3> QED
        BY <3>1, <3>2
    <2>6. "conflict" # None /\ Current(p).error # "conflict"
      BY <1>1, AbsentAssumption DEF Counts, Current, AbsentAssumption, Errors
    <2> QED
      BY <1>1, <1>4, <2>2, <2>4, <2>5, <2>6, UneventfulCounts DEF Uneventful, Counts, Current
  <1>5. CASE Ends(p, "broken") /\ UNCHANGED <<spec, plans, live, promotes>>
    BY <1>5, EndCounts DEF Results, Errors
  <1> QED
    BY <1>2, <1>3, <1>4, <1>5 DEF MakePlan

\* A step that changes how far the plan of an attempt is, and not its fate.
LEMMA PlanStepCounts ==
  ASSUME IInv, Counts, NEW p \in Calls, NEW a \in Attempts, NEW new \in Plan,
         plans' = [plans EXCEPT ![p][a] = new],
         new.base = plans[p][a].base, new.error # "conflict",
         plans[p][a].error # "conflict", plans[p][a].op # "ready", new.op # "ready",
         plans[p][a].op = "planned" => new.op = "planned" \/ (a = proc[p].attempt /\ proc[p].pc \notin {"plan", "done"}),
         plans[p][a].op = "failed" => new.op = "failed",
         proc'[p].attempt = proc[p].attempt,
         proc'[p].pc = proc[p].pc \/ proc[p].pc \notin {"plan", "done"},
         \A q \in Calls \ {p} : proc'[q] = proc[q], UNCHANGED <<spec, live, promotes>>
  PROVE  Counts'
  <1>1. /\ plans'[p][a] = new
        /\ \A q \in Calls, b \in Attempts : q # p \/ b # a => plans'[q][b] = plans[q][b]
        /\ \A q \in Calls : proc[q].attempt \in Attempts
    BY DEF IInv, Types, Place
  <1>2. ASSUME NEW q \in Calls, Beaten(q)' PROVE Beaten(q)
    <2>1. CASE q = p /\ a = proc[p].attempt
      <3>1. Current(p)' = new /\ Current(p) = plans[p][a]
        BY <1>1, <2>1 DEF Current
      <3>2. new.op \in {"planned", "running", "pending", "static"} /\ new.base # live
        BY <1>2, <2>1, <3>1 DEF Beaten, Going
      <3>3. plans[p][a].op \in {"planned", "running", "pending", "static"}
        BY <3>2 DEF IInv, Types, Plan
      <3> QED
        BY <1>2, <2>1, <3>1, <3>2, <3>3 DEF Beaten, Going
    <2>2. CASE q # p \/ a # proc[p].attempt
      <3>1. Current(q)' = Current(q)
        BY <1>1, <2>2 DEF Current
      <3>2. q = p => proc'[q].pc = proc[q].pc \/ proc[q].pc \notin {"plan", "done"}
        OBVIOUS
      <3> QED
        BY <1>2, <3>1, <3>2 DEF Beaten, Going
    <2> QED
      BY <2>1, <2>2
  <1> QED
    BY <1>1, <1>2, UneventfulCounts DEF Uneventful, Counts

\* The rest of what a call does.
LEMMA StepCounts == ASSUME IInv, Counts, NEW p \in Calls, Step(p) PROVE Counts'
  <1>1. /\ Types /\ Sound(p) /\ proc[p].attempt \in Attempts /\ Current(p) \in Plan
        /\ plans \in [Calls -> [Attempts -> Plan]]
    BY DEF IInv, Types, Place, Current
  <1>2. CASE MakePlan(p)
    BY <1>2, PlanCounts
  <1>3. CASE OpenUpload(p) \/ PutFile(p) \/ Finalize(p)
    <2>1. UNCHANGED <<spec, plans, live, promotes>> /\ proc[p].pc \notin {"plan", "done"}
      BY <1>3 DEF OpenUpload, PutFile, Finalize, at
    <2> QED
      BY <1>3, <2>1, GoCounts, LostCounts, FailCounts DEF OpenUpload, PutFile, Finalize, Places, Results, Errors
  <1>4. CASE PollRehearsal(p) \/ ReadOperation(p) \/ Poll(p)
    <2>1. UNCHANGED <<spec, plans, live, promotes>> /\ proc[p].pc \notin {"plan", "done"}
      BY <1>4 DEF PollRehearsal, ReadOperation, Poll, at, gateway
    <2>2. Current(p).op = "failed" => Current(p).error \in Errors
      BY <1>1 DEF Sound, Ordered, Current
    <2> QED
      BY <1>4, <2>1, <2>2, GoCounts, LostCounts, FailCounts, EndCounts
         DEF PollRehearsal, ReadOperation, Poll, Places, Results, Errors
  <1>5. CASE Rehearse(p)
    <2>1. proc[p].pc = "rehearse" /\ UNCHANGED <<spec, live, promotes>> /\ Current(p).op = "planned"
      BY <1>1, <1>5 DEF Rehearse, at, Sound, Ordered, Before
    <2>2. CASE UNCHANGED plans
      BY <1>5, <2>1, <2>2, GoCounts, LostCounts DEF Rehearse, Places, Results
    <2>3. CASE /\ SetPlan(p, [Current(p) EXCEPT !.rehearsal = "running"])
               /\ Goto(p, "rehearsing") \/ LostOnce(p, "network")
      <3> DEFINE new == [Current(p) EXCEPT !.rehearsal = "running"]
      <3>1. new \in Plan /\ new.base = Current(p).base /\ new.op = "planned" /\ new.error = Current(p).error
        BY <1>1, <2>1 DEF Plan
      <3>2. plans' = [plans EXCEPT ![p][proc[p].attempt] = new]
        BY <2>3 DEF SetPlan
      <3> HIDE DEF new
      <3>3. proc'[p].attempt = proc[p].attempt /\ \A q \in Calls \ {p} : proc'[q] = proc[q]
        BY <1>1, <2>3, GotoMoves, LostOnceMoves DEF Moved, Ended, Places, Results
      <3>4. Current(p).error # "conflict"
        BY <1>1, <2>1 DEF Counts, Current
      <3> QED
        BY <1>1, <2>1, <3>1, <3>2, <3>3, <3>4, PlanStepCounts DEF Current
    <2> QED
      BY <1>5, <2>2, <2>3 DEF Rehearse
  <1>6. CASE Commit(p)
    <2>1. proc[p].pc = "commit" /\ UNCHANGED <<spec, live, promotes>>
      BY <1>6 DEF Commit, at
    <2>2. CASE UNCHANGED plans
      <3>1. Current(p).op = "failed" => Current(p).error \in Errors
        BY <1>1 DEF Sound, Ordered, Current
      <3>2. \/ Lost(p, "unsure") \/ Ends(p, "ready") \/ Goto(p, "read")
            \/ Current(p).op = "failed" /\ Fails(p, Current(p).error)
        BY <1>6 DEF Commit
      <3> QED
        BY <2>1, <2>2, <3>1, <3>2, GoCounts, LostCounts, FailCounts, EndCounts DEF Places, Results
    <2>3. CASE /\ Current(p).op = "planned" /\ SetPlan(p, [Current(p) EXCEPT !.op = "running"])
               /\ Goto(p, "read") \/ Lost(p, "unsure")
      <3> DEFINE new == [Current(p) EXCEPT !.op = "running"]
      <3>1. new \in Plan /\ new.base = Current(p).base /\ new.op = "running" /\ new.error = Current(p).error
        BY <1>1 DEF Plan
      <3>2. plans' = [plans EXCEPT ![p][proc[p].attempt] = new]
        BY <2>3 DEF SetPlan
      <3> HIDE DEF new
      <3>3. proc'[p].attempt = proc[p].attempt /\ \A q \in Calls \ {p} : proc'[q] = proc[q]
        BY <1>1, <2>3, GotoMoves, LostMoves DEF Moved, Ended, Places, Results
      <3>4. Current(p).error # "conflict"
        BY <1>1, <2>3 DEF Counts, Current
      <3> QED
        BY <1>1, <2>1, <2>3, <3>1, <3>2, <3>3, <3>4, PlanStepCounts DEF Current
    <2> QED
      BY <1>6, <2>2, <2>3 DEF Commit
  <1> QED
    BY <1>2, <1>3, <1>4, <1>5, <1>6 DEF Step

LEMMA OneMore ==
  ASSUME NEW S, IsFiniteSet(S), NEW x, x \notin S
  PROVE  IsFiniteSet(S \cup {x}) /\ Cardinality(S \cup {x}) = Cardinality(S) + 1
  BY FS_AddElement

\* The winners but p and the attempts that clashed are counted by numbers.
LEMMA CountsAreNumbers ==
  ASSUME IInv, Counts, NEW p \in Calls
  PROVE  /\ IsFiniteSet(Clashes(p)) /\ Cardinality(Clashes(p)) \in Nat
         /\ IsFiniteSet(Winners \ {p}) /\ Cardinality(Winners \ {p}) \in Nat
         /\ promotes \in Nat /\ Rivals(p) \in Nat
  <1>1. IsFiniteSet(Attempts)
    BY FS_Interval, ApplyAssumption DEF Attempts, ApplyAssumption
  <1>2. IsFiniteSet(Clashes(p))
    BY <1>1, FS_Subset DEF Clashes
  <1>3. IsFiniteSet(Winners \ {p})
    BY FS_Subset DEF Counts
  <1>4. promotes \in Nat /\ Cardinality(Winners \ {p}) \in Nat
    BY <1>3, FS_CardinalityType, ApplyAssumption DEF IInv, Types, ApplyAssumption
  <1>5. Rivals(p) \in Nat
    BY <1>4 DEF Rivals
  <1> QED
    BY <1>2, <1>3, <1>4, <1>5, FS_CardinalityType

\* A win is one rival more for every other call.
LEMMA WinCounts ==
  ASSUME IInv, Counts, NEW p \in Calls, NEW a \in Attempts, Activate(p, a), plans[p][a].base = live PROVE Counts'
  <1> DEFINE new == [Migrated(p, a) EXCEPT !.op = "ready"]
  <1>1. /\ plans' = [plans EXCEPT ![p][a] = new] /\ UNCHANGED <<spec, proc, promotes>>
        /\ plans[p][a].op = "running" /\ Types
    BY DEF Activate, Operation, IInv
  <1>2. new.op = "ready" /\ new.error = plans[p][a].error
    BY <1>1, MigratedPlan DEF Plan
  <1> HIDE DEF new
  <1>3. /\ plans'[p][a] = new
        /\ \A q \in Calls, b \in Attempts : q # p \/ b # a => plans'[q][b] = plans[q][b]
        /\ \A q \in Calls : proc[q].attempt \in Attempts
    BY <1>1 DEF IInv, Types, Place
  <1>4. plans[p][a].error # "conflict" /\ a = proc[p].attempt
    BY <1>1, StartedIsCurrent DEF Counts
  <1>5. \A q \in Calls : Clashes(q)' = Clashes(q)
    BY <1>2, <1>3 DEF Clashes
  <1>6. p \notin Winners /\ Winners' = Winners \cup {p}
    <2>1. \A b \in Attempts : plans[p][b].op # "ready"
      <3> SUFFICES ASSUME NEW b \in Attempts, plans[p][b].op = "ready" PROVE FALSE
        OBVIOUS
      <3>1. Sound(p) /\ b # a
        BY <1>1 DEF IInv
      <3>2. b > a \/ b < a
        BY <3>1, ApplyAssumption DEF ApplyAssumption, Attempts
      <3> QED
        BY <1>4, <3>1, <3>2 DEF Sound, Ordered, NoPlan
    <2> QED
      BY <1>2, <1>3, <2>1 DEF Winners, Activated
  <1>7. IsFiniteSet(Winners')
    BY <1>6, OneMore DEF Counts
  <1>8. ASSUME NEW q \in Calls, spec'[q].base = "current" PROVE Counted(q)'
    <2>1. Counted(q) /\ spec[q].base = "current"
      BY <1>1, <1>8 DEF Counts
    <2>2. CASE q = p
      <3>1. Winners' \ {q} = Winners \ {q} /\ ~Beaten(q)'
        BY <1>1, <1>2, <1>3, <1>4, <1>6, <2>2 DEF Beaten, Going, Current
      <3> QED
        BY <1>1, <1>5, <2>1, <3>1 DEF Counted, Rivals
    <2>3. CASE q # p
      <3>1. Winners' \ {q} = (Winners \ {q}) \cup {p} /\ p \notin Winners \ {q}
        BY <1>6, <2>3
      <3>2. Cardinality(Winners' \ {q}) = Cardinality(Winners \ {q}) + 1
        BY <3>1, OneMore, CountsAreNumbers
      <3>3. Rivals(q)' = Rivals(q) + 1
        <4>1. PICK n \in Nat, m \in Nat : n = Cardinality(Winners \ {q}) /\ m = promotes
          BY CountsAreNumbers
        <4>2. Rivals(q) = n + m /\ Rivals(q)' = (n + 1) + m
          BY <1>1, <3>2, <4>1 DEF Rivals
        <4> QED
          BY <4>2
      <3>4. Cardinality(Clashes(q)) \in Nat /\ Rivals(q) \in Nat
        BY CountsAreNumbers
      <3>5. Cardinality(Clashes(q)) <= Rivals(q)
        BY <2>1 DEF Counted
      <3> QED
        BY <1>5, <3>3, <3>4, <3>5 DEF Counted
    <2> QED
      BY <2>2, <2>3
  <1>9. \A q \in Calls, b \in Attempts : plans'[q][b].error = "conflict" => plans'[q][b].op = "failed"
    BY <1>2, <1>3, <1>4 DEF Counts
  <1> QED
    BY <1>7, <1>8, <1>9 DEF Counts, Counted

\* A conflict uses up the rival that made the plan stale.
LEMMA ClashCounts ==
  ASSUME IInv, Counts, NEW p \in Calls, NEW a \in Attempts, Activate(p, a), plans[p][a].base # live PROVE Counts'
  <1>0. PICK plan \in {plans[p][a], Migrated(p, a)} :
          plans' = [plans EXCEPT ![p][a] = [plan EXCEPT !.op = "failed", !.error = "conflict"]]
    BY DEF Activate, Operation
  <1> DEFINE new == [plan EXCEPT !.op = "failed", !.error = "conflict"]
  <1>1. /\ plans' = [plans EXCEPT ![p][a] = new] /\ UNCHANGED <<spec, proc, promotes, live>>
        /\ plans[p][a].op = "running" /\ Types
    BY <1>0 DEF Activate, IInv
  <1>2. new.op = "failed" /\ new.error = "conflict"
    BY <1>1, MigratedPlan DEF Plan
  <1> HIDE DEF new
  <1>3. /\ plans'[p][a] = new
        /\ \A q \in Calls, b \in Attempts : q # p \/ b # a => plans'[q][b] = plans[q][b]
        /\ \A q \in Calls : proc[q].attempt \in Attempts
    BY <1>1 DEF IInv, Types, Place
  <1>4. plans[p][a].error # "conflict" /\ a = proc[p].attempt
    BY <1>1, StartedIsCurrent DEF Counts
  <1>5. Winners' = Winners
    BY <1>1, <1>2, <1>3 DEF Winners, Activated
  <1>6. \A q \in Calls : Rivals(q)' = Rivals(q)
    BY <1>1, <1>5 DEF Rivals
  <1>7. ASSUME NEW q \in Calls, spec'[q].base = "current" PROVE Counted(q)'
    <2>1. Counted(q) /\ spec[q].base = "current"
      BY <1>1, <1>7 DEF Counts
    <2>2. CASE q = p
      <3>1. Beaten(p) /\ ~Beaten(p)'
        BY <1>1, <1>2, <1>3, <1>4 DEF Beaten, Going, Current
      <3>2. Clashes(p)' = Clashes(p) \cup {a} /\ a \notin Clashes(p)
        BY <1>2, <1>3, <1>4 DEF Clashes
      <3>3. Cardinality(Clashes(p)') = Cardinality(Clashes(p)) + 1
        BY <3>2, OneMore, CountsAreNumbers
      <3> QED
        BY <1>6, <2>1, <2>2, <3>1, <3>3 DEF Counted
    <2>3. CASE q # p
      <3>1. Clashes(q)' = Clashes(q) /\ (Beaten(q)' <=> Beaten(q))
        BY <1>1, <1>3, <2>3 DEF Clashes, Beaten, Going, Current
      <3> QED
        BY <1>6, <2>1, <3>1 DEF Counted
    <2> QED
      BY <2>2, <2>3
  <1>8. \A q \in Calls, b \in Attempts : plans'[q][b].error = "conflict" => plans'[q][b].op = "failed"
    BY <1>2, <1>3 DEF Counts
  <1> QED
    BY <1>5, <1>7, <1>8 DEF Counts, Counted

LEMMA GatewayCounts == ASSUME IInv, Counts, NEW p \in Calls, NEW a \in Attempts, Gateway(p, a) PROVE Counts'
  <1> DEFINE old == plans[p][a]
  <1>1. Types /\ old \in Plan
    BY DEF IInv, Types
  <1>2. CASE Activate(p, a)
    BY <1>2, WinCounts, ClashCounts
  <1>3. CASE Break(p, a) \/ Stall(p, a) \/ Resume(p, a) \/ RehearsalEnds(p, a)
    <2>1. PICK new \in Plan :
            /\ plans' = [plans EXCEPT ![p][a] = new] /\ new.base = old.base
            /\ \/ /\ old.op = "running" /\ new.op = "failed" /\ new.error \in {"interrupted", "broken"}
               \/ old.op \in {"running", "pending", "static"} /\ new.op \in {"running", "pending", "static"} /\ new.error = old.error
               \/ old.rehearsal = "running" /\ new.op = old.op /\ new.error = old.error
      <3>1. CASE Break(p, a)
        <4>1. PICK plan \in {old, Migrated(p, a)}, e \in {"interrupted", "broken"} :
                plans' = [plans EXCEPT ![p][a] = [plan EXCEPT !.op = "failed", !.error = e]]
          BY <3>1 DEF Break, Operation
        <4>2. plan \in Plan /\ plan.base = old.base
          BY <1>1, MigratedPlan
        <4> DEFINE new == [plan EXCEPT !.op = "failed", !.error = e]
        <4>3. new \in Plan /\ new.base = old.base /\ new.op = "failed" /\ new.error \in {"interrupted", "broken"}
          BY <4>2 DEF Plan, Errors
        <4> QED
          BY <3>1, <4>1, <4>3 DEF Break
      <3>2. CASE Stall(p, a) \/ Resume(p, a)
        <4>1. PICK plan \in {old, Migrated(p, a)}, to \in {"running", "pending", "static"} :
                plans' = [plans EXCEPT ![p][a] = [plan EXCEPT !.op = to]]
          BY <3>2 DEF Stall, Resume, Operation
        <4>2. plan \in Plan /\ plan.base = old.base /\ plan.error = old.error
          BY <1>1, MigratedPlan
        <4> DEFINE new == [plan EXCEPT !.op = to]
        <4>3. new \in Plan /\ new.base = old.base /\ new.op = to /\ new.error = old.error
          BY <4>2 DEF Plan
        <4>4. old.op \in {"running", "pending", "static"}
          BY <3>2 DEF Stall, Resume
        <4> QED
          BY <4>1, <4>3, <4>4
      <3>3. CASE RehearsalEnds(p, a)
        <4>1. PICK r \in {"passed", "failed", "interrupted", "broken"} :
                plans' = [plans EXCEPT ![p][a] = [old EXCEPT !.rehearsal = r]]
          BY <3>3 DEF RehearsalEnds, Operation
        <4>2. [old EXCEPT !.rehearsal = r] \in Plan
          BY <1>1 DEF Plan
        <4> QED
          BY <1>1, <3>3, <4>1, <4>2 DEF RehearsalEnds, Plan
      <3> QED
        BY <1>3, <3>1, <3>2, <3>3
    <2>2. UNCHANGED <<spec, proc, live, promotes>>
      BY <1>3 DEF Break, Stall, Resume, RehearsalEnds
    <2>3. old.rehearsal = "running" => old.op = "planned"
      BY DEF IInv, Sound, Rehearsed, Cleared
    <2>4. old.op # "failed" => old.error # "conflict"
      BY DEF Counts
    <2> QED
      BY <2>1, <2>2, <2>3, <2>4, PlanStepCounts
  <1> QED
    BY <1>2, <1>3 DEF Gateway

\* A promotion may make every open plan stale, once.
LEMMA PromoteCounts == ASSUME IInv, Counts, Promote PROVE Counts'
  <1>1. UNCHANGED <<spec, plans, proc>> /\ promotes' = promotes + 1
    BY DEF Promote
  <1>2. Winners' = Winners /\ \A q \in Calls : Clashes(q)' = Clashes(q)
    BY <1>1 DEF Winners, Activated, Clashes
  <1>3. ASSUME NEW q \in Calls, spec[q].base = "current" PROVE Counted(q)'
    <2>1. Rivals(q)' = Rivals(q) + 1
      BY <1>1, <1>2, CountsAreNumbers, SMTT(30) DEF Rivals
    <2>2. Cardinality(Clashes(q)) \in Nat /\ Rivals(q) \in Nat /\ Cardinality(Clashes(q)) <= Rivals(q)
      BY <1>3, CountsAreNumbers DEF Counts, Counted
    <2> QED
      BY <1>2, <2>1, <2>2 DEF Counted
  <1> QED
    BY <1>1, <1>2, <1>3 DEF Counts, Counted

LEMMA InitCounts == Init => Counts
  <1> SUFFICES ASSUME Init PROVE Counts
    OBVIOUS
  <1>1. \A p \in Calls, a \in Attempts : plans[p][a].op = "planned" /\ plans[p][a].error = None
    BY DEF Init, NoPlan
  <1>2. Winners = {} /\ \A p \in Calls : Clashes(p) = {} /\ ~Beaten(p)
    BY <1>1, FirstAttempt, AbsentAssumption
       DEF Init, Winners, Activated, Clashes, Beaten, Going, Current, AbsentAssumption, Errors
  <1>3. IsFiniteSet({}) /\ Cardinality({}) = 0
    BY FS_EmptySet
  <1>4. \A p \in Calls : Winners \ {p} = {} /\ Cardinality(Clashes(p)) <= Rivals(p)
    <2>1. ASSUME NEW p \in Calls PROVE Winners \ {p} = {} /\ Clashes(p) = {}
      BY <1>2
    <2>2. promotes = 0
      BY DEF Init
    <2> QED
      BY <1>3, <2>1, <2>2 DEF Rivals
  <1>5. \A p \in Calls, a \in Attempts : plans[p][a].error # "conflict"
    BY <1>1, AbsentAssumption DEF AbsentAssumption, Errors
  <1> QED
    BY <1>2, <1>3, <1>4, <1>5 DEF Counts, Counted

\* A call that follows the current release loses as many attempts to conflicts as
\* other calls activate releases and earlier ones are promoted, and no more,
\* for any calls, retries and faults.
THEOREM ConflictsHaveCauses == Spec => []ConflictsAreOthers
  <1>1. Counts /\ IInv => ConflictsAreOthers
    <2> SUFFICES ASSUME Counts, IInv, NEW p \in Calls, spec[p].base = "current"
                 PROVE  Cardinality({a \in Attempts : plans[p][a].error = "conflict"})
                          <= Cardinality({q \in Calls \ {p} : Activated(q) # {}}) + promotes
      BY DEF ConflictsAreOthers
    <2>1. {q \in Calls \ {p} : Activated(q) # {}} = Winners \ {p}
      BY DEF Winners
    <2> QED
      BY <2>1 DEF Counts, Counted, Clashes, Rivals
  <1>2. IInv /\ Counts /\ [Next]_vars => Counts'
    <2> SUFFICES ASSUME IInv, Counts, [Next]_vars PROVE Counts'
      OBVIOUS
    <2>1. CASE UNCHANGED vars
      BY <2>1 DEF vars, gateway, Counts, Counted, Rivals, Clashes, Winners, Activated, Beaten, Going, Current
    <2> QED
      BY <2>1, PlanCounts, StepCounts, GatewayCounts, PromoteCounts DEF Next
  <1> QED
    BY <1>1, <1>2, InitInv, IInvKept, InitCounts, PTL DEF Spec
==============================================================================
