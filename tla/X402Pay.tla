------------------------------- MODULE X402Pay -------------------------------
(***************************************************************************)
(* pay.fetch on the x402 rail: the buyer with its proofs in memory and the *)
(* tracker that journals every attempt (sdk/src/node/paid-fetch.ts,        *)
(* createX402BuyerFetch and createTrackedX402Fetch, over                   *)
(* payment-attempts.ts).  Every call makes the identical request, so an    *)
(* instance caches its proofs under one fingerprint; instances share only  *)
(* the journal directory.  A turn of an instance runs from one await of    *)
(* the code to the next and is cut where the file system shows it to other *)
(* processes: Alone keeps the calls of one instance from interleaving      *)
(* inside a turn.                                                          *)
(***************************************************************************)
EXTENDS Integers, FiniteSets

CONSTANTS
  Calls,         \* calls of pay.fetch
  Workloads,     \* what Init chooses among: the calls that are made, and the bounds on
                 \* journal writes that fail and on processes that die
  Instances,     \* SDK instances, one per process
  InstanceOf,    \* the instance a call is made on
  Supplied,      \* the attempt id a call carries in its header, or None
  None,
  GatewayUnsure, \* whether a trusted error envelope may leave funds_moved unknown
  MaxActive      \* bound: calls an instance runs at once

\* (state, mutation_state) of a record; a file that was opened but not filled is torn.
Torn == <<"torn", "not_started">>
Intent == <<"intent", "not_started">>
Submitting == <<"submitting", "in_progress">>
Received == <<"response_received", "in_progress">>
Completed == <<"completed", "completed">>
Unpriced == <<"completed", "not_started">>
Failed == <<"failed", "not_started">>
Pending == <<"intent_pending", "ambiguous">>
Ambiguous == <<"ambiguous", "ambiguous">>
Records == {Torn, Intent, Submitting, Received, Completed, Unpriced, Failed, Pending, Ambiguous}

ASSUME PayAssumption ==
  /\ InstanceOf \in [Calls -> Instances] /\ None \notin Calls \cup Records
  /\ \A c \in Calls : Supplied[c] \notin Calls
  /\ GatewayUnsure \in BOOLEAN /\ MaxActive \in Nat
  /\ Workloads \subseteq [calls : SUBSET Calls, faults : Nat, crashes : Nat]

VARIABLES
  journal,     \* payment-attempts/<id>.json
  proofs,      \* the cached proof of each instance, named by the call that made it
  creating,    \* the call whose createProof is pending, of each instance
  at,          \* where each call is
  my,          \* the locals of each call
  dispatched,  \* the proof each call sent
  settledBy,   \* seller: the call whose request settled each proof
  refused,     \* seller: proofs it turned down for good
  faults,      \* journal faults and crashes left; the instances that died or ran calls together
  verdict,     \* history: what each call told its caller
  owed         \* history: proofs whose fate an instance last reported unknown

vars == <<journal, proofs, creating, at, my, dispatched, settledBy, refused, faults, verdict, owed>>

Id(c) == IF Supplied[c] = None THEN c ELSE Supplied[c]
Attempts == {Id(c) : c \in Calls}
I(c) == InstanceOf[c]

MidTurn == {"inspect", "claim", "fill", "lookup", "submit", "send"}
Running == MidTurn \cup {"discover", "mint", "minting", "awaiting", "resume", "giveup", "wait", "conclude"}

Locals == [proof : Calls \cup {None}, replayed : BOOLEAN, recorded : BOOLEAN, next : {"lookup", "submit", "mint"},
           resp : {"none", "ok", "bare", "used", "refused", "gateway", "unsure", "pending", "error", "lost"},
           owed : SUBSET Calls]

Fresh == [proof |-> None, replayed |-> FALSE, recorded |-> FALSE, next |-> "lookup", resp |-> "none", owed |-> {}]

Init ==
  /\ journal = [i \in Attempts |-> None]
  /\ proofs = [n \in Instances |-> None]
  /\ creating = [n \in Instances |-> None]
  /\ \E w \in Workloads :
       /\ at = [c \in Calls |-> IF c \in w.calls THEN "idle" ELSE "done"]
       /\ faults = [journal |-> w.faults, crash |-> w.crashes, died |-> {}, overlap |-> {}]
  /\ my = [c \in Calls |-> Fresh]
  /\ dispatched = [c \in Calls |-> None]
  /\ settledBy = [c \in Calls |-> None]
  /\ refused = {}
  /\ verdict = [c \in Calls |-> "none"]
  /\ owed = [n \in Instances |-> {}]

Goto(c, l) == at' = [at EXCEPT ![c] = l]
Local(c, m) == my' = [my EXCEPT ![c] = m]
End(c, v) == Goto(c, "done") /\ verdict' = [verdict EXCEPT ![c] = v]

\* JavaScript: no other call of the instance is inside its turn.
Alone(c) == \A d \in Calls \ {c} : I(d) = I(c) => at[d] \notin MidTurn

Seller == <<dispatched, settledBy, refused>>

-----------------------------------------------------------------------------
(* The journal.                                                            *)

JournalFault == faults.journal > 0 /\ faults' = [faults EXCEPT !.journal = @ - 1]

\* writeRecord: rename over the file of this attempt.
Record(c, r) == journal' = [journal EXCEPT ![Id(c)] = r]

\* writeRecordBestEffort: nothing without a record, and a fault is swallowed.
RecordBestEffort(c, r) ==
  \/ my[c].recorded /\ Record(c, r) /\ UNCHANGED faults
  \/ my[c].recorded /\ JournalFault /\ UNCHANGED journal
  \/ ~my[c].recorded /\ UNCHANGED <<journal, faults>>

\* A call before dispatch that fails records it if it can and is safe to retry.
Withdraw(c, r, v) == RecordBestEffort(c, r) /\ End(c, v) /\ UNCHANGED my

-----------------------------------------------------------------------------
Begin(c) ==
  /\ at[c] = "idle"
  /\ Cardinality({d \in Calls : I(d) = I(c) /\ at[d] \in Running}) < MaxActive
  /\ Goto(c, IF Supplied[c] = None THEN "lookup" ELSE "inspect")
  /\ faults' = [faults EXCEPT !.overlap =
                  IF \E d \in Calls : I(d) = I(c) /\ at[d] \in Running THEN @ \cup {I(c)} ELSE @]
  /\ UNCHANGED <<journal, proofs, creating, my, Seller, verdict, owed>>

\* A supplied id with a record, or with one that cannot be read, goes no further.
Inspect(c) ==
  /\ at[c] = "inspect"
  /\ \/ /\ journal[Id(c)] = None
        /\ Goto(c, "claim") /\ UNCHANGED verdict
     \/ /\ journal[Id(c)] # None
        /\ End(c, "exists")
  /\ UNCHANGED <<journal, proofs, creating, my, Seller, faults, owed>>

\* Mutant of Claim: the file is opened without the exclusive flag.
ClaimShared(c) ==
  /\ at[c] = "claim"
  /\ Record(c, Torn) /\ Goto(c, "fill")
  /\ UNCHANGED <<proofs, creating, my, Seller, faults, verdict, owed>>

\* claimIntent: open(wx) lets one call have the id, then the record is written.
Claim(c) ==
  /\ at[c] = "claim"
  /\ \/ /\ journal[Id(c)] = None
        /\ Record(c, Torn) /\ Goto(c, "fill") /\ UNCHANGED <<faults, verdict>>
     \/ /\ journal[Id(c)] # None
        /\ End(c, "exists") /\ UNCHANGED <<journal, faults>>
     \/ JournalFault /\ End(c, "safe") /\ UNCHANGED journal
  /\ UNCHANGED <<proofs, creating, my, Seller, owed>>

\* Mutant of Fill: the record is not kept with the call.
FillForgets(c) ==
  /\ at[c] = "fill"
  /\ Record(c, Intent) /\ Goto(c, my[c].next)
  /\ UNCHANGED <<proofs, creating, my, Seller, faults, verdict, owed>>

\* The reserved file gets its record; the write may fail before or after that.
Fill(c) ==
  /\ at[c] = "fill"
  /\ \/ /\ Record(c, Intent)
        /\ Local(c, [my[c] EXCEPT !.recorded = TRUE])
        /\ Goto(c, my[c].next) /\ UNCHANGED <<faults, verdict>>
     \/ JournalFault /\ (Record(c, Intent) \/ UNCHANGED journal) /\ End(c, "safe") /\ UNCHANGED my
  /\ UNCHANGED <<proofs, creating, Seller, owed>>

\* ensureIntent, then go on at l.
Ensure(c, m, l) ==
  IF m.recorded THEN Local(c, m) /\ Goto(c, l)
  ELSE Local(c, [m EXCEPT !.next = l]) /\ Goto(c, "claim")

\* Mutant of Lookup: a retry does not look for the proof of an earlier call.
LookupNothing(c) ==
  /\ at[c] = "lookup"
  /\ Local(c, [my[c] EXCEPT !.owed = owed[I(c)]]) /\ Goto(c, "discover")
  /\ UNCHANGED <<journal, proofs, creating, Seller, faults, verdict, owed>>

\* A cached proof is presented again; otherwise the price is asked for.
Lookup(c) ==
  LET m == [my[c] EXCEPT !.owed = owed[I(c)]] IN
  /\ at[c] = "lookup"
  /\ IF proofs[I(c)] # None
     THEN Ensure(c, [m EXCEPT !.proof = proofs[I(c)], !.replayed = TRUE], "submit")
     ELSE Local(c, m) /\ Goto(c, "discover")
  /\ UNCHANGED <<journal, proofs, creating, Seller, faults, verdict, owed>>

\* The answer to the unpaid request: a 402, something else, or none.
Discover(c) ==
  /\ at[c] = "discover"
  /\ \/ Ensure(c, my[c], "mint") /\ UNCHANGED <<journal, faults, verdict>>
     \/ Withdraw(c, Unpriced, "not_required")
     \/ Withdraw(c, Failed, "safe")
  /\ UNCHANGED <<proofs, creating, Seller, owed>>

\* guardPaymentRequired, then the proof: one createProof at a time.
Mint(c) ==
  /\ at[c] = "mint"
  /\ \/ /\ creating[I(c)] = None
        /\ creating' = [creating EXCEPT ![I(c)] = c]
        /\ Goto(c, "minting") /\ UNCHANGED <<journal, my, faults, verdict>>
     \/ /\ creating[I(c)] # None
        /\ Goto(c, "awaiting") /\ UNCHANGED <<journal, creating, my, faults, verdict>>
     \/ Withdraw(c, Failed, "safe") /\ UNCHANGED creating
  /\ UNCHANGED <<proofs, Seller, owed>>

\* createProof ends, and every call that waits for it resumes in a turn of its own.
MintDone(c) ==
  LET waiting == {d \in Calls : I(d) = I(c) /\ at[d] \in {"minting", "awaiting"}} IN
  /\ at[c] = "minting"
  /\ creating' = [creating EXCEPT ![I(c)] = None]
  /\ \E ok \in BOOLEAN :
       /\ at' = [d \in Calls |-> IF d \notin waiting THEN at[d] ELSE IF ok THEN "resume" ELSE "giveup"]
       /\ my' = [d \in Calls |-> IF d \in waiting /\ ok THEN [my[d] EXCEPT !.proof = c] ELSE my[d]]
  /\ UNCHANGED <<journal, proofs, Seller, faults, verdict, owed>>

GiveUp(c) ==
  /\ at[c] = "giveup"
  /\ Withdraw(c, Failed, "safe")
  /\ UNCHANGED <<proofs, creating, Seller, owed>>

Keep(c) == proofs' = [proofs EXCEPT ![I(c)] = my[c].proof]

\* Mutant of Submit: the record is left for the response to write.
SubmitUnrecorded(c) ==
  /\ at[c] \in {"submit", "resume"}
  /\ Keep(c) /\ Goto(c, "send")
  /\ UNCHANGED <<journal, creating, my, Seller, faults, verdict, owed>>

\* The proof is cached, and a paid request is recorded before it is sent or it
\* is not sent; a write that fails may have replaced the file.
Submit(c) ==
  /\ at[c] \in {"submit", "resume"}
  /\ Keep(c)
  /\ \/ Record(c, Submitting) /\ Goto(c, "send") /\ UNCHANGED <<faults, verdict>>
     \/ /\ JournalFault /\ End(c, "safe")
        /\ \/ \E r \in {Submitting, Failed} : Record(c, r)
           \/ UNCHANGED journal
  /\ UNCHANGED <<creating, my, Seller, owed>>

\* providerStarted: from here a missing answer is an unknown outcome.
Send(c) ==
  /\ at[c] = "send"
  /\ dispatched' = [dispatched EXCEPT ![c] = my[c].proof]
  /\ Goto(c, "wait")
  /\ UNCHANGED <<journal, proofs, creating, my, settledBy, refused, faults, verdict, owed>>

-----------------------------------------------------------------------------
(* The seller.  A proof settles at most once (its nonce), a proof declared  *)
(* rejected stays rejected, and a request may settle long after its call    *)
(* gave up.                                                                 *)

Settle(c) ==
  LET q == dispatched[c] IN
  /\ q # None /\ settledBy[q] = None /\ q \notin refused
  /\ my[c].resp # "gateway"
  /\ settledBy' = [settledBy EXCEPT ![q] = c]
  /\ UNCHANGED <<journal, proofs, creating, at, my, dispatched, refused, faults, verdict, owed>>

\* "ok" proves a settlement, on a failed delivery too, "bare" is a success without
\* a receipt, "used" names a spent nonce, "refused" is a proven non-settlement,
\* "gateway" a trusted error envelope.
Answers(c) ==
  {r \in {"ok", "bare", "used", "refused", "gateway", "unsure", "pending", "error", "lost"} :
     /\ r \in {"ok", "used"} => settledBy[dispatched[c]] # None
     /\ r = "refused" => settledBy[dispatched[c]] = None
     /\ r = "gateway" => settledBy[dispatched[c]] # c
     /\ r = "unsure" => GatewayUnsure}

Receive(c) ==
  /\ at[c] = "wait"
  /\ \E r \in Answers(c) :
       /\ refused' = IF r = "refused" THEN refused \cup {dispatched[c]} ELSE refused
       /\ \/ /\ Local(c, [my[c] EXCEPT !.resp = r])
             /\ IF r = "lost" THEN UNCHANGED journal ELSE Record(c, Received)
             /\ UNCHANGED faults
          \/ /\ r # "lost" /\ JournalFault
             /\ Local(c, [my[c] EXCEPT !.resp = "lost"]) /\ UNCHANGED journal
  /\ Goto(c, "conclude")
  /\ UNCHANGED <<proofs, creating, dispatched, settledBy, verdict, owed>>

-----------------------------------------------------------------------------
(* classifyPaymentResponse and what the buyer makes of it.                 *)

\* Mutant of Classified: a spent nonce is read as a rejected payment.
ClassifiedUsed(c) ==
  LET r == my[c].resp IN
  CASE r \in {"ok", "bare"}                             -> Completed
    [] r \in {"refused", "gateway", "unsure", "used"} -> Failed
    [] r = "pending"                                  -> Pending
    [] OTHER                                          -> Ambiguous

\* The record an answer leads to.
Classified(c) ==
  LET r == my[c].resp IN
  CASE r \in {"ok", "bare"} \/ (r = "used" /\ my[c].replayed) -> Completed
    [] r \in {"refused", "gateway", "unsure"}     -> Failed
    [] r = "pending"                              -> Pending
    [] OTHER                                      -> Ambiguous

\* Mutant of Forgets: any answer that is no success drops the proof.
ForgetsAlways(c) == my[c].resp # "lost"

\* A verdict on the proof itself drops it; a gateway envelope, a success without
\* a receipt and an unknown outcome keep it for the identical retry.
Forgets(c) == my[c].resp = "refused" \/ (Classified(c) = Completed /\ my[c].resp # "bare")

\* What the caller is told: a success without a receipt is an unknown outcome.
Tells(c) ==
  CASE my[c].resp = "bare"       -> "unknown"
    [] my[c].resp = "refused"    -> "safe"
    [] Classified(c) = Completed -> "settled"
    [] Classified(c) = Failed    -> "gateway"
    [] OTHER                     -> "unknown"

Conclude(c) ==
  LET q == my[c].proof IN
  /\ at[c] = "conclude"
  /\ RecordBestEffort(c, Classified(c))
  /\ proofs' = IF Forgets(c) THEN [proofs EXCEPT ![I(c)] = None] ELSE proofs
  /\ owed' = [owed EXCEPT ![I(c)] =
                IF Forgets(c) THEN @ \ {q} ELSE IF Tells(c) = "unknown" THEN @ \cup {q} ELSE @]
  /\ End(c, Tells(c))
  /\ UNCHANGED <<creating, my, Seller>>

\* The process dies with its proofs; the owed ones are for the journal to tell.
Crash(n) ==
  /\ faults.crash > 0
  /\ faults' = [faults EXCEPT !.crash = @ - 1, !.died = @ \cup {n}]
  /\ at' = [c \in Calls |-> IF I(c) = n /\ at[c] # "done" THEN "dead" ELSE at[c]]
  /\ proofs' = [proofs EXCEPT ![n] = None]
  /\ creating' = [creating EXCEPT ![n] = None]
  /\ UNCHANGED <<journal, my, Seller, verdict, owed>>

Call(c) ==
  \/ Begin(c) \/ Inspect(c) \/ Claim(c) \/ Fill(c) \/ Lookup(c) \/ Discover(c) \/ Mint(c)
  \/ MintDone(c) \/ GiveUp(c) \/ Submit(c) \/ Send(c) \/ Receive(c) \/ Conclude(c)

Next ==
  \/ \E c \in Calls : (Alone(c) /\ Call(c)) \/ Settle(c)
  \/ \E n \in Instances : Crash(n)

Spec == Init /\ [][Next]_vars

-----------------------------------------------------------------------------
(* Properties.                                                             *)

\* Values keep their types, and a dispatched call has a record of its own.
TypeOK ==
  /\ journal \in [Attempts -> Records \cup {None}]
  /\ proofs \in [Instances -> Calls \cup {None}] /\ creating \in [Instances -> Calls \cup {None}]
  /\ at \in [Calls -> Running \cup {"idle", "done", "dead"}]
  /\ my \in [Calls -> Locals] /\ owed \in [Instances -> SUBSET Calls]
  /\ verdict \in [Calls -> {"none", "settled", "unknown", "safe", "gateway", "exists", "not_required"}]
  /\ \A c \in Calls : dispatched[c] # None => dispatched[c] = my[c].proof /\ my[c].recorded
  /\ dispatched \in [Calls -> Calls \cup {None}] /\ settledBy \in [Calls -> Calls \cup {None}]
  /\ refused \subseteq Calls

\* "reserved atomically": whichever processes are given an attempt id, at once
\* or one after a crash of the other, one payment is sent under it at most.
AttemptPaysOnce ==
  \A c, d \in Calls : dispatched[c] # None /\ dispatched[d] # None /\ Id(c) = Id(d) => c = d

\* "After dispatch, an unknown outcome is mutationState: ambiguous": whoever
\* reconciles from the journal never reads that nothing was started about an
\* attempt whose request moved funds, after a crash or a failed write either.
JournalHonest ==
  \A q \in Calls : settledBy[q] # None =>
    /\ journal[Id(settledBy[q])] # None
    /\ journal[Id(settledBy[q])][2] # "not_started"

\* A caller told that a retry is safe was not charged by the call it made.
SafeMeansUnpaid == \A q \in Calls : settledBy[q] # None => verdict[settledBy[q]] \notin {"safe", "gateway", "exists"}

\* "retains the original proof in memory and re-presents it; it never signs a
\* replacement": a call that starts after an identical one ended with an unknown
\* outcome signs nothing while that outcome is open.
NoReplacement ==
  \A c \in Calls : at[c] \in {"minting", "awaiting"} => my[c].owed \cap owed[I(c)] = {}

\* An instance that has run one call at a time and has not died.
Sequential(n) == n \notin faults.overlap \cup faults.died

Reported(q) == \E c \in Calls : dispatched[c] = q /\ verdict[c] = "settled"

\* The same of such an instance, and what it is for: its repeated calls present the
\* first proof until its fate is known, so however answers are lost it has one
\* payment at most that moved funds and that no call reported as settled.
RetriesPayOnce ==
  /\ \A c \in Calls : Sequential(I(c)) /\ at[c] \in {"minting", "awaiting"} => my[c].owed \cap owed[I(c)] = {}
  /\ \A n \in {n \in Instances : Sequential(n)} :
       Cardinality({q \in Calls : I(q) = n /\ settledBy[q] # None /\ ~Reported(q)}) <= 1

\* The journal implements AttemptLedger.
Stage(r) ==
  CASE r = None                    -> "free"
    [] r \in {Torn, Intent}        -> "reserved"
    [] r \in {Submitting, Received} -> "dispatched"
    [] r = Completed               -> "paid"
    [] r \in {Unpriced, Failed}    -> "unpaid"
    [] r \in {Pending, Ambiguous}  -> "unknown"

Ledger == INSTANCE AttemptLedger WITH
  stage <- [i \in Attempts |-> Stage(journal[i])],
  moved <- {Id(settledBy[q]) : q \in {q \in Calls : settledBy[q] # None}}

LedgerSpec == Ledger!Spec
=============================================================================
