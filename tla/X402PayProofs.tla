--------------------------- MODULE X402PayProofs ---------------------------
(***************************************************************************)
(* Proofs about X402Pay: its types, that an attempt id pays once, that     *)
(* neither the journal nor a verdict denies a payment that moved funds,    *)
(* that the journal implements AttemptLedger, and that retries pay once.   *)
(* IInv is inductive: Places ties where a call is to what it has done,     *)
(* Owners gives the journal file of an id to one call, Bound holds the     *)
(* seller to its answers, and Told says what may then be written.          *)
(* OneByOne is about instances that run their calls one after the other:   *)
(* the cache holds the one proof whose fate is open.                       *)
(***************************************************************************)
EXTENDS X402Pay, FiniteSetTheorems, TLAPS

Before == {"idle", "inspect", "claim", "fill", "lookup", "discover", "mint", "minting", "awaiting",
           "resume", "giveup", "submit", "send"}
Recorded == {"mint", "minting", "awaiting", "resume", "giveup", "submit", "send", "wait", "conclude"}

Types ==
  /\ journal \in [Attempts -> Records \cup {None}]
  /\ proofs \in [Instances -> Calls \cup {None}]
  /\ creating \in [Instances -> Calls \cup {None}]
  /\ at \in [Calls -> Running \cup {"idle", "done", "dead"}]
  /\ my \in [Calls -> Locals]
  /\ dispatched \in [Calls -> Calls \cup {None}]
  /\ settledBy \in [Calls -> Calls \cup {None}]
  /\ refused \subseteq Calls
  /\ verdict \in [Calls -> {"none", "settled", "unknown", "safe", "gateway", "exists", "not_required"}]
  /\ owed \in [Instances -> SUBSET Calls]

\* Where a call is decides whether it owns its record and has sent its proof.
Place(c) ==
  /\ at[c] \in Recorded => my[c].recorded
  /\ at[c] \in Before => dispatched[c] = None /\ verdict[c] = "none"
  /\ at[c] \in {"submit", "resume", "send", "wait", "conclude"} => my[c].proof # None
  /\ at[c] \in {"idle", "inspect", "claim", "fill"} /\ my[c].next = "submit" => my[c].proof # None
  /\ at[c] \in {"wait", "conclude"} => dispatched[c] # None
  /\ at[c] \in Before \cup {"wait"} => my[c].resp = "none"
  /\ dispatched[c] # None => dispatched[c] = my[c].proof /\ my[c].recorded
Places == \A c \in Calls : Place(c)

Owns(c) == my[c].recorded \/ at[c] = "fill"

\* One call owns an attempt id, and its file exists.
Owners ==
  /\ \A c \in Calls : Owns(c) => journal[Id(c)] # None
  /\ \A c, d \in Calls : Owns(c) /\ Owns(d) /\ Id(c) = Id(d) => c = d

\* The seller's word on a request binds it.
Cleared(c) == my[c].resp \in {"gateway", "unsure"} \/ dispatched[c] \in refused
Bound ==
  /\ \A q \in Calls : settledBy[q] # None => dispatched[settledBy[q]] = q
  /\ \A q \in refused : settledBy[q] = None
  /\ \A c \in Calls : my[c].resp = "gateway" => dispatched[c] # None /\ settledBy[dispatched[c]] # c
  /\ \A c \in Calls : my[c].resp = "refused" => dispatched[c] \in refused
  /\ \A c \in Calls : my[c].resp = "unsure" => GatewayUnsure

\* What the journal and the caller are told about a request that was sent.
Told ==
  \A c \in Calls :
    /\ at[c] = "send" \/ (dispatched[c] # None /\ ~Cleared(c)) =>
         journal[Id(c)] \in {Submitting, Received, Completed, Pending, Ambiguous}
    /\ dispatched[c] # None /\ verdict[c] \in {"safe", "gateway", "exists"} => Cleared(c)
-----------------------------------------------------------------------------
IInv == Types /\ Places /\ Owners /\ Bound /\ Told

LEMMA Naming ==
  /\ \A c \in Calls : Id(c) \in Attempts /\ I(c) \in Instances
  /\ None \notin Calls
  /\ None \notin Records
  /\ {Torn, Intent, Submitting, Received, Completed, Unpriced, Failed, Pending, Ambiguous} \subseteq Records
BY PayAssumption DEF Attempts, I, Records

\* A changed field leaves the others of a call's locals alone.
Like(n, m) == n \in Locals /\ n.recorded = m.recorded /\ n.resp = m.resp

LEMMA Updates ==
  ASSUME NEW m \in Locals
  PROVE  /\ LET n == [m EXCEPT !.recorded = TRUE] IN
              n \in Locals /\ n.recorded = TRUE /\ n.resp = m.resp /\ n.proof = m.proof /\ n.next = m.next
         /\ \A l \in {"lookup", "submit", "mint"} :
              LET n == [m EXCEPT !.next = l] IN Like(n, m) /\ n.proof = m.proof
         /\ \A S \in SUBSET Calls : LET n == [m EXCEPT !.owed = S] IN Like(n, m) /\ n.proof = m.proof
         /\ \A q \in Calls \cup {None} : LET n == [m EXCEPT !.proof = q] IN Like(n, m) /\ n.proof = q
         /\ \A q \in Calls \cup {None} :
              LET n == [m EXCEPT !.proof = q, !.replayed = TRUE] IN Like(n, m) /\ n.proof = q
BY DEF Locals, Like

\* ensureIntent goes on with a record, or to claim one.
LEMMA EnsureGoes ==
  ASSUME my \in [Calls -> Locals], NEW c \in Calls, NEW m \in Locals, NEW l \in {"lookup", "submit", "mint"},
         Ensure(c, m, l)
  PROVE  \E n \in Locals :
           /\ Like(n, m) /\ n.proof = m.proof /\ my' = [my EXCEPT ![c] = n]
           /\ \/ m.recorded /\ at' = [at EXCEPT ![c] = l]
              \/ ~m.recorded /\ n.next = l /\ at' = [at EXCEPT ![c] = "claim"]
<1>1. CASE m.recorded
  BY <1>1 DEF Ensure, Like, Local, Goto
<1>2. CASE ~m.recorded
  <2> DEFINE n == [m EXCEPT !.next = l]
  <2>1. n \in Locals /\ Like(n, m) /\ n.proof = m.proof /\ n.next = l
    BY DEF Locals, Like
  <2>2. my' = [my EXCEPT ![c] = n] /\ at' = [at EXCEPT ![c] = "claim"]
    BY <1>2 DEF Ensure, Local, Goto
  <2> QED
    BY <1>2, <2>1, <2>2
<1> QED
  BY <1>1, <1>2

\* The record of an attempt is written by the call that owns it alone.
LEMMA OthersKeep ==
  ASSUME IInv, NEW c \in Calls, NEW r, Record(c, r), Owns(c)
  PROVE  \A d \in Calls \ {c} :
           at[d] = "send" \/ dispatched[d] # None => journal'[Id(d)] = journal[Id(d)]
<1>1. \A d \in Calls \ {c} : at[d] = "send" \/ dispatched[d] # None => Id(d) # Id(c)
  BY DEF IInv, Places, Place, Recorded, Owners, Owns
<1> QED
  BY <1>1, Naming DEF IInv, Types, Record

LEMMA StartsRight == Init => IInv
  <1> SUFFICES ASSUME Init PROVE IInv
    OBVIOUS
  <1>1. Types
    BY DEF Init, Types, Fresh, Locals
  <1>2. Places
    BY Naming DEF Init, Places, Place, Fresh, Before, Recorded
  <1>3. Owners /\ Bound /\ Told
    BY Naming DEF Init, Owners, Owns, Bound, Told, Fresh
  <1> QED
    BY <1>1, <1>2, <1>3 DEF IInv

LEMMA BeginKeeps == ASSUME IInv, NEW c \in Calls, Begin(c) PROVE IInv'
  <1> USE Naming DEF IInv, Goto, Local, End, Seller, Withdraw, RecordBestEffort, Record, JournalFault
  <1>1. Types'
    BY DEF Begin, Types, Running, MidTurn
  <1>2. Places'
    BY <1>1 DEF Begin, Types, Places, Place, Before, Recorded
  <1>3. Owners'
    BY <1>1, <1>2 DEF Begin, Types, Places, Place, Owners, Owns, Before, Recorded
  <1>4. Bound'
    BY <1>1, <1>2, <1>3 DEF Begin, Types, Places, Place, Bound, Before, Recorded
  <1>5. Told'
    BY <1>1, <1>2, <1>3, <1>4 DEF Begin, Types, Places, Place, Owners, Owns, Bound, Told, Cleared, Before, Recorded
  <1> QED
    BY <1>1, <1>2, <1>3, <1>4, <1>5

LEMMA InspectKeeps == ASSUME IInv, NEW c \in Calls, Inspect(c) PROVE IInv'
  <1>1. /\ at[c] = "inspect"
        /\ UNCHANGED <<journal, proofs, creating, my, dispatched, settledBy, refused, owed>>
    BY DEF Inspect, Seller
  <1>2. \/ at' = [at EXCEPT ![c] = "claim"] /\ UNCHANGED verdict
        \/ at' = [at EXCEPT ![c] = "done"] /\ verdict' = [verdict EXCEPT ![c] = "exists"]
    BY DEF Inspect, Goto, End
  <1>3. Types'
    BY <1>1, <1>2 DEF IInv, Types, Running, MidTurn
  <1>4. Places'
    BY <1>1, <1>2 DEF IInv, Types, Places, Place, Before, Recorded
  <1>5. Owners' /\ Bound' /\ Told'
    BY <1>1, <1>2 DEF IInv, Types, Places, Place, Owners, Owns, Bound, Told, Cleared, Before
  <1> QED
    BY <1>3, <1>4, <1>5 DEF IInv

LEMMA ClaimKeeps == ASSUME IInv, NEW c \in Calls, Claim(c) PROVE IInv'
  <1> USE Naming DEF IInv, Goto, Local, End, Seller, Withdraw, RecordBestEffort, Record, JournalFault
  <1>1. Types'
    BY DEF Claim, Types, Running, MidTurn
  <1>2. Places'
    BY <1>1 DEF Claim, Types, Places, Place, Before, Recorded
  <1>3. Owners'
    BY <1>1, <1>2 DEF Claim, Types, Places, Place, Owners, Owns, Before, Recorded
  <1>4. Bound'
    BY <1>1, <1>2, <1>3 DEF Claim, Types, Places, Place, Bound, Before, Recorded
  <1>5. Told'
    BY <1>1, <1>2, <1>3, <1>4 DEF Claim, Types, Places, Place, Owners, Owns, Bound, Told, Cleared, Before, Recorded
  <1> QED
    BY <1>1, <1>2, <1>3, <1>4, <1>5

LEMMA FillKeeps == ASSUME IInv, NEW c \in Calls, Fill(c) PROVE IInv'
  <1> USE Naming DEF IInv, Goto, End, Seller, Record
  <1>1. at[c] = "fill" /\ UNCHANGED <<proofs, creating, dispatched, settledBy, refused, owed>>
    BY DEF Fill
  <1>2. \A d \in Calls \ {c} : at[d] = "send" \/ dispatched[d] # None => journal'[Id(d)] = journal[Id(d)]
    BY <1>1, OthersKeep DEF Fill, Owns
  <1>3. CASE (Record(c, Intent) \/ UNCHANGED journal) /\ End(c, "safe") /\ UNCHANGED my
    <2>1. Types'
      BY <1>1, <1>3 DEF Types, Running, MidTurn
    <2>2. Places'
      BY <1>1, <1>3 DEF Types, Places, Place, Before, Recorded
    <2>3. Owners'
      BY <1>1, <1>3 DEF Types, Owners, Owns
    <2>4. Bound' /\ Told'
      BY <1>1, <1>2, <1>3 DEF Types, Places, Place, Bound, Told, Cleared, Before
    <2> QED
      BY <2>1, <2>2, <2>3, <2>4
  <1>4. CASE /\ Record(c, Intent) /\ Goto(c, my[c].next) /\ UNCHANGED verdict
             /\ Local(c, [my[c] EXCEPT !.recorded = TRUE])
    <2> DEFINE m == [my[c] EXCEPT !.recorded = TRUE]
    <2>1. m \in Locals /\ m.recorded = TRUE /\ m.resp = my[c].resp /\ m.proof = my[c].proof /\ m.next = my[c].next
      BY Updates DEF Types
    <2>2. my[c].next \in {"lookup", "submit", "mint"}
      BY DEF Types, Locals
    <2>3. my' = [my EXCEPT ![c] = m]
      BY <1>4 DEF Local
    <2> HIDE DEF m
    <2>4. /\ my' \in [Calls -> Locals] /\ my'[c] = m
          /\ \A d \in Calls \ {c} : my'[d] = my[d]
      BY <2>1, <2>3 DEF Types
    <2>5. Types'
      BY <1>1, <1>4, <2>2, <2>4 DEF Types, Running, MidTurn
    <2>6. Places'
      BY <1>1, <1>4, <2>1, <2>2, <2>4 DEF Types, Places, Place, Before, Recorded
    <2>7. Owners'
      BY <1>1, <1>4, <2>1, <2>2, <2>4 DEF Types, Owners, Owns
    <2>8. Bound'
      <3>1. \A d \in Calls : my'[d].resp = my[d].resp
        BY <2>1, <2>4
      <3> QED
        BY <1>1, <3>1 DEF Bound
    <2>9. Told'
      BY <1>1, <1>2, <1>4, <2>1, <2>2, <2>4 DEF Types, Places, Place, Told, Cleared, Before
    <2> QED
      BY <2>5, <2>6, <2>7, <2>8, <2>9
  <1> QED
    BY <1>3, <1>4 DEF Fill

\* What a step that goes on with a record, or to claim one, leaves of the invariant.
LEMMA EnsureKeeps ==
  ASSUME IInv, NEW c \in Calls, NEW m \in Locals, NEW l \in {"lookup", "submit", "mint"},
         Like(m, my[c]), Ensure(c, m, l), l = "submit" => m.proof # None,
         at[c] \in {"lookup", "discover"},
         UNCHANGED <<journal, proofs, creating, dispatched, settledBy, refused, verdict, owed>>
  PROVE  IInv'
  <1> USE Naming DEF IInv
  <1>1. PICK n \in Locals :
          /\ Like(n, m) /\ n.proof = m.proof /\ my' = [my EXCEPT ![c] = n]
          /\ \/ m.recorded /\ at' = [at EXCEPT ![c] = l]
             \/ ~m.recorded /\ n.next = l /\ at' = [at EXCEPT ![c] = "claim"]
    BY EnsureGoes DEF Types
  <1>2. /\ my' \in [Calls -> Locals] /\ \A d \in Calls \ {c} : my'[d] = my[d]
        /\ my'[c] = n /\ n.recorded = my[c].recorded /\ n.resp = my[c].resp
    BY <1>1 DEF Types, Like
  <1>3. Types'
    BY <1>1, <1>2 DEF Types, Running, MidTurn
  <1>4. Places'
    BY <1>1, <1>2 DEF Types, Places, Place, Before, Recorded, Like
  <1>5. Owners'
    BY <1>1, <1>2 DEF Types, Owners, Owns
  <1>6. Bound' /\ Told'
    BY <1>1, <1>2 DEF Types, Places, Place, Bound, Told, Cleared, Before
  <1> QED
    BY <1>3, <1>4, <1>5, <1>6

LEMMA LookupKeeps == ASSUME IInv, NEW c \in Calls, Lookup(c) PROVE IInv'
  <1> DEFINE m == [my[c] EXCEPT !.owed = owed[I(c)]]
             r == [m EXCEPT !.proof = proofs[I(c)], !.replayed = TRUE]
  <1>1. m \in Locals /\ Like(m, my[c])
    <2>1. my[c] \in Locals /\ owed[I(c)] \in SUBSET Calls
      BY Naming DEF IInv, Types
    <2> QED
      BY <2>1, Updates DEF Like
  <1>2. at[c] = "lookup" /\ UNCHANGED <<journal, proofs, creating, dispatched, settledBy, refused, verdict, owed>>
    BY DEF Lookup, Seller
  <1>3. CASE proofs[I(c)] # None
    <2>1. proofs[I(c)] \in Calls
      BY <1>3, Naming DEF IInv, Types
    <2>2. r \in Locals /\ Like(r, m) /\ r.proof = proofs[I(c)]
      BY <1>1, <2>1, Updates DEF Like
    <2>3. Ensure(c, r, "submit")
      BY <1>3 DEF Lookup
    <2> HIDE DEF r, m
    <2> QED
      BY <1>1, <1>2, <1>3, <2>2, <2>3, EnsureKeeps DEF Like
  <1>4. CASE proofs[I(c)] = None
    <2>1. my' = [my EXCEPT ![c] = m] /\ at' = [at EXCEPT ![c] = "discover"]
      BY <1>4 DEF Lookup, Local, Goto
    <2> HIDE DEF m
    <2>2. /\ my' \in [Calls -> Locals] /\ \A d \in Calls \ {c} : my'[d] = my[d]
          /\ my'[c] = m /\ m.recorded = my[c].recorded /\ m.resp = my[c].resp
      BY <1>1, <2>1 DEF IInv, Types, Like
    <2>3. Types' /\ Places'
      BY <1>2, <2>1, <2>2, Naming DEF IInv, Types, Running, MidTurn, Places, Place, Before, Recorded
    <2>4. Owners' /\ Bound' /\ Told'
      BY <1>2, <2>1, <2>2, Naming DEF IInv, Types, Places, Place, Owners, Owns, Bound, Told, Cleared, Before
    <2> QED
      BY <2>3, <2>4 DEF IInv
  <1> QED
    BY <1>3, <1>4

\* A call that gives up before it sent anything writes at most its own record.
LEMMA WithdrawKeeps ==
  ASSUME IInv, NEW c \in Calls, at[c] \in Before, NEW r \in Records,
         NEW v \in {"safe", "not_required", "exists"}, Withdraw(c, r, v),
         UNCHANGED <<proofs, creating, dispatched, settledBy, refused, owed>>
  PROVE  IInv'
  <1> USE Naming DEF IInv, Withdraw, RecordBestEffort, Record, End, Goto
  <1>1. Types'
    BY DEF Types, Running, MidTurn
  <1>2. Places'
    BY DEF Types, Places, Place, Before, Recorded
  <1>3. Owners'
    BY DEF Types, Owners, Owns
  <1>4. Bound'
    BY DEF Bound
  <1>5. \A d \in Calls \ {c} : at[d] = "send" \/ dispatched[d] # None => journal'[Id(d)] = journal[Id(d)]
    BY OthersKeep DEF Owns
  <1>6. Told'
    BY <1>5 DEF Types, Places, Place, Told, Cleared, Before
  <1> QED
    BY <1>1, <1>2, <1>3, <1>4, <1>6

LEMMA DiscoverKeeps == ASSUME IInv, NEW c \in Calls, Discover(c) PROVE IInv'
  <1>1. at[c] = "discover" /\ UNCHANGED <<proofs, creating, dispatched, settledBy, refused, owed>>
    BY DEF Discover, Seller
  <1>2. CASE Ensure(c, my[c], "mint") /\ UNCHANGED <<journal, faults, verdict>>
    <2>1. my[c] \in Locals /\ Like(my[c], my[c])
      BY DEF IInv, Types, Like
    <2> QED
      BY <1>1, <1>2, <2>1, EnsureKeeps
  <1>3. CASE Withdraw(c, Unpriced, "not_required") \/ Withdraw(c, Failed, "safe")
    BY <1>1, <1>3, WithdrawKeeps, Naming DEF Before
  <1> QED
    BY <1>2, <1>3 DEF Discover

LEMMA MintKeeps == ASSUME IInv, NEW c \in Calls, Mint(c) PROVE IInv'
  <1>1. at[c] = "mint" /\ UNCHANGED <<proofs, dispatched, settledBy, refused, owed>>
    BY DEF Mint, Seller
  <1>2. CASE UNCHANGED creating /\ Withdraw(c, Failed, "safe")
    BY <1>1, <1>2, WithdrawKeeps, Naming DEF Before
  <1>3. CASE /\ creating' \in {creating, [creating EXCEPT ![I(c)] = c]} /\ UNCHANGED <<journal, my, faults, verdict>>
             /\ at' = [at EXCEPT ![c] = "minting"] \/ at' = [at EXCEPT ![c] = "awaiting"]
    <2>1. Types'
      BY <1>1, <1>3, Naming DEF IInv, Types, Running, MidTurn
    <2>2. Places'
      BY <1>1, <1>3 DEF IInv, Types, Places, Place, Before, Recorded
    <2>3. Owners' /\ Bound' /\ Told'
      BY <1>1, <1>3 DEF IInv, Types, Owners, Owns, Bound, Told, Cleared
    <2> QED
      BY <2>1, <2>2, <2>3 DEF IInv
  <1> QED
    BY <1>2, <1>3 DEF Mint, Goto

LEMMA MintDoneKeeps == ASSUME IInv, NEW c \in Calls, MintDone(c) PROVE IInv'
  <1> DEFINE waiting == {d \in Calls : I(d) = I(c) /\ at[d] \in {"minting", "awaiting"}}
  <1>1. /\ at[c] = "minting" /\ creating' = [creating EXCEPT ![I(c)] = None]
        /\ UNCHANGED <<journal, proofs, dispatched, settledBy, refused, verdict, owed>>
    BY DEF MintDone, Seller
  <1>2. PICK ok \in BOOLEAN :
          /\ at' = [d \in Calls |-> IF d \notin waiting THEN at[d] ELSE IF ok THEN "resume" ELSE "giveup"]
          /\ my' = [d \in Calls |-> IF d \in waiting /\ ok THEN [my[d] EXCEPT !.proof = c] ELSE my[d]]
    BY DEF MintDone
  <1>3. \A d \in Calls : Like(my'[d], my[d]) /\ my'[d].proof = IF d \in waiting /\ ok THEN c ELSE my[d].proof
    <2> TAKE d \in Calls
    <2>1. my[d] \in Locals /\ Like(my[d], my[d])
      BY DEF IInv, Types, Like
    <2>2. CASE d \in waiting /\ ok
      <3>1. my'[d] = [my[d] EXCEPT !.proof = c]
        BY <1>2, <2>2
      <3>2. \A q \in Calls \cup {None} :
              LET n == [my[d] EXCEPT !.proof = q] IN Like(n, my[d]) /\ n.proof = q
        BY <2>1, Updates
      <3> QED
        BY <2>2, <3>1, <3>2
    <2>3. CASE ~(d \in waiting /\ ok)
      BY <1>2, <2>1, <2>3
    <2> QED
      BY <2>2, <2>3
  <1>4. my' \in [Calls -> Locals]
    BY <1>2, <1>3 DEF Like
  <1>5. /\ \A d \in waiting : at[d] \in {"minting", "awaiting"} /\ at'[d] = IF ok THEN "resume" ELSE "giveup"
        /\ \A d \in Calls \ waiting : at'[d] = at[d] /\ my'[d] = my[d]
    BY <1>2
  <1> HIDE DEF waiting
  <1>6. Types'
    BY <1>1, <1>2, <1>4, Naming DEF IInv, Types, Running, MidTurn
  <1>7. Places'
    BY <1>1, <1>3, <1>5, Naming DEF IInv, Types, Places, Place, Before, Recorded, Like
  <1>8. Owners'
    BY <1>1, <1>3, <1>5 DEF IInv, Types, Owners, Owns, Like
  <1>9. Bound' /\ Told'
    BY <1>1, <1>3, <1>5 DEF IInv, Types, Bound, Told, Cleared, Like
  <1> QED
    BY <1>6, <1>7, <1>8, <1>9 DEF IInv

LEMMA GiveUpKeeps == ASSUME IInv, NEW c \in Calls, GiveUp(c) PROVE IInv'
  BY WithdrawKeeps, Naming DEF GiveUp, Seller, Before

LEMMA SubmitKeeps == ASSUME IInv, NEW c \in Calls, Submit(c) PROVE IInv'
  <1>1. /\ at[c] \in {"submit", "resume"} /\ proofs' = [proofs EXCEPT ![I(c)] = my[c].proof]
        /\ my[c].proof \in Calls /\ my[c].recorded
        /\ UNCHANGED <<creating, my, dispatched, settledBy, refused, owed>>
    BY Naming DEF Submit, Keep, Seller, IInv, Types, Locals, Places, Place, Recorded
  <1>2. \/ Record(c, Submitting) /\ at' = [at EXCEPT ![c] = "send"] /\ UNCHANGED verdict
        \/ /\ (\E r \in {Submitting, Failed} : Record(c, r)) \/ UNCHANGED journal
           /\ at' = [at EXCEPT ![c] = "done"] /\ verdict' = [verdict EXCEPT ![c] = "safe"]
    BY DEF Submit, Goto, End
  <1>3. \A d \in Calls \ {c} : at[d] = "send" \/ dispatched[d] # None => journal'[Id(d)] = journal[Id(d)]
    BY <1>1, <1>2, OthersKeep DEF Owns
  <1>4. Types'
    BY <1>1, <1>2, Naming DEF IInv, Types, Running, MidTurn, Record
  <1>5. Places'
    BY <1>1, <1>2 DEF IInv, Types, Places, Place, Before, Recorded
  <1>6. Owners'
    BY <1>1, <1>2, Naming DEF IInv, Types, Owners, Owns, Record
  <1>7. Bound'
    BY <1>1 DEF IInv, Bound
  <1>8. dispatched[c] = None /\ (at'[c] = "send" => journal'[Id(c)] = Submitting)
    BY <1>1, <1>2, Naming DEF IInv, Types, Places, Place, Before, Record
  <1>9. Told'
    BY <1>1, <1>2, <1>3, <1>8 DEF IInv, Types, Told, Cleared
  <1> QED
    BY <1>4, <1>5, <1>6, <1>7, <1>9 DEF IInv

LEMMA SendKeeps == ASSUME IInv, NEW c \in Calls, Send(c) PROVE IInv'
  <1> USE Naming DEF IInv, Goto, Local, End, Seller, Withdraw, RecordBestEffort, Record, JournalFault
  <1>1. Types'
    BY DEF Send, Types, Running, MidTurn, Locals
  <1>2. Places'
    BY <1>1 DEF Send, Types, Places, Place, Before, Recorded
  <1>3. Owners'
    BY <1>1, <1>2 DEF Send, Types, Places, Place, Owners, Owns, Before, Recorded
  <1>4. Bound'
    BY <1>1, <1>2, <1>3 DEF Send, Types, Places, Place, Bound, Before, Recorded
  <1>5. Told'
    BY <1>1, <1>2, <1>3, <1>4 DEF Send, Types, Places, Place, Owners, Owns, Bound, Told, Cleared, Before, Recorded
  <1> QED
    BY <1>1, <1>2, <1>3, <1>4, <1>5

LEMMA SettleKeeps == ASSUME IInv, NEW c \in Calls, Settle(c) PROVE IInv'
  <1> USE Naming DEF IInv, Goto, Local, End, Seller, Withdraw, RecordBestEffort, Record, JournalFault
  <1>1. Types'
    BY DEF Settle, Types, Running, MidTurn
  <1>2. Places'
    BY <1>1 DEF Settle, Types, Places, Place, Before, Recorded
  <1>3. Owners'
    BY <1>1, <1>2 DEF Settle, Types, Places, Place, Owners, Owns, Before, Recorded
  <1>4. Bound'
    BY <1>1, <1>2, <1>3 DEF Settle, Types, Places, Place, Bound, Before, Recorded
  <1>5. Told'
    BY <1>1, <1>2, <1>3, <1>4 DEF Settle, Types, Places, Place, Owners, Owns, Bound, Told, Cleared, Before, Recorded
  <1> QED
    BY <1>1, <1>2, <1>3, <1>4, <1>5

LEMMA ReceiveKeeps == ASSUME IInv, NEW c \in Calls, Receive(c) PROVE IInv'
  <1> DEFINE Got(x) == [my[c] EXCEPT !.resp = x]
  <1>1. /\ at[c] = "wait" /\ my[c].recorded /\ my[c].resp = "none" /\ dispatched[c] \in Calls
        /\ dispatched[c] = my[c].proof
        /\ at' = [at EXCEPT ![c] = "conclude"]
        /\ UNCHANGED <<proofs, creating, dispatched, settledBy, verdict, owed>>
    BY Naming DEF Receive, Goto, IInv, Types, Places, Place, Recorded
  <1>2. PICK r \in Answers(c), x \in Answers(c) \cup {"lost"} :
          /\ x \in {r, "lost"}
          /\ refused' = IF r = "refused" THEN refused \cup {dispatched[c]} ELSE refused
          /\ my' = [my EXCEPT ![c] = Got(x)]
          /\ UNCHANGED journal \/ Record(c, Received)
    BY DEF Receive, Local
  <1>3. /\ x \in {"ok", "bare", "used", "refused", "gateway", "unsure", "pending", "error", "lost"}
        /\ r = "refused" => settledBy[dispatched[c]] = None
        /\ x = "refused" => r = "refused"
        /\ x = "gateway" => settledBy[dispatched[c]] # c
        /\ x = "unsure" => GatewayUnsure
    BY <1>2 DEF Answers
  <1>4. Got(x) \in Locals /\ Got(x).recorded = my[c].recorded /\ Got(x).proof = my[c].proof /\ Got(x).resp = x
    <2>1. my[c] \in Locals
      BY DEF IInv, Types
    <2> QED
      BY <1>3, <2>1 DEF Locals
  <1> HIDE DEF Got
  <1>5. /\ my' \in [Calls -> Locals] /\ \A d \in Calls \ {c} : my'[d] = my[d]
        /\ my'[c].recorded = my[c].recorded /\ my'[c].proof = my[c].proof /\ my'[c].resp = x
    BY <1>2, <1>4 DEF IInv, Types
  <1>6. \A d \in Calls \ {c} : at[d] = "send" \/ dispatched[d] # None => journal'[Id(d)] = journal[Id(d)]
    BY <1>1, <1>2, OthersKeep DEF Owns
  <1>7. Types'
    BY <1>1, <1>2, <1>5, Naming DEF IInv, Types, Running, MidTurn, Record
  <1>8. Places'
    <2>1. /\ at'[c] = "conclude" /\ "conclude" \notin Before \cup {"wait"}
          /\ \A d \in Calls \ {c} : at'[d] = at[d] /\ my'[d] = my[d]
      BY <1>1, <1>5 DEF IInv, Types, Before
    <2>2. my'[c].proof # None /\ my'[c].recorded /\ dispatched'[c] = my'[c].proof
      BY <1>1, <1>5, Naming
    <2>3. ASSUME NEW d \in Calls \ {c} PROVE Place(d)'
      BY <1>1, <2>1 DEF IInv, Places, Place
    <2>4. Place(c)'
      BY <2>1, <2>2, Naming DEF Place
    <2> QED
      BY <2>3, <2>4 DEF Places
  <1>9. Owners'
    BY <1>1, <1>2, <1>5, Naming DEF IInv, Types, Owners, Owns, Record
  <1>10. Bound'
    <2>1. \A q \in refused' : settledBy'[q] = None
      BY <1>1, <1>2, <1>3 DEF IInv, Bound
    <2>2. \A d \in Calls : my'[d].resp = "gateway" => dispatched'[d] # None /\ settledBy'[dispatched'[d]] # d
      BY <1>1, <1>3, <1>5, Naming DEF IInv, Bound
    <2>3. \A d \in Calls : my'[d].resp = "refused" => dispatched'[d] \in refused'
      BY <1>1, <1>2, <1>3, <1>5 DEF IInv, Bound
    <2>4. \A d \in Calls : my'[d].resp = "unsure" => GatewayUnsure
      BY <1>3, <1>5 DEF IInv, Bound
    <2> QED
      BY <1>1, <2>1, <2>2, <2>3, <2>4 DEF IInv, Bound
  <1>11. Told'
    <2>1. \A d \in Calls : Cleared(d) => Cleared(d)'
      BY <1>1, <1>2, <1>5 DEF Cleared
    <2>2. journal'[Id(c)] \in {journal[Id(c)], Received}
      BY <1>2, Naming DEF IInv, Types, Record
    <2> QED
      BY <1>1, <1>6, <2>1, <2>2 DEF IInv, Types, Told
  <1> QED
    BY <1>7, <1>8, <1>9, <1>10, <1>11 DEF IInv

LEMMA ConcludeKeeps == ASSUME IInv, NEW c \in Calls, Conclude(c) PROVE IInv'
  <1>1. /\ at[c] = "conclude" /\ my[c].recorded /\ my[c].proof \in Calls
        /\ dispatched[c] = my[c].proof
        /\ UNCHANGED <<creating, my, dispatched, settledBy, refused>>
    BY Naming DEF Conclude, Seller, IInv, Types, Locals, Places, Place, Recorded
  <1>2. /\ Record(c, Classified(c)) \/ UNCHANGED journal
        /\ at' = [at EXCEPT ![c] = "done"] /\ verdict' = [verdict EXCEPT ![c] = Tells(c)]
    BY DEF Conclude, RecordBestEffort, End, Goto
  <1>3. /\ Classified(c) \in {Completed, Pending, Ambiguous, Failed}
        /\ Classified(c) = Failed => my[c].resp \in {"refused", "gateway", "unsure"}
        /\ my[c].resp = "refused" => dispatched[c] \in refused
    <2>1. Failed \notin {Completed, Pending, Ambiguous}
      BY DEF Failed, Completed, Pending, Ambiguous
    <2> QED
      BY <2>1 DEF Classified, IInv, Bound
  <1>4. /\ Tells(c) \in {"unknown", "safe", "settled", "gateway"}
        /\ Tells(c) \in {"safe", "gateway"} => my[c].resp \in {"refused", "gateway", "unsure"}
    BY <1>3 DEF Tells
  <1>5. \A d \in Calls \ {c} : at[d] = "send" \/ dispatched[d] # None => journal'[Id(d)] = journal[Id(d)]
    BY <1>1, <1>2, OthersKeep DEF Owns
  <1>6. Types'
    <2>1. proofs' \in [Instances -> Calls \cup {None}]
      BY Naming DEF Conclude, IInv, Types
    <2>2. owed' \in [Instances -> SUBSET Calls]
      BY <1>1, Naming DEF Conclude, IInv, Types
    <2>3. journal' \in [Attempts -> Records \cup {None}]
      BY <1>2, <1>3, Naming DEF IInv, Types, Record
    <2> QED
      BY <1>1, <1>2, <1>4, <2>1, <2>2, <2>3 DEF IInv, Types
  <1>7. Places'
    BY <1>1, <1>2 DEF IInv, Types, Places, Place, Before, Recorded
  <1>8. Owners'
    BY <1>1, <1>2, <1>3, Naming DEF IInv, Types, Owners, Owns, Record
  <1>9. Bound'
    BY <1>1 DEF IInv, Bound
  <1>10. Told'
    <2>1. \A d \in Calls : Cleared(d)' = Cleared(d)
      BY <1>1 DEF Cleared
    <2>2. journal'[Id(c)] \in {journal[Id(c)], Classified(c)}
      BY <1>2, Naming DEF IInv, Types, Record
    <2>3. Classified(c) = Failed => Cleared(c)
      BY <1>3 DEF Cleared
    <2>4. Tells(c) \in {"safe", "gateway", "exists"} => Cleared(c)
      BY <1>3, <1>4 DEF Cleared
    <2> QED
      BY <1>1, <1>2, <1>3, <1>5, <2>1, <2>2, <2>3, <2>4 DEF IInv, Types, Told
  <1> QED
    BY <1>6, <1>7, <1>8, <1>9, <1>10 DEF IInv

LEMMA CrashKeeps == ASSUME IInv, NEW n \in Instances, Crash(n) PROVE IInv'
  <1>1. /\ UNCHANGED <<journal, my, dispatched, settledBy, refused, verdict, owed>>
        /\ at' = [c \in Calls |-> IF I(c) = n /\ at[c] # "done" THEN "dead" ELSE at[c]]
        /\ proofs' = [proofs EXCEPT ![n] = None] /\ creating' = [creating EXCEPT ![n] = None]
    BY DEF Crash, Seller
  <1>2. Types'
    BY <1>1 DEF IInv, Types
  <1>3. Places'
    BY <1>1 DEF IInv, Types, Places, Place, Before, Recorded
  <1>4. Owners' /\ Bound' /\ Told'
    BY <1>1 DEF IInv, Types, Owners, Owns, Bound, Told, Cleared
  <1> QED
    BY <1>2, <1>3, <1>4 DEF IInv

LEMMA Inductive == IInv /\ [Next]_vars => IInv'
  <1> SUFFICES ASSUME IInv, [Next]_vars PROVE IInv'
    OBVIOUS
  <1>1. ASSUME NEW c \in Calls, Call(c) PROVE IInv'
    BY <1>1, BeginKeeps, InspectKeeps, ClaimKeeps, FillKeeps, LookupKeeps, DiscoverKeeps, MintKeeps,
       MintDoneKeeps, GiveUpKeeps, SubmitKeeps, SendKeeps, ReceiveKeeps, ConcludeKeeps DEF Call
  <1>2. CASE UNCHANGED vars
    BY <1>2 DEF vars, IInv, Types, Places, Place, Owners, Owns, Bound, Told, Cleared
  <1> QED
    BY <1>1, <1>2, SettleKeeps, CrashKeeps DEF Next

\* The inductive invariant holds in every reachable state.
THEOREM Invariant == Spec => []IInv
  BY StartsRight, Inductive, PTL DEF Spec

-----------------------------------------------------------------------------
\* Every value keeps its type, and a request is sent with the proof and under the
\* record of its own call.
THEOREM TypeCorrect == Spec => []TypeOK
  <1>1. IInv => TypeOK
    BY DEF IInv, Types, Places, Place, TypeOK
  <1> QED
    BY <1>1, Invariant, PTL

\* However many processes are handed one attempt id, in whatever order they run,
\* crash and lose journal writes, one of them at most sends a payment under it.
THEOREM PaysOnce == Spec => []AttemptPaysOnce
  <1>1. IInv => AttemptPaysOnce
    BY DEF IInv, Places, Place, Owners, Owns, AttemptPaysOnce
  <1> QED
    BY <1>1, Invariant, PTL

LEMMA FundsAreUncleared ==
  ASSUME IInv, ~GatewayUnsure, NEW q \in Calls, settledBy[q] # None
  PROVE  /\ settledBy[q] \in Calls /\ dispatched[settledBy[q]] = q
         /\ ~Cleared(settledBy[q])
  BY DEF IInv, Types, Bound, Cleared

\* As long as the gateway knows that the payments it turns down did not move
\* funds, no entry of the journal denies a payment that did.
THEOREM Honest == ASSUME ~GatewayUnsure PROVE Spec => []JournalHonest
  <1>1. IInv => JournalHonest
    <2> SUFFICES ASSUME IInv, NEW q \in Calls, settledBy[q] # None
                 PROVE  /\ journal[Id(settledBy[q])] # None
                        /\ journal[Id(settledBy[q])][2] # "not_started"
      BY DEF JournalHonest
    <2>1. journal[Id(settledBy[q])] \in {Submitting, Received, Completed, Pending, Ambiguous}
      BY FundsAreUncleared, Naming DEF IInv, Told
    <2>2. \A r \in {Submitting, Received, Completed, Pending, Ambiguous} : r[2] # "not_started"
      BY DEF Submitting, Received, Completed, Pending, Ambiguous
    <2> QED
      BY <2>1, <2>2, Naming
  <1> QED
    BY <1>1, Invariant, PTL

\* Nor is a caller told that a payment may be repeated when its request paid.
THEOREM SafeIsUnpaid == ASSUME ~GatewayUnsure PROVE Spec => []SafeMeansUnpaid
  <1>1. IInv => SafeMeansUnpaid
    BY FundsAreUncleared, Naming DEF IInv, Told, SafeMeansUnpaid
  <1> QED
    BY <1>1, Invariant, PTL

-----------------------------------------------------------------------------
(* X402Pay implements AttemptLedger: what the file of an attempt says where *)
(* its call is, and from that the step of the ledger each write makes.      *)

Unsent == {"lookup", "discover", "mint", "minting", "awaiting", "resume", "giveup", "submit"}

\* What the file says of the call that owns it.
Held(c) ==
  /\ at[c] \in {"idle", "inspect", "claim", "fill"} => ~my[c].recorded
  /\ at[c] = "fill" => journal[Id(c)] = Torn
  /\ at[c] \in Unsent /\ my[c].recorded => journal[Id(c)] = Intent
  /\ at[c] \in {"send", "wait"} => journal[Id(c)] = Submitting
  /\ at[c] = "conclude" => journal[Id(c)] \in {Submitting, Received}

Helds == \A c \in Calls : Held(c)

Moved == {Id(settledBy[q]) : q \in {q \in Calls : settledBy[q] # None}}

\* The writes of an attempt's file that are a step of the ledger, or none.
Advances(c, r) ==
  LET s == Stage(journal[Id(c)])
      t == Stage(r) IN
  \/ s = t
  \/ s = "free" /\ t = "reserved"
  \/ s = "reserved" /\ t \in {"dispatched", "unpaid"}
  \/ s = "dispatched" /\ t \in {"paid", "unknown"}
  \/ s = "dispatched" /\ t = "unpaid" /\ Id(c) \notin Moved

LEMMA Stages ==
  /\ Stage(None) = "free"
  /\ Stage(Torn) = "reserved" /\ Stage(Intent) = "reserved"
  /\ Stage(Submitting) = "dispatched" /\ Stage(Received) = "dispatched"
  /\ Stage(Completed) = "paid"
  /\ Stage(Unpriced) = "unpaid" /\ Stage(Failed) = "unpaid"
  /\ Stage(Pending) = "unknown" /\ Stage(Ambiguous) = "unknown"
BY Naming DEF Stage, Torn, Intent, Submitting, Received, Completed, Unpriced, Failed, Pending, Ambiguous

\* A write of one file by such a step is a step of the ledger.
LEMMA WriteMaps ==
  ASSUME Types, NEW c \in Calls, NEW r, Record(c, r), Advances(c, r), UNCHANGED settledBy
  PROVE  [Ledger!Next]_<<[i \in Attempts |-> Stage(journal[i])], Moved>>
  <1> DEFINE st == [i \in Attempts |-> Stage(journal[i])]
  <1>1. st' = [st EXCEPT ![Id(c)] = Stage(r)]
    BY Naming DEF Types, Record
  <1>2. st[Id(c)] = Stage(journal[Id(c)]) /\ Moved' = Moved
    BY Naming DEF Moved
  <1>3. \A s : s = Stage(r) /\ st[Id(c)] = s => st' = st
    BY <1>1
  <1> QED
    BY <1>1, <1>2, <1>3, Naming
       DEF Advances, Moved, Ledger!Next, Ledger!Reserve, Ledger!Dispatch, Ledger!Withdraw, Ledger!Verdict, Ledger!Advance

\* A step of a call keeps what the files say of the others: it moves no other,
\* and writes at most the file it owns or one that is not there.
LEMMA OthersHold ==
  ASSUME IInv, Helds, NEW c \in Calls,
         \A d \in Calls \ {c} : at'[d] = at[d] /\ my'[d].recorded = my[d].recorded,
         \/ UNCHANGED journal
         \/ \E r \in Records : Record(c, r) /\ (Owns(c) \/ journal[Id(c)] = None)
  PROVE  \A d \in Calls \ {c} : Held(d)'
  <1> SUFFICES ASSUME NEW d \in Calls \ {c} PROVE Held(d)'
    OBVIOUS
  <1>1. Held(d) /\ at'[d] = at[d] /\ my'[d].recorded = my[d].recorded
    BY DEF Helds
  <1>2. Owns(d) => journal'[Id(d)] = journal[Id(d)]
    <2>1. Owns(d) => journal[Id(d)] # None /\ (Owns(c) => Id(d) # Id(c))
      BY DEF IInv, Owners
    <2> QED
      BY <2>1, Naming DEF IInv, Types, Record
  <1>3. at[d] \in {"fill", "send", "wait", "conclude"} => Owns(d)
    BY DEF IInv, Places, Place, Recorded, Owns
  <1> QED
    BY <1>1, <1>2, <1>3 DEF Held, Owns

\* What a step has to show: it writes nothing, or makes one step of the ledger.
Steps(c) ==
  /\ UNCHANGED settledBy
  /\ \/ UNCHANGED journal
     \/ \E r \in Records : Record(c, r) /\ Advances(c, r) /\ (Owns(c) \/ journal[Id(c)] = None)

LEMMA StepMaps ==
  ASSUME Types, NEW c \in Calls, Steps(c)
  PROVE  [Ledger!Next]_<<[i \in Attempts |-> Stage(journal[i])], Moved>>
  <1>1. CASE UNCHANGED journal
    BY <1>1 DEF Steps, Moved
  <1>2. CASE \E r \in Records : Record(c, r) /\ Advances(c, r)
    <2>1. PICK r \in Records : Record(c, r) /\ Advances(c, r)
      BY <1>2
    <2> QED
      BY <2>1, WriteMaps DEF Steps
  <1> QED
    BY <1>1, <1>2 DEF Steps

\* The calls whose step moves and writes for themselves alone.
LEMMA CallHolds ==
  ASSUME IInv, Helds, NEW c \in Calls, Steps(c), Held(c)',
         \A d \in Calls \ {c} : at'[d] = at[d] /\ my'[d].recorded = my[d].recorded
  PROVE  Helds' /\ [Ledger!Next]_<<[i \in Attempts |-> Stage(journal[i])], Moved>>
  <1>1. \A d \in Calls \ {c} : Held(d)'
    BY OthersHold DEF Steps
  <1> QED
    BY <1>1, StepMaps DEF Helds, IInv

LEMMA BeginHolds == ASSUME IInv, Helds, NEW c \in Calls, Begin(c) PROVE Steps(c) /\ Held(c)'
  BY DEF IInv, Types, Helds, Begin, Goto, Seller, Steps, Held, Unsent, Places, Place

LEMMA InspectHolds == ASSUME IInv, Helds, NEW c \in Calls, Inspect(c) PROVE Steps(c) /\ Held(c)'
  BY DEF IInv, Types, Helds, Inspect, Goto, End, Seller, Steps, Held, Unsent

LEMMA ClaimHolds == ASSUME IInv, Helds, NEW c \in Calls, Claim(c) PROVE Steps(c) /\ Held(c)'
  <1>1. at[c] = "claim" /\ UNCHANGED settledBy /\ UNCHANGED my /\ ~my[c].recorded
    BY DEF Claim, Seller, Helds, Held
  <1>2. CASE journal[Id(c)] = None /\ Record(c, Torn) /\ Goto(c, "fill")
    <2>1. Torn \in Records /\ Advances(c, Torn)
      BY <1>2, Naming, Stages DEF Advances
    <2>2. at'[c] = "fill" /\ journal'[Id(c)] = Torn
      BY <1>2, Naming DEF IInv, Types, Goto, Record
    <2> QED
      BY <1>1, <1>2, <2>1, <2>2 DEF Steps, Held, Unsent
  <1>3. CASE UNCHANGED journal /\ at' = [at EXCEPT ![c] = "done"]
    BY <1>1, <1>3 DEF IInv, Types, Steps, Held, Unsent
  <1> QED
    BY <1>2, <1>3 DEF Claim, End, Goto

LEMMA FillHolds == ASSUME IInv, Helds, NEW c \in Calls, Fill(c) PROVE Steps(c) /\ Held(c)'
  <1>1. at[c] = "fill" /\ UNCHANGED settledBy /\ journal[Id(c)] = Torn /\ Owns(c)
        /\ my[c].next \in {"lookup", "submit", "mint"}
    BY DEF Fill, Seller, Helds, Held, Owns, IInv, Types, Locals
  <1>2. Intent \in Records /\ Advances(c, Intent)
    BY <1>1, Naming, Stages DEF Advances
  <1>3. Steps(c)
    BY <1>1, <1>2 DEF Steps, Fill
  <1>4. CASE Record(c, Intent) /\ Goto(c, my[c].next)
    <2>1. journal'[Id(c)] = Intent /\ at'[c] = my[c].next
      BY <1>4, Naming DEF IInv, Types, Record, Goto
    <2> QED
      BY <1>1, <1>3, <2>1 DEF Held, Unsent
  <1>5. CASE End(c, "safe")
    BY <1>3, <1>5 DEF IInv, Types, End, Goto, Held, Unsent
  <1> QED
    BY <1>4, <1>5 DEF Fill

LEMMA EnsureHolds ==
  ASSUME IInv, Helds, NEW c \in Calls, NEW m \in Locals, NEW l \in {"lookup", "submit", "mint"},
         Like(m, my[c]), Ensure(c, m, l), at[c] \in {"lookup", "discover"}, UNCHANGED <<journal, settledBy>>
  PROVE  Steps(c) /\ Held(c)'
  <1>1. PICK n \in Locals :
          /\ Like(n, m) /\ n.proof = m.proof /\ my' = [my EXCEPT ![c] = n]
          /\ \/ m.recorded /\ at' = [at EXCEPT ![c] = l]
             \/ ~m.recorded /\ n.next = l /\ at' = [at EXCEPT ![c] = "claim"]
    BY EnsureGoes DEF IInv, Types
  <1>2. my'[c].recorded = my[c].recorded /\ at'[c] = IF my[c].recorded THEN l ELSE "claim"
    BY <1>1 DEF IInv, Types, Like
  <1>3. my[c].recorded => journal[Id(c)] = Intent
    BY DEF Helds, Held, Unsent
  <1> QED
    BY <1>2, <1>3 DEF Held, Steps, Unsent

LEMMA LookupHolds == ASSUME IInv, Helds, NEW c \in Calls, Lookup(c) PROVE Steps(c) /\ Held(c)'
  <1> DEFINE m == [my[c] EXCEPT !.owed = owed[I(c)]]
             r == [m EXCEPT !.proof = proofs[I(c)], !.replayed = TRUE]
  <1>1. m \in Locals /\ Like(m, my[c])
    <2>1. my[c] \in Locals /\ owed[I(c)] \in SUBSET Calls
      BY Naming DEF IInv, Types
    <2> QED
      BY <2>1, Updates DEF Like
  <1>2. at[c] = "lookup" /\ UNCHANGED <<journal, settledBy>>
    BY DEF Lookup, Seller
  <1>3. CASE proofs[I(c)] # None
    <2>1. proofs[I(c)] \in Calls
      BY <1>3, Naming DEF IInv, Types
    <2>2. r \in Locals /\ Like(r, m)
      BY <1>1, <2>1, Updates DEF Like
    <2>3. Ensure(c, r, "submit")
      BY <1>3 DEF Lookup
    <2> HIDE DEF r, m
    <2> QED
      BY <1>1, <1>2, <2>2, <2>3, EnsureHolds DEF Like
  <1>4. CASE proofs[I(c)] = None
    <2>1. my' = [my EXCEPT ![c] = m] /\ at' = [at EXCEPT ![c] = "discover"]
      BY <1>4 DEF Lookup, Local, Goto
    <2> HIDE DEF m
    <2>2. my'[c].recorded = my[c].recorded /\ at'[c] = "discover"
      BY <1>1, <2>1 DEF IInv, Types, Like
    <2> QED
      BY <1>2, <2>2 DEF Helds, Held, Steps, Unsent
  <1> QED
    BY <1>3, <1>4

\* A call that ends before it sent anything withdraws a reserved attempt, if it has one.
LEMMA WithdrawHolds ==
  ASSUME IInv, Helds, NEW c \in Calls, at[c] \in Unsent, NEW r \in {Unpriced, Failed}, NEW v,
         Withdraw(c, r, v), UNCHANGED settledBy
  PROVE  Steps(c) /\ Held(c)'
  <1>1. at' = [at EXCEPT ![c] = "done"]
    BY DEF Withdraw, End, Goto
  <1>2. Held(c)'
    BY <1>1 DEF IInv, Types, Held, Unsent
  <1>3. CASE UNCHANGED journal
    BY <1>2, <1>3 DEF Steps
  <1>4. CASE my[c].recorded /\ Record(c, r)
    <2>1. journal[Id(c)] = Intent /\ Owns(c)
      BY <1>4 DEF Helds, Held, Owns
    <2>2. r \in Records /\ Advances(c, r)
      BY <2>1, Naming, Stages DEF Advances
    <2> QED
      BY <1>2, <1>4, <2>1, <2>2 DEF Steps
  <1> QED
    BY <1>3, <1>4 DEF Withdraw, RecordBestEffort

LEMMA DiscoverHolds == ASSUME IInv, Helds, NEW c \in Calls, Discover(c) PROVE Steps(c) /\ Held(c)'
  <1>1. at[c] = "discover" /\ UNCHANGED settledBy
    BY DEF Discover, Seller
  <1>2. CASE Ensure(c, my[c], "mint") /\ UNCHANGED journal
    <2>1. my[c] \in Locals /\ Like(my[c], my[c])
      BY DEF IInv, Types, Like
    <2> QED
      BY <1>1, <1>2, <2>1, EnsureHolds
  <1>3. CASE Withdraw(c, Unpriced, "not_required") \/ Withdraw(c, Failed, "safe")
    BY <1>1, <1>3, WithdrawHolds DEF Unsent
  <1> QED
    BY <1>2, <1>3 DEF Discover

LEMMA MintHolds == ASSUME IInv, Helds, NEW c \in Calls, Mint(c) PROVE Steps(c) /\ Held(c)'
  <1>1. at[c] = "mint" /\ UNCHANGED settledBy
    BY DEF Mint, Seller
  <1>2. CASE Withdraw(c, Failed, "safe")
    BY <1>1, <1>2, WithdrawHolds DEF Unsent
  <1>3. CASE UNCHANGED <<journal, my>> /\ (Goto(c, "minting") \/ Goto(c, "awaiting"))
    BY <1>1, <1>3 DEF IInv, Types, Goto, Helds, Held, Steps, Unsent
  <1> QED
    BY <1>2, <1>3 DEF Mint

LEMMA GiveUpHolds == ASSUME IInv, Helds, NEW c \in Calls, GiveUp(c) PROVE Steps(c) /\ Held(c)'
  BY WithdrawHolds DEF GiveUp, Seller, Unsent

LEMMA SubmitHolds == ASSUME IInv, Helds, NEW c \in Calls, Submit(c) PROVE Steps(c) /\ Held(c)'
  <1>1. /\ at[c] \in {"submit", "resume"} /\ UNCHANGED settledBy /\ my[c].recorded /\ Owns(c)
        /\ journal[Id(c)] = Intent
    <2>1. at[c] \in {"submit", "resume"} /\ UNCHANGED settledBy
      BY DEF Submit, Seller
    <2>2. my[c].recorded
      BY <2>1 DEF IInv, Places, Place, Recorded
    <2> QED
      BY <2>1, <2>2 DEF Helds, Held, Unsent, Owns
  <1>2. \A r \in {Submitting, Failed} : r \in Records /\ Advances(c, r)
    BY <1>1, Naming, Stages DEF Advances
  <1>3. Steps(c)
    BY <1>1, <1>2 DEF Submit, Steps
  <1>4. CASE Record(c, Submitting) /\ Goto(c, "send")
    BY <1>3, <1>4, Naming DEF IInv, Types, Record, Goto, Held, Unsent
  <1>5. CASE End(c, "safe")
    BY <1>3, <1>5 DEF IInv, Types, End, Goto, Held, Unsent
  <1> QED
    BY <1>4, <1>5 DEF Submit

LEMMA SendHolds == ASSUME IInv, Helds, NEW c \in Calls, Send(c) PROVE Steps(c) /\ Held(c)'
  BY DEF IInv, Types, Helds, Send, Goto, Steps, Held, Unsent

LEMMA ReceiveHolds == ASSUME IInv, Helds, NEW c \in Calls, Receive(c) PROVE Steps(c) /\ Held(c)'
  <1>1. at[c] = "wait" /\ at' = [at EXCEPT ![c] = "conclude"] /\ UNCHANGED settledBy
    BY DEF Receive, Goto
  <1>2. UNCHANGED journal \/ Record(c, Received)
    BY DEF Receive
  <1>3. journal[Id(c)] = Submitting /\ Owns(c)
    BY <1>1 DEF Helds, Held, IInv, Places, Place, Recorded, Owns
  <1>4. Received \in Records /\ Advances(c, Received)
    BY <1>3, Naming, Stages DEF Advances
  <1>5. at'[c] = "conclude" /\ journal'[Id(c)] \in {Submitting, Received}
    BY <1>1, <1>2, <1>3, Naming DEF IInv, Types, Record
  <1> QED
    BY <1>1, <1>2, <1>3, <1>4, <1>5 DEF Steps, Held, Unsent

\* A request the seller or the gateway cleared moved nothing, under whichever proof.
LEMMA ClearedIsUnmoved ==
  ASSUME IInv, NEW c \in Calls, Owns(c), dispatched[c] # None, my[c].resp \in {"refused", "gateway"}
  PROVE  Id(c) \notin Moved
  <1> SUFFICES ASSUME NEW q \in Calls, settledBy[q] # None, Id(settledBy[q]) = Id(c) PROVE FALSE
    BY DEF Moved
  <1>1. settledBy[q] \in Calls /\ dispatched[settledBy[q]] = q
    BY DEF IInv, Types, Bound
  <1>2. Owns(settledBy[q])
    BY <1>1, Naming DEF IInv, Places, Place, Owns
  <1>3. settledBy[q] = c
    BY <1>1, <1>2 DEF IInv, Owners
  <1> QED
    BY <1>1, <1>3 DEF IInv, Bound

LEMMA ConcludeHolds ==
  ASSUME ~GatewayUnsure, IInv, Helds, NEW c \in Calls, Conclude(c) PROVE Steps(c) /\ Held(c)'
  <1>1. /\ at[c] = "conclude" /\ UNCHANGED settledBy /\ Owns(c) /\ dispatched[c] # None
        /\ journal[Id(c)] \in {Submitting, Received}
    BY DEF Conclude, Seller, Helds, Held, IInv, Places, Place, Recorded, Owns
  <1>2. UNCHANGED journal \/ Record(c, Classified(c))
    BY DEF Conclude, RecordBestEffort
  <1>3. /\ Classified(c) \in {Completed, Pending, Ambiguous, Failed}
        /\ Classified(c) = Failed => my[c].resp \in {"refused", "gateway"}
    <2>1. Failed \notin {Completed, Pending, Ambiguous}
      BY DEF Failed, Completed, Pending, Ambiguous
    <2> QED
      BY <2>1 DEF Classified, IInv, Bound
  <1>4. Classified(c) \in Records /\ Advances(c, Classified(c))
    BY <1>1, <1>3, ClearedIsUnmoved, Naming, Stages DEF Advances
  <1>5. at'[c] = "done"
    BY DEF Conclude, End, Goto, IInv, Types
  <1> QED
    BY <1>1, <1>2, <1>4, <1>5 DEF Steps, Held, Unsent

LedgerStep == [Ledger!Next]_<<[i \in Attempts |-> Stage(journal[i])], Moved>>

LEMMA OthersStay ==
  ASSUME IInv, NEW c \in Calls, Call(c), at[c] # "minting"
  PROVE  \A d \in Calls \ {c} : at'[d] = at[d] /\ my'[d] = my[d]
  <1> USE DEF IInv, Types, Goto, Local, End, Ensure, Withdraw
  <1>1. CASE Begin(c) \/ Inspect(c) \/ Claim(c) \/ Fill(c)
    BY <1>1 DEF Begin, Inspect, Claim, Fill
  <1>2. CASE Lookup(c)
    BY <1>2 DEF Lookup
  <1>3. CASE Discover(c)
    BY <1>3 DEF Discover
  <1>4. CASE Mint(c) \/ GiveUp(c) \/ Submit(c) \/ Send(c)
    BY <1>4 DEF Mint, GiveUp, Submit, Send
  <1>5. CASE Receive(c) \/ Conclude(c)
    BY <1>5 DEF Receive, Conclude
  <1> QED
    BY <1>1, <1>2, <1>3, <1>4, <1>5 DEF Call, MintDone

LEMMA CallMaps ==
  ASSUME ~GatewayUnsure, IInv, Helds, NEW c \in Calls, Call(c), at[c] # "minting"
  PROVE  Helds' /\ LedgerStep
  <1>1. Steps(c) /\ Held(c)'
    BY BeginHolds, InspectHolds, ClaimHolds, FillHolds, LookupHolds, DiscoverHolds, MintHolds, GiveUpHolds,
       SubmitHolds, SendHolds, ReceiveHolds, ConcludeHolds DEF Call, MintDone
  <1> QED
    BY <1>1, OthersStay, CallHolds DEF LedgerStep

\* The calls a minted proof wakes have written nothing yet.
LEMMA MintDoneMaps == ASSUME IInv, Helds, NEW c \in Calls, MintDone(c) PROVE Helds' /\ LedgerStep
  <1>1. UNCHANGED <<journal, settledBy>>
    BY DEF MintDone, Seller
  <1>2. ASSUME NEW d \in Calls PROVE Held(d)'
    <2>1. PICK ok \in BOOLEAN :
            LET waiting == {e \in Calls : I(e) = I(c) /\ at[e] \in {"minting", "awaiting"}} IN
            /\ at' = [e \in Calls |-> IF e \notin waiting THEN at[e] ELSE IF ok THEN "resume" ELSE "giveup"]
            /\ my' = [e \in Calls |-> IF e \in waiting /\ ok THEN [my[e] EXCEPT !.proof = c] ELSE my[e]]
      BY DEF MintDone
    <2>2. \/ at'[d] = at[d]
          \/ at[d] \in {"minting", "awaiting"} /\ at'[d] \in {"resume", "giveup"}
      BY <2>1
    <2>3. my'[d].recorded = my[d].recorded
      <3>1. my[d] \in Locals /\ (my'[d] = my[d] \/ my'[d] = [my[d] EXCEPT !.proof = c])
        BY <2>1 DEF IInv, Types
      <3> QED
        BY <3>1 DEF Locals
    <2>4. my[d].recorded => journal[Id(d)] = Intent \/ at[d] \notin Unsent
      BY DEF Helds, Held
    <2> QED
      BY <1>1, <2>2, <2>3, <2>4 DEF Helds, Held, Unsent
  <1> QED
    BY <1>1, <1>2 DEF Helds, LedgerStep, Moved

\* Funds move under an attempt whose file admits that they may.
LEMMA SettleMaps ==
  ASSUME ~GatewayUnsure, IInv, Helds, NEW c \in Calls, Settle(c) PROVE Helds' /\ LedgerStep
  <1> DEFINE st == [i \in Attempts |-> Stage(journal[i])]
  <1>1. PICK q \in Calls :
          /\ q = dispatched[c] /\ settledBy[q] = None /\ q \notin refused
          /\ settledBy' = [settledBy EXCEPT ![q] = c]
    BY Naming DEF Settle, IInv, Types
  <1>2. UNCHANGED <<journal, at, my>> /\ my[c].resp # "gateway"
    BY DEF Settle
  <1>3. st[Id(c)] \in {"dispatched", "unknown", "paid"}
    <2>1. ~Cleared(c) /\ dispatched[c] # None
      BY <1>1, <1>2, Naming DEF Cleared, IInv, Bound
    <2>2. journal[Id(c)] \in {Submitting, Received, Completed, Pending, Ambiguous}
      BY <2>1 DEF IInv, Told
    <2> QED
      BY <2>2, Naming, Stages
  <1>4. Moved' = Moved \cup {Id(c)}
    <2>1. \A p \in Calls : settledBy'[p] = IF p = q THEN c ELSE settledBy[p]
      BY <1>1 DEF IInv, Types
    <2>2. Moved' = {Id(settledBy'[p]) : p \in {p \in Calls : settledBy'[p] # None}}
      BY DEF Moved, Id
    <2>3. ASSUME NEW i PROVE i \in Moved' <=> i \in Moved \cup {Id(c)}
      BY <1>1, <2>1, <2>2, Naming DEF Moved
    <2> QED
      BY <2>3
  <1>5. st' = st
    BY <1>2
  <1>6. Ledger!MoveFunds(Id(c))
    BY <1>3, <1>4, <1>5 DEF Ledger!MoveFunds, Moved
  <1>7. LedgerStep
    BY <1>6, Naming DEF LedgerStep, Ledger!Next
  <1> QED
    BY <1>2, <1>7 DEF Helds, Held

LEMMA CrashMaps == ASSUME IInv, Helds, NEW n \in Instances, Crash(n) PROVE Helds' /\ LedgerStep
  <1>1. /\ UNCHANGED <<journal, my, settledBy>>
        /\ at' = [c \in Calls |-> IF I(c) = n /\ at[c] # "done" THEN "dead" ELSE at[c]]
    BY DEF Crash, Seller
  <1> QED
    BY <1>1 DEF Helds, Held, Unsent, LedgerStep, Moved

LEMMA StepsMap == ASSUME ~GatewayUnsure, IInv, Helds, [Next]_vars PROVE Helds' /\ LedgerStep
  <1>1. ASSUME NEW c \in Calls, Call(c) PROVE Helds' /\ LedgerStep
    <2>1. CASE at[c] # "minting"
      BY <1>1, <2>1, CallMaps
    <2>2. CASE at[c] = "minting"
      BY <1>1, <2>2, MintDoneMaps
         DEF Call, Begin, Inspect, Claim, Fill, Lookup, Discover, Mint, GiveUp, Submit, Send, Receive, Conclude
    <2> QED
      BY <2>1, <2>2
  <1>2. CASE UNCHANGED vars
    BY <1>2 DEF vars, Helds, Held, LedgerStep, Moved
  <1> QED
    BY <1>1, <1>2, SettleMaps, CrashMaps DEF Next

LEMMA StartsAsLedger == Init => Helds /\ Ledger!Init
  <1> SUFFICES ASSUME Init PROVE Helds /\ Ledger!Init
    OBVIOUS
  <1>1. Helds
    BY DEF Init, Helds, Held, Unsent, Fresh
  <1>2. [i \in Attempts |-> Stage(journal[i])] = [i \in Attempts |-> "free"]
    BY Stages DEF Init
  <1>3. Moved = {}
    BY DEF Init, Moved
  <1> QED
    BY <1>1, <1>2, <1>3 DEF Ledger!Init, Moved

\* As long as the gateway knows that the payments it turns down did not move
\* funds, the journal is an AttemptLedger, whatever crashes, is lost or fails to
\* be written: who reconciles from it may rely on what that module promises.
THEOREM ImplementsLedger == ASSUME ~GatewayUnsure PROVE Spec => LedgerSpec
  <1>1. Init => IInv /\ Helds /\ Ledger!Init
    BY StartsRight, StartsAsLedger
  <1>2. IInv /\ Helds /\ [Next]_vars => IInv' /\ Helds'
    BY Inductive, StepsMap
  <1>3. IInv /\ Helds /\ [Next]_vars =>
          [Ledger!Next]_<<[i \in Attempts |-> Stage(journal[i])],
                          {Id(settledBy[q]) : q \in {q \in Calls : settledBy[q] # None}}>>
    BY StepsMap DEF LedgerStep, Moved
  <1> QED
    BY <1>1, <1>2, <1>3, PTL DEF Spec, LedgerSpec, Ledger!Spec
-----------------------------------------------------------------------------
(* One call at a time: the cache of an instance that runs its calls one    *)
(* after the other holds whichever proof has an open fate.                 *)

\* A call that has no proof yet found the cache empty; one that has one sends what is cached.
Unpaid(c) ==
  at[c] \in {"discover", "mint", "minting", "awaiting", "resume", "giveup"} \/ (at[c] \in {"claim", "fill"} /\ my[c].next = "mint")
Paying(c) ==
  at[c] \in {"submit", "send", "wait", "conclude"} \/ (at[c] \in {"claim", "fill"} /\ my[c].next = "submit")
Cached(c) ==
  /\ Unpaid(c) => proofs[I(c)] = None
  /\ Paying(c) => proofs[I(c)] = my[c].proof

Solo(c) == \A d \in Calls : I(d) = I(c) /\ {at[c], at[d]} \subseteq Running => c = d

\* A debt is a debt on the cached proof, and what a call sent is cached, or its fate is known.
Known(q) == q \in refused \/ Reported(q)
Owing(c) == owed[I(c)] \subseteq {proofs[I(c)]}
Fated(c) == dispatched[c] # None => dispatched[c] = proofs[I(c)] \/ Known(dispatched[c])

OneByOne == \A c \in Calls : Sequential(I(c)) => Cached(c) /\ Solo(c) /\ Owing(c) /\ Fated(c)

\* A proof stays with the instance that made it, and a verdict ends a call.
OwnProofs ==
  /\ \A c \in Calls : my[c].proof # None => I(my[c].proof) = I(c)
  /\ \A n \in Instances : proofs[n] # None => I(proofs[n]) = n
  /\ \A c \in Calls : verdict[c] # "none" => at[c] \in {"done", "dead"}
  /\ \A c \in Calls : at[c] \in {"idle", "inspect"} => my[c].next = "lookup"
  /\ faults \in [journal : Nat, crash : Nat, died : SUBSET Instances, overlap : SUBSET Instances]

LEMMA FaultsTyped ==
  ASSUME OwnProofs, JournalFault
  PROVE  /\ faults'.overlap = faults.overlap /\ faults'.died = faults.died
         /\ faults' \in [journal : Nat, crash : Nat, died : SUBSET Instances, overlap : SUBSET Instances]
  BY DEF OwnProofs, JournalFault

\* What a step of a call does to its own instance, where that runs one call at a time.
Turn(e) ==
  /\ faults'.overlap = faults.overlap /\ faults'.died = faults.died
  /\ \A c \in Calls \ {e} : at'[c] = at[c] /\ my'[c] = my[c] /\ dispatched'[c] = dispatched[c] /\ verdict'[c] = verdict[c]
  /\ \A n \in Instances \ {I(e)} : proofs'[n] = proofs[n] /\ owed'[n] = owed[n]
  /\ refused \subseteq refused'
  /\ verdict[e] = "none" /\ at[e] \in Running
  /\ dispatched[e] # None => dispatched'[e] = dispatched[e]
  /\ Sequential(I(e)) =>
       /\ Cached(e)' /\ Owing(e)' /\ Fated(e)'
       /\ proofs'[I(e)] = proofs[I(e)] \/ proofs[I(e)] = None \/ (\A q \in {proofs[I(e)]} : Known(q)')

\* A proof whose fate is known keeps it.
LEMMA KnownStays ==
  ASSUME NEW e \in Calls, Types,
         \A c \in Calls \ {e} : dispatched'[c] = dispatched[c] /\ verdict'[c] = verdict[c],
         refused \subseteq refused', verdict[e] = "none"
  PROVE  \A q : Known(q) => Known(q)'
BY DEF Known, Reported

LEMMA TurnKeeps ==
  ASSUME IInv, OneByOne, NEW e \in Calls, Turn(e)
  PROVE  OneByOne'
  <1> SUFFICES ASSUME NEW c \in Calls, Sequential(I(c))'
               PROVE  Cached(c)' /\ Solo(c)' /\ Owing(c)' /\ Fated(c)'
    BY DEF OneByOne
  <1>1. Sequential(I(c)) /\ I(c) \in Instances
    BY Naming DEF Turn, Sequential, I
  <1>2. \A q : Known(q) => Known(q)'
    BY KnownStays DEF Turn, IInv
  <1>3. Cached(c) /\ Solo(c) /\ Owing(c) /\ Fated(c)
    BY <1>1 DEF OneByOne
  <1>4. at[e] \in Running
    BY DEF Turn
  <1>5. CASE I(c) # I(e)
    <2>1. /\ at'[c] = at[c] /\ my'[c] = my[c] /\ dispatched'[c] = dispatched[c]
          /\ proofs'[I(c)] = proofs[I(c)] /\ owed'[I(c)] = owed[I(c)]
          /\ \A d \in Calls : I(d) = I(c) => at'[d] = at[d]
      BY <1>1, <1>5 DEF Turn
    <2> QED
      BY <1>2, <1>3, <2>1 DEF Cached, Unpaid, Paying, Solo, Owing, Fated, I
  <1>6. CASE I(c) = I(e) /\ c # e
    <2>1. at[c] \notin Running /\ at'[c] = at[c] /\ dispatched'[c] = dispatched[c]
      BY <1>3, <1>4, <1>6 DEF Turn, Solo
    <2>2. Cached(c)' /\ Solo(c)'
      BY <2>1 DEF Cached, Unpaid, Paying, Solo, Running, MidTurn
    <2>3. /\ Owing(e)'
          /\ proofs'[I(e)] = proofs[I(e)] \/ proofs[I(e)] = None \/ (\A q \in {proofs[I(e)]} : Known(q)')
      BY <1>1, <1>6 DEF Turn
    <2> QED
      BY <1>2, <1>3, <1>6, <2>1, <2>2, <2>3 DEF Owing, Fated, I
  <1>7. CASE c = e
    <2>1. \A d \in Calls \ {e} : I(d) = I(e) => at'[d] \notin Running
      BY <1>3, <1>4, <1>7 DEF Turn, Solo
    <2> QED
      BY <1>1, <1>7, <2>1 DEF Turn, Solo, I
  <1> QED
    BY <1>5, <1>6, <1>7

\* A turn that leaves the cache, the debts and what was sent alone.
LEMMA IdleTurn ==
  ASSUME IInv, OneByOne, NEW e \in Calls, at[e] \in Running, verdict[e] = "none",
         UNCHANGED <<proofs, owed, dispatched, refused>>,
         faults'.overlap = faults.overlap, faults'.died = faults.died,
         \A c \in Calls \ {e} : at'[c] = at[c] /\ my'[c] = my[c] /\ verdict'[c] = verdict[c],
         Sequential(I(e)) => Cached(e)'
  PROVE  OneByOne'
  <1>1. \A q : Known(q) => Known(q)'
    BY KnownStays DEF IInv
  <1>2. Turn(e)
    BY <1>1 DEF Turn, OneByOne, Owing, Fated, I
  <1> QED
    BY <1>2, TurnKeeps

LEMMA BeginOne == ASSUME IInv, OwnProofs, OneByOne, NEW e \in Calls, Begin(e) PROVE OwnProofs' /\ OneByOne'
  <1>1. /\ at[e] = "idle" /\ at' = [at EXCEPT ![e] = IF Supplied[e] = None THEN "lookup" ELSE "inspect"]
        /\ faults' = [faults EXCEPT !.overlap =
             IF \E d \in Calls : I(d) = I(e) /\ at[d] \in Running THEN @ \cup {I(e)} ELSE @]
        /\ UNCHANGED <<proofs, my, dispatched, refused, verdict, owed>>
    BY DEF Begin, Goto, Seller
  <1>2. /\ faults'.died = faults.died
        /\ faults'.overlap = IF \E d \in Calls : I(d) = I(e) /\ at[d] \in Running
                             THEN faults.overlap \cup {I(e)} ELSE faults.overlap
        /\ faults' \in [journal : Nat, crash : Nat, died : SUBSET Instances, overlap : SUBSET Instances]
    BY <1>1, Naming DEF OwnProofs
  <1>3. OwnProofs'
    BY <1>1, <1>2 DEF IInv, Types, Places, Place, Before, OwnProofs, I
  <1>4. ASSUME NEW c \in Calls, Sequential(I(c))' PROVE Cached(c)' /\ Solo(c)' /\ Owing(c)' /\ Fated(c)'
    <2>1. Sequential(I(c)) /\ (I(c) = I(e) => \A d \in Calls : I(d) = I(e) => at[d] \notin Running)
      BY <1>2, <1>4 DEF Sequential, I
    <2>2. Cached(c) /\ Solo(c) /\ Owing(c) /\ Fated(c)
      BY <2>1 DEF OneByOne
    <2>3. at'[c] = IF c = e THEN (IF Supplied[e] = None THEN "lookup" ELSE "inspect") ELSE at[c]
      BY <1>1 DEF IInv, Types
    <2>4. Cached(c)'
      BY <1>1, <2>2, <2>3 DEF Cached, Unpaid, Paying, I
    <2>5. Solo(c)'
      BY <1>1, <2>1, <2>2, <2>3 DEF Solo, I, IInv, Types
    <2>6. Owing(c)' /\ Fated(c)'
      BY <1>1, <2>2 DEF Owing, Fated, Known, Reported, I
    <2> QED
      BY <2>4, <2>5, <2>6
  <1> QED
    BY <1>3, <1>4 DEF OneByOne

LEMMA InspectOne == ASSUME IInv, OwnProofs, OneByOne, NEW e \in Calls, Inspect(e) PROVE OwnProofs' /\ OneByOne'
  <1>1. at[e] = "inspect" /\ verdict[e] = "none" /\ my[e].next = "lookup"
        /\ UNCHANGED <<proofs, my, dispatched, refused, owed, faults>>
    BY DEF Inspect, Seller, IInv, Places, Place, Before, OwnProofs
  <1>2. /\ at'[e] = "claim" \/ (at'[e] = "done" /\ verdict'[e] = "exists")
        /\ \A c \in Calls \ {e} : at'[c] = at[c] /\ verdict'[c] = verdict[c]
        /\ verdict'[e] # "none" => at'[e] = "done"
    BY <1>1 DEF Inspect, Goto, End, IInv, Types
  <1>3. OwnProofs'
    BY <1>1, <1>2 DEF OwnProofs, I
  <1>4. Cached(e)'
    BY <1>1, <1>2 DEF Cached, Unpaid, Paying
  <1> QED
    BY <1>1, <1>2, <1>3, <1>4, IdleTurn DEF Running, MidTurn

LEMMA ClaimOne == ASSUME IInv, OwnProofs, OneByOne, NEW e \in Calls, Claim(e) PROVE OwnProofs' /\ OneByOne'
  <1>1. at[e] = "claim" /\ verdict[e] = "none" /\ UNCHANGED <<proofs, my, dispatched, refused, owed>>
    BY DEF Claim, Seller, IInv, Places, Place, Before
  <1>2. /\ (at'[e] = "fill" /\ verdict'[e] = "none") \/ at'[e] = "done"
        /\ \A c \in Calls \ {e} : at'[c] = at[c] /\ verdict'[c] = verdict[c]
    BY <1>1 DEF Claim, Goto, End, IInv, Types
  <1>3. UNCHANGED faults \/ JournalFault
    BY DEF Claim
  <1>4. OwnProofs'
    BY <1>1, <1>2, <1>3, FaultsTyped DEF OwnProofs, I
  <1>5. Sequential(I(e)) => Cached(e)'
    BY <1>1, <1>2 DEF OneByOne, Cached, Unpaid, Paying, I
  <1> QED
    BY <1>1, <1>2, <1>3, <1>4, <1>5, FaultsTyped, IdleTurn DEF Running, MidTurn

LEMMA FillOne == ASSUME IInv, OwnProofs, OneByOne, NEW e \in Calls, Fill(e) PROVE OwnProofs' /\ OneByOne'
  <1>1. at[e] = "fill" /\ verdict[e] = "none" /\ UNCHANGED <<proofs, dispatched, refused, owed>>
    BY DEF Fill, Seller, IInv, Places, Place, Before
  <1>2. /\ my[e].next \in {"lookup", "submit", "mint"}
        /\ (at'[e] = my[e].next /\ verdict'[e] = "none") \/ at'[e] = "done"
        /\ \A c \in Calls \ {e} : at'[c] = at[c] /\ verdict'[c] = verdict[c]
    BY <1>1 DEF Fill, Goto, End, IInv, Types, Locals
  <1>3. UNCHANGED faults \/ JournalFault
    BY DEF Fill
  <1>4. my'[e].proof = my[e].proof /\ \A c \in Calls \ {e} : my'[c] = my[c]
    <2>1. UNCHANGED my \/ my' = [my EXCEPT ![e] = [my[e] EXCEPT !.recorded = TRUE]]
      BY DEF Fill, Local
    <2>2. my[e] \in Locals /\ my \in [Calls -> Locals]
      BY DEF IInv, Types
    <2> DEFINE m == [my[e] EXCEPT !.recorded = TRUE]
    <2>3. m.proof = my[e].proof
      BY <2>2, Updates
    <2> HIDE DEF m
    <2> QED
      BY <2>1, <2>2, <2>3 DEF m
  <1>5. OwnProofs'
    BY <1>1, <1>2, <1>3, <1>4, FaultsTyped DEF OwnProofs, I
  <1>6. Sequential(I(e)) => Cached(e)'
    BY <1>1, <1>2, <1>4 DEF OneByOne, Cached, Unpaid, Paying, I
  <1> QED
    BY <1>1, <1>2, <1>3, <1>4, <1>5, <1>6, FaultsTyped, IdleTurn DEF Running, MidTurn

\* ensureIntent keeps the cache's bargain: it goes on at l with the proof m names.
LEMMA EnsureOne ==
  ASSUME IInv, OwnProofs, OneByOne, NEW e \in Calls, NEW m \in Locals, NEW l \in {"submit", "mint"},
         Like(m, my[e]), Ensure(e, m, l), at[e] \in {"lookup", "discover"},
         l = "mint" => m.proof = my[e].proof /\ (Sequential(I(e)) => proofs[I(e)] = None),
         l = "submit" => m.proof = proofs[I(e)] /\ m.proof # None,
         UNCHANGED <<proofs, dispatched, refused, verdict, owed, faults>>
  PROVE  OwnProofs' /\ OneByOne'
  <1>1. PICK n \in Locals :
          /\ Like(n, m) /\ n.proof = m.proof /\ my' = [my EXCEPT ![e] = n]
          /\ \/ m.recorded /\ at' = [at EXCEPT ![e] = l]
             \/ ~m.recorded /\ n.next = l /\ at' = [at EXCEPT ![e] = "claim"]
    BY EnsureGoes DEF IInv, Types
  <1>2. /\ my'[e].proof = m.proof /\ \A c \in Calls \ {e} : at'[c] = at[c] /\ my'[c] = my[c]
        /\ at'[e] = l \/ (at'[e] = "claim" /\ my'[e].next = l)
    BY <1>1 DEF IInv, Types
  <1>3. verdict[e] = "none"
    BY DEF IInv, Places, Place, Before
  <1>4. OwnProofs'
    BY <1>2, <1>3, Naming DEF OwnProofs, I
  <1>5. Sequential(I(e)) => Cached(e)'
    BY <1>2 DEF Cached, Unpaid, Paying, I
  <1> QED
    BY <1>2, <1>3, <1>4, <1>5, IdleTurn DEF Running, MidTurn

LEMMA LookupOne == ASSUME IInv, OwnProofs, OneByOne, NEW e \in Calls, Lookup(e) PROVE OwnProofs' /\ OneByOne'
  <1> DEFINE m == [my[e] EXCEPT !.owed = owed[I(e)]]
             r == [m EXCEPT !.proof = proofs[I(e)], !.replayed = TRUE]
  <1>1. m \in Locals /\ Like(m, my[e]) /\ m.proof = my[e].proof
    <2>1. my[e] \in Locals /\ owed[I(e)] \in SUBSET Calls
      BY Naming DEF IInv, Types
    <2> QED
      BY <2>1, Updates DEF Like
  <1>2. at[e] = "lookup" /\ verdict[e] = "none"
        /\ UNCHANGED <<proofs, dispatched, refused, verdict, owed, faults>>
    BY DEF Lookup, Seller, IInv, Places, Place, Before
  <1>3. CASE proofs[I(e)] # None
    <2>1. proofs[I(e)] \in Calls
      BY <1>3, Naming DEF IInv, Types
    <2>2. r \in Locals /\ Like(r, m) /\ r.proof = proofs[I(e)]
      BY <1>1, <2>1, Updates DEF Like
    <2>3. Ensure(e, r, "submit")
      BY <1>3 DEF Lookup
    <2> HIDE DEF r, m
    <2> QED
      BY <1>1, <1>2, <1>3, <2>2, <2>3, EnsureOne DEF Like
  <1>4. CASE proofs[I(e)] = None
    <2>1. my' = [my EXCEPT ![e] = m] /\ at' = [at EXCEPT ![e] = "discover"]
      BY <1>4 DEF Lookup, Local, Goto
    <2> HIDE DEF m
    <2>2. /\ my'[e].proof = my[e].proof /\ at'[e] = "discover"
          /\ \A c \in Calls \ {e} : at'[c] = at[c] /\ my'[c] = my[c]
      BY <1>1, <2>1 DEF IInv, Types
    <2>3. OwnProofs'
      BY <1>2, <2>2 DEF OwnProofs, I
    <2>4. Cached(e)'
      BY <1>2, <1>4, <2>2 DEF Cached, Unpaid, Paying, I
    <2> QED
      BY <1>2, <2>2, <2>3, <2>4, IdleTurn DEF Running, MidTurn
  <1> QED
    BY <1>3, <1>4

\* A call that ends before it sent anything leaves its instance as it was.
LEMMA WithdrawOne ==
  ASSUME IInv, OwnProofs, OneByOne, NEW e \in Calls, at[e] \in Before \cap Running, NEW r, NEW v, Withdraw(e, r, v),
         UNCHANGED <<proofs, dispatched, refused, owed>>
  PROVE  OwnProofs' /\ OneByOne'
  <1>1. /\ verdict[e] = "none" /\ UNCHANGED my /\ at'[e] = "done"
        /\ \A c \in Calls \ {e} : at'[c] = at[c] /\ verdict'[c] = verdict[c]
        /\ UNCHANGED faults \/ JournalFault
    BY DEF Withdraw, RecordBestEffort, End, Goto, IInv, Types, Places, Place
  <1>2. OwnProofs'
    BY <1>1, FaultsTyped DEF OwnProofs, I
  <1>3. Cached(e)'
    BY <1>1 DEF Cached, Unpaid, Paying
  <1> QED
    BY <1>1, <1>2, <1>3, FaultsTyped, IdleTurn

LEMMA DiscoverOne == ASSUME IInv, OwnProofs, OneByOne, NEW e \in Calls, Discover(e) PROVE OwnProofs' /\ OneByOne'
  <1>1. at[e] = "discover" /\ UNCHANGED <<proofs, dispatched, refused, owed>>
    BY DEF Discover, Seller
  <1>2. CASE Ensure(e, my[e], "mint") /\ UNCHANGED <<journal, faults, verdict>>
    <2>1. my[e] \in Locals /\ Like(my[e], my[e])
      BY DEF IInv, Types, Like
    <2>2. Sequential(I(e)) => proofs[I(e)] = None
      BY <1>1 DEF OneByOne, Cached, Unpaid
    <2> QED
      BY <1>1, <1>2, <2>1, <2>2, EnsureOne
  <1>3. CASE Withdraw(e, Unpriced, "not_required") \/ Withdraw(e, Failed, "safe")
    BY <1>1, <1>3, WithdrawOne DEF Before, Running
  <1> QED
    BY <1>2, <1>3 DEF Discover

LEMMA MintOne == ASSUME IInv, OwnProofs, OneByOne, NEW e \in Calls, Mint(e) PROVE OwnProofs' /\ OneByOne'
  <1>1. at[e] = "mint" /\ verdict[e] = "none" /\ UNCHANGED <<proofs, dispatched, refused, owed>>
    BY DEF Mint, Seller, IInv, Places, Place, Before
  <1>2. CASE Withdraw(e, Failed, "safe")
    BY <1>1, <1>2, WithdrawOne DEF Before, Running
  <1>3. CASE UNCHANGED <<my, faults, verdict>> /\ (Goto(e, "minting") \/ Goto(e, "awaiting"))
    <2>1. at'[e] \in {"minting", "awaiting"} /\ \A c \in Calls \ {e} : at'[c] = at[c]
      BY <1>3 DEF Goto, IInv, Types
    <2>2. OwnProofs'
      BY <1>1, <1>3, <2>1 DEF OwnProofs, I
    <2>3. Sequential(I(e)) => Cached(e)'
      BY <1>1, <1>3, <2>1 DEF OneByOne, Cached, Unpaid, Paying, I
    <2> QED
      BY <1>1, <1>3, <2>1, <2>2, <2>3, IdleTurn DEF Running
  <1> QED
    BY <1>2, <1>3 DEF Mint

LEMMA GiveUpOne == ASSUME IInv, OwnProofs, OneByOne, NEW e \in Calls, GiveUp(e) PROVE OwnProofs' /\ OneByOne'
  BY WithdrawOne DEF GiveUp, Seller, Before, Running

\* A minted proof goes to the one call that waits for it.
LEMMA MintDoneOne == ASSUME IInv, OwnProofs, OneByOne, NEW e \in Calls, MintDone(e) PROVE OwnProofs' /\ OneByOne'
  <1> DEFINE waiting == {d \in Calls : I(d) = I(e) /\ at[d] \in {"minting", "awaiting"}}
  <1>1. at[e] = "minting" /\ UNCHANGED <<proofs, dispatched, refused, verdict, faults, owed>>
    BY DEF MintDone, Seller
  <1>2. PICK ok \in BOOLEAN :
          /\ at' = [d \in Calls |-> IF d \notin waiting THEN at[d] ELSE IF ok THEN "resume" ELSE "giveup"]
          /\ my' = [d \in Calls |-> IF d \in waiting /\ ok THEN [my[d] EXCEPT !.proof = e] ELSE my[d]]
    BY DEF MintDone
  <1>3. /\ \A d \in waiting : at'[d] \in {"resume", "giveup"} /\ my'[d].proof \in {e, my[d].proof}
        /\ \A d \in Calls \ waiting : at'[d] = at[d] /\ my'[d] = my[d]
    <2>1. \A d \in Calls : my[d] \in Locals
      BY DEF IInv, Types
    <2> QED
      BY <1>2, <2>1 DEF Locals
  <1>4. /\ \A d \in waiting : I(d) = I(e) /\ at[d] \in {"minting", "awaiting"} /\ d \in Calls
        /\ \A d \in Calls : I(d) = I(e) /\ at[d] \in {"minting", "awaiting"} => d \in waiting
    OBVIOUS
  <1> HIDE DEF waiting
  <1>5. OwnProofs'
    <2>1. \A d \in Calls : my'[d].proof # None => I(my'[d].proof) = I(d)
      BY <1>3, <1>4 DEF OwnProofs
    <2>2. \A d \in Calls : verdict'[d] # "none" => at'[d] \in {"done", "dead"}
      BY <1>1, <1>3, <1>4 DEF OwnProofs
    <2>3. \A d \in Calls : at'[d] \in {"idle", "inspect"} => my'[d].next = "lookup"
      BY <1>3, <1>4 DEF OwnProofs
    <2> QED
      BY <1>1, <2>1, <2>2, <2>3 DEF OwnProofs, I
  <1>6. ASSUME NEW c \in Calls, Sequential(I(c)) PROVE Cached(c)' /\ Solo(c)' /\ Owing(c)' /\ Fated(c)'
    <2>1. Cached(c) /\ Solo(c) /\ Owing(c) /\ Fated(c)
      BY <1>6 DEF OneByOne
    <2>2. Owing(c)' /\ Fated(c)'
      BY <1>1, <2>1 DEF Owing, Fated, Known, Reported, I
    <2>3. Cached(c)'
      BY <1>1, <1>3, <1>4, <2>1 DEF Cached, Unpaid, Paying, I
    <2>4. \A d \in Calls : at'[d] \in Running <=> at[d] \in Running
      BY <1>3, <1>4 DEF Running
    <2>5. Solo(c)'
      BY <2>1, <2>4 DEF Solo, I
    <2> QED
      BY <2>2, <2>3, <2>5
  <1>7. \A n : Sequential(n)' <=> Sequential(n)
    BY <1>1 DEF Sequential
  <1> QED
    BY <1>5, <1>6, <1>7 DEF OneByOne, I

\* The cache takes the proof in its turn: it is the one it held, or it held none.
LEMMA SubmitOne == ASSUME IInv, OwnProofs, OneByOne, NEW e \in Calls, Submit(e) PROVE OwnProofs' /\ OneByOne'
  <1>1. /\ at[e] \in {"submit", "resume"} /\ verdict[e] = "none" /\ my[e].proof # None
        /\ proofs' = [proofs EXCEPT ![I(e)] = my[e].proof] /\ dispatched[e] = None
        /\ UNCHANGED <<my, dispatched, refused, owed>>
    BY DEF Submit, Keep, Seller, IInv, Places, Place, Before
  <1>2. /\ (at'[e] = "send" /\ verdict'[e] = "none") \/ at'[e] = "done"
        /\ \A c \in Calls \ {e} : at'[c] = at[c] /\ verdict'[c] = verdict[c]
    BY <1>1 DEF Submit, Goto, End, IInv, Types
  <1>3. UNCHANGED faults \/ JournalFault
    BY DEF Submit
  <1>4. proofs'[I(e)] = my[e].proof /\ \A n \in Instances \ {I(e)} : proofs'[n] = proofs[n]
    BY <1>1, Naming DEF IInv, Types
  <1>5. OwnProofs'
    BY <1>1, <1>2, <1>3, <1>4, FaultsTyped, Naming DEF OwnProofs, I
  <1>6. ASSUME Sequential(I(e))
        PROVE  /\ Cached(e)' /\ Owing(e)' /\ Fated(e)'
               /\ proofs'[I(e)] = proofs[I(e)] \/ proofs[I(e)] = None
    <2>1. Cached(e) /\ Owing(e)
      BY <1>6 DEF OneByOne
    <2>2. proofs'[I(e)] = proofs[I(e)] \/ proofs[I(e)] = None
      BY <1>1, <1>4, <2>1 DEF Cached, Unpaid, Paying
    <2>3. owed[I(e)] \subseteq Calls
      BY Naming DEF IInv, Types
    <2>4. Owing(e)'
      BY <1>1, <2>1, <2>2, <2>3, Naming DEF Owing, I
    <2>5. Cached(e)'
      BY <1>1, <1>2, <1>4 DEF Cached, Unpaid, Paying, I
    <2> QED
      BY <1>1, <2>2, <2>4, <2>5 DEF Fated
  <1>7. Turn(e)
    BY <1>1, <1>2, <1>3, <1>4, <1>6, FaultsTyped DEF Turn, Running, MidTurn
  <1> QED
    BY <1>5, <1>7, TurnKeeps

LEMMA SendOne == ASSUME IInv, OwnProofs, OneByOne, NEW e \in Calls, Send(e) PROVE OwnProofs' /\ OneByOne'
  <1>1. /\ at[e] = "send" /\ verdict[e] = "none" /\ dispatched[e] = None
        /\ dispatched' = [dispatched EXCEPT ![e] = my[e].proof] /\ at' = [at EXCEPT ![e] = "wait"]
        /\ UNCHANGED <<proofs, my, refused, verdict, owed, faults>>
    BY DEF Send, Goto, IInv, Places, Place, Before
  <1>2. /\ at'[e] = "wait" /\ dispatched'[e] = my[e].proof
        /\ \A c \in Calls \ {e} : at'[c] = at[c] /\ dispatched'[c] = dispatched[c]
    BY <1>1 DEF IInv, Types
  <1>3. OwnProofs'
    BY <1>1, <1>2 DEF OwnProofs, I
  <1>4. Sequential(I(e)) => Cached(e)' /\ Owing(e)' /\ Fated(e)'
    BY <1>1, <1>2 DEF OneByOne, Cached, Unpaid, Paying, Owing, Fated, I
  <1>5. Turn(e)
    BY <1>1, <1>2, <1>4 DEF Turn, Running, MidTurn
  <1> QED
    BY <1>3, <1>5, TurnKeeps

LEMMA ReceiveOne == ASSUME IInv, OwnProofs, OneByOne, NEW e \in Calls, Receive(e) PROVE OwnProofs' /\ OneByOne'
  <1>1. /\ at[e] = "wait" /\ verdict[e] = "none" /\ dispatched[e] # None
        /\ at' = [at EXCEPT ![e] = "conclude"]
        /\ UNCHANGED <<proofs, dispatched, verdict, owed>>
    BY DEF Receive, Goto, IInv, Places, Place, OwnProofs
  <1>2. /\ refused \subseteq refused'
        /\ UNCHANGED faults \/ JournalFault
        /\ \E x \in {"ok", "bare", "used", "refused", "gateway", "unsure", "pending", "error", "lost"} :
             my' = [my EXCEPT ![e] = [my[e] EXCEPT !.resp = x]]
    BY DEF Receive, Local, Answers
  <1>3. my'[e].proof = my[e].proof /\ \A c \in Calls \ {e} : at'[c] = at[c] /\ my'[c] = my[c]
    <2>1. my[e] \in Locals /\ my \in [Calls -> Locals] /\ at \in [Calls -> Running \cup {"idle", "done", "dead"}]
      BY DEF IInv, Types
    <2> QED
      BY <1>1, <1>2, <2>1 DEF Locals
  <1>4. at'[e] = "conclude"
    BY <1>1 DEF IInv, Types
  <1>5. OwnProofs'
    BY <1>1, <1>2, <1>3, <1>4, FaultsTyped DEF OwnProofs, I
  <1>6. Sequential(I(e)) => Cached(e)' /\ Owing(e)' /\ Fated(e)'
    BY <1>1, <1>2, <1>3, <1>4 DEF OneByOne, Cached, Unpaid, Paying, Owing, Fated, Known, Reported, I
  <1>7. Turn(e)
    BY <1>1, <1>2, <1>3, <1>4, <1>6, FaultsTyped DEF Turn, Running, MidTurn
  <1> QED
    BY <1>5, <1>7, TurnKeeps

\* A proof that leaves the cache was refused, or its call reports it as settled.
LEMMA ConcludeOne == ASSUME IInv, OwnProofs, OneByOne, NEW e \in Calls, Conclude(e) PROVE OwnProofs' /\ OneByOne'
  <1>0. PICK q \in Calls \cup {None} : q = my[e].proof
    BY DEF IInv, Types, Locals
  <1>1. /\ at[e] = "conclude" /\ verdict[e] = "none" /\ dispatched[e] = q /\ q # None
        /\ at' = [at EXCEPT ![e] = "done"] /\ verdict' = [verdict EXCEPT ![e] = Tells(e)]
        /\ proofs' = IF Forgets(e) THEN [proofs EXCEPT ![I(e)] = None] ELSE proofs
        /\ owed' = [owed EXCEPT ![I(e)] =
                IF Forgets(e) THEN @ \ {q} ELSE IF Tells(e) = "unknown" THEN @ \cup {q} ELSE @]
        /\ UNCHANGED <<my, dispatched, refused>>
    BY <1>0 DEF Conclude, End, Goto, Seller, IInv, Places, Place, OwnProofs
  <1>2. /\ at'[e] = "done" /\ verdict'[e] = Tells(e)
        /\ \A c \in Calls \ {e} : at'[c] = at[c] /\ verdict'[c] = verdict[c]
        /\ \A n \in Instances \ {I(e)} : proofs'[n] = proofs[n] /\ owed'[n] = owed[n]
        /\ proofs'[I(e)] = IF Forgets(e) THEN None ELSE proofs[I(e)]
        /\ owed'[I(e)] = IF Forgets(e) THEN owed[I(e)] \ {q}
                         ELSE IF Tells(e) = "unknown" THEN owed[I(e)] \cup {q} ELSE owed[I(e)]
    BY <1>1, Naming DEF IInv, Types
  <1>3. UNCHANGED faults \/ JournalFault
    BY DEF Conclude, RecordBestEffort
  <1>4. OwnProofs'
    BY <1>1, <1>2, <1>3, FaultsTyped DEF OwnProofs, I
  <1>5. Forgets(e) => Known(q)'
    <2>1. my[e].resp = "refused" => q \in refused
      BY <1>1 DEF IInv, Bound
    <2>2. Classified(e) = Completed /\ my[e].resp \notin {"bare", "refused"} => Tells(e) = "settled"
      BY DEF Tells, Completed, Failed
    <2>3. Tells(e) = "settled" => Reported(q)'
      BY <1>1, <1>2 DEF Reported
    <2> QED
      BY <1>1, <2>1, <2>2, <2>3 DEF Forgets, Known
  <1>6. ASSUME Sequential(I(e))
        PROVE  /\ Cached(e)' /\ Owing(e)' /\ Fated(e)'
               /\ proofs'[I(e)] = proofs[I(e)] \/ (\A x \in {proofs[I(e)]} : Known(x)')
    <2>1. Cached(e) /\ Owing(e)
      BY <1>6 DEF OneByOne
    <2>2. proofs[I(e)] = q
      BY <1>0, <1>1, <2>1 DEF Cached, Paying
    <2>3. Cached(e)'
      BY <1>2 DEF Cached, Unpaid, Paying
    <2>4. Owing(e)'
      BY <1>2, <2>1, <2>2 DEF Owing, I
    <2>5. Fated(e)'
      BY <1>1, <1>2, <1>5, <2>2 DEF Fated, I
    <2> QED
      BY <1>2, <1>5, <2>2, <2>3, <2>4, <2>5
  <1>7. Turn(e)
    BY <1>1, <1>2, <1>3, <1>6, FaultsTyped DEF Turn, Running
  <1> QED
    BY <1>4, <1>7, TurnKeeps

LEMMA SettleOne == ASSUME OwnProofs, OneByOne, NEW e \in Calls, Settle(e) PROVE OwnProofs' /\ OneByOne'
  <1>1. UNCHANGED <<proofs, at, my, dispatched, refused, faults, verdict, owed>>
    BY DEF Settle
  <1> QED
    BY <1>1 DEF OwnProofs, OneByOne, Sequential, Cached, Unpaid, Paying, Solo, Owing, Fated, Known, Reported, I

\* An instance that dies is sequential no more, and the others do not notice.
LEMMA CrashOne == ASSUME IInv, OwnProofs, OneByOne, NEW n \in Instances, Crash(n) PROVE OwnProofs' /\ OneByOne'
  <1>1. /\ at' = [c \in Calls |-> IF I(c) = n /\ at[c] # "done" THEN "dead" ELSE at[c]]
        /\ proofs' = [proofs EXCEPT ![n] = None]
        /\ faults' = [faults EXCEPT !.crash = @ - 1, !.died = @ \cup {n}] /\ faults.crash > 0
        /\ UNCHANGED <<my, dispatched, refused, verdict, owed>>
    BY DEF Crash, Seller
  <1>2. /\ faults'.died = faults.died \cup {n} /\ faults'.overlap = faults.overlap
        /\ faults' \in [journal : Nat, crash : Nat, died : SUBSET Instances, overlap : SUBSET Instances]
    <2>1. faults.crash \in Nat /\ faults.crash - 1 \in Nat /\ faults.died \cup {n} \in SUBSET Instances
      BY <1>1 DEF OwnProofs
    <2>2. PICK k \in Nat, D \in SUBSET Instances : k = faults.crash - 1 /\ D = faults.died \cup {n}
      BY <2>1
    <2>3. faults' = [faults EXCEPT !.crash = k, !.died = D]
      BY <1>1, <2>2
    <2> QED
      BY <2>2, <2>3 DEF OwnProofs
  <1>3. /\ \A c \in Calls : at'[c] = IF I(c) = n /\ at[c] # "done" THEN "dead" ELSE at[c]
        /\ \A k \in Instances : proofs'[k] = IF k = n THEN None ELSE proofs[k]
    BY <1>1 DEF IInv, Types
  <1>4. OwnProofs'
    BY <1>1, <1>2, <1>3 DEF OwnProofs, I
  <1>5. ASSUME NEW c \in Calls, Sequential(I(c))' PROVE Cached(c)' /\ Solo(c)' /\ Owing(c)' /\ Fated(c)'
    <2>1. Sequential(I(c)) /\ I(c) # n /\ I(c) \in Instances
      BY <1>2, <1>5, Naming DEF Sequential, I
    <2>2. Cached(c) /\ Solo(c) /\ Owing(c) /\ Fated(c)
      BY <2>1 DEF OneByOne
    <2>3. proofs'[I(c)] = proofs[I(c)] /\ \A d \in Calls : I(d) = I(c) => at'[d] = at[d]
      BY <1>3, <2>1
    <2> QED
      BY <1>1, <2>2, <2>3 DEF Cached, Unpaid, Paying, Solo, Owing, Fated, Known, Reported, I
  <1> QED
    BY <1>4, <1>5 DEF OneByOne

LEMMA OneStarts == Init => OwnProofs /\ OneByOne
  <1> SUFFICES ASSUME Init PROVE OwnProofs /\ OneByOne
    OBVIOUS
  <1>1. /\ \A c \in Calls : my[c] = Fresh /\ at[c] \in {"idle", "done"} /\ verdict[c] = "none" /\ dispatched[c] = None
        /\ \A n \in Instances : proofs[n] = None /\ owed[n] = {}
        /\ faults \in [journal : Nat, crash : Nat, died : SUBSET Instances, overlap : SUBSET Instances]
    BY PayAssumption DEF Init
  <1>2. OwnProofs
    BY <1>1 DEF OwnProofs, Fresh
  <1>3. OneByOne
    BY <1>1, Naming DEF OneByOne, Cached, Unpaid, Paying, Solo, Owing, Fated, Running, MidTurn
  <1> QED
    BY <1>2, <1>3

LEMMA OneInductive == IInv /\ OwnProofs /\ OneByOne /\ [Next]_vars => OwnProofs' /\ OneByOne'
  <1> SUFFICES ASSUME IInv, OwnProofs, OneByOne, [Next]_vars PROVE OwnProofs' /\ OneByOne'
    OBVIOUS
  <1>1. ASSUME NEW c \in Calls, Call(c) PROVE OwnProofs' /\ OneByOne'
    BY <1>1, BeginOne, InspectOne, ClaimOne, FillOne, LookupOne, DiscoverOne, MintOne,
       MintDoneOne, GiveUpOne, SubmitOne, SendOne, ReceiveOne, ConcludeOne DEF Call
  <1>2. CASE UNCHANGED vars
    BY <1>2 DEF vars, OwnProofs, OneByOne, Sequential, Cached, Unpaid, Paying, Solo, Owing, Fated, Known, Reported, I
  <1> QED
    BY <1>1, <1>2, SettleOne, CrashOne DEF Next

\* A payment that moved funds and that nobody reported is the cached one.
LEMMA OpenIsCached ==
  ASSUME IInv, OwnProofs, OneByOne, NEW n \in Instances, Sequential(n),
         NEW q \in Calls, I(q) = n, settledBy[q] # None, ~Reported(q)
  PROVE  q = proofs[n]
  <1>1. settledBy[q] \in Calls /\ dispatched[settledBy[q]] = q /\ q \notin refused
    BY DEF IInv, Types, Bound
  <1>2. my[settledBy[q]].proof = q /\ I(settledBy[q]) = n
    BY <1>1, Naming DEF IInv, Places, Place, OwnProofs
  <1> QED
    BY <1>1, <1>2, Naming DEF OneByOne, Fated, Known

\* In an instance that runs one call at a time and does not die, a repeated call
\* signs nothing while the outcome of an earlier one is open, and at most one
\* payment moved funds without some call reporting it, however many answers are
\* lost and whatever the journal fails to write.
THEOREM PaysOncePerRetry == Spec => []RetriesPayOnce
  <1>1. IInv /\ OwnProofs /\ OneByOne => RetriesPayOnce
    <2> SUFFICES ASSUME IInv, OwnProofs, OneByOne PROVE RetriesPayOnce
      OBVIOUS
    <2>1. ASSUME NEW c \in Calls, Sequential(I(c)), at[c] \in {"minting", "awaiting"}
          PROVE  my[c].owed \cap owed[I(c)] = {}
      <3>1. owed[I(c)] \subseteq {None} /\ owed[I(c)] \subseteq Calls
        BY <2>1, Naming DEF OneByOne, Cached, Unpaid, Owing, IInv, Types
      <3> QED
        BY <3>1, Naming
    <2>2. ASSUME NEW n \in Instances, Sequential(n)
          PROVE  Cardinality({q \in Calls : I(q) = n /\ settledBy[q] # None /\ ~Reported(q)}) <= 1
      <3> DEFINE S == {q \in Calls : I(q) = n /\ settledBy[q] # None /\ ~Reported(q)}
      <3>1. S \subseteq {proofs[n]}
        BY <2>2, OpenIsCached
      <3>2. IsFiniteSet({proofs[n]}) /\ Cardinality({proofs[n]}) = 1
        BY FS_Singleton
      <3>3. IsFiniteSet(S) /\ Cardinality(S) <= 1
        BY <3>1, <3>2, FS_Subset
      <3> QED
        BY <3>3
    <2> QED
      BY <2>1, <2>2 DEF RetriesPayOnce
  <1> QED
    BY <1>1, StartsRight, Inductive, OneStarts, OneInductive, PTL DEF Spec
=============================================================================
