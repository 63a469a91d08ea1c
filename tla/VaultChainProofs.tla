-------------------------- MODULE VaultChainProofs --------------------------
(***************************************************************************)
(* Proofs about VaultChain.  Type correctness needs no condition; the rest *)
(* is for any keystores with a process each.  A chain that lost no head    *)
(* raises no alarm, the pins of a keystore stay in lockstep, every rotation*)
(* can still be opened, an authenticated pin never moves to an older       *)
(* generation, no careful keystore refuses its own records for want of a   *)
(* key, and a member that kept its keystore can open every generation it   *)
(* is pinned to.  Sound says of the admitted heads what the fence checked; *)
(* Follows, Headed and Keyed tie the file of a keystore and the walk of its*)
(* process to that chain.                                                  *)
(***************************************************************************)
EXTENDS VaultChain, WellFoundedInduction, TLAPS

\* A bounded set of numbers has a greatest.
LEMMA Greatest ==
  ASSUME NEW S \in SUBSET Nat, S # {}, NEW n \in Nat, \A x \in S : x <= n
  PROVE  \E y \in S : \A x \in S : x <= y
  <1> DEFINE T == {n - x : x \in S}
  <1>1. T \in SUBSET Nat /\ T # {}
    <2>1. \A x \in S : n - x \in Nat
      OBVIOUS
    <2>2. PICK x \in S : TRUE
      OBVIOUS
    <2>3. n - x \in T
      OBVIOUS
    <2> QED
      BY <2>1, <2>3
  <1>2. PICK t \in T : \A u \in T : ~(<<u, t>> \in OpToRel(<, Nat))
    <2> HIDE DEF T
    <2> QED
      BY Zenon, <1>1, WFMin, NatLessThanWellFounded
  <1>3. \A u \in T : ~(u < t)
    BY <1>1, <1>2 DEF OpToRel
  <1>4. PICK y \in S : t = n - y
    OBVIOUS
  <1>5. \A x \in S : ~(n - x < n - y)
    BY <1>3, <1>4
  <1>6. \A a, b, d \in Nat : ~(d - a < d - b) => a <= b
    OBVIOUS
  <1>7. \A x \in S : x <= y
    BY <1>5, <1>6
  <1> QED
    BY <1>7

-----------------------------------------------------------------------------
(* Types.                                                                  *)

Operations == {"sync", "verify", "push", "rotate", "rekey", "confirm", "add", "activate"}
Files ==
  [head : Pins \cup {None}, prefix : Pins \cup {None}, mat : Pins \cup {None},
   wpin : WriterPins \cup {None}, epoch : Nat, keys : SUBSET Nat]
Alarms == {"CHAIN_BROKEN", "GENERATION_REGRESSION", "VAULT_WRITER_NOT_ADMITTED"}
Errors == {"none", "VERIFICATION_BUDGET_EXCEEDED", "VAULT_WRITER_NOT_ADMITTED"}
Locals ==
  [op : Operations \cup {"none"}, grantor : Keys \cup {None}, target : Keys \cup {None},
   receipt : SUBSET Pins, nested : BOOLEAN, rotated : BOOLEAN, conflicts : Nat, outer : Nat,
   pin : Pins, ws : WriterStates, epoch : Nat, units : Nat, end : Nat,
   more : BOOLEAN, keys : SUBSET Nat, dec : Pins \cup {None}, got : BOOLEAN, anchored : BOOLEAN,
   undec : BOOLEAN, err : Errors, prop : Heads]
Faults ==
  [crash : Nat, lost : Nat, removal : Nat, rollback : Nat, torn : SUBSET Keys, unkeyed : SUBSET Keys,
   rebuilt : SUBSET Keys]

\* A walk goes on, and what it has walked is there, until its closing writes.
Walking == {"list", "walk", "page1", "page2", "page3", "catchup", "done1", "done2", "done3"}
Fit(l, m) ==
  /\ l \in Walking => m.pin.gen <= Newest /\ m.end <= Newest /\ 0 \in m.keys
  /\ m.op \in {"add", "activate"} => m.target \in Keys
  /\ m.prop.tr.kind = "add" => m.prop.tr.added \in Keys
  /\ m.units <= plan.budget + 1
  /\ m.conflicts <= plan.retries /\ m.outer <= plan.retries

FilesTyped == files \in [Keys -> Files] /\ \A s \in Keys : 0 \in files[s].keys /\ files[s].epoch \in files[s].keys

Types ==
  /\ plan \in Plans
  /\ chain \in Seq(Heads)
  /\ members \in SUBSET Keys
  /\ FilesTyped
  /\ at \in [Procs -> Labels]
  /\ my \in [Procs -> Locals]
  /\ faults \in Faults
  /\ \A p \in Procs : Fit(at[p], my[p])

\* The admitted heads are in line, each by a writer of the state before it.
Admissible(ws, h) ==
  /\ h.tr.kind = "add" => h.tr.added \in Keys /\ ValidateAddWriterKey(ws, h.tr, h.writer)
  /\ h.tr.kind # "add" => h.writer \in ws.writers
  /\ h.tr.kind = "rotate" /\ h.tr.removed # {} =>
       ValidateWriterSetUpdate(ws, h.tr, h.writer, h.tr.removed, FALSE)

Linked(g) ==
  LET h == chain[g] IN
  /\ h.gen = g /\ h.prev = PinAt(g - 1).id
  /\ h.epoch = EpochAt(g - 1) + (IF h.tr.kind = "rotate" THEN 1 ELSE 0)
  /\ Admissible(WriterStateAt(g - 1), h)
  /\ h.ws = ApplyTransition(WriterStateAt(g - 1), h.tr)
Chained == \A g \in 1 .. Newest : Linked(g)

LEMMA Consts ==
  /\ Creator \in Keys /\ None \notin Keys /\ MaxWriters \in Nat
  /\ StoreOf \in [Procs -> Keys] /\ None \notin Procs
  /\ \A x \in Plans : x \in PlanSet /\ Creator \in x.keys
  /\ None \notin Pins /\ None \notin WriterPins
BY WriterAssumption, ChainAssumption, AbsentAssumption

LEMMA Applied ==
  ASSUME NEW ws \in WriterStates, NEW t \in Transitions, t.kind = "add" => t.added \in Keys
  PROVE  LET n == ApplyTransition(ws, t) IN
         /\ n \in WriterStates
         /\ t.kind = "add" =>
              /\ n.version = ws.version + 1 /\ n.writers = ws.writers \cup {t.added}
              /\ n.burned = ws.burned /\ n.retired = ws.retired
              /\ n.consumed = IF t.grantor = None THEN ws.consumed ELSE ws.consumed \cup {<<t.grantor, t.added>>}
         /\ t.kind = "rotate" /\ t.removed # {} =>
              /\ n.version = ws.version + 1 /\ n.writers = ws.writers \ t.removed
              /\ n.burned = ws.burned \cup t.removed /\ n.consumed = ws.consumed
              /\ n.retired = ws.retired \cup (ws.writers \cap t.removed)
         /\ ~ChangesWriters(t) => n = ws
  <1> DEFINE n == ApplyTransition(ws, t)
  <1>1. CASE t.kind = "add"
    <2>1. n = [ws EXCEPT !.version = ws.version + 1, !.writers = ws.writers \cup {t.added},
                         !.consumed = IF t.grantor = None THEN ws.consumed ELSE ws.consumed \cup {<<t.grantor, t.added>>}]
      BY <1>1 DEF ApplyTransition, ApplyAddWriterKey
    <2>2. t.grantor # None => <<t.grantor, t.added>> \in Handoffs
      BY <1>1 DEF Transitions, Handoffs
    <2>3. (ws.writers \cup {t.added}) \in SUBSET Keys /\ ws.version + 1 \in Nat
          /\ (IF t.grantor = None THEN ws.consumed ELSE ws.consumed \cup {<<t.grantor, t.added>>}) \in SUBSET Handoffs
      BY <1>1, <2>2 DEF WriterStates
    <2> HIDE DEF n
    <2> QED
      BY <1>1, <2>1, <2>3 DEF WriterStates, ChangesWriters, n
  <1>2. CASE t.kind = "rotate" /\ t.removed # {}
    <2>1. n = [ws EXCEPT !.version = ws.version + 1, !.writers = ws.writers \ t.removed,
                         !.burned = ws.burned \cup t.removed,
                         !.retired = ws.retired \cup (ws.writers \cap t.removed)]
      BY <1>2 DEF ApplyTransition, ApplyWriterSetUpdate
    <2>2. /\ (ws.writers \ t.removed) \in SUBSET Keys /\ ws.version + 1 \in Nat
          /\ (ws.burned \cup t.removed) \in SUBSET Keys
          /\ (ws.retired \cup (ws.writers \cap t.removed)) \in SUBSET Keys
      BY DEF WriterStates, Transitions
    <2> HIDE DEF n
    <2> QED
      BY <1>2, <2>1, <2>2 DEF WriterStates, ChangesWriters, n
  <1>3. CASE t.kind # "add" /\ ~(t.kind = "rotate" /\ t.removed # {})
    BY <1>3 DEF ApplyTransition
  <1> QED
    BY <1>1, <1>2, <1>3

LEMMA Starts ==
  /\ InitialWriterState \in WriterStates /\ Genesis \in Pins /\ NoTransition \in Transitions
  /\ NoHead \in Heads /\ NoHead.tr.kind = "none"
  <1>1. InitialWriterState \in WriterStates
    BY Consts DEF InitialWriterState, WriterStates
  <1>2. Genesis \in Pins
    BY DEF Genesis, Pins
  <1>3. NoTransition \in Transitions /\ NoTransition.kind = "none"
    BY DEF NoTransition, Transitions
  <1>4. NoHead \in Heads /\ NoHead.tr.kind = "none"
    BY <1>1, <1>3 DEF NoHead, Heads
  <1> QED
    BY <1>1, <1>2, <1>3, <1>4

LEMMA IdleTyped ==
  ASSUME plan \in Plans
  PROVE  Idle \in Locals /\ Fit("idle", Idle)
  <1>1. Idle \in Locals
    BY Starts DEF Idle, Locals, Errors, Operations
  <1>2. plan.budget \in Nat /\ plan.retries \in Nat
    BY Consts DEF PlanSet
  <1> QED
    BY <1>1, <1>2, Starts DEF Idle, Fit, Walking

\* A step of one process, over a chain that may have grown.
LEMMA ProcTyped ==
  ASSUME Types, NEW p \in Procs, NEW l \in Labels, NEW m \in Locals, Fit(l, m),
         at' = [at EXCEPT ![p] = l], my' = [my EXCEPT ![p] = m],
         UNCHANGED <<plan, members>>, FilesTyped', faults' \in Faults,
         chain' \in Seq(Heads), Newest' >= Newest
  PROVE  Types'
  <1>1. \A k, n : Fit(k, n) /\ n \in Locals => Fit(k, n)'
    <2>1. Newest \in Nat /\ Newest' \in Nat
      BY DEF Types, Newest
    <2>2. \A n \in Locals : n.pin.gen \in Nat /\ n.end \in Nat
      BY DEF Locals, Pins
    <2> QED
      BY <2>1, <2>2 DEF Fit
  <1>2. at' \in [Procs -> Labels] /\ my' \in [Procs -> Locals]
    BY DEF Types
  <1>3. \A q \in Procs : Fit(at[q], my[q])' 
    BY <1>1 DEF Types
  <1> QED
    BY <1>2, <1>3 DEF Types

LEMMA EndTyped ==
  ASSUME Types, NEW p \in Procs, End(p), UNCHANGED <<plan, members>>, FilesTyped', faults' \in Faults,
         chain' \in Seq(Heads), Newest' >= Newest
  PROVE  Types'
  <1>1. at' = [at EXCEPT ![p] = "idle"] /\ my' = [my EXCEPT ![p] = Idle]
    BY DEF End, Goto, Local
  <1>2. Idle \in Locals /\ Fit("idle", Idle)
    BY IdleTyped DEF Types
  <1> HIDE DEF Idle
  <1> QED
    BY <1>1, <1>2, ProcTyped DEF Labels

LEMMA FileTyped ==
  ASSUME Types, NEW p \in Procs, NEW f \in Files, 0 \in f.keys /\ f.epoch \in f.keys, UpdateRepo(p, f)
  PROVE  FilesTyped'
  BY Consts DEF Types, FilesTyped, UpdateRepo

LEMMA Fields ==
  ASSUME Types, NEW p \in Procs
  PROVE  /\ my[p] \in Locals /\ Fit(at[p], my[p])
         /\ File(p) \in Files /\ 0 \in File(p).keys /\ File(p).epoch \in File(p).keys
         /\ Newest \in Nat /\ plan \in PlanSet
  BY Consts DEF Types, FilesTyped, File, Newest

LEMMA Ats ==
  ASSUME chain \in Seq(Heads), NEW g \in 0 .. Newest
  PROVE  /\ PinAt(g) \in Pins /\ PinAt(g).gen = g /\ EpochAt(g) \in Nat /\ WriterStateAt(g) \in WriterStates
         /\ g > 0 => /\ chain[g] \in Heads /\ PinAt(g).id = chain[g].id
                     /\ EpochAt(g) = chain[g].epoch /\ WriterStateAt(g) = chain[g].ws
  <1>1. CASE g = 0
    BY <1>1, Starts DEF PinAt, EpochAt, WriterStateAt, Genesis
  <1>2. CASE g # 0
    <2>1. chain[g] \in Heads /\ g \in Nat \ {0}
      BY <1>2 DEF Newest
    <2>2. PinAt(g) = [gen |-> g, id |-> chain[g].id] /\ EpochAt(g) = chain[g].epoch /\ WriterStateAt(g) = chain[g].ws
      BY <1>2 DEF PinAt, EpochAt, WriterStateAt
    <2>3. chain[g].id \in Nat \X (Procs \cup {None}) /\ chain[g].epoch \in Nat /\ chain[g].ws \in WriterStates
      BY <2>1 DEF Heads
    <2> QED
      BY <2>1, <2>2, <2>3 DEF Pins
  <1> QED
    BY <1>1, <1>2

\* Steps that write no file and leave the chain as it is.
Framed == UNCHANGED <<plan, chain, members, files, faults>>
LEMMA FramedTyped ==
  ASSUME Types, Framed
  PROVE  /\ UNCHANGED <<plan, members>> /\ FilesTyped' /\ faults' \in Faults
         /\ chain' \in Seq(Heads) /\ Newest' >= Newest
  BY DEF Types, Framed, FilesTyped, Newest

\* The operation a process begins.
LEMMA Begins ==
  ASSUME Types, NEW p \in Procs, Begin(p)
  PROVE  /\ at[p] = "idle" /\ at' = [at EXCEPT ![p] = "open"]
         /\ UNCHANGED <<chain, members, files, faults, codes>>
         /\ \E op \in plan.kinds[p], w \in Keys \cup {None}, g \in Keys \cup {None}, R \in SUBSET Pins :
              /\ op \in Operations /\ (op \in {"add", "activate"} => w \in Keys)
              /\ my' = [my EXCEPT ![p] = [Idle EXCEPT !.op = op, !.target = w, !.grantor = g, !.receipt = R]]
  <1>1. PICK op \in plan.kinds[p] :
          \E w \in Targets(p, op), g \in IF op = "activate" THEN plan.keys ELSE {None} :
            my' = [my EXCEPT ![p] = [Idle EXCEPT !.op = op, !.target = w, !.grantor = g, !.receipt = Manifest(Newest)]]
    BY Zenon DEF Begin, Local
  <1>2. PICK w \in Targets(p, op), g \in IF op = "activate" THEN plan.keys ELSE {None} :
          my' = [my EXCEPT ![p] = [Idle EXCEPT !.op = op, !.target = w, !.grantor = g, !.receipt = Manifest(Newest)]]
    BY Zenon, <1>1
  <1>3. plan.keys \subseteq Keys /\ op \in Operations
    <2>1. plan \in PlanSet
      BY Fields
    <2> QED
      BY <2>1 DEF PlanSet, Operations
  <1>4. w \in Keys \cup {None} /\ (op \in {"add", "activate"} => w \in Keys)
    BY Consts DEF Targets, Types
  <1>5. g \in Keys \cup {None}
    BY <1>3
  <1>6. Manifest(Newest) \in SUBSET Pins
    <2>1. \A x \in 1 .. Newest : PinAt(x) \in Pins
      BY Ats DEF Types, Newest
    <2> QED
      BY <2>1 DEF Manifest
  <1>7. PICK R : R = Manifest(Newest)
    OBVIOUS
  <1>8. /\ at[p] = "idle" /\ at' = [at EXCEPT ![p] = "open"]
        /\ UNCHANGED <<chain, members, files, faults, codes>>
    BY DEF Begin, Goto
  <1>9. my' = [my EXCEPT ![p] = [Idle EXCEPT !.op = op, !.target = w, !.grantor = g, !.receipt = R]] /\ R \in SUBSET Pins
    BY <1>2, <1>6, <1>7
  <1> QED
    BY Zenon, <1>3, <1>4, <1>5, <1>8, <1>9

LEMMA Begun ==
  ASSUME plan \in Plans, NEW op \in Operations, NEW w \in Keys \cup {None}, NEW g \in Keys \cup {None},
         NEW R \in SUBSET Pins, op \in {"add", "activate"} => w \in Keys
  PROVE  LET m == [Idle EXCEPT !.op = op, !.target = w, !.grantor = g, !.receipt = R] IN
         m \in Locals /\ Fit("open", m)
  <1> DEFINE m == [Idle EXCEPT !.op = op, !.target = w, !.grantor = g, !.receipt = R]
  <1>1. Idle \in Locals /\ Fit("idle", Idle)
    BY IdleTyped
  <1> HIDE DEF Idle
  <1>2. m \in Locals /\ m.op = op /\ m.target = w /\ m.prop = Idle.prop /\ m.units = Idle.units
        /\ m.conflicts = Idle.conflicts /\ m.outer = Idle.outer
    BY <1>1, ZenonT(60) DEF Locals
  <1> HIDE DEF m
  <1>3. Fit("open", m)
    BY <1>1, <1>2 DEF Fit, Walking
  <1> QED
    BY <1>2, <1>3 DEF m

LEMMA BeginTyped == ASSUME Types, NEW p \in Procs, Begin(p), UNCHANGED plan PROVE Types'
  <1>1. PICK op \in plan.kinds[p], w \in Keys \cup {None}, g \in Keys \cup {None}, R \in SUBSET Pins :
          /\ op \in Operations /\ (op \in {"add", "activate"} => w \in Keys)
          /\ my' = [my EXCEPT ![p] = [Idle EXCEPT !.op = op, !.target = w, !.grantor = g, !.receipt = R]]
    BY Zenon, Begins
  <1>2. PICK m : m = [Idle EXCEPT !.op = op, !.target = w, !.grantor = g, !.receipt = R]
    OBVIOUS
  <1>3. m \in Locals /\ Fit("open", m)
    <2>1. plan \in Plans
      BY DEF Types
    <2> QED
      BY Zenon, <1>1, <1>2, <2>1, Begun
  <1>4. at' = [at EXCEPT ![p] = "open"] /\ my' = [my EXCEPT ![p] = m] /\ Framed
    <2>1. at' = [at EXCEPT ![p] = "open"] /\ UNCHANGED <<chain, members, files, faults>>
      BY Zenon, Begins
    <2> QED
      BY <1>1, <1>2, <2>1 DEF Framed
  <1> QED
    BY <1>3, <1>4, FramedTyped, ProcTyped DEF Labels

\* The pin and the writers a walk starts from, and where it may go from there.
LEMMA StartsTyped ==
  ASSUME NEW f \in Files
  PROVE  StartPin(f) \in Pins /\ StartWriters(f) \in WriterStates
  <1>1. StartPin(f) \in Pins
    BY Starts DEF StartPin, Files
  <1>2. StartWriters(f) \in WriterStates
    <2>1. ASSUME NEW x \in WriterPins PROVE Resumed(x) \in WriterStates
      BY Starts DEF Resumed, WriterPins, WriterStates
    <2> QED
      BY <2>1, Starts DEF StartWriters, Files
  <1> QED
    BY <1>1, <1>2

LEMMA Opened ==
  ASSUME NEW m \in Locals, NEW P \in Pins, NEW W \in WriterStates, NEW E \in Nat, NEW N \in Nat,
         NEW K \in SUBSET Nat, NEW D \in Pins \cup {None}
  PROVE  [m EXCEPT !.pin = P, !.ws = W, !.epoch = E, !.units = 0, !.end = N, !.more = FALSE, !.keys = K,
                   !.dec = D, !.got = FALSE, !.anchored = FALSE, !.undec = FALSE, !.err = "none"] \in Locals
  <1> DEFINE a == [m EXCEPT !.pin = P, !.ws = W, !.epoch = E, !.units = 0, !.end = N, !.more = FALSE, !.keys = K,
                   !.dec = D, !.got = FALSE, !.anchored = FALSE, !.undec = FALSE, !.err = "none"]
  <1>1. "none" \in Errors
    BY DEF Errors
  <1>2. /\ a.op = m.op /\ a.grantor = m.grantor /\ a.target = m.target /\ a.nested = m.nested
        /\ a.rotated = m.rotated /\ a.conflicts = m.conflicts /\ a.outer = m.outer /\ a.prop = m.prop
        /\ a.pin = P /\ a.ws = W /\ a.epoch = E /\ a.units = 0 /\ a.end = N /\ a.more = FALSE
        /\ a.keys = K /\ a.dec = D /\ a.got = FALSE /\ a.anchored = FALSE /\ a.undec = FALSE /\ a.err = "none"
    BY DEF Locals
  <1> QED
    BY Zenon, <1>1, <1>2 DEF Locals

LEMMA Opens ==
  ASSUME Types, NEW p \in Procs, Open(p)
  PROVE  LET f == File(p)
             pin == StartPin(f) IN
         /\ at[p] = "open" /\ UNCHANGED <<chain, members, files, ops, faults>>
         /\ \/ /\ End(p)
               /\ \E code : codes' = codes \cup {<<StoreOf[p], code>>}
               /\ OnChain(pin) => FALSE
            \/ /\ UNCHANGED codes /\ pin.gen <= Newest
               /\ Goto(p, "walk") \/ Goto(p, "list")
               /\ \E n \in Locals :
                    /\ my' = [my EXCEPT ![p] = n]
                    /\ n.pin = pin /\ n.ws = StartWriters(f) /\ n.epoch = EpochAt(pin.gen) /\ n.err = "none"
                    /\ n.end = Newest /\ n.units = 0 /\ n.op = my[p].op /\ n.target = my[p].target
                    /\ n.prop = my[p].prop /\ n.conflicts = my[p].conflicts /\ n.outer = my[p].outer /\ 0 \in n.keys
                    /\ n.keys = f.keys /\ ~n.got /\ ~n.undec
  <1> DEFINE f == File(p)
             pin == StartPin(f)
             m == [my[p] EXCEPT !.pin = pin, !.ws = StartWriters(f), !.epoch = EpochAt(pin.gen),
                             !.units = 0, !.end = Newest, !.more = FALSE, !.keys = f.keys,
                             !.dec = f.mat, !.got = FALSE, !.anchored = FALSE, !.undec = FALSE,
                             !.err = "none"]
  <1>1. at[p] = "open" /\ UNCHANGED <<chain, members, files, ops, faults>>
    BY DEF Open
  <1>2. Newest \in Nat /\ pin.gen \in Nat
    BY StartsTyped, Fields DEF Pins
  <1>3. CASE Newest < pin.gen /\ Fail(p, "GENERATION_REGRESSION")
    BY <1>1, <1>2, <1>3 DEF Fail, OnChain
  <1>4. CASE ~OnChain(pin) /\ Fail(p, "CHAIN_BROKEN")
    BY <1>1, <1>4 DEF Fail
  <1>5. CASE /\ Newest >= pin.gen /\ my' = [my EXCEPT ![p] = m] /\ UNCHANGED codes
             /\ Goto(p, "walk") \/ Goto(p, "list")
    <2>1. PICK P : P = pin
      OBVIOUS
    <2>2. PICK W, E, K, D : W = StartWriters(f) /\ E = EpochAt(P.gen) /\ K = f.keys /\ D = f.mat
      OBVIOUS
    <2>3. P \in Pins /\ W \in WriterStates /\ K \in SUBSET Nat /\ D \in Pins \cup {None} /\ P.gen <= Newest /\ 0 \in K
      BY <1>5, <2>1, <2>2, StartsTyped, Fields DEF Files, Pins
    <2>4. E \in Nat /\ P.gen \in Nat /\ Newest \in Nat
      BY <2>2, <2>3, Ats, Fields DEF Types, Pins
    <2>5. m = [my[p] EXCEPT !.pin = P, !.ws = W, !.epoch = E, !.units = 0, !.end = Newest, !.more = FALSE, !.keys = K,
                 !.dec = D, !.got = FALSE, !.anchored = FALSE, !.undec = FALSE, !.err = "none"]
      BY <2>1, <2>2
    <2> HIDE DEF m, pin, f
    <2>6. m \in Locals
      BY ZenonT(60), <2>3, <2>4, <2>5, Fields, Opened
    <2>7. /\ m.pin = P /\ m.ws = W /\ m.epoch = E /\ m.err = "none"
          /\ m.end = Newest /\ m.units = 0 /\ m.op = my[p].op /\ m.target = my[p].target
          /\ m.prop = my[p].prop /\ m.conflicts = my[p].conflicts /\ m.outer = my[p].outer /\ m.keys = K
          /\ ~m.got /\ ~m.undec
      BY <2>5, Fields DEF Locals
    <2>8. pin.gen <= Newest
      BY <2>1, <2>3
    <2> QED
      BY <1>1, <1>5, <2>1, <2>2, <2>3, <2>6, <2>7, <2>8 DEF pin, f
  <1>6. \/ Newest < pin.gen /\ Fail(p, "GENERATION_REGRESSION")
        \/ ~OnChain(pin) /\ Fail(p, "CHAIN_BROKEN")
        \/ /\ Newest >= pin.gen /\ Local(p, m) /\ UNCHANGED codes
           /\ Goto(p, "walk") \/ Goto(p, "list")
    <2>1. (Newest = pin.gen \/ Newest = pin.gen + 1 \/ Newest > pin.gen + 1) => Newest >= pin.gen
      BY <1>2
    <2>2. \/ Newest < pin.gen /\ Fail(p, "GENERATION_REGRESSION")
          \/ (Newest = pin.gen \/ Newest = pin.gen + 1) /\ Local(p, m) /\ Goto(p, "walk") /\ UNCHANGED codes
          \/ (Newest > pin.gen + 1 \/ Newest = pin.gen + 1) /\ Local(p, m) /\ Goto(p, "list") /\ UNCHANGED codes
          \/ ~OnChain(pin) /\ Fail(p, "CHAIN_BROKEN")
      BY Zenon DEF Open
    <2> HIDE DEF m, pin
    <2> QED
      BY <2>1, <2>2
  <1> QED
    <2> HIDE DEF m, pin
    <2> QED
      BY <1>3, <1>4, <1>5, <1>6 DEF Local, pin

LEMMA OpenTyped == ASSUME Types, NEW p \in Procs, Open(p), UNCHANGED plan PROVE Types'
  <1>1. Framed
    BY DEF Open, Framed
  <1>2. CASE End(p)
    BY <1>1, <1>2, FramedTyped, EndTyped
  <1>3. CASE \E l \in {"walk", "list"} : \E n \in Locals :
               /\ Goto(p, l) /\ my' = [my EXCEPT ![p] = n] /\ n.pin.gen <= Newest
               /\ n.end = Newest /\ n.units = 0 /\ n.op = my[p].op /\ n.target = my[p].target
               /\ n.prop = my[p].prop /\ n.conflicts = my[p].conflicts /\ n.outer = my[p].outer /\ 0 \in n.keys
    <2>1. PICK l \in {"walk", "list"}, n \in Locals :
               /\ Goto(p, l) /\ my' = [my EXCEPT ![p] = n] /\ n.pin.gen <= Newest
               /\ n.end = Newest /\ n.units = 0 /\ n.op = my[p].op /\ n.target = my[p].target
               /\ n.prop = my[p].prop /\ n.conflicts = my[p].conflicts /\ n.outer = my[p].outer /\ 0 \in n.keys
      BY <1>3
    <2>2. plan.budget \in Nat /\ Fit(at[p], my[p]) /\ Newest \in Nat
      BY Fields DEF PlanSet
    <2>3. Fit(l, n)
      BY <2>1, <2>2 DEF Fit
    <2> QED
      BY <1>1, <2>1, <2>3, FramedTyped, ProcTyped, ZenonT(60) DEF Goto, Labels
  <1> QED
    BY <1>2, <1>3, Opens

LEMMA ListTyped == ASSUME Types, NEW p \in Procs, List(p), UNCHANGED plan PROVE Types'
  <1>1. PICK e, b :
          /\ e = IF Newest <= my[p].pin.gen THEN my[p].pin.gen
                 ELSE IF Newest < my[p].pin.gen + plan.page THEN Newest ELSE my[p].pin.gen + plan.page
          /\ b = (e < Newest)
          /\ at[p] = "list" /\ at' = [at EXCEPT ![p] = "walk"] /\ Framed
          /\ my' = [my EXCEPT ![p] = [my[p] EXCEPT !.end = e, !.more = b]]
    BY Zenon DEF List, Local, Goto, Framed
  <1> DEFINE m == [my[p] EXCEPT !.end = e, !.more = b]
  <1>2. my[p].pin.gen \in Nat /\ plan.page \in Nat /\ Newest \in Nat /\ my[p].pin.gen <= Newest
    BY <1>1, Fields DEF Locals, Pins, PlanSet, Fit, Walking
  <1>3. e \in Nat /\ b \in BOOLEAN /\ e <= Newest
    BY <1>1, <1>2
  <1>4. m \in Locals /\ m.end = e /\ m = [my[p] EXCEPT !.end = e, !.more = b]
    BY ZenonT(60), <1>3, Fields DEF Locals
  <1>5. /\ m.pin = my[p].pin /\ m.units = my[p].units /\ m.op = my[p].op /\ m.target = my[p].target
        /\ m.prop = my[p].prop /\ m.conflicts = my[p].conflicts /\ m.outer = my[p].outer /\ m.keys = my[p].keys
    BY Fields DEF Locals
  <1> HIDE DEF m
  <1>6. Fit("walk", m)
    BY <1>1, <1>2, <1>3, <1>4, <1>5, Fields, SMTT(30) DEF Fit, Walking
  <1> QED
    BY Zenon, <1>1, <1>4, <1>6, FramedTyped, ProcTyped DEF Labels, m

\* Fit looks at some of a process's locals only.
Alike(n, m) ==
  /\ n.pin = m.pin /\ n.end = m.end /\ n.units = m.units /\ n.op = m.op /\ n.target = m.target
  /\ n.prop = m.prop /\ n.conflicts = m.conflicts /\ n.outer = m.outer /\ m.keys \subseteq n.keys

LEMMA FitAlike ==
  ASSUME NEW l, NEW m, NEW k, NEW n, Fit(l, m), Alike(n, m), k \in Walking => l \in Walking
  PROVE  Fit(k, n)
  BY DEF Fit, Alike

LEMMA Marked ==
  ASSUME NEW m \in Locals
  PROVE  /\ \A e \in Errors : LET n == [m EXCEPT !.err = e] IN
              n \in Locals /\ Alike(n, m) /\ n.err = e /\ n.ws = m.ws /\ n.epoch = m.epoch
         /\ \A d \in Pins \cup {None}, g, u \in BOOLEAN :
              LET n == [m EXCEPT !.dec = d, !.got = g, !.undec = u] IN
              n \in Locals /\ Alike(n, m) /\ n.err = m.err /\ n.ws = m.ws /\ n.epoch = m.epoch
         /\ \A d \in Pins \cup {None}, u \in BOOLEAN :
              LET n == [m EXCEPT !.anchored = TRUE, !.dec = d, !.undec = u] IN
              n \in Locals /\ Alike(n, m) /\ n.err = m.err /\ n.ws = m.ws /\ n.epoch = m.epoch
              /\ n.keys = m.keys /\ n.got = m.got /\ n.undec = u
         /\ \A K \in SUBSET Nat : m.keys \subseteq K => LET n == [m EXCEPT !.keys = K] IN
              n \in Locals /\ Alike(n, m) /\ n.err = m.err /\ n.ws = m.ws /\ n.epoch = m.epoch
              /\ n.keys = K /\ n.got = m.got /\ n.undec = m.undec
         /\ LET n == [m EXCEPT !.undec = TRUE] IN
              n \in Locals /\ Alike(n, m) /\ n.err = m.err /\ n.ws = m.ws /\ n.epoch = m.epoch
              /\ n.keys = m.keys /\ n.got = m.got
  <1>1. ASSUME NEW e \in Errors PROVE LET n == [m EXCEPT !.err = e] IN
              n \in Locals /\ Alike(n, m) /\ n.err = e /\ n.ws = m.ws /\ n.epoch = m.epoch
    BY DEF Locals, Alike
  <1>2. ASSUME NEW d \in Pins \cup {None}, NEW g \in BOOLEAN, NEW u \in BOOLEAN
        PROVE LET n == [m EXCEPT !.dec = d, !.got = g, !.undec = u] IN
              n \in Locals /\ Alike(n, m) /\ n.err = m.err /\ n.ws = m.ws /\ n.epoch = m.epoch
    BY ZenonT(60) DEF Locals, Alike
  <1>3. ASSUME NEW d \in Pins \cup {None}, NEW u \in BOOLEAN
        PROVE LET n == [m EXCEPT !.anchored = TRUE, !.dec = d, !.undec = u] IN
              n \in Locals /\ Alike(n, m) /\ n.err = m.err /\ n.ws = m.ws /\ n.epoch = m.epoch
              /\ n.keys = m.keys /\ n.got = m.got /\ n.undec = u
    BY ZenonT(60) DEF Locals, Alike
  <1>4. ASSUME NEW K \in SUBSET Nat, m.keys \subseteq K
        PROVE LET n == [m EXCEPT !.keys = K] IN
              n \in Locals /\ Alike(n, m) /\ n.err = m.err /\ n.ws = m.ws /\ n.epoch = m.epoch
              /\ n.keys = K /\ n.got = m.got /\ n.undec = m.undec
    <2> DEFINE n == [m EXCEPT !.keys = K]
    <2>1. /\ n.pin = m.pin /\ n.end = m.end /\ n.units = m.units /\ n.op = m.op /\ n.target = m.target
          /\ n.prop = m.prop /\ n.conflicts = m.conflicts /\ n.outer = m.outer /\ n.keys = K
          /\ n \in Locals /\ n.err = m.err /\ n.ws = m.ws /\ n.epoch = m.epoch
          /\ n.got = m.got /\ n.undec = m.undec
      BY DEF Locals
    <2> HIDE DEF n
    <2>2. Alike(n, m)
      BY <1>4, <2>1 DEF Alike
    <2> QED
      BY <2>1, <2>2 DEF n
  <1>5. LET n == [m EXCEPT !.undec = TRUE] IN
              n \in Locals /\ Alike(n, m) /\ n.err = m.err /\ n.ws = m.ws /\ n.epoch = m.epoch
              /\ n.keys = m.keys /\ n.got = m.got
    BY DEF Locals, Alike
  <1> QED
    BY Zenon, <1>1, <1>2, <1>3, <1>4, <1>5

LEMMA KeyKept ==
  ASSUME NEW f \in Files, NEW e \in Nat, 0 \in f.keys
  PROVE  LET n == RecordEpochRotation(f, e) IN
         /\ n \in Files /\ 0 \in n.keys /\ n.epoch \in n.keys
         /\ n.head = f.head /\ n.prefix = f.prefix /\ n.wpin = f.wpin
  <1>1. RecordEpochRotation(f, e) = [f EXCEPT !.epoch = e, !.keys = f.keys \cup {f.epoch, e}]
    BY DEF RecordEpochRotation
  <1>2. f.keys \cup {f.epoch, e} \in SUBSET Nat /\ e \in f.keys \cup {f.epoch, e}
    BY DEF Files
  <1> QED
    BY <1>1, <1>2 DEF Files

\* What walking over a head makes of the locals, and of the file.
Tries(p) == Decrypts(p) /\ ~my[p].undec
Unlocks(p, h) == Tries(p) /\ h.tr.kind = "rotate" /\ h.epoch \notin my[p].keys /\ CanOpen(p, h)
LEMMA Stepped ==
  ASSUME Types, NEW p \in Procs, at[p] = "walk", my[p].pin.gen < my[p].end, StepOver(p, chain[my[p].pin.gen + 1])
  PROVE  LET g == my[p].pin.gen + 1
             h == chain[g] IN
         /\ g \in 1 .. Newest /\ h \in Heads
         /\ (h.tr.kind = "add" => h.tr.added \in Keys) =>
              \E n \in Locals :
                /\ my' = [my EXCEPT ![p] = n]
                /\ n.pin = PinAt(g) /\ n.ws = ApplyTransition(my[p].ws, h.tr) /\ n.epoch = h.epoch
                /\ n.units <= my[p].units + 2 /\ n.err = my[p].err
                /\ n.end = my[p].end /\ n.op = my[p].op /\ n.target = my[p].target /\ n.prop = my[p].prop
                /\ n.conflicts = my[p].conflicts /\ n.outer = my[p].outer /\ my[p].keys \subseteq n.keys
                /\ n.more = my[p].more /\ n.keys = IF Unlocks(p, h) THEN my[p].keys \cup {h.epoch} ELSE my[p].keys
                /\ n.got = (my[p].got \/ (Tries(p) /\ h.epoch \in n.keys))
                /\ n.undec = (my[p].undec \/ (Tries(p) /\ h.epoch \notin n.keys))
         /\ UNCHANGED files \/ UpdateRepo(p, RecordEpochRotation(File(p), h.epoch))
         /\ IF Unlocks(p, h) THEN UpdateRepo(p, RecordEpochRotation(File(p), h.epoch)) ELSE UNCHANGED files
  <1> DEFINE m == my[p]
             g == m.pin.gen + 1
             h == chain[g]
             tries == Tries(p)
             opens == Unlocks(p, h)
             keys == IF opens THEN m.keys \cup {h.epoch} ELSE m.keys
             reads == tries /\ h.epoch \in keys
             pin == PinAt(g)
  <1>1. g \in 1 .. Newest /\ h \in Heads /\ h.epoch \in Nat /\ h.tr \in Transitions /\ pin \in Pins
        /\ m \in Locals /\ m.pin.gen \in Nat
    <2>1. m \in Locals /\ m.pin.gen \in Nat /\ m.end \in Nat /\ m.pin.gen < m.end /\ m.end <= Newest
      BY Fields DEF Fit, Walking, Locals, Pins
    <2>2. g \in 1 .. Newest
      BY <2>1, Fields
    <2>3. h \in Heads /\ pin \in Pins
      BY <2>2, Ats DEF Types
    <2> QED
      BY <2>1, <2>2, <2>3 DEF Heads
  <1>2. PICK W, K, D, G, U, V :
          /\ W = ApplyTransition(m.ws, h.tr) /\ K = keys /\ D = (IF reads THEN pin ELSE m.dec)
          /\ G = (m.got \/ reads) /\ U = (m.undec \/ (tries /\ ~reads)) /\ V = m.units + (IF tries THEN 2 ELSE 1)
    OBVIOUS
  <1>3. my' = [my EXCEPT ![p] = [m EXCEPT !.pin = pin, !.ws = W, !.epoch = h.epoch,
                        !.units = V, !.keys = K, !.dec = D, !.got = G, !.undec = U]]
    BY Zenon, <1>2 DEF StepOver, Local, Tries, Unlocks
  <1>4. /\ UNCHANGED files \/ UpdateRepo(p, RecordEpochRotation(File(p), h.epoch))
        /\ IF Unlocks(p, h) THEN UpdateRepo(p, RecordEpochRotation(File(p), h.epoch)) ELSE UNCHANGED files
    BY Zenon DEF StepOver, Tries, Unlocks
  <1>5. ASSUME h.tr.kind = "add" => h.tr.added \in Keys
        PROVE  \E n \in Locals :
                /\ my' = [my EXCEPT ![p] = n]
                /\ n.pin = PinAt(g) /\ n.ws = ApplyTransition(my[p].ws, h.tr) /\ n.epoch = h.epoch
                /\ n.units <= my[p].units + 2 /\ n.err = my[p].err
                /\ n.end = my[p].end /\ n.op = my[p].op /\ n.target = my[p].target /\ n.prop = my[p].prop
                /\ n.conflicts = my[p].conflicts /\ n.outer = my[p].outer /\ my[p].keys \subseteq n.keys
                /\ n.more = my[p].more /\ n.keys = IF Unlocks(p, h) THEN my[p].keys \cup {h.epoch} ELSE my[p].keys
                /\ n.got = (my[p].got \/ (Tries(p) /\ h.epoch \in n.keys))
                /\ n.undec = (my[p].undec \/ (Tries(p) /\ h.epoch \notin n.keys))
    <2>1. m.ws \in WriterStates
      BY <1>1 DEF Locals
    <2>2. W \in WriterStates
      BY Zenon, <1>1, <1>2, <1>5, <2>1, Applied
    <2>3. K \in SUBSET Nat /\ D \in Pins \cup {None} /\ G \in BOOLEAN /\ U \in BOOLEAN /\ V \in Nat /\ V <= m.units + 2
      <3>1. m.keys \in SUBSET Nat /\ m.dec \in Pins \cup {None} /\ m.units \in Nat
        BY <1>1 DEF Locals
      <3>2. K \in SUBSET Nat
        BY Zenon, <1>1, <1>2, <3>1
      <3>3. D \in Pins \cup {None}
        BY Zenon, <1>1, <1>2, <3>1
      <3>4. V \in Nat /\ V <= m.units + 2
        <4>1. PICK k \in {1, 2} : V = m.units + k
          BY Zenon, <1>2
        <4> QED
          BY <3>1, <4>1
      <3>5. G \in BOOLEAN /\ U \in BOOLEAN
        BY Zenon, <1>2
      <3> QED
        BY <3>2, <3>3, <3>4, <3>5
    <2> DEFINE n == [m EXCEPT !.pin = pin, !.ws = W, !.epoch = h.epoch,
                        !.units = V, !.keys = K, !.dec = D, !.got = G, !.undec = U]
    <2>4. PICK P, E : P = pin /\ E = h.epoch
      OBVIOUS
    <2>5. n = [m EXCEPT !.pin = P, !.ws = W, !.epoch = E,
                        !.units = V, !.keys = K, !.dec = D, !.got = G, !.undec = U]
      BY <2>4
    <2>6. P \in Pins /\ E \in Nat /\ m \in Locals
      BY <1>1, <2>4
    <2> HIDE DEF n, m, pin, h
    <2>7. n \in Locals
      BY ZenonT(60), <2>2, <2>3, <2>5, <2>6 DEF Locals
    <2>8. /\ n.pin = P /\ n.ws = W /\ n.epoch = E /\ n.units = V
          /\ n.err = m.err /\ n.end = m.end /\ n.op = m.op /\ n.target = m.target /\ n.prop = m.prop
          /\ n.conflicts = m.conflicts /\ n.outer = m.outer /\ n.keys = K
          /\ n.more = m.more /\ n.got = G /\ n.undec = U
      BY <2>5, <2>6 DEF Locals
    <2>9. my' = [my EXCEPT ![p] = n]
      BY <1>3 DEF n
    <2>10. n.pin = PinAt(g) /\ n.ws = ApplyTransition(m.ws, h.tr) /\ n.epoch = h.epoch /\ n.units <= m.units + 2
      BY <1>2, <2>3, <2>4, <2>8 DEF pin
    <2>11. m.keys \subseteq K
      BY <1>2
    <2>12. /\ K = IF Unlocks(p, h) THEN m.keys \cup {h.epoch} ELSE m.keys
           /\ G = (m.got \/ (Tries(p) /\ h.epoch \in K)) /\ U = (m.undec \/ (Tries(p) /\ h.epoch \notin K))
      BY Zenon, <1>2
    <2> QED
      BY <2>7, <2>8, <2>9, <2>10, <2>11, <2>12 DEF m
  <1> QED
    BY <1>1, <1>4, <1>5, ZenonT(60)

LEMMA StepsTo ==
  ASSUME Types, NEW p \in Procs, at[p] = "walk", my[p].pin.gen < my[p].end, StepOver(p, chain[my[p].pin.gen + 1]),
         chain[my[p].pin.gen + 1].tr.kind = "add" => chain[my[p].pin.gen + 1].tr.added \in Keys
  PROVE  \E n \in Locals :
           /\ my' = [my EXCEPT ![p] = n]
           /\ n.pin = PinAt(my[p].pin.gen + 1) /\ n.ws = ApplyTransition(my[p].ws, chain[my[p].pin.gen + 1].tr)
           /\ n.epoch = chain[my[p].pin.gen + 1].epoch /\ n.err = my[p].err /\ n.prop = my[p].prop
  BY Zenon, Stepped

LEMMA WriterPinTyped ==
  ASSUME NEW ws \in WriterStates, NEW b \in BOOLEAN
  PROVE  /\ WriterPin(ws, b) \in WriterPins
         /\ WriterPin(ws, b).version = ws.version /\ WriterPin(ws, b).writers = ws.writers
         /\ WriterPin(ws, b).legacy = b /\ (~b => WriterPin(ws, b).retired = ws.retired)
  BY DEF WriterPin, WriterPins, WriterStates

LEMMA Written ==
  ASSUME NEW f \in Files, 0 \in f.keys /\ f.epoch \in f.keys, NEW P \in Pins, NEW W \in WriterPins
  PROVE  /\ LET n == [f EXCEPT !.prefix = P] IN
              n \in Files /\ 0 \in n.keys /\ n.epoch \in n.keys /\ n.prefix = P /\ n.head = f.head /\ n.wpin = f.wpin
         /\ LET n == [f EXCEPT !.head = P, !.prefix = None] IN
              n \in Files /\ 0 \in n.keys /\ n.epoch \in n.keys /\ n.prefix = None /\ n.head = P /\ n.wpin = f.wpin
         /\ LET n == [f EXCEPT !.head = P, !.mat = P, !.prefix = None] IN
              n \in Files /\ 0 \in n.keys /\ n.epoch \in n.keys /\ n.prefix = None /\ n.head = P /\ n.wpin = f.wpin
         /\ LET n == [f EXCEPT !.wpin = W] IN
              n \in Files /\ 0 \in n.keys /\ n.epoch \in n.keys /\ n.prefix = f.prefix /\ n.head = f.head /\ n.wpin = W
         /\ LET n == [f EXCEPT !.mat = P] IN
              n \in Files /\ 0 \in n.keys /\ n.epoch \in n.keys /\ n.prefix = f.prefix /\ n.head = f.head /\ n.wpin = f.wpin
  <1>1. LET n == [f EXCEPT !.prefix = P] IN
              n \in Files /\ 0 \in n.keys /\ n.epoch \in n.keys /\ n.prefix = P /\ n.head = f.head /\ n.wpin = f.wpin
    BY DEF Files
  <1>2. LET n == [f EXCEPT !.head = P, !.prefix = None] IN
              n \in Files /\ 0 \in n.keys /\ n.epoch \in n.keys /\ n.prefix = None /\ n.head = P /\ n.wpin = f.wpin
    BY DEF Files
  <1>3. LET n == [f EXCEPT !.head = P, !.mat = P, !.prefix = None] IN
              n \in Files /\ 0 \in n.keys /\ n.epoch \in n.keys /\ n.prefix = None /\ n.head = P /\ n.wpin = f.wpin
    BY DEF Files
  <1>4. LET n == [f EXCEPT !.wpin = W] IN
              n \in Files /\ 0 \in n.keys /\ n.epoch \in n.keys /\ n.prefix = f.prefix /\ n.head = f.head /\ n.wpin = W
    BY DEF Files
  <1>5. LET n == [f EXCEPT !.mat = P] IN
              n \in Files /\ 0 \in n.keys /\ n.epoch \in n.keys /\ n.prefix = f.prefix /\ n.head = f.head /\ n.wpin = f.wpin
    BY DEF Files
  <1> QED
    BY <1>1, <1>2, <1>3, <1>4, <1>5

\* Steps that leave the chain and the members as they are.
Rooted == UNCHANGED <<plan, chain, members>> /\ faults' \in Faults
LEMMA RootedTyped ==
  ASSUME Types, Rooted
  PROVE  /\ UNCHANGED <<plan, members>> /\ faults' \in Faults
         /\ chain' \in Seq(Heads) /\ Newest' >= Newest
  BY DEF Types, Rooted, Newest

LEMMA MoveTyped ==
  ASSUME Types, NEW p \in Procs, NEW l \in Labels, at' = [at EXCEPT ![p] = l], my' = my,
         l \in Walking => at[p] \in Walking, Rooted, FilesTyped'
  PROVE  Types'
  <1>1. my' = [my EXCEPT ![p] = my[p]] /\ my[p] \in Locals /\ Fit(at[p], my[p])
    BY Fields DEF Types
  <1>2. Fit(l, my[p])
    BY <1>1, FitAlike DEF Alike
  <1> QED
    BY <1>1, <1>2, RootedTyped, ProcTyped

LEMMA StayTyped ==
  ASSUME Types, NEW p \in Procs, NEW m \in Locals, at' = at, my' = [my EXCEPT ![p] = m],
         Fit(at[p], m), Rooted, FilesTyped'
  PROVE  Types'
  <1>1. at' = [at EXCEPT ![p] = at[p]] /\ at[p] \in Labels
    BY DEF Types
  <1> QED
    BY <1>1, RootedTyped, ProcTyped

LEMMA RestTyped == ASSUME Types, UNCHANGED files PROVE FilesTyped'
  BY DEF Types, FilesTyped

LEMMA PageTyped == ASSUME Types, NEW p \in Procs, Page(p), UNCHANGED plan PROVE Types'
  <1> DEFINE m == my[p]
             f == File(p)
  <1>1. Rooted /\ m \in Locals /\ f \in Files /\ 0 \in f.keys /\ f.epoch \in f.keys
    BY Fields DEF Page, Rooted, Types
  <1>2. m.pin \in Pins /\ WriterPin(m.ws, FALSE) \in WriterPins /\ m.dec \in Pins \cup {None}
    BY <1>1, WriterPinTyped DEF Locals
  <1>3. CASE at[p] = "page1" /\ UpdateRepo(p, [f EXCEPT !.prefix = m.pin]) /\ Goto(p, "page2") /\ UNCHANGED my
    <2>1. FilesTyped'
      BY Zenon, <1>1, <1>2, <1>3, Written, FileTyped
    <2> QED
      BY <1>1, <1>3, <2>1, MoveTyped DEF Goto, Labels, Walking
  <1>4. CASE at[p] = "page2" /\ UpdateRepo(p, [f EXCEPT !.wpin = WriterPin(m.ws, FALSE)]) /\ Goto(p, "page3") /\ UNCHANGED my
    <2>1. FilesTyped'
      BY Zenon, <1>1, <1>2, <1>4, Written, FileTyped
    <2> QED
      BY <1>1, <1>4, <2>1, MoveTyped DEF Goto, Labels, Walking
  <1>5. CASE /\ at[p] = "page3"
             /\ UpdateRepo(p, IF ~Decrypts(p) \/ m.dec = None THEN f ELSE [f EXCEPT !.mat = m.dec])
             /\ End(p) \/ (Goto(p, IF m.more THEN "list" ELSE "catchup") /\ UNCHANGED my)
    <2>1. FilesTyped'
      <3>1. CASE UpdateRepo(p, f)
        BY <1>1, <3>1, FileTyped
      <3>2. CASE m.dec # None /\ UpdateRepo(p, [f EXCEPT !.mat = m.dec])
        BY Zenon, <1>1, <1>2, <3>2, Written, FileTyped
      <3> QED
        BY <1>5, <3>1, <3>2
    <2>2. CASE End(p)
      BY <1>1, <2>1, <2>2, RootedTyped, EndTyped
    <2>3. CASE Goto(p, IF m.more THEN "list" ELSE "catchup") /\ UNCHANGED my
      BY <1>1, <1>5, <2>1, <2>3, MoveTyped DEF Goto, Labels, Walking
    <2> QED
      BY <1>5, <2>2, <2>3
  <1> QED
    BY <1>3, <1>4, <1>5 DEF Page, Fail

LEMMA DoneTyped == ASSUME Types, NEW p \in Procs, Done(p), UNCHANGED plan PROVE Types'
  <1> DEFINE m == my[p]
             f == File(p)
             mat == IF m.pin.gen = 0 THEN m.pin ELSE m.dec
  <1>1. Rooted /\ m \in Locals /\ f \in Files /\ 0 \in f.keys /\ f.epoch \in f.keys
    BY Fields DEF Done, Rooted, Types
  <1>2. m.pin \in Pins /\ WriterPin(m.ws, FALSE) \in WriterPins /\ mat \in Pins \cup {None}
    BY <1>1, WriterPinTyped DEF Locals
  <1>3. CASE at[p] = "done1" /\ UpdateRepo(p, [f EXCEPT !.head = m.pin, !.prefix = None]) /\ Goto(p, "done2") /\ UNCHANGED my
    <2>1. FilesTyped'
      BY Zenon, <1>1, <1>2, <1>3, Written, FileTyped
    <2> QED
      BY Zenon, <1>1, <1>3, <2>1, MoveTyped DEF Goto, Labels, Walking
  <1>4. CASE at[p] = "done2" /\ UpdateRepo(p, [f EXCEPT !.wpin = WriterPin(m.ws, FALSE)]) /\ Goto(p, "done3") /\ UNCHANGED my
    <2>1. FilesTyped'
      BY Zenon, <1>1, <1>2, <1>4, Written, FileTyped
    <2> QED
      BY <1>1, <1>4, <2>1, MoveTyped DEF Goto, Labels, Walking
  <1>5. CASE /\ at[p] = "done3"
             /\ UpdateRepo(p, IF ~Decrypts(p) \/ mat = None THEN f ELSE [f EXCEPT !.mat = mat])
             /\ End(p) \/ (Goto(p, "ready") /\ UNCHANGED my)
    <2>1. FilesTyped'
      <3>1. CASE UpdateRepo(p, f)
        BY <1>1, <3>1, FileTyped
      <3>2. CASE mat # None /\ UpdateRepo(p, [f EXCEPT !.mat = mat])
        <4>1. PICK d : d = mat
          OBVIOUS
        <4> HIDE DEF mat
        <4> QED
          BY Zenon, <1>1, <1>2, <3>2, <4>1, Written, FileTyped
      <3> QED
        BY <1>5, <3>1, <3>2
    <2>2. CASE End(p)
      BY <1>1, <2>1, <2>2, RootedTyped, EndTyped
    <2>3. CASE Goto(p, "ready") /\ UNCHANGED my
      BY <1>1, <1>5, <2>1, <2>3, MoveTyped DEF Goto, Labels, Walking
    <2> QED
      BY <1>5, <2>2, <2>3
  <1> QED
    BY <1>3, <1>4, <1>5 DEF Done, Fail

LEMMA WalkTyped ==
  ASSUME Types, Chained, NEW p \in Procs, Walk(p), UNCHANGED plan
  PROVE  Types'
  <1> DEFINE m == my[p]
             g == m.pin.gen + 1
             h == chain[g]
  <1>1. Rooted /\ m \in Locals /\ at[p] = "walk" /\ Fit(at[p], m)
    BY Fields DEF Walk, Rooted, Types
  <1>2. CASE Goto(p, "page1") /\ UNCHANGED <<my, files>>
    BY <1>1, <1>2, RestTyped, MoveTyped DEF Goto, Labels, Walking
  <1>3. CASE /\ UNCHANGED files
             /\ \/ Local(p, [m EXCEPT !.err = "VERIFICATION_BUDGET_EXCEEDED"]) /\ Goto(p, "page1")
                \/ Local(p, [m EXCEPT !.err = "VAULT_WRITER_NOT_ADMITTED"]) /\ Goto(p, "done1")
    <2>1. PICK e \in Errors, l \in {"page1", "done1"} : Local(p, [m EXCEPT !.err = e]) /\ Goto(p, l)
      BY <1>3 DEF Errors
    <2> DEFINE n == [m EXCEPT !.err = e]
    <2>2. n \in Locals /\ Alike(n, m)
      BY Zenon, <1>1, Marked
    <2>3. at' = [at EXCEPT ![p] = l] /\ my' = [my EXCEPT ![p] = n]
      BY <2>1 DEF Local, Goto
    <2>4. l \in Labels /\ "walk" \in Walking
      BY DEF Labels, Walking
    <2> HIDE DEF n, m
    <2>5. Fit(l, n)
      BY <1>1, <2>2, <2>4, FitAlike
    <2> QED
      BY <1>1, <1>3, <2>2, <2>3, <2>4, <2>5, RestTyped, RootedTyped, ProcTyped
  <1>4. CASE End(p) /\ UNCHANGED files
    BY <1>1, <1>4, RestTyped, RootedTyped, EndTyped
  <1>5. CASE m.pin.gen < m.end /\ m.units < plan.budget /\ StepOver(p, h) /\ UNCHANGED at
    <2>1. g \in 1 .. Newest /\ h \in Heads
      BY <1>1, <1>5, Stepped, ZenonT(60)
    <2>2. h.tr.kind = "add" => h.tr.added \in Keys
      BY <2>1 DEF Chained, Linked, Admissible
    <2>3. PICK n \in Locals :
                /\ my' = [my EXCEPT ![p] = n]
                /\ n.pin = PinAt(g) /\ n.units <= m.units + 2
                /\ n.end = m.end /\ n.op = m.op /\ n.target = m.target /\ n.prop = m.prop
                /\ n.conflicts = m.conflicts /\ n.outer = m.outer /\ m.keys \subseteq n.keys
      BY <1>1, <1>5, <2>2, Stepped, ZenonT(60)
    <2>4. UNCHANGED files \/ UpdateRepo(p, RecordEpochRotation(File(p), h.epoch))
      BY Zenon, <1>5 DEF StepOver
    <2>5. h.epoch \in Nat
      BY <2>1 DEF Heads
    <2>6. FilesTyped'
      BY <2>4, <2>5, KeyKept, FileTyped, RestTyped, Fields
    <2>7. n.pin.gen = g
      BY <2>1, <2>3, Ats DEF Types
    <2>8. Fit("walk", n)
      <3>1. m.units \in Nat /\ n.units \in Nat /\ plan.budget \in Nat
        BY <1>1, Fields DEF Locals, PlanSet
      <3>2. n.units <= plan.budget + 1
        BY <1>5, <2>3, <3>1
      <3>3. g <= Newest
        BY <2>1
      <3> QED
        BY <1>1, <2>3, <2>7, <3>2, <3>3 DEF Fit, Walking
    <2> QED
      BY <1>1, <1>5, <2>3, <2>6, <2>8, StayTyped
  <1> QED
    BY <1>2, <1>3, <1>4, <1>5 DEF Walk, Fail

LEMMA KnownBoolean == \A ws, h : KnownSigner(ws, h) \in BOOLEAN
  BY DEF KnownSigner, ResolveKnownWriter

\* A catch-up opens the rotation after the newest epoch it holds, or gives up;
\* what was walked stays as it is.
Lacks(p) == Decrypts(p) /\ ~my[p].undec /\ ~my[p].got /\ my[p].pin.gen > 0
Caught(p, n) ==
  LET m == my[p] IN
  \/ /\ m.epoch \in m.keys /\ n.keys = m.keys /\ UNCHANGED files
     /\ KnownSigner(m.ws, chain[m.pin.gen]) => ~n.undec
  \/ m.epoch \notin m.keys /\ n.keys = m.keys /\ n.got = m.got /\ UNCHANGED files
  \/ /\ m.epoch \notin m.keys /\ n.got = m.got /\ n.undec = m.undec
     /\ \E d \in m.keys : /\ d < m.epoch /\ \A x \in m.keys : x < m.epoch => x <= d
                         /\ n.keys = m.keys \cup {1 + d}
                         /\ UpdateRepo(p, RecordEpochRotation(File(p), 1 + d))
CaughtUp(p) ==
  /\ UNCHANGED at /\ Lacks(p)
  /\ \E n \in Locals : /\ my' = [my EXCEPT ![p] = n] /\ Alike(n, my[p])
                        /\ n.err = my[p].err /\ n.ws = my[p].ws /\ n.epoch = my[p].epoch
                        /\ Caught(p, n)
  /\ UNCHANGED files \/ \E e \in Nat : UpdateRepo(p, RecordEpochRotation(File(p), e))

LEMMA CatchesUp ==
  ASSUME Types, NEW p \in Procs, CatchUp(p)
  PROVE  (Goto(p, "done1") /\ ~Lacks(p) /\ UNCHANGED <<my, files>>) \/ CaughtUp(p)
  <1> DEFINE m == my[p]
             f == File(p)
             readable == {g \in 1 .. m.pin.gen : chain[g].epoch \in m.keys}
             anchor == CHOOSE g \in readable : \A x \in readable : x <= g
             held == {e \in m.keys : e < m.epoch}
             next == 1 + CHOOSE e \in held : \A x \in held : x <= e
             rot == CHOOSE g \in 1 .. Newest : chain[g].tr.kind = "rotate" /\ chain[g].epoch = next
  <1>1. m \in Locals /\ at[p] = "catchup" /\ Fit("catchup", m) /\ "catchup" \in Walking
    BY Zenon, Fields DEF CatchUp, Walking
  <1>2. m.pin \in Pins /\ m.pin.gen \in Nat /\ m.pin.gen <= Newest /\ Newest \in Nat
        /\ m.keys \in SUBSET Nat /\ 0 \in m.keys /\ m.epoch \in Nat /\ m.dec \in Pins \cup {None}
    BY <1>1, Fields DEF Locals, Pins, Fit
  <1>4. ASSUME NEW n \in Locals, Alike(n, m), n.err = m.err, n.ws = m.ws, n.epoch = m.epoch,
               my' = [my EXCEPT ![p] = n], UNCHANGED at,
               UNCHANGED files \/ \E e \in Nat : UpdateRepo(p, RecordEpochRotation(f, e)),
               Lacks(p), Caught(p, n)
        PROVE  CaughtUp(p)
    BY <1>4 DEF CaughtUp
  <1>5. CASE /\ LET ok == KnownSigner(m.ws, chain[m.pin.gen]) IN
                 Local(p, [m EXCEPT !.dec = IF ok THEN m.pin ELSE @, !.got = ok, !.undec = ~ok])
             /\ UNCHANGED <<at, files>> /\ Lacks(p) /\ m.epoch \in m.keys
    <2>1. PICK ok, d : ok = KnownSigner(m.ws, chain[m.pin.gen]) /\ d = IF ok THEN m.pin ELSE m.dec
      OBVIOUS
    <2>2. ok \in BOOLEAN /\ (~ok) \in BOOLEAN
      BY <2>1, KnownBoolean
    <2>3. d \in Pins \cup {None}
      BY <1>2, <2>1
    <2>4. my' = [my EXCEPT ![p] = [m EXCEPT !.dec = d, !.got = ok, !.undec = ~ok]]
      BY <1>5, <2>1 DEF Local
    <2>5. LET n == [m EXCEPT !.dec = d, !.got = ok, !.undec = ~ok] IN
          n \in Locals /\ Alike(n, m) /\ n.err = m.err /\ n.ws = m.ws /\ n.epoch = m.epoch
          /\ n.keys = m.keys /\ n.got = ok /\ n.undec = ~ok
      <3> HIDE DEF m
      <3>1. \A x \in Pins \cup {None}, b, v \in BOOLEAN :
              LET n == [m EXCEPT !.dec = x, !.got = b, !.undec = v] IN
              n \in Locals /\ Alike(n, m) /\ n.err = m.err /\ n.ws = m.ws /\ n.epoch = m.epoch
        BY Zenon, <1>1, Marked
      <3>2. PICK v : v = (~ok)
        OBVIOUS
      <3>3. v \in BOOLEAN
        BY <2>2, <3>2
      <3>4. LET n == [m EXCEPT !.dec = d, !.got = ok, !.undec = v] IN
            n \in Locals /\ Alike(n, m) /\ n.err = m.err /\ n.ws = m.ws /\ n.epoch = m.epoch
        BY Zenon, <2>2, <2>3, <3>1, <3>3
      <3>5. LET n == [m EXCEPT !.dec = d, !.got = ok, !.undec = v] IN
            n.keys = m.keys /\ n.got = ok /\ n.undec = v
        BY <1>1 DEF Locals
      <3> QED
        BY <3>2, <3>4, <3>5
    <2>6. LET n == [m EXCEPT !.dec = d, !.got = ok, !.undec = ~ok] IN Caught(p, n)
      BY <1>5, <2>1, <2>5 DEF Caught
    <2> HIDE DEF m
    <2> QED
      BY <1>4, <1>5, <2>4, <2>5, <2>6
  <1>6. CASE /\ LET ok == readable # {} /\ KnownSigner(m.ws, chain[anchor]) IN
                 Local(p, [m EXCEPT !.anchored = TRUE, !.dec = IF ok THEN PinAt(anchor) ELSE @,
                                !.undec = (readable # {} /\ ~ok)])
             /\ UNCHANGED <<at, files>> /\ Lacks(p) /\ m.epoch \notin m.keys
    <2>1. readable # {} => PinAt(anchor) \in Pins
      <3>1. ASSUME readable # {} PROVE anchor \in readable
        <4>1. readable \in SUBSET Nat /\ \A x \in readable : x <= m.pin.gen
          OBVIOUS
        <4>2. PICK N \in Nat : N = m.pin.gen
          BY <1>2
        <4>3. PICK S : S = readable
          OBVIOUS
        <4>4. \E y \in S : \A x \in S : x <= y
          BY <3>1, <4>1, <4>2, <4>3, Greatest
        <4> QED
          BY <4>3, <4>4
      <3>2. ASSUME readable # {} PROVE anchor \in 0 .. Newest
        BY <1>2, <3>1, <3>2
      <3> HIDE DEF anchor, readable
      <3> QED
        BY <3>2, Ats DEF Types
    <2> DEFINE ok == readable # {} /\ KnownSigner(m.ws, chain[anchor])
               D == IF ok THEN PinAt(anchor) ELSE m.dec
               U == readable # {} /\ ~ok
    <2>2. PICK d, u : d = D /\ u = U
      <3> HIDE DEF D, U
      <3> QED
        OBVIOUS
    <2>3. d \in Pins \cup {None} /\ u \in BOOLEAN
      <3>1. U \in BOOLEAN
        OBVIOUS
      <3>2. CASE ok
        BY <2>1, <2>2, <3>1, <3>2
      <3>3. CASE ~ok
        BY <1>2, <2>2, <3>1, <3>3, SMTT(30)
      <3> QED
        BY <3>2, <3>3
    <2>4. my' = [my EXCEPT ![p] = [m EXCEPT !.anchored = TRUE, !.dec = d, !.undec = u]]
      <3>1. my' = [my EXCEPT ![p] = [m EXCEPT !.anchored = TRUE, !.dec = D, !.undec = U]]
        BY <1>6 DEF Local
      <3> HIDE DEF D, U, ok
      <3> QED
        BY <2>2, <3>1
    <2>5. LET n == [m EXCEPT !.anchored = TRUE, !.dec = d, !.undec = u] IN
          n \in Locals /\ Alike(n, m) /\ n.err = m.err /\ n.ws = m.ws /\ n.epoch = m.epoch
          /\ n.keys = m.keys /\ n.got = m.got
      <3> HIDE DEF m
      <3>1. \A x \in Pins \cup {None}, v \in BOOLEAN :
              LET n == [m EXCEPT !.anchored = TRUE, !.dec = x, !.undec = v] IN
              n \in Locals /\ Alike(n, m) /\ n.err = m.err /\ n.ws = m.ws /\ n.epoch = m.epoch
              /\ n.keys = m.keys /\ n.got = m.got /\ n.undec = v
        BY Zenon, <1>1, Marked
      <3> QED
        BY Zenon, <2>3, <3>1
    <2>6. LET n == [m EXCEPT !.anchored = TRUE, !.dec = d, !.undec = u] IN Caught(p, n)
      BY <1>6, <2>5 DEF Caught
    <2> HIDE DEF m
    <2> QED
      BY <1>4, <1>6, <2>4, <2>5, <2>6
  <1>7. CASE /\ m.epoch \notin m.keys /\ Lacks(p)
             /\ Local(p, [m EXCEPT !.keys = @ \cup {next}])
             /\ UpdateRepo(p, RecordEpochRotation(f, next)) /\ UNCHANGED at
    <2>1. PICK d \in held : next = 1 + d /\ d \in Nat /\ next \in Nat /\ \A x \in held : x <= d
      <3>1. held \in SUBSET Nat /\ \A x \in held : x <= m.epoch
        BY <1>2
      <3>2. 0 \in held
        BY <1>2, <1>7
      <3>3. PICK N \in Nat : N = m.epoch
        BY <1>2
      <3>4. PICK S : S = held
        OBVIOUS
      <3>5. \E y \in S : \A x \in S : x <= y
        BY <3>1, <3>2, <3>3, <3>4, Greatest
      <3>6. PICK d : d = (CHOOSE e \in held : \A x \in held : x <= e)
        OBVIOUS
      <3>7. d \in held /\ \A x \in held : x <= d
        BY <3>4, <3>5, <3>6
      <3>8. d \in Nat /\ next = 1 + d
        BY <3>1, <3>6, <3>7
      <3> HIDE DEF held, next
      <3> QED
        BY <3>7, <3>8
    <2>2. PICK e, K : e = next /\ K = m.keys \cup {e}
      OBVIOUS
    <2>3. e \in Nat /\ K \in SUBSET Nat /\ m.keys \subseteq K
      BY <1>2, <2>1, <2>2
    <2>4. my' = [my EXCEPT ![p] = [m EXCEPT !.keys = K]] /\ UpdateRepo(p, RecordEpochRotation(f, e))
      BY <1>7, <2>2 DEF Local
    <2>5. LET n == [m EXCEPT !.keys = K] IN
          n \in Locals /\ Alike(n, m) /\ n.err = m.err /\ n.ws = m.ws /\ n.epoch = m.epoch
          /\ n.keys = K /\ n.got = m.got /\ n.undec = m.undec
      <3> HIDE DEF m
      <3>1. \A X \in SUBSET Nat : m.keys \subseteq X =>
              LET n == [m EXCEPT !.keys = X] IN
              n \in Locals /\ Alike(n, m) /\ n.err = m.err /\ n.ws = m.ws /\ n.epoch = m.epoch
              /\ n.keys = X /\ n.got = m.got /\ n.undec = m.undec
        BY Zenon, <1>1, Marked
      <3> QED
        BY Zenon, <2>3, <3>1
    <2>6. LET n == [m EXCEPT !.keys = K] IN Caught(p, n)
      <3>1. d \in m.keys /\ d < m.epoch /\ \A x \in m.keys : x < m.epoch => x <= d
        BY <2>1
      <3>2. e = 1 + d /\ K = m.keys \cup {1 + d} /\ UpdateRepo(p, RecordEpochRotation(File(p), 1 + d))
        BY <2>1, <2>2, <2>4
      <3> HIDE DEF held, next
      <3> QED
        BY <1>7, <2>5, <3>1, <3>2 DEF Caught
    <2> HIDE DEF m
    <2> QED
      BY <1>4, <1>7, <2>3, <2>4, <2>5, <2>6
  <1>8. CASE /\ Local(p, [m EXCEPT !.undec = TRUE]) /\ UNCHANGED files /\ UNCHANGED at
             /\ Lacks(p) /\ m.epoch \notin m.keys
    <2>1. LET n == [m EXCEPT !.undec = TRUE] IN
          n \in Locals /\ Alike(n, m) /\ n.err = m.err /\ n.ws = m.ws /\ n.epoch = m.epoch
          /\ n.keys = m.keys /\ n.got = m.got
      BY Zenon, <1>1, Marked
    <2>2. my' = [my EXCEPT ![p] = [m EXCEPT !.undec = TRUE]]
      BY <1>8 DEF Local
    <2>3. LET n == [m EXCEPT !.undec = TRUE] IN Caught(p, n)
      BY <1>8, <2>1 DEF Caught
    <2> HIDE DEF m
    <2> QED
      BY <1>4, <1>8, <2>1, <2>2, <2>3
  <1> QED
    BY Zenon, <1>5, <1>6, <1>7, <1>8 DEF CatchUp, Lacks

LEMMA CatchUpTyped == ASSUME Types, NEW p \in Procs, CatchUp(p), UNCHANGED plan PROVE Types'
  <1>1. Rooted /\ at[p] = "catchup" /\ Fit("catchup", my[p]) /\ my[p] \in Locals
    BY Zenon, Fields DEF CatchUp, Rooted, Types
  <1>2. CASE Goto(p, "done1") /\ UNCHANGED <<my, files>>
    BY <1>1, <1>2, RestTyped, MoveTyped DEF Goto, Labels, Walking
  <1>3. CASE CaughtUp(p)
    <2>1. PICK n \in Locals : my' = [my EXCEPT ![p] = n] /\ Alike(n, my[p])
      BY <1>3 DEF CaughtUp
    <2>2. Fit("catchup", n)
      BY <1>1, <2>1, FitAlike
    <2>3. FilesTyped'
      BY <1>3, KeyKept, FileTyped, RestTyped, Fields DEF CaughtUp
    <2> QED
      BY <1>1, <1>3, <2>1, <2>2, <2>3, StayTyped DEF CaughtUp
  <1> QED
    BY <1>2, <1>3, CatchesUp

\* Publishing.
LEMMA Signed ==
  ASSUME Types, NEW p \in Procs, NEW t \in Transitions, NEW e \in Nat, NEW I \in SUBSET Keys
  PROVE  LET h == SignHead(p, t, e, I) IN
         /\ h \in Heads /\ h.tr = t /\ h.incl = I
         /\ h.gen = my[p].pin.gen + 1 /\ h.prev = my[p].pin.id /\ h.epoch = e
  <1>1. my[p].pin \in Pins /\ faults.rollback \in Nat /\ StoreOf[p] \in Keys
    BY Fields, Consts DEF Locals, Types, Faults
  <1>2. my[p].pin.gen + 1 \in Nat /\ my[p].pin.id \in Nat \X (Procs \cup {None})
    BY <1>1 DEF Pins
  <1>3. <<faults.rollback, p>> \in Nat \X (Procs \cup {None})
    BY <1>1
  <1>4. Confirms(p) \in SUBSET Keys
    BY Fields DEF Confirms, Locals
  <1> QED
    BY <1>1, <1>2, <1>3, <1>4, Starts DEF SignHead, Heads

LEMMA Moves ==
  ASSUME NEW ws \in WriterStates, NEW w \in Keys \cup {None}, NEW g \in Keys \cup {None}, NEW R \in SUBSET Keys
  PROVE  /\ AddTransition(ws, w, g) \in Transitions /\ AddTransition(ws, w, g).kind = "add"
         /\ AddTransition(ws, w, g).added = w
         /\ RotateTransition(ws, R) \in Transitions /\ RotateTransition(ws, R).kind = "rotate"
  <1>1. Commitment(ws) \in Nat \X SUBSET Keys
    BY DEF Commitment, WriterStates
  <1>2. ASSUME NEW n \in Transitions, NEW b \in Nat \X SUBSET Keys
        PROVE  LET a == [n EXCEPT !.kind = "add", !.added = w, !.grantor = g, !.base = b]
                   r == [n EXCEPT !.kind = "rotate", !.removed = R, !.base = b] IN
               /\ a \in Transitions /\ a.kind = "add" /\ a.added = w
               /\ r \in Transitions /\ r.kind = "rotate"
    BY DEF Transitions
  <1>3. PICK n, b : n = NoTransition /\ b = Commitment(ws)
    OBVIOUS
  <1>4. /\ AddTransition(ws, w, g) = [n EXCEPT !.kind = "add", !.added = w, !.grantor = g, !.base = b]
        /\ RotateTransition(ws, R) = [n EXCEPT !.kind = "rotate", !.removed = R, !.base = b]
    BY <1>3 DEF AddTransition, RotateTransition
  <1>5. n \in Transitions /\ b \in Nat \X SUBSET Keys
    BY <1>1, <1>3, Starts
  <1>6. LET a == [n EXCEPT !.kind = "add", !.added = w, !.grantor = g, !.base = b]
            r == [n EXCEPT !.kind = "rotate", !.removed = R, !.base = b] IN
        /\ a \in Transitions /\ a.kind = "add" /\ a.added = w
        /\ r \in Transitions /\ r.kind = "rotate"
    BY Zenon, <1>2, <1>5
  <1> QED
    BY <1>4, <1>6

LEMMA Environs ==
  ASSUME Types
  PROVE  Blocked \in SUBSET Keys /\ \A p \in Procs : Included(p) \in SUBSET Keys
  <1>1. Newest \in 0 .. Newest
    BY DEF Types, Newest
  <1>2. WriterStateAt(Newest) \in WriterStates
    BY <1>1, Ats DEF Types
  <1> QED
    BY <1>2 DEF Types, Blocked, Included, WriterStates

LEMMA Submitted ==
  ASSUME Types, NEW p \in Procs, NEW h \in Heads, h.tr.kind = "add" => h.tr.added \in Keys,
         Submit(p, h), Framed
  PROVE  Types'
  <1> DEFINE n == [my[p] EXCEPT !.prop = h]
  <1>1. /\ n \in Locals /\ n.prop = h /\ n.units = my[p].units /\ n.op = my[p].op /\ n.target = my[p].target
        /\ n.conflicts = my[p].conflicts /\ n.outer = my[p].outer
    BY Fields DEF Locals
  <1>2. at' = [at EXCEPT ![p] = "admit"] /\ my' = [my EXCEPT ![p] = n]
    BY DEF Submit, Local, Goto
  <1> HIDE DEF n
  <1>3. Fit("admit", n)
    BY <1>1, Fields DEF Fit, Walking
  <1> QED
    BY <1>1, <1>2, <1>3, FramedTyped, ProcTyped DEF Labels

PropPin(m) == [gen |-> m.prop.gen, id |-> m.prop.id]

\* What a publication of p puts up for admission.
Offers(p, h) ==
  /\ h \in Heads /\ (h.tr.kind = "add" => h.tr.added \in Keys)
  /\ h.gen = my[p].pin.gen + 1 /\ h.prev = my[p].pin.id
  /\ (h.tr.kind = "rotate" => h.incl = Included(p) /\ h.epoch = my[p].epoch + 1)
  /\ (h.tr.kind # "rotate" => h.epoch = File(p).epoch)
  /\ File(p).wpin # None
  /\ Submit(p, h)

LEMMA Publishes ==
  ASSUME Types, NEW p \in Procs, Publish(p)
  PROVE  /\ at[p] = "ready" /\ UNCHANGED <<chain, members, files, ops, faults>>
         /\ \/ /\ End(p)
               /\ \E code : (code \notin Alarms \/ BaseGone(p)) /\ codes' \subseteq codes \cup {<<StoreOf[p], code>>}
            \/ UNCHANGED codes /\ \E h : Offers(p, h)
  <1> DEFINE f == File(p)
             wpin == f.wpin
  <1>1. f.epoch \in Nat /\ my[p].epoch \in Nat /\ f.wpin \in WriterPins \cup {None}
    BY Fields DEF Files, Locals
  <1>2. ASSUME wpin # None PROVE Resumed(wpin) \in WriterStates
    BY <1>1, <1>2, Starts DEF Resumed, WriterPins, WriterStates
  <1>3. ASSUME NEW code, Fail(p, code), code \notin Alarms \/ BaseGone(p)
        PROVE  End(p) /\ \E x : (x \notin Alarms \/ BaseGone(p)) /\ codes' \subseteq codes \cup {<<StoreOf[p], x>>}
    BY <1>3 DEF Fail
  <1>4. ASSUME NotWriter(p)
        PROVE  End(p) /\ \E x : (x \notin Alarms \/ BaseGone(p)) /\ codes' \subseteq codes \cup {<<StoreOf[p], x>>}
    BY <1>3, <1>4 DEF NotWriter, Alarms
  <1>5. CASE Kind(p) \in {"sync", "verify"} /\ End(p) /\ UNCHANGED codes
    BY <1>5 DEF Publish, Alarms
  <1>6. CASE PublishPush(p)
    <2>1. CASE CallerIsWriter(p) /\ Submit(p, SignHead(p, NoTransition, f.epoch, {}))
      <3>1. NoTransition \in Transitions /\ NoTransition.kind = "none"
        BY Starts DEF NoTransition
      <3>2. Offers(p, SignHead(p, NoTransition, f.epoch, {}))
        BY <1>1, <2>1, <3>1, Signed DEF Offers, CallerIsWriter
      <3> QED
        BY <2>1, <3>2 DEF Publish, Submit
    <2> QED
      BY <1>4, <1>6, <2>1 DEF PublishPush, Publish
  <1>7. CASE PublishAdd(p)
    <2> DEFINE t == AddTransition(Resumed(wpin), my[p].target, my[p].grantor)
               h == SignHead(p, t, f.epoch, {})
    <2>1. CASE wpin # None /\ Submit(p, h)
      <3>1. my[p].target \in Keys /\ my[p].grantor \in Keys \cup {None}
        BY <1>7, Fields DEF PublishAdd, Kind, Fit, Locals
      <3>2. t \in Transitions /\ t.kind = "add" /\ t.added \in Keys
        BY <1>2, <2>1, <3>1, Moves
      <3>3. Offers(p, h)
        <4> HIDE DEF t
        <4> QED
          BY <1>1, <2>1, <3>2, Signed DEF Offers
      <3> QED
        BY <2>1, <3>3 DEF Publish, Submit
    <2>2. CASE Fail(p, "VAULT_WRITER_STATE_UNAVAILABLE")
      BY <1>3, <2>2 DEF Publish, Alarms
    <2>3. CASE End(p) /\ UNCHANGED codes
      BY <2>3 DEF Publish, Alarms
    <2> QED
      BY <1>4, <1>7, <2>1, <2>2, <2>3 DEF PublishAdd, Publish
  <1>8. CASE PublishRotate(p)
    <2> DEFINE t == RotateTransition(Resumed(wpin), Blocked)
               h == SignHead(p, t, my[p].epoch + 1, Included(p))
    <2>1. CASE CallerIsWriter(p) /\ Submit(p, h)
      <3>1. wpin # None
        BY <2>1 DEF CallerIsWriter
      <3>2. t \in Transitions /\ t.kind = "rotate" /\ my[p].epoch + 1 \in Nat
        BY <1>1, <1>2, <3>1, Moves, Environs
      <3>3. Offers(p, h)
        <4> HIDE DEF t
        <4> QED
          BY <1>1, <2>1, <3>1, <3>2, Signed, Environs DEF Offers
      <3> QED
        BY <2>1, <3>3 DEF Publish, Submit
    <2>2. CASE \E code \in {"VAULT_ROTATION_BLOCKED_PIN_MISMATCH", "EPOCH_ROTATION_INCOMPLETE_ENROLLMENT",
                            "EPOCH_ROTATION_WOULD_LEAVE_VAULT_UNCOVERED", "WRITER_SET_UPDATE_INVALID",
                            "VALIDATION_FAILED"} : Fail(p, code)
      BY <1>3, <2>2 DEF Publish, Alarms
    <2>3. CASE BaseGone(p) /\ Fail(p, "CHAIN_BROKEN")
      BY <1>3, <2>3 DEF Publish
    <2> QED
      BY <1>4, <1>8, <2>1, <2>2, <2>3 DEF PublishRotate, Publish
  <1>9. CASE PublishConfirm(p)
    <2>1. CASE CallerIsWriter(p) /\ Submit(p, SignHead(p, NoTransition, f.epoch, {}))
      <3>1. NoTransition \in Transitions /\ NoTransition.kind = "none"
        BY Starts DEF NoTransition
      <3>2. Offers(p, SignHead(p, NoTransition, f.epoch, {}))
        BY <1>1, <2>1, <3>1, Signed DEF Offers, CallerIsWriter
      <3> QED
        BY <2>1, <3>2 DEF Publish, Submit
    <2>2. CASE Fail(p, "VALIDATION_FAILED")
      BY <1>3, <2>2 DEF Publish, Alarms
    <2>3. CASE BaseGone(p) /\ Fail(p, "CHAIN_BROKEN")
      BY <1>3, <2>3 DEF Publish
    <2> QED
      BY <1>4, <1>9, <2>1, <2>2, <2>3 DEF PublishConfirm, Publish
  <1> QED
    BY <1>5, <1>6, <1>7, <1>8, <1>9 DEF Publish

LEMMA PublishTyped == ASSUME Types, NEW p \in Procs, Publish(p), UNCHANGED plan PROVE Types'
  <1>1. Framed
    BY DEF Publish, Framed
  <1>2. CASE End(p)
    BY <1>1, <1>2, FramedTyped, EndTyped
  <1>3. ASSUME NEW h, Offers(p, h) PROVE Types'
    BY <1>1, <1>3, Submitted DEF Offers
  <1> QED
    BY <1>2, <1>3, Publishes

\* The gateway's answer.
Turned(n, m) ==
  /\ n.op = m.op /\ n.target = m.target /\ n.prop = m.prop /\ n.units = m.units
  /\ n.conflicts <= plan.retries /\ n.outer <= plan.retries

LEMMA Turns ==
  ASSUME NEW m \in Locals, plan.retries \in Nat, m.conflicts <= plan.retries, m.outer <= plan.retries
  PROVE  /\ m.conflicts + 1 <= plan.retries =>
              LET n == [m EXCEPT !.conflicts = m.conflicts + 1] IN n \in Locals /\ Turned(n, m)
         /\ LET n == [m EXCEPT !.nested = TRUE, !.rotated = TRUE, !.outer = m.conflicts, !.conflicts = 0] IN
              n \in Locals /\ Turned(n, m)
         /\ LET n == [m EXCEPT !.nested = FALSE, !.conflicts = m.outer] IN n \in Locals /\ Turned(n, m)
  <1>1. m.conflicts \in Nat /\ m.outer \in Nat
    BY DEF Locals
  <1>2. ASSUME m.conflicts + 1 <= plan.retries
        PROVE  LET n == [m EXCEPT !.conflicts = m.conflicts + 1] IN n \in Locals /\ Turned(n, m)
    <2> DEFINE n == [m EXCEPT !.conflicts = m.conflicts + 1]
    <2>1. /\ n \in Locals /\ n.op = m.op /\ n.target = m.target /\ n.prop = m.prop /\ n.units = m.units
          /\ n.conflicts = m.conflicts + 1 /\ n.outer = m.outer
      BY <1>1 DEF Locals
    <2> HIDE DEF n
    <2> QED
      BY <1>1, <1>2, <2>1 DEF Turned, n
  <1>3. LET n == [m EXCEPT !.nested = TRUE, !.rotated = TRUE, !.outer = m.conflicts, !.conflicts = 0] IN
              n \in Locals /\ Turned(n, m)
    <2> DEFINE n == [m EXCEPT !.nested = TRUE, !.rotated = TRUE, !.outer = m.conflicts, !.conflicts = 0]
    <2>1. PICK k \in Nat : k = m.conflicts
      BY <1>1
    <2>2. n = [m EXCEPT !.nested = TRUE, !.rotated = TRUE, !.outer = k, !.conflicts = 0]
      BY <2>1
    <2> HIDE DEF n
    <2>3. /\ n \in Locals /\ n.op = m.op /\ n.target = m.target /\ n.prop = m.prop /\ n.units = m.units
          /\ n.conflicts = 0 /\ n.outer = k
      BY <2>2 DEF Locals
    <2> QED
      BY <2>1, <2>3 DEF Turned, n
  <1>4. LET n == [m EXCEPT !.nested = FALSE, !.conflicts = m.outer] IN n \in Locals /\ Turned(n, m)
    <2> DEFINE n == [m EXCEPT !.nested = FALSE, !.conflicts = m.outer]
    <2>1. PICK k \in Nat : k = m.outer
      BY <1>1
    <2>2. n = [m EXCEPT !.nested = FALSE, !.conflicts = k]
      BY <2>1
    <2> HIDE DEF n
    <2>3. /\ n \in Locals /\ n.op = m.op /\ n.target = m.target /\ n.prop = m.prop /\ n.units = m.units
          /\ n.conflicts = k /\ n.outer = m.outer
      BY <2>2 DEF Locals
    <2> QED
      BY <2>1, <2>3 DEF Turned, n
  <1> QED
    BY <1>2, <1>3, <1>4

LEMMA TurnTyped ==
  ASSUME Types, NEW p \in Procs, Goto(p, "open"), NEW n \in Locals, Turned(n, my[p]),
         my' = [my EXCEPT ![p] = n], Rooted, FilesTyped'
  PROVE  Types'
  <1>1. Fit("open", n)
    BY Fields DEF Turned, Fit, Walking
  <1> QED
    BY <1>1, RootedTyped, ProcTyped DEF Goto, Labels

Adds(p) ==
  LET h == my[p].prop IN
  /\ Successor(h) /\ ~EpochRefused(h) /\ TransitionAdmissible(h)
  /\ chain' = Append(chain, [h EXCEPT !.ws = ApplyTransition(WriterStateAt(Newest), h.tr)])

LEMMA Admits ==
  ASSUME Types, NEW p \in Procs, Admit(p)
  PROVE  /\ at[p] = "admit" /\ UNCHANGED <<members, files, ops>>
         /\ \/ /\ UNCHANGED <<chain, faults>> /\ End(p)
               /\ \E code : code \notin Alarms /\ codes' \subseteq codes \cup {<<StoreOf[p], code>>}
            \/ /\ UNCHANGED <<chain, faults, codes>> /\ Goto(p, "open")
               /\ \E n \in Locals : my' = [my EXCEPT ![p] = n] /\ Turned(n, my[p])
            \/ Adds(p) /\ Goto(p, "readback") /\ UNCHANGED <<my, codes, faults>>
            \/ /\ Adds(p) /\ End(p) /\ faults' = [faults EXCEPT !.lost = faults.lost + 1]
               /\ \E code : code \notin Alarms /\ codes' \subseteq codes \cup {<<StoreOf[p], code>>}
  <1> DEFINE h == my[p].prop
  <1>1. /\ my[p] \in Locals /\ plan.retries \in Nat /\ my[p].conflicts <= plan.retries /\ my[p].outer <= plan.retries
    BY Fields DEF Fit, PlanSet
  <1>2. ASSUME NEW code, Fail(p, code), code \notin Alarms
        PROVE  End(p) /\ \E x : x \notin Alarms /\ codes' \subseteq codes \cup {<<StoreOf[p], x>>}
    BY <1>2 DEF Fail
  <1>3. at[p] = "admit" /\ UNCHANGED <<members, files, ops>>
    BY DEF Admit
  <1>4. CASE Conflict(p) /\ UNCHANGED <<chain, faults>>
    <2>1. CASE Fail(p, "HEAD_CAS_CONFLICT")
      BY <1>2, <1>3, <1>4, <2>1 DEF Alarms
    <2>2. CASE /\ ~(my[p].conflicts + 1 > plan.retries)
               /\ Local(p, [my[p] EXCEPT !.conflicts = @ + 1]) /\ Goto(p, "open") /\ UNCHANGED codes
      <3>1. my[p].conflicts + 1 <= plan.retries
        BY <1>1, <2>2 DEF Locals
      <3>2. LET n == [my[p] EXCEPT !.conflicts = my[p].conflicts + 1] IN n \in Locals /\ Turned(n, my[p])
        BY Zenon, <1>1, <3>1, Turns
      <3> QED
        BY <1>3, <1>4, <2>2, <3>2 DEF Local
    <2> QED
      BY <1>4, <2>1, <2>2 DEF Conflict
  <1>5. CASE RotateFirst(p) /\ UNCHANGED <<chain, faults>>
    <2>1. CASE Fail(p, "EPOCH_ROTATION_REQUIRED")
      BY <1>2, <1>3, <1>5, <2>1 DEF Alarms
    <2>2. CASE /\ Local(p, [my[p] EXCEPT !.nested = TRUE, !.rotated = TRUE, !.outer = my[p].conflicts, !.conflicts = 0])
               /\ Goto(p, "open") /\ UNCHANGED codes
      <3>1. LET n == [my[p] EXCEPT !.nested = TRUE, !.rotated = TRUE, !.outer = my[p].conflicts, !.conflicts = 0] IN
              n \in Locals /\ Turned(n, my[p])
        BY Zenon, <1>1, Turns
      <3> QED
        BY <1>3, <1>5, <2>2, <3>1 DEF Local
    <2> QED
      BY <1>5, <2>1, <2>2 DEF RotateFirst
  <1>6. CASE (Fail(p, "EPOCH_REFUSED") \/ Fail(p, "REFUSED")) /\ UNCHANGED <<chain, faults>>
    BY <1>2, <1>3, <1>6 DEF Alarms
  <1>7. CASE Adds(p) /\ Goto(p, "readback") /\ UNCHANGED <<my, codes, faults>>
    BY <1>3, <1>7
  <1>8. CASE Adds(p) /\ faults' = [faults EXCEPT !.lost = @ + 1] /\ Fail(p, "NETWORK_ERROR")
    <2>1. End(p) /\ \E x : x \notin Alarms /\ codes' \subseteq codes \cup {<<StoreOf[p], x>>}
      BY <1>2, <1>8 DEF Alarms
    <2> QED
      BY <1>3, <1>8, <2>1
  <1> QED
    BY <1>4, <1>5, <1>6, <1>7, <1>8 DEF Admit, Adds

LEMMA Grown ==
  ASSUME Types, NEW p \in Procs, Adds(p)
  PROVE  LET h == my[p].prop
             n == chain'[Newest + 1] IN
         /\ chain' \in Seq(Heads) /\ Newest' = Newest + 1
         /\ \A g \in 1 .. Newest : chain'[g] = chain[g]
         /\ n \in Heads /\ n.gen = h.gen /\ n.id = h.id /\ n.prev = h.prev /\ n.epoch = h.epoch
         /\ n.writer = h.writer /\ n.tr = h.tr /\ n.incl = h.incl
         /\ n.ws = ApplyTransition(WriterStateAt(Newest), h.tr)
  <1> DEFINE h == my[p].prop
  <1>1. h \in Heads /\ h.tr \in Transitions /\ (h.tr.kind = "add" => h.tr.added \in Keys)
    BY Fields DEF Locals, Fit, Heads
  <1>2. Newest \in 0 .. Newest /\ chain \in Seq(Heads)
    BY DEF Types, Newest
  <1>3. PICK W : W = ApplyTransition(WriterStateAt(Newest), h.tr)
    OBVIOUS
  <1>4. W \in WriterStates
    BY <1>1, <1>2, <1>3, Ats, Applied
  <1>5. PICK x : x = [h EXCEPT !.ws = W] /\ chain' = Append(chain, x)
    BY <1>3 DEF Adds
  <1>6. /\ x \in Heads /\ x.gen = h.gen /\ x.id = h.id /\ x.prev = h.prev /\ x.epoch = h.epoch
        /\ x.writer = h.writer /\ x.tr = h.tr /\ x.incl = h.incl /\ x.ws = W
    BY <1>1, <1>4, <1>5 DEF Heads
  <1> HIDE DEF h
  <1>7. /\ chain' \in Seq(Heads) /\ Newest' = Newest + 1 /\ chain'[Newest + 1] = x
        /\ \A g \in 1 .. Newest : chain'[g] = chain[g]
    BY <1>2, <1>5, <1>6 DEF Newest
  <1> QED
    BY <1>3, <1>6, <1>7 DEF h

LEMMA AdmitTyped == ASSUME Types, NEW p \in Procs, Admit(p), UNCHANGED plan PROVE Types'
  <1>1. UNCHANGED <<plan, members>> /\ FilesTyped' /\ at[p] = "admit"
    BY Admits, RestTyped
  <1>2. CASE UNCHANGED <<chain, faults>> /\ End(p)
    BY <1>1, <1>2, RootedTyped, EndTyped DEF Rooted, Types
  <1>3. CASE /\ UNCHANGED <<chain, faults>> /\ Goto(p, "open")
             /\ \E n \in Locals : my' = [my EXCEPT ![p] = n] /\ Turned(n, my[p])
    BY <1>1, <1>3, TurnTyped DEF Rooted, Types
  <1>4. CASE Adds(p)
    <2>1. chain' \in Seq(Heads) /\ Newest' >= Newest
      BY <1>4, Grown, Fields
    <2>2. CASE Goto(p, "readback") /\ UNCHANGED <<my, faults>>
      <3>1. my' = [my EXCEPT ![p] = my[p]] /\ my[p] \in Locals /\ Fit("admit", my[p]) /\ faults' \in Faults
        BY <1>1, <2>2, Fields DEF Types
      <3>2. Fit("readback", my[p])
        BY <3>1, FitAlike DEF Alike, Walking
      <3> QED
        BY <1>1, <2>1, <2>2, <3>1, <3>2, ProcTyped DEF Goto, Labels
    <2>3. CASE End(p) /\ faults' = [faults EXCEPT !.lost = faults.lost + 1]
      <3>1. faults' \in Faults
        BY <2>3 DEF Types, Faults
      <3> QED
        BY <1>1, <2>1, <2>3, <3>1, EndTyped
    <2> QED
      BY <1>2, <1>3, <2>2, <2>3, Admits
  <1> QED
    BY <1>2, <1>3, <1>4, Admits

LEMMA ReadbackTyped == ASSUME Types, NEW p \in Procs, Readback(p), UNCHANGED plan PROVE Types'
  <1> DEFINE pin == PropPin(my[p])
  <1>1. Rooted /\ at[p] = "readback" /\ my[p] \in Locals /\ File(p) \in Files
        /\ 0 \in File(p).keys /\ File(p).epoch \in File(p).keys
    BY Fields DEF Readback, Rooted, Types
  <1>2. pin \in Pins
    BY <1>1 DEF Locals, Heads, PropPin, Pins
  <1>3. CASE UpdateRepo(p, [File(p) EXCEPT !.head = pin, !.mat = pin, !.prefix = None]) /\ Goto(p, "admitted") /\ UNCHANGED my
    <2>1. PICK P : P = pin
      OBVIOUS
    <2>2. UpdateRepo(p, [File(p) EXCEPT !.head = P, !.mat = P, !.prefix = None]) /\ P \in Pins
      BY <1>2, <1>3, <2>1
    <2>3. WriterPin(InitialWriterState, FALSE) \in WriterPins
      BY Zenon, Starts, WriterPinTyped
    <2>4. FilesTyped'
      BY Zenon, <1>1, <2>2, <2>3, Written, FileTyped
    <2> QED
      BY <1>1, <1>3, <2>4, MoveTyped DEF Goto, Labels, Walking
  <1>4. CASE End(p) /\ UNCHANGED files
    BY <1>1, <1>4, RestTyped, RootedTyped, EndTyped
  <1> QED
    BY <1>3, <1>4 DEF Readback, Fail, PropPin

LEMMA EndOrPushes ==
  ASSUME Types, NEW p \in Procs, EndOrPush(p)
  PROVE  \/ End(p)
         \/ Goto(p, "open") /\ \E n \in Locals : my' = [my EXCEPT ![p] = n] /\ Turned(n, my[p])
  <1>1. /\ my[p] \in Locals /\ plan.retries \in Nat /\ my[p].conflicts <= plan.retries /\ my[p].outer <= plan.retries
    BY Fields DEF Fit, PlanSet
  <1>2. LET n == [my[p] EXCEPT !.nested = FALSE, !.conflicts = my[p].outer] IN n \in Locals /\ Turned(n, my[p])
    BY Zenon, <1>1, Turns
  <1> QED
    BY <1>2 DEF EndOrPush, Local

LEMMA EndOrPushTyped ==
  ASSUME Types, NEW p \in Procs, EndOrPush(p), Rooted, FilesTyped'
  PROVE  Types'
BY EndOrPushes, TurnTyped, RootedTyped, EndTyped

\* The writer state the client computes from the base its transition names.
BaseState(t) == [InitialWriterState EXCEPT !.version = t.base[1], !.writers = t.base[2]]
LEMMA BaseTyped ==
  ASSUME NEW t \in Transitions
  PROVE  /\ BaseState(t) \in WriterStates
         /\ BaseState(t).version = t.base[1] /\ BaseState(t).writers = t.base[2]
  <1>1. t.base[1] \in Nat /\ t.base[2] \in SUBSET Keys
    BY DEF Transitions
  <1> QED
    BY <1>1, Starts DEF BaseState, WriterStates

LEMMA AdmittedTyped == ASSUME Types, NEW p \in Procs, Admitted(p), UNCHANGED plan PROVE Types'
  <1> DEFINE t == my[p].prop.tr
  <1>1. Rooted /\ my[p] \in Locals /\ File(p) \in Files /\ 0 \in File(p).keys /\ File(p).epoch \in File(p).keys
    <2>1. faults' \in Faults
      BY Consts DEF Admitted, Types, Faults
    <2> QED
      BY <2>1, Fields DEF Admitted, Rooted
  <1>2. t \in Transitions /\ my[p].prop.epoch \in Nat /\ (t.kind = "add" => t.added \in Keys)
    BY <1>1, Fields DEF Locals, Heads, Fit
  <1>3. CASE /\ at[p] = "admitted"
             /\ IF t.kind = "rotate" THEN UpdateRepo(p, RecordEpochRotation(File(p), my[p].prop.epoch)) ELSE UNCHANGED files
             /\ (Goto(p, "writers") /\ UNCHANGED my) \/ EndOrPush(p)
    <2>1. FilesTyped'
      BY <1>1, <1>2, <1>3, KeyKept, FileTyped, RestTyped
    <2>2. CASE Goto(p, "writers") /\ UNCHANGED my
      BY <1>1, <2>1, <2>2, MoveTyped DEF Goto, Labels, Walking
    <2> QED
      BY <1>1, <1>3, <2>1, <2>2, EndOrPushTyped
  <1>4. CASE /\ at[p] = "writers"
             /\ UpdateRepo(p, [File(p) EXCEPT !.wpin = WriterPin(ApplyTransition(BaseState(t), t), TRUE)])
             /\ EndOrPush(p)
    <2>1. PICK W : W = WriterPin(ApplyTransition(BaseState(t), t), TRUE)
      OBVIOUS
    <2>2. W \in WriterPins
      BY Zenon, <1>2, <2>1, BaseTyped, Applied, WriterPinTyped
    <2>3. FilesTyped'
      BY Zenon, <1>1, <1>4, <2>1, <2>2, Starts, Written, FileTyped
    <2> QED
      BY <1>1, <1>4, <2>3, EndOrPushTyped
  <1> QED
    BY <1>3, <1>4 DEF Admitted, BaseState

LEMMA CrashTyped == ASSUME Types, NEW p \in Procs, Crash(p), UNCHANGED plan PROVE Types'
  <1>1. PICK T, U : /\ T = (IF BetweenPins(p) THEN faults.torn \cup {StoreOf[p]} ELSE faults.torn)
                    /\ U = (IF BeforeKey(p) THEN faults.unkeyed \cup {StoreOf[p]} ELSE faults.unkeyed)
                    /\ faults' = [faults EXCEPT !.crash = faults.crash + 1, !.torn = T, !.unkeyed = U]
    BY Zenon DEF Crash
  <1>2. T \in SUBSET Keys /\ U \in SUBSET Keys /\ faults.crash + 1 \in Nat
    BY <1>1, Consts DEF Types, Faults
  <1>3. faults' \in Faults
    BY <1>1, <1>2 DEF Types, Faults
  <1>4. End(p) /\ UNCHANGED <<plan, chain, members, files>>
    BY DEF Crash
  <1>5. chain' \in Seq(Heads) /\ Newest' >= Newest
    BY <1>4 DEF Types, Newest
  <1> QED
    BY <1>3, <1>4, <1>5, RestTyped, EndTyped

LEMMA RemoveTyped == ASSUME Types, RemoveMember, UNCHANGED plan PROVE Types'
  <1>1. UNCHANGED <<plan, chain, files, at, my>> /\ members' \in SUBSET Keys /\ faults' \in Faults
    <2>1. PICK n : n = faults.removal + 1 /\ faults' = [faults EXCEPT !.removal = n]
      BY DEF RemoveMember
    <2>2. n \in Nat
      BY <2>1 DEF Types, Faults
    <2>3. faults' \in Faults
      BY Zenon, <2>1, <2>2 DEF Types, Faults
    <2> QED
      BY <2>3 DEF RemoveMember, Types
  <1>2. \A k, n : Fit(k, n) => Fit(k, n)'
    BY <1>1 DEF Fit, Newest
  <1> QED
    BY <1>1, <1>2 DEF Types, FilesTyped

LEMMA Shrunk ==
  ASSUME Types, Rollback
  PROVE  /\ chain' \in Seq(Heads) /\ Newest' = Newest - 1 /\ Newest \in Nat \ {0}
         /\ \A g \in 1 .. Newest' : chain'[g] = chain[g]
  <1>1. Newest \in Nat \ {0} /\ chain \in Seq(Heads) /\ chain' = SubSeq(chain, 1, Newest - 1)
    BY DEF Types, Rollback, Newest
  <1>2. PICK n \in Nat \ {0} : n = Newest
    BY <1>1
  <1>3. chain' \in Seq(Heads)
    BY <1>1, <1>2 DEF Newest
  <1>4. Len(chain') = n - 1
    BY <1>1, <1>2 DEF Newest
  <1>5. \A g \in 1 .. n - 1 : chain'[g] = chain[g]
    BY <1>1, <1>2 DEF Newest
  <1> QED
    BY <1>1, <1>2, <1>3, <1>4, <1>5 DEF Newest

LEMMA RollbackTyped == ASSUME Types, Rollback, UNCHANGED plan PROVE Types'
  <1>1. UNCHANGED <<plan, members, files, at, my>> /\ faults' \in Faults
    <2>1. PICK n : n = faults.rollback + 1 /\ faults' = [faults EXCEPT !.rollback = n]
      BY DEF Rollback
    <2>2. n \in Nat
      BY <2>1 DEF Types, Faults
    <2>3. faults' \in Faults
      BY Zenon, <2>1, <2>2 DEF Types, Faults
    <2> QED
      BY <2>3 DEF Rollback
  <1>2. \A q \in Procs : at[q] \notin Walking
    BY DEF Rollback, Walking
  <1>3. \A q \in Procs : Fit(at[q], my[q])'
    BY <1>1, <1>2 DEF Types, Fit
  <1> QED
    BY <1>1, <1>3, Shrunk DEF Types, FilesTyped

LEMMA InitTypes == ASSUME Init PROVE Types
  <1>1. plan \in Plans /\ members \in SUBSET Keys
    BY Consts DEF Init, PlanSet
  <1>2. FilesTyped
    <2>1. NewFile \in Files /\ 0 \in NewFile.keys /\ NewFile.epoch \in NewFile.keys
      BY DEF NewFile, Files
    <2> QED
      BY <2>1 DEF Init, FilesTyped
  <1>3. at \in [Procs -> Labels] /\ my \in [Procs -> Locals] /\ \A p \in Procs : Fit(at[p], my[p])
    <2> HIDE DEF Idle
    <2> QED
      BY <1>1, IdleTyped DEF Init, Labels
  <1>4. chain \in Seq(Heads) /\ faults \in Faults
    BY DEF Init, Faults
  <1> QED
    BY <1>1, <1>2, <1>3, <1>4 DEF Types

LEMMA NextTypes == ASSUME Types, Chained, [Next]_vars PROVE Types'
  <1>1. ASSUME UNCHANGED vars PROVE Types'
    <2>1. \A k, n : Fit(k, n) => Fit(k, n)'
      BY <1>1 DEF vars, Fit, Newest
    <2> QED
      BY <1>1, <2>1 DEF vars, Types, FilesTyped
  <1>2. ASSUME NEW p \in Procs, Step(p), UNCHANGED plan PROVE Types'
    BY <1>2, OpenTyped, ListTyped, WalkTyped, PageTyped, CatchUpTyped, DoneTyped, PublishTyped, AdmitTyped,
       ReadbackTyped, AdmittedTyped DEF Step
  <1> QED
    BY <1>1, <1>2, BeginTyped, CrashTyped, RemoveTyped, RollbackTyped DEF Next

-----------------------------------------------------------------------------
(* The chain.                                                              *)

\* Writers are remembered.
Remembered == \A g \in 1 .. Newest : \A k \in g .. Newest : ResolveKnownWriter(WriterStateAt(k), chain[g].writer)

Sound == Chained /\ Remembered

\* What the chain was up to a generation, it is after the step.
Old(n) ==
  \A g \in 0 .. n : /\ PinAt(g)' = PinAt(g) /\ EpochAt(g)' = EpochAt(g) /\ WriterStateAt(g)' = WriterStateAt(g)
                    /\ g > 0 => chain'[g] = chain[g]

LEMMA OldAts ==
  ASSUME NEW n \in Nat, \A g \in 1 .. n : chain'[g] = chain[g]
  PROVE  Old(n)
  <1>1. ASSUME NEW g \in 0 .. n
        PROVE  /\ PinAt(g)' = PinAt(g) /\ EpochAt(g)' = EpochAt(g) /\ WriterStateAt(g)' = WriterStateAt(g)
               /\ g > 0 => chain'[g] = chain[g]
    BY DEF PinAt, EpochAt, WriterStateAt
  <1> QED
    BY <1>1 DEF Old

LEMMA OldLinked ==
  ASSUME NEW n \in Nat, Old(n), NEW g \in 1 .. n, Linked(g)
  PROVE  Linked(g)'
  <1>1. g \in 0 .. n /\ g - 1 \in 0 .. n /\ chain'[g] = chain[g]
    BY DEF Old
  <1>2. /\ PinAt(g - 1)' = PinAt(g - 1) /\ EpochAt(g - 1)' = EpochAt(g - 1)
        /\ WriterStateAt(g - 1)' = WriterStateAt(g - 1)
    BY <1>1 DEF Old
  <1> QED
    BY <1>1, <1>2 DEF Linked

LEMMA Remembers ==
  ASSUME NEW ws \in WriterStates, NEW t \in Transitions, t.kind = "add" => t.added \in Keys
  PROVE  \A k : ResolveKnownWriter(ws, k) \/ (t.kind = "add" /\ k = t.added)
                  => ResolveKnownWriter(ApplyTransition(ws, t), k)
  <1>1. CASE t.kind = "add"
    <2>1. PICK n : n = ApplyTransition(ws, t)
      OBVIOUS
    <2>2. n.writers = ws.writers \cup {t.added} /\ n.retired = ws.retired
      BY <1>1, <2>1, Applied
    <2> QED
      BY <2>1, <2>2 DEF ResolveKnownWriter
  <1>2. CASE t.kind = "rotate" /\ t.removed # {}
    <2>1. PICK n : n = ApplyTransition(ws, t)
      OBVIOUS
    <2>2. n.writers = ws.writers \ t.removed /\ n.retired = ws.retired \cup (ws.writers \cap t.removed)
      BY <1>2, <2>1, Applied
    <2> QED
      BY <1>2, <2>1, <2>2 DEF ResolveKnownWriter
  <1>3. CASE t.kind # "add" /\ ~(t.kind = "rotate" /\ t.removed # {})
    BY <1>3 DEF ApplyTransition
  <1> QED
    BY <1>1, <1>2, <1>3

LEMMA AddsSound ==
  ASSUME Types, Sound, NEW p \in Procs, Adds(p)
  PROVE  Sound' /\ Old(Newest) /\ Newest' = Newest + 1
  <1> DEFINE h == my[p].prop
             ws == WriterStateAt(Newest)
             n == chain'[Newest + 1]
  <1>1. /\ chain' \in Seq(Heads) /\ Newest' = Newest + 1 /\ Newest \in Nat
        /\ \A g \in 1 .. Newest : chain'[g] = chain[g]
        /\ n.gen = h.gen /\ n.id = h.id /\ n.prev = h.prev /\ n.epoch = h.epoch
        /\ n.writer = h.writer /\ n.tr = h.tr /\ n.incl = h.incl /\ n.ws = ApplyTransition(ws, h.tr)
    BY Grown, Fields
  <1>2. Old(Newest)
    BY <1>1, OldAts
  <1>3. ws \in WriterStates /\ h.tr \in Transitions /\ (h.tr.kind = "add" => h.tr.added \in Keys)
    BY <1>1, Ats, Fields DEF Types, Locals, Heads, Fit
  <1>5. PICK N \in Nat : N = Newest
    BY <1>1
  <1>6. Admissible(ws, h)
    <2>1. TransitionAdmissible(h) /\ h.tr.kind \in {"none", "add", "rotate"}
      BY <1>3 DEF Adds, Transitions
    <2>2. CASE h.tr.kind = "add"
      BY <2>1, <2>2, <1>3 DEF TransitionAdmissible, Admissible
    <2>3. CASE h.tr.kind = "none"
      BY <2>1, <2>3 DEF TransitionAdmissible, Admissible
    <2>4. CASE h.tr.kind = "rotate"
      BY <2>1, <2>4 DEF TransitionAdmissible, Admissible
    <2> QED
      BY <2>1, <2>2, <2>3, <2>4
  <1>7. PinAt(N)' = PinAt(N) /\ EpochAt(N)' = EpochAt(N) /\ WriterStateAt(N)' = ws /\ Newest' = N + 1
    <2>1. N \in 0 .. Newest
      BY <1>5
    <2> QED
      BY <1>1, <1>2, <1>5, <2>1 DEF Old
  <1>8. Linked(N + 1)'
    <2>1. h.gen = N + 1 /\ h.prev = PinAt(N).id
          /\ h.epoch = EpochAt(N) + (IF h.tr.kind = "rotate" THEN 1 ELSE 0)
      BY <1>5 DEF Adds, Successor, EpochRefused
    <2>2. PICK x : x = chain'[N + 1]
      OBVIOUS
    <2>3. /\ x.gen = h.gen /\ x.prev = h.prev /\ x.epoch = h.epoch /\ x.writer = h.writer /\ x.tr = h.tr
          /\ x.ws = ApplyTransition(ws, h.tr)
      BY <1>1, <1>5, <2>2
    <2>4. Admissible(ws, x)
      BY <1>6, <2>3 DEF Admissible
    <2>5. (N + 1) - 1 = N
      OBVIOUS
    <2>6. PinAt((N + 1) - 1)' = PinAt(N) /\ EpochAt((N + 1) - 1)' = EpochAt(N) /\ WriterStateAt((N + 1) - 1)' = ws
      BY <1>7, <2>5
    <2> HIDE DEF h, ws
    <2>7. /\ x.gen = N + 1 /\ x.prev = PinAt((N + 1) - 1)'.id
          /\ x.epoch = EpochAt((N + 1) - 1)' + (IF x.tr.kind = "rotate" THEN 1 ELSE 0)
          /\ Admissible(WriterStateAt((N + 1) - 1)', x)
          /\ x.ws = ApplyTransition(WriterStateAt((N + 1) - 1)', x.tr)
      BY <2>1, <2>3, <2>4, <2>6
    <2> QED
      BY <2>2, <2>7 DEF Linked
  <1>9. Chained'
    <2>1. ASSUME NEW g \in 1 .. N + 1 PROVE Linked(g)'
      <3>1. CASE g = N + 1
        BY <1>8, <3>1
      <3>2. CASE g \in 1 .. N
        BY <1>2, <1>5, <3>2, OldLinked DEF Sound, Chained
      <3> QED
        BY <1>5, <3>1, <3>2
    <2>2. \A g \in 1 .. Newest' : Linked(g)'
      BY <1>7, <2>1
    <2> QED
      BY <2>2 DEF Chained
  <1>10. Remembered'
    <2>1. WriterStateAt(N + 1)' = ApplyTransition(ws, h.tr)
      BY <1>1, <1>5 DEF WriterStateAt
    <2>2. ASSUME NEW g \in 1 .. N + 1, NEW k \in g .. N + 1
          PROVE  ResolveKnownWriter(WriterStateAt(k)', chain'[g].writer)
      <3>1. CASE k \in 1 .. N
        <4>1. g \in 1 .. N /\ k \in g .. N
          BY <3>1
        <4>2. WriterStateAt(k)' = WriterStateAt(k) /\ chain'[g] = chain[g]
          BY <1>2, <1>5, <4>1, <3>1 DEF Old
        <4> QED
          BY <1>5, <4>1, <4>2 DEF Sound, Remembered
      <3>2. CASE k = N + 1 /\ g \in 1 .. N
        <4>1. ResolveKnownWriter(ws, chain[g].writer)
          BY <1>5, <3>2 DEF Sound, Remembered
        <4>2. chain'[g] = chain[g]
          BY <1>1, <1>5, <3>2
        <4> HIDE DEF ws, h
        <4> QED
          BY <1>3, <2>1, <3>2, <4>1, <4>2, Remembers
      <3>3. CASE k = N + 1 /\ g = N + 1
        <4>1. h.writer \in ws.writers \/ (h.tr.kind = "add" /\ h.writer = h.tr.added)
          BY <1>6 DEF Admissible, ValidateAddWriterKey
        <4>2. chain'[g].writer = h.writer
          BY <1>1, <1>5, <3>3
        <4> HIDE DEF ws, h
        <4> QED
          BY <1>3, <2>1, <3>3, <4>1, <4>2, Remembers DEF ResolveKnownWriter
      <3> QED
        BY <1>5, <3>1, <3>2, <3>3
    <2>3. \A g \in 1 .. Newest' : \A k \in g .. Newest' : ResolveKnownWriter(WriterStateAt(k)', chain'[g].writer)
      BY <1>7, <2>2
    <2> QED
      BY <2>3 DEF Remembered, ResolveKnownWriter
  <1> QED
    BY <1>1, <1>2, <1>9, <1>10 DEF Sound

LEMMA RollbackSound ==
  ASSUME Types, Sound, Rollback
  PROVE  Sound'
  <1>1. /\ chain' \in Seq(Heads) /\ Newest' = Newest - 1 /\ Newest \in Nat \ {0}
        /\ \A g \in 1 .. Newest' : chain'[g] = chain[g]
    BY Shrunk
  <1>2. PICK N \in Nat : N = Newest'
    BY <1>1
  <1>3. Old(N) /\ N <= Newest /\ Newest \in Nat
    BY <1>1, <1>2, OldAts
  <1>4. Chained'
    <2>1. \A g \in 1 .. Newest' : Linked(g)'
      BY <1>1, <1>2, <1>3, OldLinked DEF Sound, Chained
    <2> QED
      BY <2>1 DEF Chained
  <1>5. Remembered'
    <2>1. ASSUME NEW g \in 1 .. N, NEW k \in g .. N
          PROVE  ResolveKnownWriter(WriterStateAt(k)', chain'[g].writer)
      <3>1. k \in 0 .. N /\ g \in 1 .. Newest /\ k \in g .. Newest
        BY <1>3
      <3>2. WriterStateAt(k)' = WriterStateAt(k) /\ chain'[g] = chain[g]
        BY <1>1, <1>2, <1>3, <3>1 DEF Old
      <3> QED
        BY <3>1, <3>2 DEF Sound, Remembered
    <2> QED
      BY <1>2, <2>1 DEF Remembered, ResolveKnownWriter
  <1> QED
    BY <1>4, <1>5 DEF Sound

\* Only the gateway's admission and its loss of a head change the chain.
LEMMA StepChains ==
  ASSUME Types, NEW p \in Procs, Begin(p) \/ Crash(p) \/ Step(p)
  PROVE  UNCHANGED members /\ (UNCHANGED chain \/ Adds(p))
BY Zenon, Admits DEF Begin, Crash, Step, Open, List, Walk, Page, CatchUp, Done, Publish, Readback, Admitted

LEMMA SameSound ==
  ASSUME Types, Sound, UNCHANGED chain
  PROVE  Sound'
  <1>1. Newest' = Newest /\ Newest \in Nat
    BY DEF Types, Newest
  <1>2. Old(Newest)
    BY <1>1, OldAts
  <1>3. Chained'
    <2>1. \A g \in 1 .. Newest : Linked(g)'
      BY <1>1, <1>2, OldLinked DEF Sound, Chained
    <2> QED
      BY <1>1, <2>1 DEF Chained
  <1>4. Remembered'
    BY <1>1, <1>2 DEF Sound, Remembered, WriterStateAt, ResolveKnownWriter
  <1> QED
    BY <1>3, <1>4 DEF Sound

LEMMA NextSound == ASSUME Types, Sound, [Next]_vars PROVE Sound'
  <1>1. CASE UNCHANGED chain
    BY <1>1, SameSound
  <1>2. ASSUME NEW p \in Procs, Begin(p) \/ Crash(p) \/ Step(p) PROVE Sound'
    BY <1>1, <1>2, StepChains, AddsSound
  <1>3. CASE RemoveMember
    BY <1>1, <1>3 DEF RemoveMember
  <1>4. CASE Rollback
    BY <1>4, RollbackSound
  <1> QED
    BY <1>1, <1>2, <1>3, <1>4 DEF Next, vars

LEMMA InitSound == ASSUME Init PROVE Sound
  <1>1. Newest = 0
    BY DEF Init, Newest
  <1> QED
    BY <1>1 DEF Sound, Chained, Remembered

-----------------------------------------------------------------------------
(* The chain as a keystore sees it, as long as the gateway keeps its heads  *)
(* and the process did not die between two pins.                            *)

\* Burned and consumed are not persisted: a resumed state may have forgotten some.
Same(ws, g) ==
  LET s == WriterStateAt(g) IN
  /\ ws.version = s.version /\ ws.writers = s.writers /\ ws.retired = s.retired
  /\ ws.burned \subseteq s.burned /\ ws.consumed \subseteq s.consumed

FilePin(f) == IF f.prefix # None THEN f.prefix ELSE IF f.head # None THEN f.head ELSE Genesis

Pinned(f) ==
  LET s == WriterStateAt(FilePin(f).gen) IN
  /\ OnChain(FilePin(f))
  /\ f.wpin = None => FilePin(f).gen = 0
  /\ f.wpin # None => /\ f.wpin.version = s.version /\ f.wpin.writers = s.writers
                      /\ ~f.wpin.legacy => f.wpin.retired = s.retired

Walked(m) ==
  /\ OnChain(m.pin) /\ Same(m.ws, m.pin.gen) /\ m.epoch = EpochAt(m.pin.gen)
  /\ m.err # "VAULT_WRITER_NOT_ADMITTED"

\* What a process has done to its file, given where it is.
Placed(l, m, f) ==
  /\ l \in Walking => Walked(m)
  /\ l = "page2" => f.prefix = m.pin
  /\ l \in {"done2", "done3", "ready"} => f.head = m.pin /\ f.prefix = None
  /\ l \in {"admit", "readback"} => f.wpin # None /\ m.prop.gen = FilePin(f).gen + 1
  /\ l \in {"readback", "admitted", "writers"} =>
       OnChain(PropPin(m)) /\ m.prop.gen > 0 /\ chain[m.prop.gen].tr = m.prop.tr
  /\ l \in {"admitted", "writers"} => f.head = PropPin(m) /\ f.prefix = None
  /\ l = "writers" => ChangesWriters(m.prop.tr)

\* BetweenPins of locals.
Between(l, m) == l \in {"page2", "done2"} \/ (l \in {"admitted", "writers"} /\ ChangesWriters(m.prop.tr))

Whole(s) == s \notin faults.torn /\ \A p \in Procs : StoreOf[p] = s => ~Between(at[p], my[p])

Follows ==
  /\ \A p \in Procs : StoreOf[p] \notin faults.torn => Placed(at[p], my[p], File(p))
  /\ \A s \in Keys : Whole(s) => Pinned(files[s])
  /\ \A c \in codes : c[1] \notin faults.torn => c[2] \notin Alarms

\* Every process has a keystore of its own.
OneEach == \A p, q \in Procs : StoreOf[p] = StoreOf[q] => p = q

LEMMA FilePinTyped == ASSUME NEW f \in Files PROVE FilePin(f) \in Pins /\ FilePin(f).gen \in Nat
  <1>1. FilePin(f) \in Pins
    BY Starts DEF FilePin, Files
  <1> QED
    BY <1>1 DEF Pins

LEMMA OnChainKept ==
  ASSUME Newest \in Nat, Newest' \in Nat, Newest' >= Newest, Old(Newest), NEW pin, pin.gen \in Nat, OnChain(pin)
  PROVE  /\ OnChain(pin)' /\ EpochAt(pin.gen)' = EpochAt(pin.gen) /\ WriterStateAt(pin.gen)' = WriterStateAt(pin.gen)
         /\ pin.gen > 0 => chain'[pin.gen] = chain[pin.gen]
  <1>1. pin.gen \in 0 .. Newest /\ PinAt(pin.gen) = pin
    BY DEF OnChain
  <1>2. PICK g : g = pin.gen
    OBVIOUS
  <1>3. /\ PinAt(g)' = PinAt(g) /\ EpochAt(g)' = EpochAt(g) /\ WriterStateAt(g)' = WriterStateAt(g)
        /\ g > 0 => chain'[g] = chain[g]
    BY <1>1, <1>2 DEF Old
  <1>4. g <= Newest' /\ PinAt(g)' = pin
    BY <1>1, <1>2, <1>3
  <1> QED
    BY <1>2, <1>3, <1>4 DEF OnChain

LEMMA PinnedKept ==
  ASSUME Newest \in Nat, Newest' \in Nat, Newest' >= Newest, Old(Newest), NEW f \in Files, Pinned(f)
  PROVE  Pinned(f)'
  <1>1. PICK pin : pin = FilePin(f)
    OBVIOUS
  <1>2. pin.gen \in Nat /\ OnChain(pin)
    BY <1>1, FilePinTyped DEF Pinned
  <1>3. OnChain(pin)' /\ WriterStateAt(pin.gen)' = WriterStateAt(pin.gen)
    BY <1>2, OnChainKept
  <1> QED
    BY <1>1, <1>3 DEF Pinned, FilePin, Genesis

LEMMA PlacedKept ==
  ASSUME Newest \in Nat, Newest' \in Nat, Newest' >= Newest, Old(Newest),
         NEW l, NEW m \in Locals, NEW f \in Files, Placed(l, m, f)
  PROVE  Placed(l, m, f)'
  <1>1. m.pin.gen \in Nat /\ PropPin(m).gen \in Nat /\ PropPin(m).gen = m.prop.gen
    BY DEF Locals, Pins, Heads, PropPin
  <1>2. ASSUME l \in Walking PROVE Walked(m)'
    <2>1. OnChain(m.pin) /\ Walked(m)
      BY <1>2 DEF Placed, Walked
    <2>2. OnChain(m.pin)' /\ EpochAt(m.pin.gen)' = EpochAt(m.pin.gen) /\ WriterStateAt(m.pin.gen)' = WriterStateAt(m.pin.gen)
      BY <1>1, <2>1, OnChainKept
    <2> QED
      BY <2>1, <2>2 DEF Walked, Same
  <1>3. ASSUME l \in {"readback", "admitted", "writers"}
        PROVE  OnChain(PropPin(m))' /\ m.prop.gen > 0 /\ chain'[m.prop.gen].tr = m.prop.tr
    <2>1. OnChain(PropPin(m)) /\ m.prop.gen > 0 /\ chain[m.prop.gen].tr = m.prop.tr
      BY <1>3 DEF Placed
    <2>2. OnChain(PropPin(m))' /\ (PropPin(m).gen > 0 => chain'[PropPin(m).gen] = chain[PropPin(m).gen])
      <3>1. PICK pin : pin = PropPin(m)
        OBVIOUS
      <3>2. OnChain(pin)' /\ (pin.gen > 0 => chain'[pin.gen] = chain[pin.gen])
        BY <1>1, <2>1, <3>1, OnChainKept
      <3> QED
        BY <3>1, <3>2 DEF PropPin, OnChain
    <2> QED
      BY <1>1, <2>1, <2>2
  <1> QED
    BY <1>2, <1>3 DEF Placed, PropPin, FilePin, Genesis, Walking, ChangesWriters

\* A step of one process, with its file.
LEMMA FollowStep ==
  ASSUME Types, Types', Follows, OneEach, Newest' >= Newest, Old(Newest), NEW p \in Procs, NEW l, NEW n, NEW f,
         at' = [at EXCEPT ![p] = l], my' = [my EXCEPT ![p] = n], UpdateRepo(p, f),
         faults.torn \subseteq faults'.torn,
         StoreOf[p] \notin faults'.torn => Placed(l, n, f)' /\ (~Between(l, n) => Pinned(f)'),
         \A c \in codes' : c \in codes \/ (c[1] \notin faults'.torn => c[2] \notin Alarms)
  PROVE  Follows'
  <1>1. Newest \in Nat /\ Newest' \in Nat
    BY DEF Types, Newest
  <1>2. /\ at'[p] = l /\ my'[p] = n /\ files'[StoreOf[p]] = f
        /\ \A q \in Procs \ {p} : at'[q] = at[q] /\ my'[q] = my[q] /\ File(q)' = File(q)
        /\ \A s \in Keys \ {StoreOf[p]} : files'[s] = files[s]
    BY Consts DEF Types, FilesTyped, UpdateRepo, File, OneEach
  <1>3. ASSUME NEW q \in Procs, StoreOf[q] \notin faults'.torn PROVE Placed(at[q], my[q], File(q))'
    <2>1. CASE q = p
      <3>1. Placed(l, n, f)'
        BY <1>3, <2>1
      <3>2. at'[q] = l /\ my'[q] = n /\ File(q)' = f
        BY <1>2, <2>1 DEF File
      <3> QED
        BY <3>1, <3>2
    <2>2. CASE q # p
      <3>1. PICK k, m, g : k = at[q] /\ m = my[q] /\ g = File(q)
        OBVIOUS
      <3>2. Placed(k, m, g) /\ m \in Locals /\ g \in Files
        BY <1>3, <3>1, Fields DEF Follows
      <3>3. Placed(k, m, g)'
        BY <1>1, <3>2, PlacedKept
      <3>4. at'[q] = k /\ my'[q] = m /\ File(q)' = g
        BY <1>2, <2>2, <3>1
      <3> QED
        BY <3>3, <3>4
    <2> QED
      BY <2>1, <2>2
  <1>4. ASSUME NEW s \in Keys, Whole(s)' PROVE Pinned(files[s])'
    <2>1. s \notin faults'.torn /\ s \notin faults.torn
      BY <1>4 DEF Whole
    <2>2. CASE s = StoreOf[p]
      <3>1. ~Between(l, n)
        BY <1>2, <1>4, <2>2 DEF Whole, Between, ChangesWriters
      <3>2. Pinned(f)'
        BY <2>1, <2>2, <3>1
      <3> QED
        BY <1>2, <2>2, <3>2
    <2>3. CASE s # StoreOf[p]
      <3>1. Whole(s)
        <4>1. ASSUME NEW q \in Procs, StoreOf[q] = s PROVE ~Between(at[q], my[q])
          <5>1. q # p /\ at'[q] = at[q] /\ my'[q] = my[q]
            BY <1>2, <2>3, <4>1
          <5> QED
            BY <1>4, <4>1, <5>1 DEF Whole, Between, ChangesWriters
        <4> QED
          BY <2>1, <4>1 DEF Whole
      <3>2. PICK g : g = files[s]
        OBVIOUS
      <3>3. Pinned(g) /\ g \in Files
        BY <3>1, <3>2 DEF Follows, Types, FilesTyped
      <3>4. Pinned(g)'
        BY <1>1, <3>3, PinnedKept
      <3> QED
        BY <1>2, <2>3, <3>2, <3>4
    <2> QED
      BY <2>2, <2>3
  <1>5. ASSUME NEW c \in codes', c[1] \notin faults'.torn PROVE c[2] \notin Alarms
    BY <1>5 DEF Follows
  <1> QED
    BY <1>3, <1>4, <1>5 DEF Follows, Alarms

LEMMA Own ==
  ASSUME Types, Follows, OneEach, NEW p \in Procs, StoreOf[p] \notin faults.torn
  PROVE  Placed(at[p], my[p], File(p)) /\ (~Between(at[p], my[p]) => Pinned(File(p)))
  <1>1. StoreOf[p] \in Keys
    BY Consts
  <1>2. ASSUME ~Between(at[p], my[p]) PROVE Whole(StoreOf[p])
    BY <1>2 DEF Whole, OneEach
  <1> QED
    BY <1>1, <1>2 DEF Follows, File

\* The conditions of a step over a chain that stays, and their common parts.
Quietly(p, code) == codes' \subseteq codes \cup {<<StoreOf[p], code>>}

LEMMA Still ==
  ASSUME Types, UNCHANGED chain
  PROVE  Newest' >= Newest /\ Old(Newest) /\ Newest \in Nat /\ Newest' \in Nat
  <1>1. Newest' = Newest /\ Newest \in Nat
    BY DEF Types, Newest
  <1> QED
    BY <1>1, OldAts

LEMMA StillFollows ==
  ASSUME Types, Types', Follows, OneEach, UNCHANGED chain, faults'.torn = faults.torn, NEW p \in Procs, NEW l, NEW n, NEW f \in Files,
         at' = [at EXCEPT ![p] = l], my' = [my EXCEPT ![p] = n], UpdateRepo(p, f), n \in Locals,
         StoreOf[p] \notin faults.torn => Placed(l, n, f) /\ (~Between(l, n) => Pinned(f)),
         \E code : Quietly(p, code) /\ (StoreOf[p] \notin faults.torn => code \notin Alarms)
  PROVE  Follows'
  <1>1. Newest' >= Newest /\ Old(Newest) /\ Newest \in Nat /\ Newest' \in Nat
    BY Still
  <1>2. \A c \in codes' : c \in codes \/ (c[1] \notin faults'.torn => c[2] \notin Alarms)
    BY DEF Quietly
  <1>3. StoreOf[p] \notin faults'.torn => Placed(l, n, f)' /\ (~Between(l, n) => Pinned(f)')
    BY <1>1, PlacedKept, PinnedKept
  <1> QED
    BY <1>1, <1>2, <1>3, FollowStep

\* No file is written, nothing is asked of the locals.
LEMMA FileStays ==
  ASSUME Types, NEW p \in Procs, UNCHANGED files
  PROVE  UpdateRepo(p, File(p)) /\ File(p) \in Files
  BY Fields, Consts DEF UpdateRepo, File, Types, FilesTyped

LEMMA EndFollows ==
  ASSUME Types, Types', Follows, OneEach, UNCHANGED chain, faults'.torn = faults.torn, NEW p \in Procs, End(p),
         NEW f \in Files, UpdateRepo(p, f), StoreOf[p] \notin faults.torn => Pinned(f),
         \E code : Quietly(p, code) /\ (StoreOf[p] \notin faults.torn => code \notin Alarms)
  PROVE  Follows'
  <1>1. at' = [at EXCEPT ![p] = "idle"] /\ my' = [my EXCEPT ![p] = Idle] /\ Idle \in Locals
    BY IdleTyped DEF End, Goto, Local, Types
  <1> HIDE DEF Idle
  <1>2. \A n : Placed("idle", n, f)
    BY DEF Placed, Walking
  <1> QED
    BY <1>1, <1>2, StillFollows

\* What a pin says stays true of a file whose pins stay.
LEMMA PinnedAlike ==
  ASSUME NEW f, NEW g, g.head = f.head, g.prefix = f.prefix, g.wpin = f.wpin
  PROVE  /\ Pinned(f) => Pinned(g)
         /\ FilePin(g) = FilePin(f)
         /\ \A l, m : Placed(l, m, f) => Placed(l, m, g)
  <1>1. FilePin(g) = FilePin(f)
    BY DEF FilePin
  <1> QED
    BY <1>1 DEF Pinned, Placed

LEMMA BeginFollows ==
  ASSUME Types, Types', Follows, OneEach, NEW p \in Procs, Begin(p)
  PROVE  Follows'
  <1>1. PICK n : my' = [my EXCEPT ![p] = n]
    BY DEF Begin, Local
  <1>2. /\ at' = [at EXCEPT ![p] = "open"] /\ at[p] = "idle"
        /\ UNCHANGED <<chain, files, faults, codes>>
    BY DEF Begin, Goto
  <1>3. n \in Locals
    BY <1>1 DEF Types
  <1>4. StoreOf[p] \notin faults.torn => Pinned(File(p))
    BY <1>2, Own DEF Between
  <1>5. Placed("open", n, File(p))
    BY DEF Placed, Walking
  <1>6. Quietly(p, "none") /\ "none" \notin Alarms
    BY <1>2 DEF Quietly, Alarms
  <1> QED
    BY <1>1, <1>2, <1>3, <1>4, <1>5, <1>6, FileStays, StillFollows

LEMMA StartSame ==
  ASSUME Types, NEW f \in Files, Pinned(f)
  PROVE  OnChain(StartPin(f)) /\ Same(StartWriters(f), StartPin(f).gen)
  <1>1. InitialWriterState \in WriterStates /\ WriterStateAt(0) = InitialWriterState
        /\ OnChain(Genesis) /\ Genesis.gen = 0 /\ Same(InitialWriterState, 0)
    BY Starts DEF WriterStateAt, OnChain, Genesis, PinAt, Types, Newest, Same
  <1>2. CASE f.wpin = None
    <2>1. StartPin(f) = FilePin(f) /\ StartWriters(f) = InitialWriterState
      BY <1>2 DEF StartPin, FilePin, StartWriters
    <2> QED
      BY <1>1, <1>2, <2>1 DEF Pinned
  <1>3. CASE f.wpin # None /\ f.wpin.legacy
    BY <1>1, <1>3 DEF StartPin, StartWriters
  <1>4. CASE f.wpin # None /\ ~f.wpin.legacy
    <2>1. StartPin(f) = FilePin(f) /\ StartWriters(f) = Resumed(f.wpin)
      BY <1>4 DEF StartPin, FilePin, StartWriters
    <2>2. /\ Resumed(f.wpin).version = f.wpin.version /\ Resumed(f.wpin).writers = f.wpin.writers
          /\ Resumed(f.wpin).retired = f.wpin.retired
          /\ Resumed(f.wpin).burned = {} /\ Resumed(f.wpin).consumed = {}
      BY DEF Resumed, InitialWriterState
    <2>3. PICK x : x = Resumed(f.wpin)
      OBVIOUS
    <2> QED
      BY <1>4, <2>1, <2>2, <2>3 DEF Pinned, Same
  <1> QED
    BY <1>2, <1>3, <1>4

LEMMA OpenFollows ==
  ASSUME Types, Types', Follows, OneEach, NEW p \in Procs, Open(p)
  PROVE  Follows'
  <1> DEFINE f == File(p)
             pin == StartPin(f)
  <1>1. /\ at[p] = "open" /\ UNCHANGED <<chain, files, faults>> /\ f \in Files /\ UpdateRepo(p, f)
    BY Opens, FileStays
  <1>2. ASSUME StoreOf[p] \notin faults.torn
        PROVE  Pinned(f) /\ OnChain(pin) /\ Same(StartWriters(f), pin.gen)
    BY <1>1, <1>2, Own, StartSame DEF Between
  <1>3. CASE End(p) /\ (\E code : codes' = codes \cup {<<StoreOf[p], code>>}) /\ ~OnChain(pin)
    <2>1. StoreOf[p] \in faults.torn
      BY <1>2, <1>3
    <2>2. \E code : Quietly(p, code)
      BY <1>3 DEF Quietly
    <2> HIDE DEF f
    <2> QED
      BY <1>1, <1>3, <2>1, <2>2, EndFollows
  <1>4. ASSUME UNCHANGED codes, NEW l \in {"walk", "list"}, Goto(p, l), NEW n \in Locals,
               my' = [my EXCEPT ![p] = n], n.pin = pin, n.ws = StartWriters(f), n.epoch = EpochAt(pin.gen), n.err = "none"
        PROVE  Follows'
    <2>1. ASSUME StoreOf[p] \notin faults.torn PROVE Placed(l, n, f)
      BY <1>2, <1>4, <2>1 DEF Placed, Walked
    <2>2. Quietly(p, "none") /\ "none" \notin Alarms
      BY <1>4 DEF Quietly, Alarms
    <2> HIDE DEF f, pin
    <2> QED
      BY <1>1, <1>2, <1>4, <2>1, <2>2, StillFollows DEF Goto
  <1>5. (End(p) /\ (\E code : codes' = codes \cup {<<StoreOf[p], code>>}) /\ ~OnChain(pin))
        \/ (/\ UNCHANGED codes
            /\ \E l \in {"walk", "list"} : Goto(p, l)
            /\ \E n \in Locals : /\ my' = [my EXCEPT ![p] = n] /\ n.pin = pin /\ n.ws = StartWriters(f)
                                 /\ n.epoch = EpochAt(pin.gen) /\ n.err = "none")
    BY Opens
  <1> QED
    BY <1>3, <1>4, <1>5

LEMMA ListFollows ==
  ASSUME Types, Types', Follows, OneEach, NEW p \in Procs, List(p)
  PROVE  Follows'
  <1>1. PICK e, b : my' = [my EXCEPT ![p] = [my[p] EXCEPT !.end = e, !.more = b]]
    BY Zenon DEF List, Local
  <1>2. PICK n : n = [my[p] EXCEPT !.end = e, !.more = b]
    OBVIOUS
  <1>3. /\ at' = [at EXCEPT ![p] = "walk"] /\ at[p] = "list" /\ my' = [my EXCEPT ![p] = n]
        /\ UNCHANGED <<chain, files, faults, codes>>
    BY <1>1, <1>2 DEF List, Goto
  <1>4. n.pin = my[p].pin /\ n.ws = my[p].ws /\ n.epoch = my[p].epoch /\ n.err = my[p].err
    BY <1>2, Fields DEF Locals
  <1>5. n \in Locals
    BY <1>3 DEF Types
  <1>6. ASSUME StoreOf[p] \notin faults.torn PROVE Placed("walk", n, File(p)) /\ Pinned(File(p))
    <2>1. Placed("list", my[p], File(p)) /\ Pinned(File(p))
      BY <1>3, <1>6, Own DEF Between
    <2> QED
      BY <1>4, <2>1 DEF Placed, Walking, Walked
  <1>7. Quietly(p, "none") /\ "none" \notin Alarms
    BY <1>3 DEF Quietly, Alarms
  <1> QED
    BY <1>3, <1>5, <1>6, <1>7, FileStays, StillFollows

\* Replaying a transition keeps what a resumed state has in common with the chain's.
LEMMA AppliedAlike ==
  ASSUME NEW w \in WriterStates, NEW s \in WriterStates, NEW t \in Transitions, t.kind = "add" => t.added \in Keys,
         w.version = s.version, w.writers = s.writers, w.retired = s.retired,
         w.burned \subseteq s.burned, w.consumed \subseteq s.consumed
  PROVE  LET a == ApplyTransition(w, t)
             b == ApplyTransition(s, t) IN
         /\ a.version = b.version /\ a.writers = b.writers /\ a.retired = b.retired
         /\ a.burned \subseteq b.burned /\ a.consumed \subseteq b.consumed
  <1>1. PICK a, b : a = ApplyTransition(w, t) /\ b = ApplyTransition(s, t)
    OBVIOUS
  <1>2. CASE t.kind = "add"
    <2>1. /\ a.version = w.version + 1 /\ a.writers = w.writers \cup {t.added}
          /\ a.burned = w.burned /\ a.retired = w.retired
          /\ a.consumed = IF t.grantor = None THEN w.consumed ELSE w.consumed \cup {<<t.grantor, t.added>>}
      BY <1>1, <1>2, Applied, SMTT(30)
    <2>2. /\ b.version = s.version + 1 /\ b.writers = s.writers \cup {t.added}
          /\ b.burned = s.burned /\ b.retired = s.retired
          /\ b.consumed = IF t.grantor = None THEN s.consumed ELSE s.consumed \cup {<<t.grantor, t.added>>}
      BY <1>1, <1>2, Applied
    <2>3. a.consumed \subseteq b.consumed
      BY <2>1, <2>2
    <2> QED
      BY <1>1, <2>1, <2>2, <2>3
  <1>3. CASE t.kind = "rotate" /\ t.removed # {}
    <2>1. /\ a.version = w.version + 1 /\ a.writers = w.writers \ t.removed
          /\ a.burned = w.burned \cup t.removed /\ a.consumed = w.consumed
          /\ a.retired = w.retired \cup (w.writers \cap t.removed)
      BY <1>1, <1>3, Applied, ZenonT(60)
    <2>2. /\ b.version = s.version + 1 /\ b.writers = s.writers \ t.removed
          /\ b.burned = s.burned \cup t.removed /\ b.consumed = s.consumed
          /\ b.retired = s.retired \cup (s.writers \cap t.removed)
      BY <1>1, <1>3, Applied
    <2>3. a.burned \subseteq b.burned
      BY <2>1, <2>2
    <2> QED
      BY <1>1, <2>1, <2>2, <2>3
  <1>4. CASE t.kind # "add" /\ ~(t.kind = "rotate" /\ t.removed # {})
    BY <1>4 DEF ApplyTransition
  <1> QED
    BY <1>2, <1>3, <1>4

LEMMA Accepted ==
  ASSUME Types, Chained, NEW m \in Locals, Walked(m), m.pin.gen < Newest
  PROVE  LET g == m.pin.gen + 1
             h == chain[g] IN
         /\ CheckChainLink(m.pin, m.epoch, h) /\ SignerAdmitted(m.ws, h) /\ RemovalValid(m.ws, h)
         /\ OnChain(PinAt(g)) /\ Same(ApplyTransition(m.ws, h.tr), g) /\ EpochAt(g) = h.epoch
  <1>1. PICK g : g = m.pin.gen + 1
    OBVIOUS
  <1>2. PICK h : h = chain[g]
    OBVIOUS
  <1>3. m.pin.gen \in Nat /\ Newest \in Nat /\ g \in 1 .. Newest /\ g - 1 = m.pin.gen /\ g \in 0 .. Newest
    <2>1. m.pin.gen \in Nat
      BY DEF Locals, Pins
    <2>2. Newest \in Nat
      BY DEF Types, Newest
    <2> QED
      BY <1>1, <2>1, <2>2
  <1>4. PICK s : s = WriterStateAt(m.pin.gen)
    OBVIOUS
  <1>5. s \in WriterStates /\ h \in Heads /\ h.tr \in Transitions /\ m.ws \in WriterStates
    <2>1. m.pin.gen \in 0 .. Newest
      BY <1>3
    <2>2. s \in WriterStates /\ h \in Heads
      BY <1>2, <1>3, <1>4, <2>1, Ats DEF Types
    <2> QED
      BY <2>2 DEF Heads, Locals
  <1>6. Linked(g)
    BY <1>3 DEF Chained
  <1>7. /\ h.prev = PinAt(m.pin.gen).id /\ h.epoch = EpochAt(m.pin.gen) + (IF h.tr.kind = "rotate" THEN 1 ELSE 0)
        /\ Admissible(s, h) /\ h.ws = ApplyTransition(s, h.tr)
    BY <1>2, <1>3, <1>4, <1>6 DEF Linked
  <1>8. /\ m.ws.version = s.version /\ m.ws.writers = s.writers /\ m.ws.retired = s.retired
        /\ m.ws.burned \subseteq s.burned /\ m.ws.consumed \subseteq s.consumed
        /\ m.epoch = EpochAt(m.pin.gen) /\ PinAt(m.pin.gen) = m.pin /\ m.epoch \in Nat
    BY <1>4 DEF Walked, Same, OnChain, Locals
  <1>9. CheckChainLink(m.pin, m.epoch, h)
    BY <1>7, <1>8 DEF CheckChainLink
  <1>10. Commitment(m.ws) = Commitment(s)
    BY <1>8 DEF Commitment
  <1>11. SignerAdmitted(m.ws, h)
    <2>1. CASE h.tr.kind = "add"
      BY <1>7, <1>8, <1>10, <2>1 DEF Admissible, SignerAdmitted, ValidateAddWriterKey
    <2>2. CASE h.tr.kind # "add"
      BY <1>7, <1>8, <2>2 DEF Admissible, SignerAdmitted, ResolveActiveWriter
    <2> QED
      BY <2>1, <2>2
  <1>12. RemovalValid(m.ws, h)
    BY <1>7, <1>8, <1>10 DEF Admissible, RemovalValid, ValidateWriterSetUpdate
  <1>13. Same(ApplyTransition(m.ws, h.tr), g)
    <2>1. h.tr.kind = "add" => h.tr.added \in Keys
      BY <1>7 DEF Admissible
    <2>2. PICK a, b : a = ApplyTransition(m.ws, h.tr) /\ b = ApplyTransition(s, h.tr)
      OBVIOUS
    <2>3. /\ a.version = b.version /\ a.writers = b.writers /\ a.retired = b.retired
          /\ a.burned \subseteq b.burned /\ a.consumed \subseteq b.consumed
      BY <1>5, <1>8, <2>1, <2>2, AppliedAlike
    <2>4. WriterStateAt(g) = b
      BY <1>2, <1>3, <1>7, <2>2 DEF WriterStateAt
    <2> QED
      BY <2>2, <2>3, <2>4 DEF Same
  <1>14. OnChain(PinAt(g)) /\ EpochAt(g) = h.epoch
    <2>1. PinAt(g).gen = g /\ EpochAt(g) = h.epoch
      BY <1>2, <1>3, Ats DEF Types
    <2> QED
      BY <1>3, <2>1 DEF OnChain
  <1> QED
    BY <1>1, <1>2, <1>9, <1>11, <1>12, <1>13, <1>14

LEMMA WalkFollows ==
  ASSUME Types, Types', Chained, Follows, OneEach, NEW p \in Procs, Walk(p)
  PROVE  Follows'
  <1> DEFINE m == my[p]
             g == m.pin.gen + 1
             h == chain[g]
  <1>1. at[p] = "walk" /\ UNCHANGED <<chain, faults>> /\ m \in Locals /\ File(p) \in Files
        /\ m.pin.gen \in Nat /\ m.end <= Newest /\ m.end \in Nat /\ Newest \in Nat
    BY Fields DEF Walk, Fit, Walking, Locals, Pins
  <1>2. ASSUME StoreOf[p] \notin faults.torn
        PROVE  Placed("walk", m, File(p)) /\ Pinned(File(p)) /\ Walked(m)
    <2>1. Placed("walk", m, File(p)) /\ Pinned(File(p))
      BY <1>1, <1>2, Own DEF Between
    <2> QED
      BY <2>1 DEF Placed, Walking
  <1>3. ASSUME StoreOf[p] \notin faults.torn, m.pin.gen < m.end
        PROVE  /\ CheckChainLink(m.pin, m.epoch, h) /\ SignerAdmitted(m.ws, h) /\ RemovalValid(m.ws, h)
               /\ OnChain(PinAt(g)) /\ Same(ApplyTransition(m.ws, h.tr), g) /\ EpochAt(g) = h.epoch
    BY <1>1, <1>2, <1>3, Accepted
  <1>4. Quietly(p, "none") \/ ~UNCHANGED codes
    BY DEF Quietly
  <1>5. "none" \notin Alarms
    BY DEF Alarms
  <1>6. ASSUME UNCHANGED <<files, codes>>, NEW l \in {"page1", "done1"}, Goto(p, l), NEW n \in Locals, my' = [my EXCEPT ![p] = n],
               n.pin = m.pin, n.ws = m.ws, n.epoch = m.epoch,
               StoreOf[p] \notin faults.torn => n.err # "VAULT_WRITER_NOT_ADMITTED"
        PROVE  Follows'
    <2>1. ASSUME StoreOf[p] \notin faults.torn PROVE Placed(l, n, File(p))
      BY <1>2, <1>6, <2>1 DEF Placed, Walked, Walking
    <2> HIDE DEF m
    <2> QED
      BY <1>1, <1>2, <1>4, <1>5, <1>6, <2>1, FileStays, StillFollows DEF Goto
  <1>7. CASE Goto(p, "page1") /\ UNCHANGED <<my, files, codes>>
    <2>1. my' = [my EXCEPT ![p] = m]
      BY <1>7 DEF Types
    <2> QED
      BY <1>1, <1>2, <1>6, <1>7, <2>1 DEF Walked
  <1>8. CASE /\ Local(p, [m EXCEPT !.err = "VERIFICATION_BUDGET_EXCEEDED"]) /\ Goto(p, "page1") /\ UNCHANGED <<files, codes>>
    <2>1. PICK n : n = [m EXCEPT !.err = "VERIFICATION_BUDGET_EXCEEDED"]
      OBVIOUS
    <2>2. /\ n \in Locals /\ Alike(n, m) /\ n.err = "VERIFICATION_BUDGET_EXCEEDED"
          /\ n.ws = m.ws /\ n.epoch = m.epoch
      BY Zenon, <1>1, <2>1, Marked DEF Errors
    <2>3. my' = [my EXCEPT ![p] = n]
      BY <1>8, <2>1 DEF Local
    <2> HIDE DEF m
    <2> QED
      BY <1>6, <1>8, <2>2, <2>3 DEF Alike
  <1>9. CASE /\ m.pin.gen < m.end /\ ~CheckChainLink(m.pin, m.epoch, h)
             /\ Fail(p, "CHAIN_BROKEN") /\ UNCHANGED files
    <2>1. StoreOf[p] \in faults.torn
      BY <1>3, <1>9
    <2>2. End(p) /\ Quietly(p, "CHAIN_BROKEN")
      BY <1>9 DEF Fail, Quietly
    <2> QED
      BY <1>1, <1>9, <2>1, <2>2, FileStays, EndFollows
  <1>10. CASE /\ m.pin.gen < m.end /\ ~(SignerAdmitted(m.ws, h) /\ RemovalValid(m.ws, h))
              /\ Local(p, [m EXCEPT !.err = "VAULT_WRITER_NOT_ADMITTED"]) /\ Goto(p, "done1") /\ UNCHANGED <<files, codes>>
    <2>1. PICK n : n = [m EXCEPT !.err = "VAULT_WRITER_NOT_ADMITTED"]
      OBVIOUS
    <2>2. n \in Locals /\ Alike(n, m) /\ n.ws = m.ws /\ n.epoch = m.epoch
      BY Zenon, <1>1, <2>1, Marked DEF Errors
    <2>3. my' = [my EXCEPT ![p] = n] /\ StoreOf[p] \in faults.torn
      BY <1>3, <1>10, <2>1 DEF Local
    <2> HIDE DEF m
    <2> QED
      BY <1>6, <1>10, <2>2, <2>3 DEF Alike
  <1>11. CASE m.pin.gen < m.end /\ StepOver(p, h) /\ UNCHANGED <<at, codes>>
    <2>1. h.epoch \in Nat /\ (h.tr.kind = "add" => h.tr.added \in Keys)
      <3>1. g \in 1 .. Newest /\ h \in Heads
        BY <1>1, <1>11, Stepped, ZenonT(60)
      <3> QED
        BY <3>1, ZenonT(60) DEF Heads, Chained, Linked, Admissible
    <2>2. PICK n \in Locals :
             /\ my' = [my EXCEPT ![p] = n]
             /\ n.pin = PinAt(g) /\ n.ws = ApplyTransition(m.ws, h.tr) /\ n.epoch = h.epoch /\ n.err = m.err
      BY <1>1, <1>11, <2>1, StepsTo
    <2>3. PICK f \in Files : /\ UpdateRepo(p, f)
                             /\ f.head = File(p).head /\ f.prefix = File(p).prefix /\ f.wpin = File(p).wpin
      <3>1. CASE UNCHANGED files
        BY <3>1, FileStays
      <3>2. CASE UpdateRepo(p, RecordEpochRotation(File(p), h.epoch))
        BY <2>1, <3>2, KeyKept, Fields
      <3> QED
        BY Zenon, <1>11, <3>1, <3>2 DEF StepOver
    <2>4. ASSUME StoreOf[p] \notin faults.torn PROVE Placed("walk", n, f) /\ Pinned(f)
      <3>1. Pinned(f)
        BY <1>2, <2>3, <2>4, PinnedAlike
      <3>2. PinAt(g).gen = g
        <4>1. g \in 0 .. Newest
          BY <1>1, <1>11
        <4> QED
          BY <4>1, Ats DEF Types
      <3>3. Walked(n)
        <4>1. m.err # "VAULT_WRITER_NOT_ADMITTED"
          BY <1>2, <2>4 DEF Walked
        <4>2. OnChain(PinAt(g)) /\ Same(ApplyTransition(m.ws, h.tr), g) /\ EpochAt(g) = h.epoch
          BY <1>3, <1>11, <2>4
        <4>3. n.pin.gen = g
          BY <2>2, <3>2
        <4> HIDE DEF g, h, m
        <4> QED
          BY <2>2, <4>1, <4>2, <4>3 DEF Walked
      <3> QED
        BY <3>1, <3>3 DEF Placed
    <2>5. at' = [at EXCEPT ![p] = "walk"]
      BY <1>1, <1>11 DEF Types
    <2> HIDE DEF m, h, g
    <2> QED
      BY <1>1, <1>4, <1>5, <1>11, <2>2, <2>3, <2>4, <2>5, StillFollows
  <1> QED
    BY <1>7, <1>8, <1>9, <1>10, <1>11 DEF Walk

LEMMA PinnedNow ==
  ASSUME NEW m \in Locals, Walked(m), NEW f, FilePin(f) = m.pin, f.wpin = WriterPin(m.ws, FALSE)
  PROVE  Pinned(f)
  <1>1. m.ws \in WriterStates
    BY DEF Locals
  <1>2. /\ f.wpin # None /\ f.wpin.version = m.ws.version /\ f.wpin.writers = m.ws.writers
        /\ f.wpin.retired = m.ws.retired
    <2>1. PICK w : w = m.ws
      OBVIOUS
    <2>2. f.wpin = WriterPin(w, FALSE) /\ w \in WriterStates
      BY <1>1, <2>1
    <2>3. WriterPin(w, FALSE) \in WriterPins /\ WriterPin(w, FALSE).version = w.version
          /\ WriterPin(w, FALSE).writers = w.writers /\ WriterPin(w, FALSE).retired = w.retired
      BY <2>2, WriterPinTyped
    <2>4. f.wpin # None
      BY <2>2, <2>3, Consts
    <2> QED
      BY <2>1, <2>2, <2>3, <2>4
  <1> QED
    BY <1>2 DEF Pinned, Walked, Same

LEMMA SetPin ==
  ASSUME NEW f \in Files, NEW W \in WriterPins, NEW n, n = [f EXCEPT !.wpin = W]
  PROVE  n \in Files /\ n.wpin = W /\ n.prefix = f.prefix /\ n.head = f.head
  BY DEF Files

LEMMA SetMat ==
  ASSUME NEW f \in Files, NEW P \in Pins, NEW n, n = [f EXCEPT !.mat = P]
  PROVE  n \in Files /\ n.head = f.head /\ n.prefix = f.prefix /\ n.wpin = f.wpin
  BY DEF Files

LEMMA PageFollows ==
  ASSUME Types, Types', Follows, OneEach, NEW p \in Procs, Page(p)
  PROVE  Follows'
  <1> DEFINE m == my[p]
             f == File(p)
  <1>1. /\ UNCHANGED <<chain, faults>> /\ m \in Locals /\ f \in Files /\ 0 \in f.keys /\ f.epoch \in f.keys
    BY Fields DEF Page, Fail
  <1>2. m.pin \in Pins /\ m.pin # None /\ WriterPin(m.ws, FALSE) \in WriterPins /\ m.dec \in Pins \cup {None} /\ m.err \in Errors
    BY <1>1, WriterPinTyped, Consts, ZenonT(60) DEF Locals
  <1>3. ASSUME UNCHANGED my PROVE my' = [my EXCEPT ![p] = m]
    BY <1>3 DEF Types
  <1>4. "none" \notin Alarms /\ (UNCHANGED codes => Quietly(p, "none"))
    BY DEF Alarms, Quietly
  <1>5. CASE at[p] = "page1" /\ UpdateRepo(p, [f EXCEPT !.prefix = m.pin]) /\ Goto(p, "page2") /\ UNCHANGED <<my, codes>>
    <2>1. PICK n : n = [f EXCEPT !.prefix = m.pin]
      BY Zenon
    <2>2. n \in Files /\ n.prefix = m.pin
      BY Zenon, <1>1, <1>2, <2>1, Written
    <2>3. ASSUME StoreOf[p] \notin faults.torn PROVE Placed("page2", m, n)
      <3>1. Placed("page1", m, f)
        BY <1>5, <2>3, Own
      <3> QED
        BY <2>2, <3>1 DEF Placed, Walking
    <2>4. Between("page2", m)
      BY DEF Between
    <2> HIDE DEF m, f
    <2> QED
      BY <1>1, <1>3, <1>4, <1>5, <2>1, <2>2, <2>3, <2>4, StillFollows DEF Goto
  <1>6. CASE at[p] = "page2" /\ UpdateRepo(p, [f EXCEPT !.wpin = WriterPin(m.ws, FALSE)]) /\ Goto(p, "page3") /\ UNCHANGED <<my, codes>>
    <2>1. PICK W : W = WriterPin(m.ws, FALSE)
      OBVIOUS
    <2>2. PICK n : n = [f EXCEPT !.wpin = W]
      OBVIOUS
    <2>3. n \in Files /\ n.wpin = W /\ n.prefix = f.prefix /\ n.head = f.head
      <3>1. W \in WriterPins /\ m.pin \in Pins
        BY <1>2, <2>1
      <3> HIDE DEF m, f
      <3> QED
        BY <1>1, <2>2, <3>1, SetPin
    <2>4. ASSUME StoreOf[p] \notin faults.torn PROVE Placed("page3", m, n) /\ Pinned(n)
      <3>1. Placed("page2", m, f)
        BY <1>6, <2>4, Own
      <3>2. Walked(m) /\ f.prefix = m.pin
        BY <3>1 DEF Placed, Walking
      <3>3. FilePin(n) = m.pin
        BY <1>2, <2>3, <3>2 DEF FilePin
      <3> HIDE DEF m, f
      <3> QED
        BY <1>1, <2>1, <2>3, <3>2, <3>3, PinnedNow DEF Placed, Walking
    <2>5. UpdateRepo(p, n)
      BY <1>6, <2>1, <2>2
    <2> HIDE DEF m, f
    <2> QED
      BY <1>1, <1>3, <1>4, <1>6, <2>3, <2>4, <2>5, StillFollows DEF Goto
  <1>7. CASE /\ at[p] = "page3"
             /\ UpdateRepo(p, IF ~Decrypts(p) \/ m.dec = None THEN f ELSE [f EXCEPT !.mat = m.dec])
             /\ \/ m.err # "none" /\ Fail(p, m.err)
                \/ Goto(p, IF m.more THEN "list" ELSE "catchup") /\ UNCHANGED <<my, codes>>
    <2>1. PICK n \in Files : /\ UpdateRepo(p, n)
                             /\ n.head = f.head /\ n.prefix = f.prefix /\ n.wpin = f.wpin
      <3>1. CASE UpdateRepo(p, f)
        BY <1>1, <3>1
      <3>2. CASE m.dec # None /\ UpdateRepo(p, [f EXCEPT !.mat = m.dec])
        <4>1. PICK d, n : d = m.dec /\ n = [f EXCEPT !.mat = m.dec]
          OBVIOUS
        <4>2. UpdateRepo(p, n) /\ d \in Pins /\ n = [f EXCEPT !.mat = d]
          BY <1>2, <3>2, <4>1
        <4> HIDE DEF m, f
        <4> QED
          BY <1>1, <4>2, SetMat
      <3> QED
        BY <1>7, <3>1, <3>2
    <2>2. ASSUME StoreOf[p] \notin faults.torn
          PROVE  Pinned(n) /\ Placed("page3", m, f) /\ Walked(m) /\ m.err \notin Alarms
      <3>1. Placed("page3", m, f) /\ Pinned(f)
        BY <1>7, <2>2, Own DEF Between
      <3>2. Walked(m)
        BY <3>1 DEF Placed, Walking
      <3>3. m.err \notin Alarms
        BY <1>2, <3>2 DEF Walked, Errors, Alarms
      <3> QED
        BY <2>1, <3>1, <3>2, <3>3, PinnedAlike
    <2>3. CASE Fail(p, m.err)
      <3>1. End(p) /\ Quietly(p, m.err)
        BY <2>3 DEF Fail, Quietly
      <3> HIDE DEF m, f
      <3> QED
        BY <1>1, <2>1, <2>2, <3>1, EndFollows
    <2>4. CASE Goto(p, IF m.more THEN "list" ELSE "catchup") /\ UNCHANGED <<my, codes>>
      <3>1. PICK l \in {"list", "catchup"} : Goto(p, l)
        BY <2>4
      <3>2. ASSUME StoreOf[p] \notin faults.torn PROVE Placed(l, m, n)
        BY <2>2, <3>1, <3>2 DEF Placed
      <3> HIDE DEF m, f
      <3> QED
        BY <1>1, <1>3, <1>4, <2>1, <2>2, <2>4, <3>1, <3>2, StillFollows DEF Goto
    <2> QED
      BY <1>7, <2>3, <2>4
  <1> QED
    BY <1>5, <1>6, <1>7 DEF Page

LEMMA CatchUpFollows ==
  ASSUME Types, Types', Follows, OneEach, NEW p \in Procs, CatchUp(p)
  PROVE  Follows'
  <1> DEFINE m == my[p]
             f == File(p)
  <1>1. /\ at[p] = "catchup" /\ UNCHANGED <<chain, faults, codes>> /\ m \in Locals /\ f \in Files /\ 0 \in f.keys
    BY Zenon, Fields DEF CatchUp, Fail
  <1>2. "none" \notin Alarms /\ Quietly(p, "none")
    BY <1>1 DEF Alarms, Quietly
  <1>3. ASSUME StoreOf[p] \notin faults.torn PROVE Walked(m) /\ Pinned(f)
    <2>1. Placed("catchup", m, f) /\ Pinned(f)
      BY <1>1, <1>3, Own DEF Between
    <2> QED
      BY <2>1 DEF Placed, Walking
  <1>4. CASE Goto(p, "done1") /\ UNCHANGED <<my, files>>
    <2>1. my' = [my EXCEPT ![p] = m]
      BY <1>4 DEF Types
    <2>2. ASSUME StoreOf[p] \notin faults.torn PROVE Placed("done1", m, f)
      BY <1>3, <2>2 DEF Placed
    <2> HIDE DEF m
    <2> QED
      BY <1>1, <1>2, <1>3, <1>4, <2>1, <2>2, FileStays, StillFollows DEF Goto
  <1>5. CASE CaughtUp(p)
    <2>1. PICK n \in Locals : /\ my' = [my EXCEPT ![p] = n]
                              /\ n.pin = m.pin /\ n.err = m.err /\ n.ws = m.ws /\ n.epoch = m.epoch
      BY <1>5 DEF CaughtUp, Alike
    <2>2. PICK g \in Files : /\ UpdateRepo(p, g)
                             /\ g.head = f.head /\ g.prefix = f.prefix /\ g.wpin = f.wpin
      BY <1>1, <1>5, KeyKept, FileStays DEF CaughtUp
    <2>3. ASSUME StoreOf[p] \notin faults.torn PROVE Placed("catchup", n, g) /\ Pinned(g)
      <3>1. Pinned(g)
        BY <1>3, <2>2, <2>3, PinnedAlike
      <3>2. Walked(n)
        BY <1>3, <2>1, <2>3 DEF Walked
      <3> QED
        BY <3>1, <3>2 DEF Placed
    <2>4. at' = [at EXCEPT ![p] = "catchup"]
      BY <1>1, <1>5 DEF CaughtUp, Types
    <2> HIDE DEF m, f
    <2> QED
      BY <1>1, <1>2, <2>1, <2>2, <2>3, <2>4, StillFollows
  <1> QED
    BY <1>4, <1>5, CatchesUp

LEMMA DoneFollows ==
  ASSUME Types, Types', Follows, OneEach, NEW p \in Procs, Done(p)
  PROVE  Follows'
  <1> DEFINE m == my[p]
             f == File(p)
             mat == IF m.pin.gen = 0 THEN m.pin ELSE m.dec
  <1>1. UNCHANGED <<chain, faults>> /\ m \in Locals /\ f \in Files /\ 0 \in f.keys /\ f.epoch \in f.keys
    BY Fields DEF Done, Fail
  <1>2. m.pin \in Pins /\ m.pin # None /\ WriterPin(m.ws, FALSE) \in WriterPins /\ mat \in Pins \cup {None} /\ m.err \in Errors
    BY <1>1, WriterPinTyped, Consts, ZenonT(60) DEF Locals
  <1>3. ASSUME UNCHANGED my PROVE my' = [my EXCEPT ![p] = m]
    BY <1>3 DEF Types
  <1>4. "none" \notin Alarms /\ (UNCHANGED codes => Quietly(p, "none"))
    BY DEF Alarms, Quietly
  <1>5. CASE at[p] = "done1" /\ UpdateRepo(p, [f EXCEPT !.head = m.pin, !.prefix = None]) /\ Goto(p, "done2") /\ UNCHANGED <<my, codes>>
    <2>1. PICK n : n = [f EXCEPT !.head = m.pin, !.prefix = None]
      OBVIOUS
    <2>2. n \in Files /\ n.head = m.pin /\ n.prefix = None
      BY Zenon, <1>1, <1>2, <2>1, Written
    <2>3. ASSUME StoreOf[p] \notin faults.torn PROVE Placed("done2", m, n)
      <3>1. Placed("done1", m, f)
        BY <1>5, <2>3, Own
      <3> QED
        BY <2>2, <3>1 DEF Placed, Walking
    <2>4. Between("done2", m)
      BY DEF Between
    <2> HIDE DEF m, f
    <2> QED
      BY <1>1, <1>3, <1>4, <1>5, <2>1, <2>2, <2>3, <2>4, StillFollows DEF Goto
  <1>6. CASE at[p] = "done2" /\ UpdateRepo(p, [f EXCEPT !.wpin = WriterPin(m.ws, FALSE)]) /\ Goto(p, "done3") /\ UNCHANGED <<my, codes>>
    <2>1. PICK W : W = WriterPin(m.ws, FALSE)
      OBVIOUS
    <2>2. PICK n : n = [f EXCEPT !.wpin = W]
      OBVIOUS
    <2>3. n \in Files /\ n.wpin = W /\ n.prefix = f.prefix /\ n.head = f.head
      <3>1. W \in WriterPins /\ m.pin \in Pins
        BY <1>2, <2>1
      <3> HIDE DEF m, f
      <3> QED
        BY <1>1, <2>2, <3>1, SetPin
    <2>4. ASSUME StoreOf[p] \notin faults.torn PROVE Placed("done3", m, n) /\ Pinned(n)
      <3>1. Placed("done2", m, f)
        BY <1>6, <2>4, Own
      <3>2. Walked(m) /\ f.head = m.pin /\ f.prefix = None
        BY <3>1 DEF Placed, Walking
      <3>3. FilePin(n) = m.pin
        BY <1>2, <2>3, <3>2 DEF FilePin
      <3> HIDE DEF m, f
      <3> QED
        BY <1>1, <2>1, <2>3, <3>2, <3>3, PinnedNow DEF Placed, Walking
    <2>5. UpdateRepo(p, n)
      BY <1>6, <2>1, <2>2
    <2> HIDE DEF m, f
    <2> QED
      BY <1>1, <1>3, <1>4, <1>6, <2>3, <2>4, <2>5, StillFollows DEF Goto
  <1>7. CASE /\ at[p] = "done3"
             /\ UpdateRepo(p, IF ~Decrypts(p) \/ mat = None THEN f ELSE [f EXCEPT !.mat = mat])
             /\ \/ Fail(p, m.err) \/ Fail(p, "NO_ENVELOPE") \/ Fail(p, "VAULT_EPOCH_NOT_OPENABLE")
                \/ Goto(p, "ready") /\ UNCHANGED <<my, codes>>
    <2>1. PICK n \in Files : /\ UpdateRepo(p, n)
                             /\ n.head = f.head /\ n.prefix = f.prefix /\ n.wpin = f.wpin
      <3>1. CASE UpdateRepo(p, f)
        BY <1>1, <3>1
      <3>2. CASE mat # None /\ UpdateRepo(p, [f EXCEPT !.mat = mat])
        <4> HIDE DEF mat
        <4>1. PICK d, n : d = mat /\ n = [f EXCEPT !.mat = mat]
          OBVIOUS
        <4>2. UpdateRepo(p, n) /\ d \in Pins /\ n = [f EXCEPT !.mat = d]
          BY <1>2, <3>2, <4>1
        <4> HIDE DEF m, f
        <4> QED
          BY <1>1, <4>2, SetMat
      <3> QED
        BY <1>7, <3>1, <3>2
    <2>2. ASSUME StoreOf[p] \notin faults.torn
          PROVE  Pinned(n) /\ Placed("ready", m, n) /\ m.err \notin Alarms
      <3>1. Placed("done3", m, f) /\ Pinned(f)
        BY <1>7, <2>2, Own DEF Between
      <3>2. Walked(m)
        BY <3>1 DEF Placed, Walking
      <3>3. m.err \notin Alarms
        BY <1>2, <3>2 DEF Walked, Errors, Alarms
      <3>4. Placed("ready", m, f)
        BY <3>1 DEF Placed, Walking
      <3> QED
        BY <2>1, <3>1, <3>3, <3>4, PinnedAlike
    <2>3. ASSUME NEW code, Fail(p, code), StoreOf[p] \notin faults.torn => code \notin Alarms PROVE Follows'
      <3>1. End(p) /\ Quietly(p, code)
        BY <2>3 DEF Fail, Quietly
      <3> HIDE DEF m, f
      <3> QED
        BY <1>1, <2>1, <2>2, <2>3, <3>1, EndFollows
    <2>4. CASE Goto(p, "ready") /\ UNCHANGED <<my, codes>>
      <3> HIDE DEF m, f
      <3> QED
        BY <1>1, <1>3, <1>4, <2>1, <2>2, <2>4, StillFollows DEF Goto
    <2>5. "NO_ENVELOPE" \notin Alarms /\ "VAULT_EPOCH_NOT_OPENABLE" \notin Alarms
      BY DEF Alarms
    <2> QED
      BY <1>7, <2>2, <2>3, <2>4, <2>5
  <1> QED
    BY <1>5, <1>6, <1>7 DEF Done

LEMMA PublishFollows ==
  ASSUME Types, Types', Follows, OneEach, NEW p \in Procs, Publish(p)
  PROVE  Follows'
  <1> DEFINE m == my[p]
             f == File(p)
  <1>1. /\ at[p] = "ready" /\ UNCHANGED <<chain, files, faults>>
        /\ m \in Locals /\ f \in Files /\ UpdateRepo(p, f) /\ m.pin \in Pins
    BY Publishes, Fields, FileStays DEF Locals
  <1>2. ASSUME StoreOf[p] \notin faults.torn PROVE Pinned(f) /\ f.head = m.pin /\ f.prefix = None
    <2>1. Placed("ready", m, f) /\ Pinned(f)
      BY <1>1, <1>2, Own DEF Between
    <2> QED
      BY <2>1 DEF Placed
  <1>3. CASE End(p) /\ \E code : (code \notin Alarms \/ BaseGone(p)) /\ codes' \subseteq codes \cup {<<StoreOf[p], code>>}
    <2>1. \E code : Quietly(p, code) /\ (StoreOf[p] \notin faults.torn => code \notin Alarms)
      <3>1. ASSUME StoreOf[p] \notin faults.torn PROVE ~BaseGone(p)
        <4>1. FilePin(f) = m.pin /\ m.pin.gen \in Nat /\ Newest \in Nat
          BY <1>1, <1>2, <3>1, Consts DEF FilePin, Pins, Types, Newest
        <4>2. m.pin.gen <= Newest
          BY <1>2, <3>1, <4>1 DEF Pinned, OnChain
        <4> QED
          BY <4>1, <4>2 DEF BaseGone
      <3> QED
        BY <1>3, <3>1 DEF Quietly
    <2> HIDE DEF m, f
    <2> QED
      BY <1>1, <1>2, <1>3, <2>1, EndFollows
  <1>4. ASSUME UNCHANGED codes, NEW h, Offers(p, h) PROVE Follows'
    <2>1. PICK n : n = [m EXCEPT !.prop = h]
      OBVIOUS
    <2>2. /\ at' = [at EXCEPT ![p] = "admit"] /\ my' = [my EXCEPT ![p] = n]
          /\ h \in Heads /\ h.gen = m.pin.gen + 1 /\ f.wpin # None
      BY <1>4, <2>1 DEF Offers, Submit, Goto, Local
    <2>3. n \in Locals /\ n.prop = h
      BY <1>1, <2>1, <2>2 DEF Locals
    <2>4. ASSUME StoreOf[p] \notin faults.torn PROVE Placed("admit", n, f)
      <3>1. FilePin(f) = m.pin
        BY <1>1, <1>2, <2>4, Consts DEF FilePin
      <3> QED
        BY <2>2, <2>3, <3>1 DEF Placed, Walking
    <2>5. Quietly(p, "none") /\ "none" \notin Alarms
      BY <1>4 DEF Quietly, Alarms
    <2> HIDE DEF m, f
    <2> QED
      BY <1>1, <1>2, <2>2, <2>3, <2>4, <2>5, StillFollows
  <1> QED
    BY <1>3, <1>4, Publishes

LEMMA AdmitFollows ==
  ASSUME Types, Types', Sound, Follows, OneEach, NEW p \in Procs, Admit(p)
  PROVE  Follows'
  <1>0. PICK m, f, c, I : m = my[p] /\ f = File(p) /\ c = Newest /\ I = Idle
    OBVIOUS
  <1>1. /\ at[p] = "admit" /\ UNCHANGED <<members, files>> /\ m \in Locals /\ f \in Files /\ UpdateRepo(p, f)
    BY <1>0, Admits, Fields, FileStays
  <1>2. ASSUME StoreOf[p] \notin faults.torn PROVE Pinned(f) /\ Placed("admit", m, f)
    BY <1>0, <1>1, <1>2, Own DEF Between
  <1>3. CASE /\ UNCHANGED <<chain, faults>> /\ End(p)
             /\ \E code : code \notin Alarms /\ codes' \subseteq codes \cup {<<StoreOf[p], code>>}
    <2>1. \E code : Quietly(p, code) /\ code \notin Alarms
      BY <1>3 DEF Quietly
    <2> QED
      BY <1>1, <1>2, <1>3, <2>1, EndFollows
  <1>4. CASE /\ UNCHANGED <<chain, faults, codes>> /\ Goto(p, "open")
             /\ \E n \in Locals : my' = [my EXCEPT ![p] = n] /\ Turned(n, my[p])
    <2>1. PICK n \in Locals : my' = [my EXCEPT ![p] = n]
      BY <1>4
    <2>2. Placed("open", n, f)
      BY DEF Placed, Walking
    <2>3. Quietly(p, "none") /\ "none" \notin Alarms
      BY <1>4 DEF Quietly, Alarms
    <2> QED
      BY <1>1, <1>2, <1>4, <2>1, <2>2, <2>3, StillFollows DEF Goto
  <1>5. ASSUME Adds(p)
        PROVE  /\ Newest \in Nat /\ Newest' \in Nat /\ Newest' >= Newest /\ Old(Newest)
               /\ StoreOf[p] \notin faults.torn => Pinned(f)' /\ Placed("readback", m, f)'
    <2>1. /\ c \in Nat /\ Newest' = c + 1 /\ Old(Newest)
          /\ chain'[c + 1].id = m.prop.id /\ chain'[c + 1].tr = m.prop.tr /\ m.prop.gen = c + 1
      BY <1>0, <1>1, <1>5, AddsSound, Grown, Fields DEF Adds, Successor
    <2>2. Newest \in Nat /\ Newest' \in Nat /\ Newest' >= Newest /\ Old(Newest)
      BY <1>0, <2>1
    <2>3. ASSUME StoreOf[p] \notin faults.torn PROVE Pinned(f)' /\ Placed("readback", m, f)'
      <3>1. Pinned(f)'
        BY <1>1, <1>2, <2>2, <2>3, PinnedKept
      <3>2. f.wpin # None /\ m.prop.gen = FilePin(f).gen + 1
        BY <1>2, <2>3 DEF Placed
      <3>3. OnChain(PropPin(m))'
        <4>1. PICK P : P = PropPin(m)
          OBVIOUS
        <4>2. P.gen = c + 1 /\ P = [gen |-> c + 1, id |-> chain'[c + 1].id]
          BY <2>1, <4>1 DEF PropPin
        <4>3. P.gen <= Newest' /\ PinAt(P.gen)' = P
          BY <2>1, <4>2 DEF PinAt
        <4>4. OnChain(P)'
          BY <4>3 DEF OnChain
        <4> QED
          BY <4>1, <4>4 DEF PropPin
      <3>4. m.prop.gen > 0 /\ chain'[m.prop.gen].tr = m.prop.tr
        BY <2>1
      <3> QED
        BY <3>1, <3>2, <3>3, <3>4 DEF Placed, Walking, FilePin, Genesis, PropPin
    <2> QED
      BY <2>2, <2>3
  <1>6. CASE Adds(p) /\ Goto(p, "readback") /\ UNCHANGED <<my, codes, faults>>
    <2>1. my' = [my EXCEPT ![p] = m] /\ at' = [at EXCEPT ![p] = "readback"] /\ faults'.torn = faults.torn
      BY <1>0, <1>6 DEF Types, Goto
    <2> QED
      BY <1>1, <1>5, <1>6, <2>1, FollowStep
  <1>7. CASE /\ Adds(p) /\ End(p) /\ faults' = [faults EXCEPT !.lost = faults.lost + 1]
             /\ \E code : code \notin Alarms /\ codes' \subseteq codes \cup {<<StoreOf[p], code>>}
    <2>1. my' = [my EXCEPT ![p] = I] /\ at' = [at EXCEPT ![p] = "idle"] /\ faults'.torn = faults.torn
      BY <1>0, <1>7 DEF Types, Faults, End, Goto, Local
    <2>2. \A x \in codes' : x \in codes \/ (x[1] \notin faults'.torn => x[2] \notin Alarms)
      BY <1>7
    <2>3. Placed("idle", I, f)'
      BY DEF Placed, Walking
    <2> QED
      BY <1>1, <1>5, <1>7, <2>1, <2>2, <2>3, FollowStep
  <1> QED
    BY <1>3, <1>4, <1>6, <1>7, Admits

\* The state the client writes after its own transition is the chain's.
LEMMA OwnState ==
  ASSUME Types, Chained, NEW m \in Locals, NEW g, g = m.prop.gen, g > 0, g <= Newest, chain[g].tr = m.prop.tr
  PROVE  /\ ~ChangesWriters(m.prop.tr) => WriterStateAt(g) = WriterStateAt(g - 1)
         /\ ChangesWriters(m.prop.tr) =>
              LET n == ApplyTransition(BaseState(m.prop.tr), m.prop.tr) IN
              n \in WriterStates /\ n.version = WriterStateAt(g).version /\ n.writers = WriterStateAt(g).writers
  <1>1. g \in 1 .. Newest /\ g - 1 \in 0 .. Newest /\ g \in 0 .. Newest
    <2>1. g \in Nat /\ Newest \in Nat
      BY DEF Locals, Heads, Types, Newest
    <2> QED
      BY <2>1
  <1>2. PICK t, s, x : t = m.prop.tr /\ s = WriterStateAt(g - 1) /\ x = WriterStateAt(g)
    OBVIOUS
  <1>3. Linked(g)
    BY <1>1 DEF Chained
  <1>4. s \in WriterStates /\ x = chain[g].ws /\ t \in Transitions
    <2>1. m.prop.tr \in Transitions
      BY DEF Locals, Heads
    <2> QED
      BY <1>1, <1>2, <2>1, Ats DEF Types
  <1>5. Admissible(s, chain[g]) /\ x = ApplyTransition(s, t)
    BY <1>2, <1>3, <1>4 DEF Linked
  <1>6. t.kind = "add" => t.added \in Keys
    BY <1>2, <1>5 DEF Admissible
  <1>7. ~ChangesWriters(t) => x = s
    BY <1>4, <1>5, <1>6, Applied
  <1>8. ASSUME ChangesWriters(t)
        PROVE  LET n == ApplyTransition(BaseState(t), t) IN
               n \in WriterStates /\ n.version = x.version /\ n.writers = x.writers
    <2>1. t.base = <<s.version, s.writers>>
      BY <1>2, <1>5, <1>8 DEF ChangesWriters, Admissible, ValidateAddWriterKey, ValidateWriterSetUpdate, Commitment
    <2>2. PICK b, n : b = BaseState(t) /\ n = ApplyTransition(b, t)
      OBVIOUS
    <2>3. b \in WriterStates /\ b.version = s.version /\ b.writers = s.writers
      BY <1>4, <2>1, <2>2, BaseTyped
    <2>4. n \in WriterStates
      BY <1>4, <1>6, <2>2, <2>3, Applied
    <2>5. CASE t.kind = "add"
      <3>1. n.version = b.version + 1 /\ n.writers = b.writers \cup {t.added}
        BY <1>4, <1>6, <2>2, <2>3, <2>5, Applied
      <3>2. x.version = s.version + 1 /\ x.writers = s.writers \cup {t.added}
        <4>1. PICK y : y = ApplyTransition(s, t)
          OBVIOUS
        <4>2. y.version = s.version + 1 /\ y.writers = s.writers \cup {t.added}
          BY <1>4, <1>6, <2>5, <4>1, Applied
        <4> QED
          BY <1>5, <4>1, <4>2
      <3> QED
        BY <2>2, <2>3, <2>4, <3>1, <3>2
    <2>6. CASE t.kind = "rotate" /\ t.removed # {}
      <3>1. n.version = b.version + 1 /\ n.writers = b.writers \ t.removed
        BY <1>4, <2>2, <2>3, <2>6, Applied
      <3>2. x.version = s.version + 1 /\ x.writers = s.writers \ t.removed
        <4>1. PICK y : y = ApplyTransition(s, t)
          OBVIOUS
        <4>2. y.version = s.version + 1 /\ y.writers = s.writers \ t.removed
          BY <1>4, <2>6, <4>1, Applied
        <4> QED
          BY <1>5, <4>1, <4>2
      <3> QED
        BY <2>2, <2>3, <2>4, <3>1, <3>2
    <2> QED
      BY <1>8, <2>5, <2>6 DEF ChangesWriters
  <1> QED
    BY <1>2, <1>7, <1>8

LEMMA ReadbackFollows ==
  ASSUME Types, Types', Chained, Follows, OneEach, NEW p \in Procs, Readback(p)
  PROVE  Follows'
  <1>0. PICK m, f, P : m = my[p] /\ f = File(p) /\ P = PropPin(m)
    OBVIOUS
  <1>1. /\ at[p] = "readback" /\ UNCHANGED <<chain, faults>> /\ m \in Locals /\ f \in Files
        /\ 0 \in f.keys /\ f.epoch \in f.keys
    BY <1>0, Fields DEF Readback
  <1>2. ASSUME StoreOf[p] \notin faults.torn PROVE Pinned(f) /\ Placed("readback", m, f)
    BY <1>0, <1>1, <1>2, Own DEF Between
  <1>3. P \in Pins /\ P # None /\ P.gen = m.prop.gen /\ P.gen \in Nat
    BY <1>0, <1>1, Consts DEF Locals, Heads, PropPin, Pins
  <1>4. CASE /\ UpdateRepo(p, [f EXCEPT !.head = P, !.mat = P, !.prefix = None])
             /\ Goto(p, "admitted") /\ UNCHANGED <<my, codes>>
    <2>1. PICK n : n = [f EXCEPT !.head = P, !.mat = P, !.prefix = None]
      OBVIOUS
    <2>2. n \in Files /\ n.head = P /\ n.prefix = None /\ n.wpin = f.wpin
      BY <1>1, <1>3, <2>1 DEF Files
    <2>3. FilePin(n) = P
      BY <1>3, <2>2 DEF FilePin
    <2>4. ASSUME StoreOf[p] \notin faults.torn PROVE Placed("admitted", m, n)
      <3>1. Placed("readback", m, f)
        BY <1>2, <2>4
      <3> QED
        BY <1>0, <2>2, <3>1 DEF Placed, Walking
    <2>5. ASSUME StoreOf[p] \notin faults.torn, ~ChangesWriters(m.prop.tr) PROVE Pinned(n)
      <3>1. OnChain(P) /\ P.gen > 0 /\ chain[P.gen].tr = m.prop.tr /\ f.wpin # None /\ P.gen = FilePin(f).gen + 1
        BY <1>0, <1>2, <1>3, <2>5 DEF Placed
      <3>2. WriterStateAt(P.gen) = WriterStateAt(P.gen - 1)
        BY <1>1, <1>3, <2>5, <3>1, OwnState DEF OnChain
      <3>3. P.gen - 1 = FilePin(f).gen
        BY <1>1, <3>1, FilePinTyped
      <3> QED
        BY <1>2, <2>2, <2>3, <2>5, <3>1, <3>2, <3>3 DEF Pinned
    <2>6. my' = [my EXCEPT ![p] = m]
      BY <1>0, <1>4 DEF Types
    <2>7. Quietly(p, "none") /\ "none" \notin Alarms
      BY <1>4 DEF Quietly, Alarms
    <2> QED
      BY <1>1, <1>4, <2>1, <2>2, <2>4, <2>5, <2>6, <2>7, StillFollows DEF Goto, Between
  <1>5. CASE Fail(p, "VAULT_HEAD_READBACK_MISMATCH") /\ UNCHANGED files
    <2>1. End(p) /\ Quietly(p, "VAULT_HEAD_READBACK_MISMATCH") /\ "VAULT_HEAD_READBACK_MISMATCH" \notin Alarms
      BY <1>5 DEF Fail, Quietly, Alarms
    <2>2. UpdateRepo(p, f)
      BY <1>0, <1>5, FileStays
    <2> QED
      BY <1>1, <1>2, <2>1, <2>2, EndFollows
  <1> QED
    BY <1>0, <1>4, <1>5 DEF Readback, PropPin

LEMMA EndOrPushFollows ==
  ASSUME Types, Types', Follows, OneEach, UNCHANGED <<chain, codes>>, faults'.torn = faults.torn, NEW p \in Procs, EndOrPush(p),
         NEW f \in Files, UpdateRepo(p, f), StoreOf[p] \notin faults.torn => Pinned(f)
  PROVE  Follows'
  <1>1. Quietly(p, "none") /\ "none" \notin Alarms
    BY DEF Quietly, Alarms
  <1>2. CASE End(p)
    BY <1>1, <1>2, EndFollows
  <1>3. CASE Goto(p, "open") /\ \E n \in Locals : my' = [my EXCEPT ![p] = n] /\ Turned(n, my[p])
    <2>1. PICK n \in Locals : my' = [my EXCEPT ![p] = n]
      BY <1>3
    <2>2. Placed("open", n, f)
      BY DEF Placed, Walking
    <2> QED
      BY <1>1, <1>3, <2>1, <2>2, StillFollows DEF Goto
  <1> QED
    BY <1>2, <1>3, EndOrPushes

LEMMA AdmittedFollows ==
  ASSUME Types, Types', Chained, Follows, OneEach, NEW p \in Procs, Admitted(p)
  PROVE  Follows'
  <1>0. PICK m, f, P, t : m = my[p] /\ f = File(p) /\ P = PropPin(m) /\ t = m.prop.tr
    OBVIOUS
  <1>1. /\ UNCHANGED <<chain, codes>> /\ faults'.torn = faults.torn
        /\ m \in Locals /\ f \in Files /\ 0 \in f.keys /\ f.epoch \in f.keys
    BY <1>0, Fields DEF Admitted, Types, Faults
  <1>2. P \in Pins /\ P # None /\ P.gen = m.prop.gen /\ P.gen \in Nat /\ m.prop.epoch \in Nat
    BY <1>0, <1>1, Consts DEF Locals, Heads, PropPin, Pins
  <1>3. CASE /\ at[p] = "admitted"
             /\ IF t.kind = "rotate" THEN UpdateRepo(p, RecordEpochRotation(f, m.prop.epoch)) ELSE UNCHANGED files
             /\ IF ChangesWriters(t) THEN Goto(p, "writers") /\ UNCHANGED my ELSE EndOrPush(p)
    <2>1. PICK n \in Files : UpdateRepo(p, n) /\ n.head = f.head /\ n.prefix = f.prefix /\ n.wpin = f.wpin
      <3>1. CASE UNCHANGED files
        BY <1>0, <3>1, FileStays
      <3>2. CASE UpdateRepo(p, RecordEpochRotation(f, m.prop.epoch))
        BY <1>1, <1>2, <3>2, KeyKept
      <3> QED
        BY <1>3, <3>1, <3>2
    <2>2. CASE ChangesWriters(t)
      <3>1. my' = [my EXCEPT ![p] = m] /\ at' = [at EXCEPT ![p] = "writers"]
        BY <1>0, <1>3, <2>2 DEF Types, Goto
      <3>2. ASSUME StoreOf[p] \notin faults.torn PROVE Placed("writers", m, n)
        <4>1. Placed("admitted", m, f)
          BY <1>0, <1>3, <3>2, Own
        <4> QED
          BY <1>0, <2>1, <2>2, <4>1 DEF Placed, Walking
      <3>3. Between("writers", m)
        BY <1>0, <2>2 DEF Between
      <3>4. Quietly(p, "none") /\ "none" \notin Alarms
        BY <1>1 DEF Quietly, Alarms
      <3> QED
        BY <1>1, <2>1, <3>1, <3>2, <3>3, <3>4, StillFollows
    <2>3. CASE ~ChangesWriters(t)
      <3>1. ASSUME StoreOf[p] \notin faults.torn PROVE Pinned(n)
        <4>1. Pinned(f)
          BY <1>0, <1>3, <2>3, <3>1, Own DEF Between
        <4> QED
          BY <2>1, <4>1, PinnedAlike
      <3> QED
        BY <1>1, <1>3, <2>1, <2>3, <3>1, EndOrPushFollows
    <2> QED
      BY <2>2, <2>3
  <1>4. CASE /\ at[p] = "writers"
             /\ UpdateRepo(p, [f EXCEPT !.wpin = WriterPin(ApplyTransition(BaseState(t), t), TRUE)])
             /\ EndOrPush(p)
    <2>1. PICK s, W : s = ApplyTransition(BaseState(t), t) /\ W = WriterPin(s, TRUE)
      OBVIOUS
    <2>2. PICK n : n = [f EXCEPT !.wpin = W]
      OBVIOUS
    <2>3. UpdateRepo(p, n)
      BY <1>4, <2>1, <2>2
    <2>4. t \in Transitions /\ (t.kind = "add" => t.added \in Keys)
      BY <1>0, <1>1, Fields DEF Locals, Heads, Fit
    <2>5. s \in WriterStates
      BY <2>1, <2>4, BaseTyped, Applied
    <2>6. W \in WriterPins /\ W # None /\ W.version = s.version /\ W.writers = s.writers /\ W.legacy
      BY <2>1, <2>5, WriterPinTyped, Consts, ZenonT(60)
    <2>7. n \in Files /\ n.wpin = W /\ n.prefix = f.prefix /\ n.head = f.head
      BY <1>1, <2>2, <2>6, SetPin
    <2>8. ASSUME StoreOf[p] \notin faults.torn PROVE Pinned(n)
      <3>1. Placed("writers", m, f)
        BY <1>0, <1>4, <2>8, Own
      <3>2. /\ OnChain(P) /\ P.gen > 0 /\ chain[P.gen].tr = t /\ f.head = P /\ f.prefix = None
            /\ ChangesWriters(t)
        BY <1>0, <1>2, <3>1 DEF Placed
      <3>3. s.version = WriterStateAt(P.gen).version /\ s.writers = WriterStateAt(P.gen).writers
        BY <1>0, <1>1, <1>2, <2>1, <3>2, OwnState DEF OnChain
      <3>4. FilePin(n) = P
        BY <1>2, <2>7, <3>2 DEF FilePin
      <3> QED
        BY <2>6, <2>7, <3>2, <3>3, <3>4 DEF Pinned
    <2> QED
      BY <1>1, <1>4, <2>3, <2>7, <2>8, EndOrPushFollows
  <1> QED
    BY <1>0, <1>3, <1>4 DEF Admitted, BaseState

LEMMA CrashFollows ==
  ASSUME Types, Types', Follows, OneEach, NEW p \in Procs, Crash(p)
  PROVE  Follows'
  <1>0. PICK m, f, I : m = my[p] /\ f = File(p) /\ I = Idle
    OBVIOUS
  <1>1. /\ at' = [at EXCEPT ![p] = "idle"] /\ my' = [my EXCEPT ![p] = I] /\ UNCHANGED <<chain, files, codes>>
        /\ f \in Files /\ UpdateRepo(p, f)
    BY <1>0, FileStays DEF Crash, End, Goto, Local
  <1>2. faults'.torn = IF BetweenPins(p) THEN faults.torn \cup {StoreOf[p]} ELSE faults.torn
    BY DEF Crash, Types, Faults
  <1>3. Newest' >= Newest /\ Old(Newest) /\ Newest \in Nat /\ Newest' \in Nat
    BY <1>1, Still
  <1>4. ASSUME StoreOf[p] \notin faults'.torn PROVE Pinned(f)'
    <2>1. StoreOf[p] \notin faults.torn /\ ~Between(at[p], m)
      BY <1>0, <1>2, <1>4 DEF BetweenPins, Between
    <2>2. Pinned(f)
      BY <1>0, <2>1, Own
    <2> QED
      BY <1>1, <1>3, <2>2, PinnedKept
  <1>5. Placed("idle", I, f)'
    BY DEF Placed, Walking
  <1>6. faults.torn \subseteq faults'.torn
    BY <1>2
  <1> QED
    BY <1>1, <1>3, <1>4, <1>5, <1>6, FollowStep

LEMMA SameFollows ==
  ASSUME Types, Follows, UNCHANGED <<chain, files, at, my, codes>>, faults'.torn = faults.torn
  PROVE  Follows'
  <1>1. Newest' >= Newest /\ Old(Newest) /\ Newest \in Nat /\ Newest' \in Nat
    BY Still
  <1>2. ASSUME NEW q \in Procs, StoreOf[q] \notin faults'.torn PROVE Placed(at[q], my[q], File(q))'
    <2>1. PICK k, m, g : k = at[q] /\ m = my[q] /\ g = File(q)
      OBVIOUS
    <2>2. Placed(k, m, g) /\ m \in Locals /\ g \in Files
      BY <1>2, <2>1, Fields DEF Follows
    <2>3. Placed(k, m, g)'
      BY <1>1, <2>2, PlacedKept
    <2>4. at'[q] = k /\ my'[q] = m /\ File(q)' = g
      BY <2>1 DEF File
    <2> QED
      BY <2>3, <2>4
  <1>3. ASSUME NEW s \in Keys, Whole(s)' PROVE Pinned(files[s])'
    <2>1. PICK g : g = files[s]
      OBVIOUS
    <2>2. Whole(s)
      BY <1>3 DEF Whole, Between, ChangesWriters
    <2>3. Pinned(g) /\ g \in Files
      BY <2>1, <2>2 DEF Follows, Types, FilesTyped
    <2>4. Pinned(g)'
      BY <1>1, <2>3, PinnedKept
    <2> QED
      BY <2>1, <2>4
  <1>4. \A c \in codes' : c[1] \notin faults'.torn => c[2] \notin Alarms
    BY DEF Follows
  <1> QED
    BY <1>2, <1>3, <1>4 DEF Follows, Alarms

LEMMA InitFollows == ASSUME Init PROVE Follows
  <1>1. Types
    BY InitTypes
  <1>2. chain = <<>> /\ codes = {} /\ \A p \in Procs : at[p] = "idle"
    BY DEF Init
  <1>3. \A l, m, f : l = "idle" => Placed(l, m, f)
    BY DEF Placed, Walking
  <1>4. ASSUME NEW s \in Keys PROVE Pinned(files[s])
    <2>1. PICK f : f = files[s] /\ f = NewFile
      BY DEF Init
    <2>2. FilePin(f) = Genesis /\ f.wpin = None
      BY <2>1 DEF NewFile, FilePin
    <2>3. OnChain(Genesis) /\ Genesis.gen = 0
      BY <1>1, Fields DEF OnChain, Genesis, PinAt, Types, Newest
    <2> QED
      BY <2>1, <2>2, <2>3 DEF Pinned
  <1> QED
    BY <1>2, <1>3, <1>4 DEF Follows

LEMMA NextFollows ==
  ASSUME Types, Types', Sound, OneEach, [Next]_vars, faults.rollback = 0 => Follows, faults'.rollback = 0
  PROVE  Follows'
  <1>1. CASE UNCHANGED vars
    <2>1. UNCHANGED <<chain, files, at, my, codes, faults>>
      BY <1>1 DEF vars
    <2> QED
      BY <2>1, SameFollows
  <1>2. ASSUME NEW p \in Procs, Begin(p) \/ Crash(p) \/ Step(p) PROVE Follows'
    <2>1. faults.rollback = 0
      <3>1. CASE UNCHANGED faults
        BY <3>1
      <3>2. CASE Crash(p)
        BY <3>2 DEF Crash, Types, Faults
      <3>3. CASE Admit(p)
        BY <3>1, <3>3, Admits DEF Types, Faults
      <3>4. CASE Admitted(p)
        BY <3>4 DEF Admitted, Types, Faults
      <3> QED
        BY Zenon, <1>2, <3>1, <3>2, <3>3, <3>4 DEF Step, Begin, Open, List, Walk, Page, CatchUp, Done, Publish, Readback
    <2> QED
      BY <1>2, <2>1, BeginFollows, CrashFollows, OpenFollows, ListFollows, WalkFollows, PageFollows, CatchUpFollows,
         DoneFollows, PublishFollows, AdmitFollows, ReadbackFollows, AdmittedFollows DEF Step, Sound
  <1>3. CASE RemoveMember
    <2>1. UNCHANGED <<chain, files, at, my, codes>> /\ faults'.torn = faults.torn /\ faults'.rollback = faults.rollback
      BY <1>3 DEF RemoveMember, Types, Faults
    <2> QED
      BY <2>1, SameFollows
  <1>4. CASE Rollback
    <2>1. faults'.rollback = faults.rollback + 1 /\ faults.rollback \in Nat
      BY <1>4 DEF Rollback, Types, Faults
    <2> QED
      BY <2>1
  <1> QED
    BY <1>1, <1>2, <1>3, <1>4 DEF Next

-----------------------------------------------------------------------------
(* The theorems.                                                           *)

LEMMA ChainKept == Spec => [](Types /\ Sound)
  <1>1. Init => Types /\ Sound
    BY InitTypes, InitSound
  <1>2. Types /\ Sound /\ [Next]_vars => (Types /\ Sound)'
    BY NextTypes, NextSound DEF Sound
  <1> QED
    BY <1>1, <1>2, PTL DEF Spec

\* The inductive invariant: the chain is sound, and as long as it loses no
\* head each keystore and each walk follow it.
IInv == Types /\ Sound /\ (faults.rollback = 0 => Follows)

LEMMA Kept == ASSUME OneEach PROVE Spec => []IInv
  <1>1. Init => IInv
    BY InitTypes, InitSound, InitFollows DEF IInv
  <1>2. IInv /\ [Next]_vars => IInv'
    <2> SUFFICES ASSUME IInv, [Next]_vars PROVE IInv'
      OBVIOUS
    <2>1. Types' /\ Sound'
      BY NextTypes, NextSound DEF IInv, Sound
    <2> QED
      BY <2>1, NextFollows DEF IInv
  <1> QED
    BY <1>1, <1>2, PTL DEF Spec

\* Pins, walks, heads and locals keep their types, a walk stays within the
\* chain and the budget, whatever processes share a keystore and whatever fails.
THEOREM TypeCorrect == Spec => []TypeOK
  <1>1. Types /\ Sound => TypeOK
    <2> SUFFICES ASSUME Types, Sound PROVE TypeOK
      OBVIOUS
    <2>1. \A g \in 1 .. Newest : chain[g] \in Heads /\ chain[g].gen = g
      BY DEF Types, Sound, Chained, Linked, Newest
    <2>2. ASSUME NEW s \in Keys
          PROVE  /\ {files[s].head, files[s].prefix, files[s].mat} \subseteq Pins \cup {None}
                 /\ files[s].wpin \in WriterPins \cup {None}
                 /\ files[s].epoch \in files[s].keys /\ files[s].keys \subseteq Nat
      BY DEF Types, FilesTyped, Files
    <2>3. ASSUME NEW p \in Procs
          PROVE  /\ at[p] \in Labels
                 /\ my[p].units <= plan.budget + 1 /\ my[p].conflicts <= plan.retries /\ my[p].outer <= plan.retries
                 /\ my[p].ws \in WriterStates /\ my[p].pin \in Pins /\ my[p].prop \in Heads
      BY DEF Types, Fit, Locals
    <2> QED
      BY <2>1, <2>2, <2>3 DEF TypeOK, Types
  <1> QED
    BY <1>1, ChainKept, PTL

\* As long as the gateway keeps its heads no process that did not die between
\* two pins ends in an integrity alarm: resuming from a pin, from a legacy pin
\* or from genesis, every head of the chain is accepted.
THEOREM NoFalseAlarmHolds == ASSUME OneEach PROVE Spec => []NoFalseAlarm
  <1>1. IInv => NoFalseAlarm
    BY DEF IInv, Follows, Alarms, NoFalseAlarm
  <1> QED
    BY <1>1, Kept, PTL

LEMMA Rests ==
  ASSUME IInv, NEW s \in Keys, s \notin faults.torn, faults.rollback = 0, Quiet(s)
  PROVE  Pinned(files[s]) /\ files[s] \in Files
  <1>1. Whole(s)
    BY DEF Quiet, Whole, Between
  <1> QED
    BY <1>1 DEF IInv, Follows, Types, FilesTyped

\* A keystore at rest has pinned the writer set of the generation its next
\* walk resumes from, by whatever path it came there.
THEOREM LockstepHolds == ASSUME OneEach PROVE Spec => []Lockstep
  <1>1. IInv => Lockstep
    <2> SUFFICES ASSUME IInv, NEW s \in Keys, s \notin faults.torn, faults.rollback = 0, Quiet(s),
                        NEW f, f = files[s], NEW pin, pin = (IF f.prefix # None THEN f.prefix ELSE f.head), pin # None
                 PROVE  /\ Commitment(PinnedWriters(f)) = Commitment(WriterStateAt(pin.gen))
                        /\ f.wpin # None /\ ~f.wpin.legacy => f.wpin.retired = WriterStateAt(pin.gen).retired
      BY DEF Lockstep
    <2>1. Pinned(f) /\ FilePin(f) = pin
      BY Rests DEF FilePin
    <2>2. CASE f.wpin = None
      <3>1. WriterStateAt(pin.gen) = InitialWriterState
        BY <2>1, <2>2 DEF Pinned, WriterStateAt
      <3> QED
        BY <2>2, <3>1 DEF PinnedWriters
    <2>3. CASE f.wpin # None
      <3>1. PICK r : r = Resumed(f.wpin)
        OBVIOUS
      <3>2. r.version = f.wpin.version /\ r.writers = f.wpin.writers
        BY <3>1 DEF Resumed, InitialWriterState
      <3> QED
        BY <2>1, <2>3, <3>1, <3>2 DEF Pinned, PinnedWriters, Commitment
    <2> QED
      BY <2>2, <2>3
  <1> QED
    BY <1>1, Kept, PTL

-----------------------------------------------------------------------------
(* The head pin.                                                           *)

HeadGen(f) == IF f.head = None THEN 0 ELSE f.head.gen
Listing == {"list", "walk", "page1", "page2", "page3"}
Closing == {"catchup", "done1", "done2", "done3"}

\* A keystore that pinned no publication's writers resumes where it was.
Steady(l, m, f) ==
  /\ f.wpin # None => ~f.wpin.legacy
  /\ f.prefix # None => f.prefix.gen >= HeadGen(f)
  /\ l \in Walking => m.pin.gen >= HeadGen(f)

\* One that starts over from genesis walks up to its head pin before it closes.
Regains(l, m, f) ==
  /\ HeadGen(f) <= Newest
  /\ l \in Listing /\ m.err = "none" /\ ~m.more => m.end >= HeadGen(f)
  /\ l \in {"page1", "page2", "page3"} /\ m.err = "none" => m.pin.gen >= m.end
  /\ l \in Closing /\ m.err = "none" => m.pin.gen >= HeadGen(f)

Heading(s, l, m, f) ==
  /\ l \in {"done2", "done3", "ready", "admit", "readback"} => f.head = m.pin
  /\ l \in {"admit", "readback"} => m.prop.gen = m.pin.gen + 1
  /\ l \in {"list", "walk"} \cup Closing => m.err # "VERIFICATION_BUDGET_EXCEEDED"
  /\ s \notin faults.rebuilt => Steady(l, m, f)
  /\ s \notin faults.torn /\ faults.rollback = 0 => Regains(l, m, f)

Headed == \A p \in Procs : Heading(StoreOf[p], at[p], my[p], File(p))

\* History only grows, and as long as there is no rollback so does the chain.
Later ==
  /\ faults.torn \subseteq faults'.torn /\ faults.rebuilt \subseteq faults'.rebuilt
  /\ faults.rollback \in Nat /\ faults'.rollback \in Nat
  /\ faults'.rollback = 0 => faults.rollback = 0 /\ Newest' >= Newest /\ Newest \in Nat /\ Newest' \in Nat

LEMMA HeadGenTyped ==
  ASSUME NEW f \in Files
  PROVE  HeadGen(f) \in Nat /\ \A x \in Pins : x.gen \in Nat /\ x # None
BY Consts DEF HeadGen, Files, Pins

LEMMA HeadingKept ==
  ASSUME Later, NEW s, NEW l, NEW m, NEW f \in Files, Heading(s, l, m, f)
  PROVE  Heading(s, l, m, f)'
  <1>1. HeadGen(f) \in Nat
    BY HeadGenTyped
  <1>2. s \notin faults'.rebuilt => Steady(l, m, f)
    BY DEF Heading, Later
  <1>3. ASSUME s \notin faults'.torn, faults'.rollback = 0 PROVE Regains(l, m, f)'
    <2>1. Regains(l, m, f) /\ Newest' >= Newest /\ Newest \in Nat /\ Newest' \in Nat
      BY <1>3 DEF Heading, Later
    <2> QED
      BY <1>1, <2>1 DEF Regains, HeadGen
  <1> QED
    BY <1>2, <1>3 DEF Heading, Steady, HeadGen

\* A step of one process, with its file.
LEMMA HeadStep ==
  ASSUME Types, Headed, OneEach, Later, NEW p \in Procs, NEW l, NEW n, NEW f,
         at' = [at EXCEPT ![p] = l], my' = [my EXCEPT ![p] = n], UpdateRepo(p, f),
         Heading(StoreOf[p], l, n, f)'
  PROVE  Headed'
  <1>1. /\ at'[p] = l /\ my'[p] = n /\ files'[StoreOf[p]] = f
        /\ \A q \in Procs \ {p} : at'[q] = at[q] /\ my'[q] = my[q] /\ File(q)' = File(q)
    BY Consts DEF Types, FilesTyped, UpdateRepo, File, OneEach
  <1>2. ASSUME NEW q \in Procs PROVE Heading(StoreOf[q], at[q], my[q], File(q))'
    <2>1. CASE q = p
      <3>1. at'[q] = l /\ my'[q] = n /\ File(q)' = f
        BY <1>1, <2>1 DEF File
      <3> QED
        BY <2>1, <3>1
    <2>2. CASE q # p
      <3>1. PICK k, m, g : k = at[q] /\ m = my[q] /\ g = File(q)
        OBVIOUS
      <3>2. Heading(StoreOf[q], k, m, g) /\ g \in Files
        BY <3>1, Fields DEF Headed
      <3>3. Heading(StoreOf[q], k, m, g)'
        BY <3>2, HeadingKept
      <3>4. at'[q] = k /\ my'[q] = m /\ File(q)' = g
        BY <1>1, <2>2, <3>1
      <3> QED
        BY <3>3, <3>4
    <2> QED
      BY <2>1, <2>2
  <1> QED
    BY <1>2 DEF Headed

\* A step of one process that leaves chain and history as they are.
LEMMA HeadStays ==
  ASSUME Types, Headed, OneEach, Later, UNCHANGED <<chain, faults>>, NEW p \in Procs, NEW l, NEW n, NEW f,
         at' = [at EXCEPT ![p] = l], my' = [my EXCEPT ![p] = n], UpdateRepo(p, f),
         Heading(StoreOf[p], l, n, f)
  PROVE  Headed'
  <1>1. Heading(StoreOf[p], l, n, f)'
    BY DEF Heading, Steady, Regains, HeadGen, Newest
  <1> QED
    BY <1>1, HeadStep

LEMMA LaterStays == ASSUME Types, UNCHANGED <<chain, faults>> PROVE Later
  BY DEF Types, Faults, Later, Newest

LEMMA Resting ==
  ASSUME Types, NEW s, NEW l, NEW n, NEW k, NEW m, NEW f, NEW g, Heading(s, k, m, f),
         l \in {"idle", "open"}, HeadGen(g) = HeadGen(f), g.prefix = f.prefix, g.wpin = f.wpin
  PROVE  Heading(s, l, n, g)
  BY DEF Heading, Steady, Regains, Walking, Listing, Closing

LEMMA EndHeads ==
  ASSUME Types, Headed, OneEach, UNCHANGED <<chain, faults>>, NEW p \in Procs, End(p), UNCHANGED files
  PROVE  Headed'
  <1>1. PICK I, f : I = Idle /\ f = File(p)
    OBVIOUS
  <1>2. at' = [at EXCEPT ![p] = "idle"] /\ my' = [my EXCEPT ![p] = I] /\ UpdateRepo(p, f)
    BY <1>1, FileStays DEF End, Goto, Local
  <1>3. Heading(StoreOf[p], "idle", I, f)
    BY <1>1, Resting DEF Headed
  <1> QED
    BY <1>2, <1>3, LaterStays, HeadStays

LEMMA BeginHeads ==
  ASSUME Types, Headed, OneEach, NEW p \in Procs, Begin(p)
  PROVE  Headed'
  <1>1. PICK n : my' = [my EXCEPT ![p] = n]
    BY Zenon DEF Begin, Local
  <1>2. PICK f : f = File(p)
    OBVIOUS
  <1>3. /\ at' = [at EXCEPT ![p] = "open"] /\ UNCHANGED <<chain, faults, files>> /\ UpdateRepo(p, f)
    BY <1>2, FileStays DEF Begin, Goto
  <1>4. Heading(StoreOf[p], "open", n, f)
    BY <1>2, Resting DEF Headed
  <1> QED
    BY <1>1, <1>3, <1>4, LaterStays, HeadStays

LEMMA OpenHeads ==
  ASSUME Types, Headed, OneEach, NEW p \in Procs, Open(p)
  PROVE  Headed'
  <1>0. PICK f, pin, s : f = File(p) /\ pin = StartPin(f) /\ s = StoreOf[p]
    OBVIOUS
  <1>1. UNCHANGED <<chain, files, faults>> /\ f \in Files /\ UpdateRepo(p, f)
    BY <1>0, Opens, FileStays
  <1>2. CASE End(p)
    BY <1>1, <1>2, EndHeads
  <1>3. ASSUME NEW l \in {"walk", "list"}, Goto(p, l), NEW n \in Locals, my' = [my EXCEPT ![p] = n],
               n.pin = pin, n.err = "none", n.end = Newest, pin.gen <= Newest
        PROVE  Headed'
    <2>1. Heading(s, at[p], my[p], f)
      BY <1>0 DEF Headed
    <2>2. HeadGen(f) \in Nat /\ pin \in Pins /\ pin.gen \in Nat /\ Newest \in Nat
      BY <1>0, <1>1, HeadGenTyped, StartsTyped, Fields
    <2>3. ASSUME s \notin faults.rebuilt PROVE Steady(l, n, f)
      <3>1. (f.wpin # None => ~f.wpin.legacy) /\ (f.prefix # None => f.prefix.gen >= HeadGen(f))
        BY <2>1, <2>3 DEF Heading, Steady
      <3>2. pin = IF f.prefix # None THEN f.prefix ELSE IF f.head # None THEN f.head ELSE Genesis
        BY <1>0, <3>1 DEF StartPin
      <3>3. pin.gen >= HeadGen(f)
        BY <2>2, <3>1, <3>2 DEF HeadGen
      <3> QED
        BY <1>3, <3>1, <3>3 DEF Steady
    <2>4. ASSUME s \notin faults.torn, faults.rollback = 0 PROVE Regains(l, n, f)
      <3>1. HeadGen(f) <= Newest
        BY <2>1, <2>4 DEF Heading, Regains
      <3> QED
        BY <1>3, <2>2, <3>1 DEF Regains, Closing
    <2>5. Heading(s, l, n, f)
      BY <1>3, <2>3, <2>4 DEF Heading, Closing
    <2> QED
      BY <1>0, <1>1, <1>3, <2>5, LaterStays, HeadStays DEF Goto
  <1> QED
    BY <1>0, <1>2, <1>3, Opens

LEMMA ListHeads ==
  ASSUME Types, Headed, OneEach, NEW p \in Procs, List(p)
  PROVE  Headed'
  <1>0. PICK m, f, s : m = my[p] /\ f = File(p) /\ s = StoreOf[p]
    OBVIOUS
  <1>1. m \in Locals /\ f \in Files /\ Newest \in Nat /\ plan.page \in Nat \ {0} /\ m.pin.gen \in Nat /\ HeadGen(f) \in Nat
    BY <1>0, Fields, HeadGenTyped DEF Locals, Pins, PlanSet
  <1>2. PICK e, b : /\ e \in Nat /\ b \in BOOLEAN /\ (~b => e >= Newest)
                    /\ my' = [my EXCEPT ![p] = [m EXCEPT !.end = e, !.more = b]]
    <2>1. PICK e : /\ e = IF Newest <= m.pin.gen THEN m.pin.gen
                          ELSE IF Newest < m.pin.gen + plan.page THEN Newest ELSE m.pin.gen + plan.page
                   /\ my' = [my EXCEPT ![p] = [m EXCEPT !.end = e, !.more = (e < Newest)]]
      BY <1>0, ZenonT(60) DEF List, Local
    <2>2. e \in Nat /\ (~(e < Newest) => e >= Newest)
      BY <1>1, <2>1
    <2>3. (e < Newest) \in BOOLEAN
      OBVIOUS
    <2> QED
      BY <2>1, <2>2, <2>3, ZenonT(60)
  <1>3. PICK n : n = [m EXCEPT !.end = e, !.more = b]
    OBVIOUS
  <1>4. n.pin = m.pin /\ n.err = m.err /\ n.end = e /\ n.more = b
    BY <1>1, <1>3 DEF Locals
  <1>5. /\ at[p] = "list" /\ at' = [at EXCEPT ![p] = "walk"] /\ my' = [my EXCEPT ![p] = n]
        /\ UNCHANGED <<chain, files, faults>> /\ UpdateRepo(p, f)
    BY <1>0, <1>2, <1>3, FileStays DEF List, Goto
  <1>6. Heading(s, "list", m, f)
    BY <1>0, <1>5 DEF Headed
  <1>7. s \notin faults.rebuilt => Steady("walk", n, f)
    BY <1>4, <1>6 DEF Heading, Steady, Walking
  <1>8. ASSUME s \notin faults.torn, faults.rollback = 0 PROVE Regains("walk", n, f)
    <2>1. HeadGen(f) <= Newest
      BY <1>6, <1>8 DEF Heading, Regains
    <2> QED
      BY <1>1, <1>2, <1>4, <2>1 DEF Regains, Closing
  <1>9. Heading(s, "walk", n, f)
    BY <1>4, <1>6, <1>7, <1>8 DEF Heading, Closing
  <1> QED
    BY <1>0, <1>5, <1>9, LaterStays, HeadStays

LEMMA WalkHeads ==
  ASSUME Types, Chained, Headed, OneEach, NEW p \in Procs, Walk(p)
  PROVE  Headed'
  <1>0. PICK m, f, s, g, h : m = my[p] /\ f = File(p) /\ s = StoreOf[p] /\ g = m.pin.gen + 1 /\ h = chain[g]
    OBVIOUS
  <1>1. /\ m \in Locals /\ f \in Files /\ Newest \in Nat /\ m.pin.gen \in Nat /\ HeadGen(f) \in Nat
        /\ m.end \in Nat /\ m.end <= Newest /\ at[p] = "walk" /\ UNCHANGED <<chain, faults>>
    BY <1>0, Fields, HeadGenTyped DEF Locals, Pins, Walk, Fit, Walking
  <1>2. Heading(s, "walk", m, f)
    BY <1>0, <1>1 DEF Headed
  <1>3. CASE m.pin.gen >= m.end /\ Goto(p, "page1") /\ UNCHANGED <<my, files>>
    <2>1. my' = [my EXCEPT ![p] = m] /\ at' = [at EXCEPT ![p] = "page1"] /\ UpdateRepo(p, f)
      BY <1>0, <1>3, FileStays DEF Types, Goto
    <2>2. s \notin faults.rebuilt => Steady("page1", m, f)
      BY <1>2 DEF Heading, Steady, Walking
    <2>3. s \notin faults.torn /\ faults.rollback = 0 => Regains("page1", m, f)
      BY <1>2, <1>3 DEF Heading, Regains, Listing, Closing
    <2>4. Heading(s, "page1", m, f)
      BY <2>2, <2>3 DEF Heading, Closing
    <2> QED
      BY <1>0, <1>1, <2>1, <2>4, LaterStays, HeadStays
  <1>4. ASSUME NEW l, NEW e \in Errors,
               <<l, e>> \in {<<"page1", "VERIFICATION_BUDGET_EXCEEDED">>, <<"done1", "VAULT_WRITER_NOT_ADMITTED">>},
               Local(p, [m EXCEPT !.err = e]), Goto(p, l), UNCHANGED files
        PROVE  Headed'
    <2>1. PICK n : n = [m EXCEPT !.err = e]
      OBVIOUS
    <2>2. n.pin = m.pin /\ n.err = e /\ e # "none"
      BY <1>1, <1>4, <2>1 DEF Locals
    <2>3. my' = [my EXCEPT ![p] = n] /\ at' = [at EXCEPT ![p] = l] /\ UpdateRepo(p, f)
      BY <1>0, <1>4, <2>1, FileStays DEF Local, Goto
    <2>4. l \in {"page1", "done1"} /\ (l = "done1" => e = "VAULT_WRITER_NOT_ADMITTED")
      BY <1>4
    <2>5. s \notin faults.rebuilt => Steady(l, n, f)
      BY <1>2, <2>2 DEF Heading, Steady, Walking
    <2>6. s \notin faults.torn /\ faults.rollback = 0 => Regains(l, n, f)
      BY <1>2, <2>2 DEF Heading, Regains
    <2>7. Heading(s, l, n, f)
      BY <2>2, <2>4, <2>5, <2>6 DEF Heading, Closing
    <2> QED
      BY <1>0, <1>1, <2>3, <2>7, LaterStays, HeadStays
  <1>5. CASE m.pin.gen < m.end /\ StepOver(p, h) /\ UNCHANGED at
    <2>1. h.epoch \in Nat /\ (h.tr.kind = "add" => h.tr.added \in Keys) /\ g \in 1 .. Newest
      <3>1. g \in 1 .. Newest /\ h \in Heads
        BY <1>0, <1>1, <1>5, Stepped, ZenonT(60)
      <3> QED
        BY <1>0, <3>1, ZenonT(60) DEF Heads, Chained, Linked, Admissible
    <2>2. PICK n \in Locals : /\ my' = [my EXCEPT ![p] = n]
                              /\ n.pin = PinAt(g) /\ n.err = m.err /\ n.end = m.end /\ n.more = m.more
      BY <1>0, <1>1, <1>5, <2>1, Stepped, ZenonT(60)
    <2>3. PICK k \in Files : /\ UpdateRepo(p, k) /\ k.head = f.head /\ k.prefix = f.prefix /\ k.wpin = f.wpin
      <3>1. CASE UNCHANGED files
        BY <1>0, <3>1, FileStays
      <3>2. CASE UpdateRepo(p, RecordEpochRotation(File(p), h.epoch))
        BY <1>0, <2>1, <3>2, KeyKept, Fields
      <3> QED
        BY Zenon, <1>0, <1>5, <3>1, <3>2 DEF StepOver
    <2>4. n.pin.gen = g
      BY <2>1, <2>2, Ats DEF Types
    <2>5. at' = [at EXCEPT ![p] = "walk"]
      BY <1>1, <1>5 DEF Types
    <2>6. s \notin faults.rebuilt => Steady("walk", n, k)
      BY <1>0, <1>1, <1>2, <2>3, <2>4 DEF Heading, Steady, Walking, HeadGen
    <2>7. s \notin faults.torn /\ faults.rollback = 0 => Regains("walk", n, k)
      BY <1>2, <2>2, <2>3 DEF Heading, Regains, Listing, Closing, HeadGen
    <2>8. Heading(s, "walk", n, k)
      BY <1>2, <2>2, <2>6, <2>7 DEF Heading, Closing
    <2> QED
      BY <1>0, <1>1, <2>2, <2>3, <2>5, <2>8, LaterStays, HeadStays
  <1>6. CASE End(p) /\ UNCHANGED files
    BY <1>1, <1>6, EndHeads
  <1>7. "VERIFICATION_BUDGET_EXCEEDED" \in Errors /\ "VAULT_WRITER_NOT_ADMITTED" \in Errors
    BY DEF Errors
  <1> QED
    BY <1>0, <1>3, <1>4, <1>5, <1>6, <1>7 DEF Walk, Fail

LEMMA PageHeads ==
  ASSUME Types, Headed, OneEach, NEW p \in Procs, Page(p)
  PROVE  Headed'
  <1>0. PICK m, f, s : m = my[p] /\ f = File(p) /\ s = StoreOf[p]
    OBVIOUS
  <1>1. /\ m \in Locals /\ f \in Files /\ m.pin.gen \in Nat /\ HeadGen(f) \in Nat /\ m.end \in Nat
        /\ 0 \in f.keys /\ f.epoch \in f.keys
        /\ m.pin \in Pins /\ m.pin # None /\ m.dec \in Pins \cup {None} /\ UNCHANGED <<chain, faults>>
    BY <1>0, Fields, HeadGenTyped DEF Locals, Page, Pins
  <1>2. Heading(s, at[p], m, f)
    BY <1>0 DEF Headed
  <1>3. UNCHANGED my => my' = [my EXCEPT ![p] = m]
    BY <1>0 DEF Types
  <1>4. CASE at[p] = "page1" /\ UpdateRepo(p, [f EXCEPT !.prefix = m.pin]) /\ Goto(p, "page2") /\ UNCHANGED my
    <2>1. PICK n : n = [f EXCEPT !.prefix = m.pin]
      OBVIOUS
    <2>2. n.head = f.head /\ n.prefix = m.pin /\ n.wpin = f.wpin
      BY <1>1, <2>1 DEF Files
    <2>3. s \notin faults.rebuilt => Steady("page2", m, n)
      BY <1>1, <1>2, <1>4, <2>2 DEF Heading, Steady, Walking, HeadGen
    <2>4. s \notin faults.torn /\ faults.rollback = 0 => Regains("page2", m, n)
      BY <1>2, <1>4, <2>2 DEF Heading, Regains, Listing, Closing, HeadGen
    <2>5. Heading(s, "page2", m, n)
      BY <2>3, <2>4 DEF Heading, Closing
    <2> QED
      BY <1>0, <1>1, <1>3, <1>4, <2>1, <2>5, LaterStays, HeadStays DEF Goto
  <1>5. CASE at[p] = "page2" /\ UpdateRepo(p, [f EXCEPT !.wpin = WriterPin(m.ws, FALSE)]) /\ Goto(p, "page3") /\ UNCHANGED my
    <2>1. PICK n : n = [f EXCEPT !.wpin = WriterPin(m.ws, FALSE)]
      OBVIOUS
    <2>2. n.head = f.head /\ n.prefix = f.prefix /\ ~n.wpin.legacy
      BY <1>1, <2>1 DEF Files, WriterPin
    <2>3. s \notin faults.rebuilt => Steady("page3", m, n)
      BY <1>1, <1>2, <1>5, <2>2 DEF Heading, Steady, Walking, HeadGen
    <2>4. s \notin faults.torn /\ faults.rollback = 0 => Regains("page3", m, n)
      BY <1>2, <1>5, <2>2 DEF Heading, Regains, Listing, Closing, HeadGen
    <2>5. Heading(s, "page3", m, n)
      BY <2>3, <2>4 DEF Heading, Closing
    <2> QED
      BY <1>0, <1>1, <1>3, <1>5, <2>1, <2>5, LaterStays, HeadStays DEF Goto
  <1>6. CASE /\ at[p] = "page3"
             /\ UpdateRepo(p, IF ~Decrypts(p) \/ m.dec = None THEN f ELSE [f EXCEPT !.mat = m.dec])
             /\ \/ m.err # "none" /\ End(p)
                \/ m.err = "none" /\ Goto(p, IF m.more THEN "list" ELSE "catchup") /\ UNCHANGED my
    <2>1. PICK n : /\ UpdateRepo(p, n) /\ n.head = f.head /\ n.prefix = f.prefix /\ n.wpin = f.wpin
      <3>1. [f EXCEPT !.mat = m.dec].head = f.head /\ [f EXCEPT !.mat = m.dec].prefix = f.prefix
            /\ [f EXCEPT !.mat = m.dec].wpin = f.wpin
        BY <1>1 DEF Files
      <3> QED
        BY <1>6, <3>1
    <2>2. HeadGen(n) = HeadGen(f)
      BY <2>1 DEF HeadGen
    <2>3. CASE End(p)
      <3>1. PICK I : I = Idle
        OBVIOUS
      <3>2. at' = [at EXCEPT ![p] = "idle"] /\ my' = [my EXCEPT ![p] = I]
        BY <2>3, <3>1 DEF End, Goto, Local
      <3>3. Heading(s, "idle", I, n)
        BY <1>2, <2>1, <2>2, Resting
      <3> QED
        BY <1>0, <1>1, <2>1, <3>2, <3>3, LaterStays, HeadStays
    <2>4. CASE m.err = "none" /\ Goto(p, IF m.more THEN "list" ELSE "catchup") /\ UNCHANGED my
      <3>1. PICK l : l = IF m.more THEN "list" ELSE "catchup"
        OBVIOUS
      <3>2. s \notin faults.rebuilt => Steady(l, m, n)
        BY <1>2, <1>6, <2>1, <2>2 DEF Heading, Steady, Walking
      <3>3. ASSUME s \notin faults.torn, faults.rollback = 0 PROVE Regains(l, m, n)
        <4>1. /\ HeadGen(f) <= Newest /\ m.pin.gen >= m.end /\ (~m.more => m.end >= HeadGen(f))
          BY <1>2, <1>6, <2>4, <3>3 DEF Heading, Regains, Listing
        <4> QED
          BY <1>1, <2>2, <3>1, <4>1 DEF Regains, Listing, Closing
      <3>4. Heading(s, l, m, n)
        BY <2>4, <3>1, <3>2, <3>3 DEF Heading, Closing
      <3> QED
        BY <1>0, <1>1, <1>3, <2>1, <2>4, <3>1, <3>4, LaterStays, HeadStays DEF Goto
    <2> QED
      BY <1>6, <2>3, <2>4
  <1> QED
    BY <1>0, <1>4, <1>5, <1>6 DEF Page, Fail

LEMMA CatchUpHeads ==
  ASSUME Types, Headed, OneEach, NEW p \in Procs, CatchUp(p)
  PROVE  Headed'
  <1>0. PICK m, f, s : m = my[p] /\ f = File(p) /\ s = StoreOf[p]
    OBVIOUS
  <1>1. /\ at[p] = "catchup" /\ UNCHANGED <<chain, faults>> /\ m \in Locals /\ f \in Files /\ 0 \in f.keys
    BY Zenon, <1>0, Fields DEF CatchUp
  <1>2. Heading(s, "catchup", m, f)
    BY <1>0, <1>1 DEF Headed
  <1>3. ASSUME NEW l \in {"catchup", "done1"}, at' = [at EXCEPT ![p] = l], NEW n, my' = [my EXCEPT ![p] = n],
               n.pin = m.pin, n.err = m.err, NEW g, UpdateRepo(p, g),
               g.head = f.head, g.prefix = f.prefix, g.wpin = f.wpin
        PROVE  Headed'
    <2>1. s \notin faults.rebuilt => Steady(l, n, g)
      BY <1>2, <1>3 DEF Heading, Steady, Walking, HeadGen
    <2>2. s \notin faults.torn /\ faults.rollback = 0 => Regains(l, n, g)
      BY <1>2, <1>3 DEF Heading, Regains, Listing, Closing, HeadGen
    <2>3. Heading(s, l, n, g)
      BY <1>2, <1>3, <2>1, <2>2 DEF Heading, Closing
    <2> QED
      BY <1>0, <1>1, <1>3, <2>3, LaterStays, HeadStays
  <1>4. CASE Goto(p, "done1") /\ UNCHANGED <<my, files>>
    <2>1. my' = [my EXCEPT ![p] = m] /\ at' = [at EXCEPT ![p] = "done1"] /\ UpdateRepo(p, f)
      BY <1>0, <1>4, FileStays DEF Types, Goto
    <2> QED
      BY <1>3, <2>1
  <1>5. CASE CaughtUp(p)
    <2>1. PICK n \in Locals : my' = [my EXCEPT ![p] = n] /\ n.pin = m.pin /\ n.err = m.err
      BY <1>0, <1>5 DEF CaughtUp, Alike
    <2>2. PICK g \in Files : /\ UpdateRepo(p, g)
                             /\ g.head = f.head /\ g.prefix = f.prefix /\ g.wpin = f.wpin
      BY <1>0, <1>1, <1>5, KeyKept, FileStays DEF CaughtUp
    <2>3. at' = [at EXCEPT ![p] = "catchup"]
      BY <1>1, <1>5 DEF CaughtUp, Types
    <2> QED
      BY <1>3, <2>1, <2>2, <2>3
  <1> QED
    BY <1>4, <1>5, CatchesUp

LEMMA DoneHeads ==
  ASSUME Types, Headed, OneEach, NEW p \in Procs, Done(p)
  PROVE  Headed'
  <1>0. PICK m, f, s, mat : m = my[p] /\ f = File(p) /\ s = StoreOf[p] /\ mat = IF m.pin.gen = 0 THEN m.pin ELSE m.dec
    OBVIOUS
  <1>1. /\ m \in Locals /\ f \in Files /\ m.pin.gen \in Nat /\ HeadGen(f) \in Nat /\ Newest \in Nat
        /\ m.pin \in Pins /\ m.pin # None /\ UNCHANGED <<chain, faults>>
        /\ at[p] \in Walking => m.pin.gen <= Newest
    BY <1>0, Fields, HeadGenTyped DEF Locals, Done, Pins, Fit
  <1>2. Heading(s, at[p], m, f)
    BY <1>0 DEF Headed
  <1>3. UNCHANGED my => my' = [my EXCEPT ![p] = m]
    BY <1>0 DEF Types
  <1>4. CASE at[p] = "done1" /\ UpdateRepo(p, [f EXCEPT !.head = m.pin, !.prefix = None]) /\ Goto(p, "done2") /\ UNCHANGED my
    <2>1. PICK n : n = [f EXCEPT !.head = m.pin, !.prefix = None]
      OBVIOUS
    <2>2. n.head = m.pin /\ n.prefix = None /\ n.wpin = f.wpin
      BY <1>1, <2>1 DEF Files
    <2>3. HeadGen(n) = m.pin.gen /\ m.pin.gen <= Newest
      BY <1>1, <1>4, <2>2 DEF HeadGen, Walking
    <2>4. s \notin faults.rebuilt => Steady("done2", m, n)
      BY <1>1, <1>2, <1>4, <2>2, <2>3 DEF Heading, Steady
    <2>5. Regains("done2", m, n)
      BY <1>1, <2>3 DEF Regains, Listing, Closing
    <2>6. Heading(s, "done2", m, n)
      BY <1>2, <1>4, <2>2, <2>4, <2>5 DEF Heading, Closing
    <2> QED
      BY <1>0, <1>1, <1>3, <1>4, <2>1, <2>6, LaterStays, HeadStays DEF Goto
  <1>5. CASE at[p] = "done2" /\ UpdateRepo(p, [f EXCEPT !.wpin = WriterPin(m.ws, FALSE)]) /\ Goto(p, "done3") /\ UNCHANGED my
    <2>1. PICK n : n = [f EXCEPT !.wpin = WriterPin(m.ws, FALSE)]
      OBVIOUS
    <2>2. n.head = f.head /\ n.prefix = f.prefix /\ ~n.wpin.legacy
      BY <1>1, <2>1 DEF Files, WriterPin
    <2>3. s \notin faults.rebuilt => Steady("done3", m, n)
      BY <1>1, <1>2, <1>5, <2>2 DEF Heading, Steady, Walking, HeadGen
    <2>4. s \notin faults.torn /\ faults.rollback = 0 => Regains("done3", m, n)
      BY <1>2, <1>5, <2>2 DEF Heading, Regains, Listing, Closing, HeadGen
    <2>5. Heading(s, "done3", m, n)
      BY <1>2, <1>5, <2>2, <2>3, <2>4 DEF Heading, Closing
    <2> QED
      BY <1>0, <1>1, <1>3, <1>5, <2>1, <2>5, LaterStays, HeadStays DEF Goto
  <1>6. CASE /\ at[p] = "done3"
             /\ UpdateRepo(p, IF ~Decrypts(p) \/ mat = None THEN f ELSE [f EXCEPT !.mat = mat])
             /\ End(p) \/ (Goto(p, "ready") /\ UNCHANGED my)
    <2>1. PICK n : /\ UpdateRepo(p, n) /\ n.head = f.head /\ n.prefix = f.prefix /\ n.wpin = f.wpin
      <3>1. [f EXCEPT !.mat = mat].head = f.head /\ [f EXCEPT !.mat = mat].prefix = f.prefix
            /\ [f EXCEPT !.mat = mat].wpin = f.wpin
        BY <1>1 DEF Files
      <3> QED
        BY <1>6, <3>1
    <2>2. HeadGen(n) = HeadGen(f)
      BY <2>1 DEF HeadGen
    <2>3. CASE End(p)
      <3>1. PICK I : I = Idle
        OBVIOUS
      <3>2. at' = [at EXCEPT ![p] = "idle"] /\ my' = [my EXCEPT ![p] = I]
        BY <2>3, <3>1 DEF End, Goto, Local
      <3>3. Heading(s, "idle", I, n)
        BY <1>2, <2>1, <2>2, Resting
      <3> QED
        BY <1>0, <1>1, <2>1, <3>2, <3>3, LaterStays, HeadStays
    <2>4. CASE Goto(p, "ready") /\ UNCHANGED my
      <3>1. s \notin faults.rebuilt => Steady("ready", m, n)
        BY <1>2, <2>1, <2>2 DEF Heading, Steady, Walking
      <3>2. s \notin faults.torn /\ faults.rollback = 0 => Regains("ready", m, n)
        BY <1>2, <2>2 DEF Heading, Regains, Listing, Closing
      <3>3. Heading(s, "ready", m, n)
        BY <1>2, <1>6, <2>1, <3>1, <3>2 DEF Heading, Closing
      <3> QED
        BY <1>0, <1>1, <1>3, <2>1, <2>4, <3>3, LaterStays, HeadStays DEF Goto
    <2> QED
      BY <1>6, <2>3, <2>4
  <1> QED
    BY <1>0, <1>4, <1>5, <1>6 DEF Done, Fail

LEMMA PublishHeads ==
  ASSUME Types, Headed, OneEach, NEW p \in Procs, Publish(p)
  PROVE  Headed'
  <1>0. PICK m, f, s : m = my[p] /\ f = File(p) /\ s = StoreOf[p]
    OBVIOUS
  <1>1. at[p] = "ready" /\ UNCHANGED <<chain, files, faults>> /\ m \in Locals /\ UpdateRepo(p, f)
    BY <1>0, Publishes, Fields, FileStays
  <1>2. Heading(s, "ready", m, f)
    BY <1>0, <1>1 DEF Headed
  <1>3. CASE End(p)
    BY <1>1, <1>3, EndHeads
  <1>4. ASSUME NEW h, Offers(p, h) PROVE Headed'
    <2>1. PICK n : n = [m EXCEPT !.prop = h]
      OBVIOUS
    <2>2. at' = [at EXCEPT ![p] = "admit"] /\ my' = [my EXCEPT ![p] = n] /\ h.gen = m.pin.gen + 1
      BY <1>0, <1>4, <2>1 DEF Offers, Submit, Goto, Local
    <2>3. n.prop = h /\ n.pin = m.pin
      BY <1>1, <2>1 DEF Locals
    <2>4. s \notin faults.rebuilt => Steady("admit", n, f)
      BY <1>2 DEF Heading, Steady, Walking
    <2>5. s \notin faults.torn /\ faults.rollback = 0 => Regains("admit", n, f)
      BY <1>2 DEF Heading, Regains, Listing, Closing
    <2>6. Heading(s, "admit", n, f)
      BY <1>2, <2>2, <2>3, <2>4, <2>5 DEF Heading, Closing
    <2> QED
      BY <1>0, <1>1, <2>2, <2>6, LaterStays, HeadStays
  <1> QED
    BY <1>3, <1>4, Publishes

LEMMA AdmitHeads ==
  ASSUME Types, Headed, OneEach, NEW p \in Procs, Admit(p)
  PROVE  Headed'
  <1>0. PICK m, f, s, I : m = my[p] /\ f = File(p) /\ s = StoreOf[p] /\ I = Idle
    OBVIOUS
  <1>1. at[p] = "admit" /\ UNCHANGED files /\ m \in Locals /\ f \in Files /\ UpdateRepo(p, f) /\ HeadGen(f) \in Nat
    BY <1>0, Admits, Fields, FileStays, HeadGenTyped
  <1>2. Heading(s, "admit", m, f)
    BY <1>0, <1>1 DEF Headed
  <1>3. CASE UNCHANGED <<chain, faults>> /\ End(p)
    BY <1>1, <1>3, EndHeads
  <1>4. ASSUME UNCHANGED <<chain, faults>>, Goto(p, "open"), NEW n, my' = [my EXCEPT ![p] = n] PROVE Headed'
    <2>1. Heading(s, "open", n, f)
      BY <1>2, Resting
    <2> QED
      BY <1>0, <1>1, <1>4, <2>1, LaterStays, HeadStays DEF Goto
  <1>5. ASSUME Adds(p), faults' \in Faults, faults'.torn = faults.torn, faults'.rebuilt = faults.rebuilt,
               faults'.rollback = faults.rollback
        PROVE  Later
    <2>1. Newest' = Newest + 1 /\ Newest \in Nat
      BY <1>5, Grown, Fields
    <2> QED
      BY <1>5, <2>1 DEF Later, Types, Faults
  <1>6. CASE Adds(p) /\ Goto(p, "readback") /\ UNCHANGED <<my, codes, faults>>
    <2>1. Later
      BY <1>5, <1>6 DEF Types
    <2>2. Heading(s, "readback", m, f)
      <3>1. s \notin faults.rebuilt => Steady("readback", m, f)
        BY <1>2 DEF Heading, Steady, Walking
      <3>2. s \notin faults.torn /\ faults.rollback = 0 => Regains("readback", m, f)
        BY <1>2 DEF Heading, Regains, Listing, Closing
      <3> QED
        BY <1>2, <3>1, <3>2 DEF Heading, Closing
    <2>3. Heading(s, "readback", m, f)'
      BY <1>1, <2>1, <2>2, HeadingKept
    <2>4. my' = [my EXCEPT ![p] = m] /\ at' = [at EXCEPT ![p] = "readback"]
      BY <1>0, <1>6 DEF Types, Goto
    <2> QED
      BY <1>0, <1>1, <2>1, <2>3, <2>4, HeadStep
  <1>7. CASE Adds(p) /\ End(p) /\ faults' = [faults EXCEPT !.lost = faults.lost + 1]
    <2>1. /\ faults' \in Faults /\ faults'.torn = faults.torn /\ faults'.rebuilt = faults.rebuilt
          /\ faults'.rollback = faults.rollback
      BY <1>7 DEF Types, Faults
    <2>2. Later
      BY <1>5, <1>7, <2>1
    <2>3. Heading(s, "idle", I, f)
      BY <1>2, Resting
    <2>4. Heading(s, "idle", I, f)'
      BY <1>1, <2>2, <2>3, HeadingKept
    <2>5. my' = [my EXCEPT ![p] = I] /\ at' = [at EXCEPT ![p] = "idle"]
      BY <1>0, <1>7 DEF End, Goto, Local
    <2> QED
      BY <1>0, <1>1, <2>2, <2>4, <2>5, HeadStep
  <1> QED
    BY <1>3, <1>4, <1>6, <1>7, Admits

LEMMA ReadbackHeads ==
  ASSUME Types, Headed, OneEach, NEW p \in Procs, Readback(p)
  PROVE  Headed'
  <1>0. PICK m, f, s, P : m = my[p] /\ f = File(p) /\ s = StoreOf[p] /\ P = PropPin(m)
    OBVIOUS
  <1>1. /\ at[p] = "readback" /\ UNCHANGED <<chain, faults>> /\ m \in Locals /\ f \in Files
        /\ P.gen = m.prop.gen /\ P.gen \in Nat /\ P # None /\ Newest \in Nat
    BY <1>0, Fields, Consts DEF Readback, Locals, Heads, PropPin, Pins
  <1>2. Heading(s, "readback", m, f)
    BY <1>0, <1>1 DEF Headed
  <1>3. CASE OnChain(P) /\ UpdateRepo(p, [f EXCEPT !.head = P, !.mat = P, !.prefix = None]) /\ Goto(p, "admitted") /\ UNCHANGED my
    <2>1. PICK n : n = [f EXCEPT !.head = P, !.mat = P, !.prefix = None]
      OBVIOUS
    <2>2. n.head = P /\ n.prefix = None /\ n.wpin = f.wpin
      BY <1>1, <2>1 DEF Files
    <2>3. HeadGen(n) <= Newest
      BY <1>1, <1>3, <2>2 DEF HeadGen, OnChain
    <2>4. s \notin faults.rebuilt => Steady("admitted", m, n)
      BY <1>2, <2>2 DEF Heading, Steady, Walking
    <2>5. Regains("admitted", m, n)
      BY <2>3 DEF Regains, Listing, Closing
    <2>6. Heading(s, "admitted", m, n)
      BY <2>4, <2>5 DEF Heading, Closing
    <2>7. my' = [my EXCEPT ![p] = m]
      BY <1>0, <1>3 DEF Types
    <2> QED
      BY <1>0, <1>1, <1>3, <2>1, <2>6, <2>7, LaterStays, HeadStays DEF Goto
  <1>4. CASE End(p) /\ UNCHANGED files
    BY <1>1, <1>4, EndHeads
  <1> QED
    BY <1>0, <1>3, <1>4 DEF Readback, PropPin, Fail

LEMMA EndOrPushHeads ==
  ASSUME Types, Headed, OneEach, Later, UNCHANGED chain, NEW p \in Procs, EndOrPush(p), NEW f \in Files, UpdateRepo(p, f),
         Heading(StoreOf[p], "idle", my[p], f)'
  PROVE  Headed'
  <1>1. ASSUME NEW l \in {"idle", "open"}, NEW n, at' = [at EXCEPT ![p] = l], my' = [my EXCEPT ![p] = n] PROVE Headed'
    <2>1. Heading(StoreOf[p], l, n, f)'
      BY <1>1 DEF Heading, Steady, Regains, Walking, Listing, Closing
    <2> QED
      BY <1>1, <2>1, HeadStep
  <1>2. CASE End(p)
    <2>1. PICK I : I = Idle
      OBVIOUS
    <2>2. at' = [at EXCEPT ![p] = "idle"] /\ my' = [my EXCEPT ![p] = I]
      BY <1>2, <2>1 DEF End, Goto, Local
    <2> QED
      BY <1>1, <2>2
  <1> QED
    BY <1>1, <1>2, EndOrPushes DEF Goto

LEMMA AdmittedHeads ==
  ASSUME Types, Types', Headed, OneEach, NEW p \in Procs, Admitted(p)
  PROVE  Headed'
  <1>0. PICK m, f, s, t : m = my[p] /\ f = File(p) /\ s = StoreOf[p] /\ t = m.prop.tr
    OBVIOUS
  <1>1. /\ UNCHANGED chain /\ m \in Locals /\ f \in Files /\ 0 \in f.keys /\ f.epoch \in f.keys /\ HeadGen(f) \in Nat
        /\ m.prop.epoch \in Nat
    BY <1>0, Fields, HeadGenTyped DEF Admitted, Locals, Heads
  <1>2. Heading(s, at[p], m, f)
    BY <1>0 DEF Headed
  <1>3. CASE /\ at[p] = "admitted" /\ UNCHANGED faults
             /\ IF t.kind = "rotate" THEN UpdateRepo(p, RecordEpochRotation(f, m.prop.epoch)) ELSE UNCHANGED files
             /\ IF ChangesWriters(t) THEN Goto(p, "writers") /\ UNCHANGED my ELSE EndOrPush(p)
    <2>1. PICK n \in Files : UpdateRepo(p, n) /\ n.head = f.head /\ n.prefix = f.prefix /\ n.wpin = f.wpin
      <3>1. CASE UNCHANGED files
        BY <1>0, <3>1, FileStays
      <3>2. CASE UpdateRepo(p, RecordEpochRotation(f, m.prop.epoch))
        BY <1>1, <3>2, KeyKept
      <3> QED
        BY <1>3, <3>1, <3>2
    <2>2. Later
      BY <1>1, <1>3, LaterStays
    <2>3. ASSUME NEW l \in {"writers", "idle"}, NEW k PROVE Heading(s, l, k, n)
      BY <1>2, <1>3, <2>1, <2>3 DEF Heading, Steady, Regains, Walking, Listing, Closing, HeadGen
    <2>4. CASE ChangesWriters(t)
      <3>1. my' = [my EXCEPT ![p] = m] /\ at' = [at EXCEPT ![p] = "writers"]
        BY <1>0, <1>3, <2>4 DEF Types, Goto
      <3> QED
        BY <1>0, <1>1, <1>3, <2>1, <2>2, <2>3, <3>1, HeadStays
    <2>5. CASE ~ChangesWriters(t)
      <3>1. PICK k : k = my'[p]
        OBVIOUS
      <3>2. Heading(s, "idle", k, n)'
        BY <2>1, <2>2, <2>3, HeadingKept
      <3> QED
        BY <1>0, <1>1, <1>3, <2>1, <2>2, <2>5, <3>1, <3>2, EndOrPushHeads
    <2> QED
      BY <2>4, <2>5
  <1>4. CASE /\ at[p] = "writers" /\ EndOrPush(p) /\ faults' = [faults EXCEPT !.rebuilt = faults.rebuilt \cup {s}]
             /\ \E W : UpdateRepo(p, [f EXCEPT !.wpin = W])
    <2>1. PICK W, n : n = [f EXCEPT !.wpin = W] /\ UpdateRepo(p, n)
      BY <1>4
    <2>2. n.head = f.head /\ n.prefix = f.prefix /\ n = files'[s]
      BY <1>0, <1>1, <2>1, Consts DEF Files, UpdateRepo, Types, FilesTyped
    <2>3. n \in Files
      BY <1>0, <2>2, Consts DEF Types, FilesTyped
    <2>4. /\ faults'.torn = faults.torn /\ faults'.rollback = faults.rollback /\ faults.rollback \in Nat
          /\ faults'.rebuilt = faults.rebuilt \cup {s}
      BY <1>4 DEF Types, Faults
    <2>5. Later
      BY <1>1, <2>4, Still DEF Later
    <2>6. PICK k : k = my'[p]
      OBVIOUS
    <2>7. Heading(s, "idle", k, n)'
      <3>1. ASSUME s \notin faults'.torn, faults'.rollback = 0 PROVE Regains("idle", k, n)'
        <4>1. HeadGen(f) <= Newest
          BY <1>2, <2>4, <3>1 DEF Heading, Regains
        <4> QED
          BY <1>1, <2>2, <4>1 DEF Regains, Listing, Closing, HeadGen, Newest
      <3> QED
        BY <2>4, <3>1 DEF Heading, Closing
    <2> QED
      BY <1>0, <1>1, <1>4, <2>1, <2>3, <2>5, <2>6, <2>7, EndOrPushHeads
  <1> QED
    BY <1>0, <1>3, <1>4 DEF Admitted

LEMMA CrashHeads ==
  ASSUME Types, Types', Headed, OneEach, NEW p \in Procs, Crash(p)
  PROVE  Headed'
  <1>0. PICK f, I : f = File(p) /\ I = Idle
    OBVIOUS
  <1>1. /\ at' = [at EXCEPT ![p] = "idle"] /\ my' = [my EXCEPT ![p] = I] /\ UNCHANGED <<chain, files>>
        /\ f \in Files /\ UpdateRepo(p, f)
    BY <1>0, FileStays DEF Crash, End, Goto, Local
  <1>2. faults.torn \subseteq faults'.torn /\ faults'.rebuilt = faults.rebuilt /\ faults'.rollback = faults.rollback
        /\ faults.rollback \in Nat
    BY DEF Crash, Types, Faults
  <1>3. Later
    BY <1>1, <1>2, Still DEF Later
  <1>4. Heading(StoreOf[p], "idle", I, f)
    BY <1>0, Resting DEF Headed
  <1>5. Heading(StoreOf[p], "idle", I, f)'
    BY <1>1, <1>3, <1>4, HeadingKept
  <1> QED
    BY <1>1, <1>3, <1>5, HeadStep

LEMMA SameHeads ==
  ASSUME Types, Headed, Later, UNCHANGED <<files, at, my>>
  PROVE  Headed'
  <1>1. ASSUME NEW q \in Procs PROVE Heading(StoreOf[q], at[q], my[q], File(q))'
    <2>1. PICK k, m, g : k = at[q] /\ m = my[q] /\ g = File(q)
      OBVIOUS
    <2>2. Heading(StoreOf[q], k, m, g) /\ g \in Files
      BY <2>1, Fields DEF Headed
    <2>3. Heading(StoreOf[q], k, m, g)'
      BY <2>2, HeadingKept
    <2>4. at'[q] = k /\ my'[q] = m /\ File(q)' = g
      BY <2>1 DEF File
    <2> QED
      BY <2>3, <2>4
  <1> QED
    BY <1>1 DEF Headed

LEMMA InitHeads == ASSUME Init PROVE Headed
  <1>1. ASSUME NEW p \in Procs PROVE Heading(StoreOf[p], at[p], my[p], File(p))
    <2>1. PICK f, m : f = File(p) /\ m = my[p]
      OBVIOUS
    <2>2. at[p] = "idle" /\ f.head = None /\ f.prefix = None /\ f.wpin = None /\ chain = <<>>
      BY <2>1, Consts DEF Init, File, NewFile
    <2>3. HeadGen(f) = 0 /\ Newest = 0
      BY <2>2 DEF HeadGen, Newest
    <2> QED
      BY <2>1, <2>2, <2>3 DEF Heading, Steady, Regains, Walking, Listing, Closing
  <1> QED
    BY <1>1 DEF Headed

LEMMA NextHeads == ASSUME Types, Types', Sound, Headed, OneEach, [Next]_vars PROVE Headed'
  <1>1. CASE UNCHANGED vars
    BY <1>1, LaterStays, SameHeads DEF vars
  <1>2. ASSUME NEW p \in Procs, Begin(p) \/ Crash(p) \/ Step(p) PROVE Headed'
    BY <1>2, BeginHeads, CrashHeads, OpenHeads, ListHeads, WalkHeads, PageHeads, CatchUpHeads, DoneHeads,
       PublishHeads, AdmitHeads, ReadbackHeads, AdmittedHeads DEF Step, Sound
  <1>3. CASE RemoveMember
    <2>1. /\ UNCHANGED <<chain, files, at, my>> /\ faults'.torn = faults.torn /\ faults'.rebuilt = faults.rebuilt
          /\ faults'.rollback = faults.rollback /\ faults.rollback \in Nat
      BY <1>3 DEF RemoveMember, Types, Faults
    <2>2. Later
      BY <2>1, Still DEF Later
    <2> QED
      BY <2>1, <2>2, SameHeads
  <1>4. CASE Rollback
    <2>1. /\ UNCHANGED <<files, at, my>> /\ faults'.torn = faults.torn /\ faults'.rebuilt = faults.rebuilt
          /\ faults'.rollback = faults.rollback + 1 /\ faults.rollback \in Nat
      BY <1>4 DEF Rollback, Types, Faults
    <2>2. Later
      BY <2>1 DEF Later
    <2> QED
      BY <2>1, <2>2, SameHeads
  <1> QED
    BY <1>1, <1>2, <1>3, <1>4 DEF Next

-----------------------------------------------------------------------------

\* A keystore that a step of another process, or none, leaves alone.
LEMMA PinMoves ==
  ASSUME IInv, Headed, OneEach, [Next]_vars, NEW s \in Keys, files[s].head # None, files'[s].head # None,
         s \notin faults.rebuilt \/ (s \notin faults.torn /\ faults.rollback = 0)
  PROVE  files'[s].head.gen >= files[s].head.gen
  <1>0. PICK f, n : f = files[s] /\ n = files'[s]
    OBVIOUS
  <1>1. Types /\ f \in Files /\ HeadGen(f) = f.head.gen /\ f.head.gen \in Nat
    BY <1>0 DEF IInv, Types, FilesTyped, HeadGen, Files, Pins
  <1>2. ASSUME UNCHANGED files PROVE n.head.gen >= f.head.gen
    BY <1>0, <1>1, <1>2
  <1>3. ASSUME NEW p \in Procs, NEW g, UpdateRepo(p, g), g.head = File(p).head PROVE n.head.gen >= f.head.gen
    BY <1>0, <1>1, <1>3, Consts DEF UpdateRepo, File, Types, FilesTyped
  <1>4. ASSUME NEW p \in Procs, NEW g, UpdateRepo(p, g), StoreOf[p] = s, NEW k, g.head = k, k.gen >= f.head.gen
        PROVE  n.head.gen >= f.head.gen
    BY <1>0, <1>1, <1>4, Consts DEF UpdateRepo, Types, FilesTyped
  <1>5. ASSUME NEW p \in Procs, NEW g, UpdateRepo(p, g), StoreOf[p] # s PROVE n.head.gen >= f.head.gen
    BY <1>0, <1>1, <1>5, Consts DEF UpdateRepo, Types, FilesTyped
  <1>6. ASSUME NEW p \in Procs, Begin(p) \/ Crash(p) \/ Step(p) PROVE n.head.gen >= f.head.gen
    <2>0. PICK m, d : m = my[p] /\ d = File(p)
      OBVIOUS
    <2>1. /\ m \in Locals /\ d \in Files /\ 0 \in d.keys /\ m.prop.epoch \in Nat
          /\ \A e \in Nat : RecordEpochRotation(d, e).head = d.head
      <3>1. m \in Locals /\ d \in Files /\ 0 \in d.keys
        BY <1>1, <2>0, Fields
      <3>2. m.prop \in Heads
        BY <3>1 DEF Locals
      <3> QED
        BY <3>1, <3>2, KeyKept DEF Heads
    <2>8. (StoreOf[p] = s => d = f) /\ Heading(StoreOf[p], at[p], m, d)
      BY <1>0, <2>0 DEF File, Headed
    <2>2. CASE Walk(p)
      <3>1. CASE UNCHANGED files
        BY <1>2, <3>1
      <3>2. CASE \E h \in Heads : UpdateRepo(p, RecordEpochRotation(d, h.epoch))
        BY <1>3, <2>0, <2>1, <2>8, <3>2 DEF Heads
      <3>3. ~UNCHANGED files => StepOver(p, chain[m.pin.gen + 1]) /\ m.pin.gen < m.end /\ at[p] = "walk"
        BY <2>0, <2>2 DEF Walk
      <3> QED
        BY <1>1, <2>0, <3>1, <3>2, <3>3, Stepped, ZenonT(60) DEF StepOver
    <2>3. CASE Page(p)
      <3>1. /\ \A x : [d EXCEPT !.prefix = x].head = d.head /\ [d EXCEPT !.mat = x].head = d.head
                      /\ [d EXCEPT !.wpin = x].head = d.head
        BY <2>1, <2>8 DEF Files
      <3>2. \E g : UpdateRepo(p, g) /\ g.head = d.head
        BY <2>0, <2>3, <3>1 DEF Page
      <3> QED
        BY <1>3, <2>0, <3>2
    <2>4. CASE CatchUp(p)
      <3>1. CASE \E e \in Nat : UpdateRepo(p, RecordEpochRotation(d, e))
        BY <1>3, <2>0, <2>1, <2>8, <3>1
      <3> QED
        BY <1>1, <1>2, <2>0, <2>4, <3>1, CatchesUp DEF CaughtUp
    <2>5. CASE Done(p)
      <3>1. \A x : [d EXCEPT !.mat = x].head = d.head /\ [d EXCEPT !.wpin = x].head = d.head
                   /\ [d EXCEPT !.head = x, !.prefix = None].head = x
        BY <2>1, <2>8 DEF Files
      <3>2. (\E g : UpdateRepo(p, g) /\ g.head = d.head)
            \/ (at[p] = "done1" /\ \E g : UpdateRepo(p, g) /\ g.head = m.pin)
        BY <2>0, <2>5, <3>1 DEF Done
      <3>3. ASSUME at[p] = "done1", StoreOf[p] = s PROVE m.pin.gen >= f.head.gen
        <4>1. CASE s \notin faults.rebuilt
          BY <1>1, <2>1, <2>8, <3>3, <4>1 DEF Heading, Steady, Walking
        <4>2. CASE s \notin faults.torn /\ faults.rollback = 0
          <5>1. Placed("done1", m, f)
            BY <2>0, <2>1, <2>8, <3>3, <4>2 DEF IInv, Follows
          <5>2. m.err # "VAULT_WRITER_NOT_ADMITTED" /\ m.err # "VERIFICATION_BUDGET_EXCEEDED" /\ m.err \in Errors
            BY <2>1, <2>8, <3>3, <5>1 DEF Placed, Walking, Walked, Heading, Closing, Locals
          <5>3. m.err = "none" /\ Regains("done1", m, f)
            BY <2>1, <2>8, <3>3, <4>2, <5>2 DEF Errors, Heading
          <5> QED
            BY <1>1, <5>3 DEF Regains, Closing
        <4> QED
          BY <4>1, <4>2
      <3> QED
        BY <1>3, <1>4, <1>5, <2>0, <3>2, <3>3
    <2>6. CASE Readback(p)
      <3>1. PICK P : P = PropPin(m)
        OBVIOUS
      <3>2. \A x : [d EXCEPT !.head = x, !.mat = x, !.prefix = None].head = x
        BY <2>1, <2>8 DEF Files
      <3>3. UNCHANGED files \/ (at[p] = "readback" /\ \E g : UpdateRepo(p, g) /\ g.head = P)
        BY <2>0, <2>6, <3>1, <3>2 DEF Readback, PropPin
      <3>4. ASSUME at[p] = "readback", StoreOf[p] = s PROVE P.gen >= f.head.gen
        <4>1. P.gen = m.pin.gen + 1 /\ f.head = m.pin
          BY <2>1, <2>8, <3>1, <3>4 DEF Heading, PropPin
        <4> QED
          BY <1>1, <4>1
      <3> QED
        BY <1>2, <1>4, <1>5, <3>3, <3>4
    <2>7. CASE Admitted(p)
      <3>1. \A x : [d EXCEPT !.wpin = x].head = d.head
        BY <2>1, <2>8 DEF Files
      <3>2. UNCHANGED files \/ \E g : UpdateRepo(p, g) /\ g.head = d.head
        BY <2>0, <2>1, <2>8, <2>7, <3>1 DEF Admitted
      <3> QED
        BY <1>2, <1>3, <2>0, <3>2
    <2> QED
      BY Zenon, <1>2, <1>6, <2>2, <2>3, <2>4, <2>5, <2>6, <2>7
         DEF Step, Begin, Crash, Open, List, Publish, Admit
  <1>7. ASSUME RemoveMember \/ Rollback \/ UNCHANGED vars PROVE n.head.gen >= f.head.gen
    BY <1>2, <1>7 DEF RemoveMember, Rollback, vars
  <1> QED
    BY <1>0, <1>6, <1>7 DEF Next

\* Whatever races and whatever answer is lost, a pin that a keystore authenticated
\* is only replaced by one of the same or a newer generation: a keystore that
\* resumes does so at its pin, and one that walks again from genesis gets as far
\* as its pin before it writes the new one, if its process did not die between
\* two pins and the gateway lost no head.
THEOREM HeadPinHolds == ASSUME OneEach PROVE Spec => HeadPinNeverMovesBack
  <1>1. Init => Headed
    BY InitHeads
  <1>2. IInv /\ IInv' /\ Headed /\ [Next]_vars => Headed'
    BY NextHeads DEF IInv
  <1>3. IInv /\ Headed /\ [Next]_vars
          => [\A s \in Keys : files[s].head # None /\ files'[s].head # None
                 => \/ files'[s].head.gen >= files[s].head.gen
                    \/ s \in faults.rebuilt /\ (s \in faults.torn \/ faults.rollback > 0)]_vars
    <2> SUFFICES ASSUME IInv, Headed, [Next]_vars, NEW s \in Keys, files[s].head # None, files'[s].head # None,
                        ~(s \in faults.rebuilt /\ (s \in faults.torn \/ faults.rollback > 0))
                 PROVE  files'[s].head.gen >= files[s].head.gen
      OBVIOUS
    <2>1. faults.rollback \in Nat
      BY DEF IInv, Types, Faults
    <2>2. s \notin faults.rebuilt \/ (s \notin faults.torn /\ faults.rollback = 0)
      BY <2>1
    <2> QED
      BY <2>2, PinMoves
  <1> QED
    BY <1>1, <1>2, <1>3, Kept, PTL DEF Spec, HeadPinNeverMovesBack
-----------------------------------------------------------------------------
(* The epoch keys.                                                         *)

\* The epoch of the chain only rises, a rotation is sealed to the keyed members
\* it found confirmed or writers, and those of a later one that an earlier found so
\* are recipients of that one as well.
Rotation(g) == chain[g].tr.kind = "rotate"
Eligible(g) == WriterStateAt(g - 1).writers \cup ConfirmedAt(g - 1)
Readers == members \ Keyless
Rising == \A g \in 0 .. Newest : EpochAt(g) <= EpochAt(Newest)
Sealed == \A g \in 1 .. Newest : Rotation(g) => Readers \cap Eligible(g) \subseteq chain[g].incl
Nested ==
  \A k \in 1 .. Newest : \A g \in 1 .. k :
    Rotation(g) /\ Rotation(k) => chain[k].incl \cap Eligible(g) \subseteq chain[g].incl

\* A principal that some rotation up to generation g left out.
Excluded(s, g) == \E k \in 1 .. g : Rotation(k) /\ s \notin chain[k].incl
Covers(s, f, g) == EpochAt(g) <= f.epoch \/ Excluded(s, g)

\* Where a process is on the chain, and what it put up for admission there.
Near(l, m) ==
  /\ l \in Walking \cup {"ready", "admit"} => m.pin.gen \in 0 .. Newest
  /\ l \in Walking \cup {"ready"} => m.epoch = EpochAt(m.pin.gen)
  /\ l = "admit" => /\ m.prop.gen = m.pin.gen + 1
                    /\ m.prop.tr.kind = "rotate" =>
                         /\ m.prop.epoch = EpochAt(m.pin.gen) + 1
                         /\ \A k \in 1 .. m.pin.gen : Rotation(k) => m.prop.incl \cap Eligible(k) \subseteq chain[k].incl
                         /\ m.prop.gen = Newest + 1 => Readers \cap Eligible(m.prop.gen) \subseteq m.prop.incl
  /\ l \in {"readback", "admitted"} => m.prop.gen \in 1 .. Newest /\ chain[m.prop.gen].epoch = m.prop.epoch

\* A keystore holds every epoch key up to its pointer, and none of its pins is
\* in a later epoch unless it was left out of a rotation by then.
Stored(s, f, l, m) ==
  /\ f.keys = 0 .. f.epoch /\ f.epoch <= EpochAt(Newest)
  /\ FilePin(f).gen \in 0 .. Newest
  /\ ~(l = "admitted" /\ m.prop.tr.kind = "rotate") => Covers(s, f, FilePin(f).gen)

Opening(s, f, l, m) ==
  /\ l \in Walking =>
       /\ m.keys = f.keys /\ Covers(s, f, m.pin.gen)
       /\ m.undec => Excluded(s, m.pin.gen) \/ (s \in faults.torn /\ l \in Closing)
       /\ m.got /\ ~m.undec => m.epoch <= f.epoch
  /\ l \in {"done1", "done2", "done3"} /\ ~m.undec /\ m.err = "none" => m.epoch <= f.epoch
  /\ l = "ready" => m.epoch <= f.epoch
  /\ l = "admit" => /\ EpochAt(m.pin.gen) <= f.epoch
                    /\ m.prop.tr.kind # "rotate" => EpochAt(m.pin.gen) <= m.prop.epoch /\ m.prop.epoch <= f.epoch
  /\ l \in {"readback", "admitted"} =>
       IF m.prop.tr.kind = "rotate" THEN m.prop.epoch = f.epoch + 1 ELSE m.prop.epoch <= f.epoch
  /\ l = "admitted" => FilePin(f).gen = m.prop.gen

\* No operation of a careful keystore ended for a lack of keys it should have had.
Unrefused == \A x \in codes : Careful(x[1]) =>
  x[2] # "EPOCH_REFUSED" /\ (x[2] = "VAULT_EPOCH_NOT_OPENABLE" => x[1] \notin members \ faults.torn)

Keyed ==
  /\ Rising /\ Sealed /\ Nested /\ Unrefused
  /\ \A p \in Procs : Near(at[p], my[p]) /\ my[p].op \in plan.kinds[p] \cup {"none"}
  /\ \A p \in Procs : Careful(StoreOf[p]) =>
       Stored(StoreOf[p], File(p), at[p], my[p]) /\ Opening(StoreOf[p], File(p), at[p], my[p])

\* A chain that kept its heads, over members that only leave.
Grows ==
  /\ Newest \in Nat /\ Newest' \in Nat /\ Newest' >= Newest /\ Old(Newest)
  /\ UNCHANGED plan /\ members' \subseteq members
  /\ faults.torn \subseteq faults'.torn /\ faults.unkeyed \subseteq faults'.unkeyed

LEMMA Entitlement ==
  ASSUME NEW s, Entitled(s), NEW g \in 1 .. Newest, Rotation(g)
  PROVE  s \in Eligible(g)
  BY DEF Entitled, Rotation, Eligible

\* Who was confirmed or a writer before a generation does not change.
LEMMA EligibleKept ==
  ASSUME Grows, NEW g \in 1 .. Newest + 1
  PROVE  Eligible(g)' = Eligible(g)
  <1>1. PICK d : d = g - 1
    OBVIOUS
  <1>2. d \in 0 .. Newest
    BY <1>1 DEF Grows
  <1>3. WriterStateAt(d)' = WriterStateAt(d)
    BY <1>2 DEF Grows, Old
  <1>4. ConfirmedAt(d)' = ConfirmedAt(d)
    <2>1. \A x \in 1 .. d : chain'[x] = chain[x]
      BY <1>2 DEF Grows, Old
    <2>2. {chain'[x].confirms : x \in 1 .. d} = {chain[x].confirms : x \in 1 .. d}
      BY <2>1
    <2> QED
      BY <2>2 DEF ConfirmedAt, Grows
  <1> QED
    BY <1>1, <1>3, <1>4 DEF Eligible

LEMMA OldRotations ==
  ASSUME Grows, NEW g \in 1 .. Newest
  PROVE  g \in 1 .. Newest' /\ chain'[g] = chain[g] /\ Rotation(g)' = Rotation(g) /\ Eligible(g)' = Eligible(g)
  <1>1. g \in 0 .. Newest /\ g > 0 /\ g \in 1 .. Newest + 1 /\ g \in 1 .. Newest'
    BY DEF Grows
  <1>2. chain'[g] = chain[g]
    BY <1>1 DEF Grows, Old
  <1> QED
    BY <1>1, <1>2, EligibleKept DEF Rotation

\* Whoever is careful after a step was so before it.
LEMMA CarefulKept ==
  ASSUME Grows, NEW s, Careful(s)'
  PROVE  Careful(s)
  <1>1. Entitled(s)
    <2>1. ASSUME NEW g \in 1 .. Newest, chain[g].tr.kind = "rotate"
          PROVE  s \in WriterStateAt(g - 1).writers \cup ConfirmedAt(g - 1)
      <3>1. g \in 1 .. Newest' /\ chain'[g] = chain[g] /\ Eligible(g)' = Eligible(g)
        BY OldRotations
      <3>2. s \in Eligible(g)'
        BY <2>1, <3>1 DEF Careful, Entitled, Eligible
      <3> QED
        BY <3>1, <3>2 DEF Eligible
    <2> QED
      BY <2>1 DEF Entitled
  <1> QED
    BY <1>1 DEF Careful, Grows

LEMMA ChainRests ==
  ASSUME Keyed, Grows, UNCHANGED chain
  PROVE  Rising' /\ Sealed' /\ Nested'
  <1>1. Newest' = Newest
    BY DEF Newest
  <1>2. Rising'
    BY DEF Keyed, Rising, EpochAt, Newest
  <1>3. Sealed'
    <2>1. ASSUME NEW g \in 1 .. Newest, Rotation(g)' PROVE Readers' \cap Eligible(g)' \subseteq chain'[g].incl
      <3>1. Readers' \subseteq Readers
        BY DEF Readers, Grows
      <3>2. Rotation(g) /\ Eligible(g)' = Eligible(g) /\ chain'[g] = chain[g]
        BY <2>1, OldRotations
      <3> QED
        BY <3>1, <3>2 DEF Keyed, Sealed
    <2> QED
      BY <1>1, <2>1 DEF Sealed
  <1>4. Nested'
    <2>1. ASSUME NEW k \in 1 .. Newest, NEW g \in 1 .. k, Rotation(g)', Rotation(k)'
          PROVE  chain'[k].incl \cap Eligible(g)' \subseteq chain'[g].incl
      <3>1. g \in 1 .. Newest
        BY DEF Grows
      <3>2. /\ Rotation(g) /\ Eligible(g)' = Eligible(g) /\ chain'[g] = chain[g]
            /\ Rotation(k) /\ chain'[k] = chain[k]
        BY <2>1, <3>1, OldRotations
      <3> QED
        BY <3>2 DEF Keyed, Nested
    <2> QED
      BY <1>1, <2>1 DEF Nested
  <1> QED
    BY <1>2, <1>3, <1>4

LEMMA CoversKept ==
  ASSUME Grows, NEW s, NEW g \in 0 .. Newest
  PROVE  /\ EpochAt(g)' = EpochAt(g)
         /\ Excluded(s, g) => Excluded(s, g)'
         /\ \A f : Covers(s, f, g) => Covers(s, f, g)'
  <1>1. EpochAt(g)' = EpochAt(g)
    BY DEF Grows, Old
  <1>2. ASSUME Excluded(s, g) PROVE Excluded(s, g)'
    <2>1. PICK k \in 1 .. g : Rotation(k) /\ s \notin chain[k].incl
      BY <1>2 DEF Excluded
    <2>2. k \in 0 .. Newest /\ k > 0
      BY DEF Grows
    <2>3. chain'[k] = chain[k]
      BY <2>2 DEF Grows, Old
    <2> QED
      BY <2>1, <2>3 DEF Excluded, Rotation
  <1> QED
    BY <1>1, <1>2 DEF Covers

LEMMA NearKept ==
  ASSUME Grows, NEW l, NEW m \in Locals, Near(l, m)
  PROVE  Near(l, m)'
  <1>1. \A g \in 0 .. Newest : g \in 0 .. Newest' /\ EpochAt(g)' = EpochAt(g)
    BY CoversKept DEF Grows
  <1>2. \A k \in 1 .. Newest : /\ k \in 1 .. Newest' /\ chain'[k] = chain[k]
                              /\ Rotation(k)' = Rotation(k) /\ Eligible(k)' = Eligible(k)
    BY OldRotations
  <1>3. \A g \in 0 .. Newest : \A k \in 1 .. g : k \in 1 .. Newest
    BY DEF Grows
  <1>4. ASSUME l = "admit", m.prop.tr.kind = "rotate"
        PROVE  /\ \A k \in 1 .. m.pin.gen : Rotation(k)' => m.prop.incl \cap Eligible(k)' \subseteq chain'[k].incl
               /\ m.prop.gen = Newest' + 1 => Readers' \cap Eligible(m.prop.gen)' \subseteq m.prop.incl
    <2>1. /\ m.pin.gen \in 0 .. Newest /\ m.prop.gen = m.pin.gen + 1
          /\ \A k \in 1 .. m.pin.gen : Rotation(k) => m.prop.incl \cap Eligible(k) \subseteq chain[k].incl
          /\ m.prop.gen = Newest + 1 => Readers \cap Eligible(m.prop.gen) \subseteq m.prop.incl
      BY <1>4 DEF Near
    <2>2. ASSUME m.prop.gen = Newest' + 1 PROVE Readers' \cap Eligible(m.prop.gen)' \subseteq m.prop.incl
      <3>1. PICK d : d = m.prop.gen
        OBVIOUS
      <3>2. d = Newest + 1 /\ d \in 1 .. Newest + 1
        <4>1. PICK x, n, k : x = m.pin.gen /\ n = Newest /\ k = Newest'
          OBVIOUS
        <4>2. x \in 0 .. n /\ d = x + 1 /\ d = k + 1 /\ k >= n /\ n \in Nat /\ k \in Nat /\ n = Newest
          BY <2>1, <2>2, <3>1, <4>1 DEF Grows
        <4> QED
          BY <4>2
      <3>3. Eligible(d)' = Eligible(d) /\ Readers' \subseteq Readers
        BY <3>2, EligibleKept DEF Readers, Grows
      <3>4. Eligible(m.prop.gen)' = Eligible(d)'
        BY <3>1 DEF Eligible, WriterStateAt, ConfirmedAt
      <3> QED
        BY <2>1, <3>1, <3>2, <3>3, <3>4
    <2> QED
      BY <1>2, <1>3, <2>1, <2>2
  <1> QED
    BY <1>1, <1>2, <1>3, <1>4 DEF Near

LEMMA StoredKept ==
  ASSUME Grows, Types, Types', Rising', NEW s, NEW f \in Files, NEW l, NEW m, Stored(s, f, l, m)
  PROVE  Stored(s, f, l, m)'
  <1>1. PICK c, d : c = Newest /\ d = Newest'
    OBVIOUS
  <1>2. c \in 0 .. Newest /\ c \in 0 .. d /\ d \in 0 .. d
    BY <1>1 DEF Grows
  <1>3. EpochAt(c)' = EpochAt(c) /\ EpochAt(c) \in Nat /\ EpochAt(c)' <= EpochAt(Newest)' /\ EpochAt(Newest)' \in Nat
    <2>1. EpochAt(c)' = EpochAt(c) /\ EpochAt(c) \in Nat
      BY <1>2, CoversKept, Ats DEF Types
    <2>2. EpochAt(c)' <= EpochAt(Newest)'
      BY <1>1, <1>2 DEF Rising
    <2>3. EpochAt(Newest)' \in Nat
      <3>1. chain' \in Seq(Heads) /\ d = Len(chain') /\ d \in Nat
        BY <1>1, <1>2 DEF Types, Newest
      <3>2. d # 0 => chain'[d] \in Heads
        BY <3>1
      <3>3. EpochAt(d)' \in Nat
        BY <3>2 DEF EpochAt, Heads
      <3> QED
        BY <1>1, <3>3 DEF EpochAt
    <2> QED
      BY <2>1, <2>2, <2>3
  <1>4. f.epoch <= EpochAt(Newest)'
    BY <1>1, <1>3 DEF Stored, Files
  <1>5. FilePin(f).gen \in 0 .. Newest /\ FilePin(f).gen \in 0 .. Newest' /\ FilePin(f)' = FilePin(f)
    BY DEF Stored, Grows, FilePin, Genesis
  <1>6. Covers(s, f, FilePin(f).gen) => Covers(s, f, FilePin(f).gen)'
    <2>1. PICK g : g = FilePin(f).gen
      OBVIOUS
    <2>2. Covers(s, f, g) => Covers(s, f, g)'
      BY <1>5, <2>1, CoversKept
    <2> QED
      BY <1>5, <2>1, <2>2 DEF Covers, EpochAt, Excluded
  <1> QED
    BY <1>4, <1>5, <1>6 DEF Stored

LEMMA OpeningKept ==
  ASSUME Grows, NEW s, NEW f, NEW l, NEW m \in Locals, Near(l, m), Opening(s, f, l, m)
  PROVE  Opening(s, f, l, m)'
  <1>1. ASSUME l \in Walking \cup {"admit"}
        PROVE  EpochAt(m.pin.gen)' = EpochAt(m.pin.gen) /\ (Excluded(s, m.pin.gen) => Excluded(s, m.pin.gen)')
               /\ (Covers(s, f, m.pin.gen) => Covers(s, f, m.pin.gen)')
    BY <1>1, CoversKept DEF Near
  <1>2. faults.torn \subseteq faults'.torn /\ FilePin(f)' = FilePin(f)
    BY DEF Grows, FilePin, Genesis
  <1> QED
    BY <1>1, <1>2 DEF Opening

\* A step of one process, with its file.
LEMMA KeyStep ==
  ASSUME Types, Types', Keyed, OneEach, Grows, Rising', Sealed', Nested', Unrefused', NEW p \in Procs, NEW l, NEW n, NEW f,
         at' = [at EXCEPT ![p] = l], my' = [my EXCEPT ![p] = n], UpdateRepo(p, f),
         Near(l, n)', n.op \in plan.kinds[p] \cup {"none"},
         Careful(StoreOf[p])' => Stored(StoreOf[p], f, l, n)' /\ Opening(StoreOf[p], f, l, n)'
  PROVE  Keyed'
  <1>1. /\ at'[p] = l /\ my'[p] = n /\ files'[StoreOf[p]] = f
        /\ \A q \in Procs \ {p} : at'[q] = at[q] /\ my'[q] = my[q] /\ File(q)' = File(q)
    BY Consts DEF Types, FilesTyped, UpdateRepo, File, OneEach
  <1>2. ASSUME NEW q \in Procs
        PROVE  /\ Near(at[q], my[q])' /\ (my[q].op \in plan.kinds[q] \cup {"none"})'
               /\ Careful(StoreOf[q])' => Stored(StoreOf[q], File(q), at[q], my[q])' /\ Opening(StoreOf[q], File(q), at[q], my[q])'
    <2>1. CASE q = p
      <3>1. at'[q] = l /\ my'[q] = n /\ File(q)' = f
        BY <1>1, <2>1 DEF File
      <3> QED
        BY <2>1, <3>1 DEF Grows
    <2>2. CASE q # p
      <3>1. PICK k, m, g, s : k = at[q] /\ m = my[q] /\ g = File(q) /\ s = StoreOf[q]
        OBVIOUS
      <3>2. Near(k, m) /\ m \in Locals /\ g \in Files /\ m.op \in plan.kinds[q] \cup {"none"}
            /\ (Careful(s) => Stored(s, g, k, m) /\ Opening(s, g, k, m))
        BY <3>1, Fields DEF Keyed
      <3>3. Careful(s)' => Careful(s)
        BY CarefulKept
      <3>4. Near(k, m)' /\ (Careful(s)' => Stored(s, g, k, m)' /\ Opening(s, g, k, m)')
        BY <3>2, <3>3, NearKept, StoredKept, OpeningKept
      <3>5. at'[q] = k /\ my'[q] = m /\ File(q)' = g /\ plan' = plan
        BY <1>1, <2>2, <3>1 DEF Grows
      <3> QED
        BY <3>1, <3>2, <3>4, <3>5
    <2> QED
      BY <2>1, <2>2
  <1> QED
    BY <1>2 DEF Keyed

\* The codes a step may add.
Clean(p) ==
  \A c \in codes' \ codes : c[1] = StoreOf[p] /\ c[2] \notin {"EPOCH_REFUSED", "VAULT_EPOCH_NOT_OPENABLE"}

LEMMA CleanUnrefused ==
  ASSUME Unrefused, Grows,
         \A c \in codes' \ codes : Careful(c[1])' =>
            c[2] # "EPOCH_REFUSED" /\ (c[2] = "VAULT_EPOCH_NOT_OPENABLE" => c[1] \notin members' \ faults'.torn)
  PROVE  Unrefused'
  <1>1. \A s : Careful(s)' => Careful(s)
    BY CarefulKept
  <1> QED
    BY <1>1 DEF Unrefused, Grows

\* A step of one process over a chain that stays.
LEMMA KeyStays ==
  ASSUME Types, Types', Keyed, OneEach, UNCHANGED <<plan, chain, members>>, faults'.torn = faults.torn,
         faults'.unkeyed = faults.unkeyed, NEW p \in Procs, NEW l, NEW n \in Locals, NEW f \in Files,
         at' = [at EXCEPT ![p] = l], my' = [my EXCEPT ![p] = n], UpdateRepo(p, f), Clean(p) \/ Unrefused',
         Near(l, n), n.op = my[p].op \/ n.op \in plan.kinds[p] \cup {"none"},
         Careful(StoreOf[p]) => Stored(StoreOf[p], f, l, n) /\ Opening(StoreOf[p], f, l, n)
  PROVE  Keyed'
  <1>1. Grows
    BY Still DEF Grows
  <1>2. Rising' /\ Sealed' /\ Nested'
    BY <1>1, ChainRests
  <1>3. Unrefused'
    BY <1>1, CleanUnrefused DEF Clean, Keyed
  <1>4. Near(l, n)'
    BY <1>1, NearKept
  <1>5. Careful(StoreOf[p])' => Careful(StoreOf[p])
    BY <1>1, CarefulKept
  <1>6. Careful(StoreOf[p])' => Stored(StoreOf[p], f, l, n)' /\ Opening(StoreOf[p], f, l, n)'
    BY <1>1, <1>2, <1>5, StoredKept, OpeningKept
  <1>7. n.op \in plan.kinds[p] \cup {"none"}
    BY DEF Keyed
  <1> QED
    BY <1>1, <1>2, <1>3, <1>4, <1>6, <1>7, KeyStep

LEMMA RestKeys ==
  ASSUME NEW l \in {"idle", "open", "writers"}, NEW n
  PROVE  /\ Near(l, n)
         /\ \A s, f : Opening(s, f, l, n)
         /\ \A s, f, g, k, m : /\ Stored(s, f, k, m) /\ ~(k = "admitted" /\ m.prop.tr.kind = "rotate")
                               /\ g.keys = f.keys /\ g.epoch = f.epoch /\ FilePin(g).gen = FilePin(f).gen
                               => Stored(s, g, l, n)
  BY DEF Near, Opening, Stored, Covers, Walking

LEMMA OwnKeys ==
  ASSUME Types, Keyed, NEW p \in Procs
  PROVE  LET m == my[p]
             f == File(p) IN
         /\ m \in Locals /\ f \in Files /\ 0 \in f.keys /\ f.epoch \in f.keys /\ f.epoch \in Nat
         /\ Newest \in Nat /\ m.pin \in Pins /\ m.pin # None
         /\ UpdateRepo(p, f) <=> UNCHANGED files
         /\ Near(at[p], m) /\ m.op \in plan.kinds[p] \cup {"none"}
         /\ Careful(StoreOf[p]) => Stored(StoreOf[p], f, at[p], m) /\ Opening(StoreOf[p], f, at[p], m) /\ Decrypts(p)
  <1>1. File(p) \in Files /\ 0 \in File(p).keys /\ File(p).epoch \in File(p).keys /\ my[p] \in Locals /\ Newest \in Nat
    BY Fields
  <1>2. File(p).epoch \in Nat /\ my[p].pin \in Pins /\ my[p].pin # None
    BY <1>1, Consts DEF Files, Locals
  <1>3. UpdateRepo(p, File(p)) <=> UNCHANGED files
    BY Consts DEF Types, FilesTyped, UpdateRepo, File
  <1>4. my[p].op \in plan.kinds[p] \cup {"none"}
    BY DEF Keyed
  <1>5. Careful(StoreOf[p]) => Decrypts(p)
    BY <1>4 DEF Careful, Decrypts
  <1>6. Near(at[p], my[p])
    BY DEF Keyed
  <1>7. Careful(StoreOf[p]) => Stored(StoreOf[p], File(p), at[p], my[p]) /\ Opening(StoreOf[p], File(p), at[p], my[p])
    BY DEF Keyed
  <1> QED
    BY <1>1, <1>2, <1>3, <1>4, <1>5, <1>6, <1>7

\* A step that ends its operation, and may write another field of the file.
LEMMA EndWrites ==
  ASSUME Types, Types', Keyed, OneEach, UNCHANGED <<plan, chain, members>>, faults'.torn = faults.torn,
         faults'.unkeyed = faults.unkeyed, NEW p \in Procs, End(p), Clean(p) \/ Unrefused', at[p] # "admitted",
         NEW f, f = File(p), NEW g \in Files, UpdateRepo(p, g), g.keys = f.keys, g.epoch = f.epoch, FilePin(g) = FilePin(f)
  PROVE  Keyed'
  <1>0. PICK m, I : m = my[p] /\ I = Idle
    OBVIOUS
  <1>1. I \in Locals /\ I.op = "none"
    BY <1>0, IdleTyped DEF Types, Idle
  <1>2. at' = [at EXCEPT ![p] = "idle"] /\ my' = [my EXCEPT ![p] = I]
    BY <1>0 DEF End, Goto, Local
  <1>3. Near("idle", I) /\ Opening(StoreOf[p], g, "idle", I)
    BY RestKeys
  <1>4. Careful(StoreOf[p]) => Stored(StoreOf[p], g, "idle", I)
    <2>1. Careful(StoreOf[p]) => Stored(StoreOf[p], f, at[p], m)
      BY <1>0, OwnKeys
    <2> QED
      BY <2>1, RestKeys
  <1> QED
    BY <1>1, <1>2, <1>3, <1>4, KeyStays

LEMMA EndKeys ==
  ASSUME Types, Types', Keyed, OneEach, UNCHANGED <<plan, chain, members, files>>, faults'.torn = faults.torn,
         faults'.unkeyed = faults.unkeyed, NEW p \in Procs, End(p), Clean(p) \/ Unrefused', at[p] # "admitted"
  PROVE  Keyed'
  <1>1. PICK f : f = File(p) /\ f \in Files /\ UpdateRepo(p, f)
    BY OwnKeys
  <1> QED
    BY <1>1, EndWrites

LEMMA BeginKeys ==
  ASSUME Types, Types', Keyed, OneEach, NEW p \in Procs, Begin(p), UNCHANGED plan
  PROVE  Keyed'
  <1>0. PICK m, f, s : m = my[p] /\ f = File(p) /\ s = StoreOf[p]
    OBVIOUS
  <1>1. PICK op \in plan.kinds[p], w \in Keys \cup {None}, g \in Keys \cup {None}, R \in SUBSET Pins :
          /\ op \in Operations /\ (op \in {"add", "activate"} => w \in Keys)
          /\ my' = [my EXCEPT ![p] = [Idle EXCEPT !.op = op, !.target = w, !.grantor = g, !.receipt = R]]
    BY Zenon, Begins
  <1>2. PICK n : n = [Idle EXCEPT !.op = op, !.target = w, !.grantor = g, !.receipt = R]
    OBVIOUS
  <1>3. my' = [my EXCEPT ![p] = n] /\ n.op = op
    BY <1>1, <1>2 DEF Idle
  <1>4. n \in Locals
    BY <1>3 DEF Types
  <1>5. /\ at[p] = "idle" /\ at' = [at EXCEPT ![p] = "open"] /\ UNCHANGED <<chain, members, files, faults, codes>>
    BY Zenon, Begins
  <1>6. UpdateRepo(p, f) /\ f \in Files /\ (Careful(s) => Stored(s, f, "idle", m))
    BY <1>0, <1>5, OwnKeys
  <1>7. Near("open", n) /\ Opening(s, f, "open", n)
    BY RestKeys
  <1>8. Careful(s) => Stored(s, f, "open", n)
    BY <1>6, RestKeys
  <1>9. Clean(p)
    BY <1>5 DEF Clean
  <1> QED
    BY <1>0, <1>3, <1>4, <1>5, <1>6, <1>7, <1>8, <1>9, KeyStays

LEMMA OpenKeys ==
  ASSUME Types, Types', Keyed, OneEach, NEW p \in Procs, Open(p), UNCHANGED plan
  PROVE  Keyed'
  <1>0. PICK m, f, pin, s : m = my[p] /\ f = File(p) /\ pin = StartPin(f) /\ s = StoreOf[p]
    OBVIOUS
  <1>1. at[p] = "open" /\ UNCHANGED <<chain, members, files, faults>> /\ f \in Files /\ UpdateRepo(p, f)
    BY <1>0, Opens, OwnKeys
  <1>2. Clean(p)
    BY DEF Open, Fail, Clean
  <1>3. CASE End(p)
    BY <1>1, <1>2, <1>3, EndKeys
  <1>4. ASSUME NEW l \in {"walk", "list"}, Goto(p, l), NEW n \in Locals, my' = [my EXCEPT ![p] = n],
               n.pin = pin, n.epoch = EpochAt(pin.gen), n.err = "none", n.op = m.op, n.keys = f.keys, ~n.got, ~n.undec,
               pin.gen <= Newest
        PROVE  Keyed'
    <2>1. pin.gen \in 0 .. Newest
      BY <1>0, <1>1, <1>4, StartsTyped, OwnKeys DEF Pins
    <2>2. Near(l, n)
      BY <1>4, <2>1 DEF Near
    <2>3. ASSUME Careful(s) PROVE Stored(s, f, l, n) /\ Opening(s, f, l, n)
      <3>1. Stored(s, f, "open", m) /\ f.epoch \in Nat
        BY <1>0, <1>1, <2>3, OwnKeys
      <3>2. Covers(s, f, FilePin(f).gen)
        BY <3>1 DEF Stored
      <3>3. pin = Genesis \/ pin = FilePin(f)
        BY <1>0 DEF StartPin, FilePin
      <3>4. Covers(s, f, pin.gen)
        <4>1. EpochAt(Genesis.gen) = 0
          BY DEF Genesis, EpochAt
        <4> QED
          BY <3>1, <3>2, <3>3, <4>1 DEF Covers
      <3>5. Stored(s, f, l, n)
        BY <3>1 DEF Stored
      <3>6. Opening(s, f, l, n)
        BY <1>4, <3>4 DEF Opening, Walking
      <3> QED
        BY <3>5, <3>6
    <2> QED
      BY <1>0, <1>1, <1>2, <1>4, <2>2, <2>3, KeyStays DEF Goto
  <1> QED
    BY <1>0, <1>3, <1>4, Opens

LEMMA ListKeys ==
  ASSUME Types, Types', Keyed, OneEach, NEW p \in Procs, List(p), UNCHANGED plan
  PROVE  Keyed'
  <1>0. PICK m, f, s : m = my[p] /\ f = File(p) /\ s = StoreOf[p]
    OBVIOUS
  <1>1. PICK e, b : my' = [my EXCEPT ![p] = [m EXCEPT !.end = e, !.more = b]]
    BY Zenon, <1>0 DEF List, Local
  <1>2. PICK n : n = [m EXCEPT !.end = e, !.more = b]
    OBVIOUS
  <1>3. /\ at' = [at EXCEPT ![p] = "walk"] /\ at[p] = "list" /\ my' = [my EXCEPT ![p] = n]
        /\ UNCHANGED <<chain, members, files, faults, codes>>
    BY <1>1, <1>2 DEF List, Goto
  <1>4. n \in Locals /\ n.pin = m.pin /\ n.epoch = m.epoch /\ n.op = m.op /\ n.keys = m.keys
        /\ n.got = m.got /\ n.undec = m.undec
    <2>1. m \in Locals
      BY <1>0, OwnKeys
    <2> QED
      BY <1>2, <1>3, <2>1, SMTT(30) DEF Locals, Types
  <1>5. f \in Files /\ UpdateRepo(p, f) /\ Near("list", m)
        /\ (Careful(s) => Stored(s, f, "list", m) /\ Opening(s, f, "list", m))
    BY <1>0, <1>3, OwnKeys
  <1>6. Near("walk", n)
    BY <1>4, <1>5 DEF Near, Walking
  <1>7. Careful(s) => Stored(s, f, "walk", n) /\ Opening(s, f, "walk", n)
    BY <1>4, <1>5 DEF Stored, Opening, Walking, Closing
  <1>8. Clean(p)
    BY <1>3 DEF Clean
  <1> QED
    BY <1>0, <1>3, <1>4, <1>5, <1>6, <1>7, <1>8, KeyStays

\* A keystore that walks over a head it cannot read was left out by then, and a
\* rotation it can open is the next one after those it holds.
LEMMA Crossed ==
  ASSUME Types, Chained, Nested, NEW g \in 1 .. Newest, NEW s, NEW f, f.epoch \in Nat, f.keys = 0 .. f.epoch,
         Covers(s, f, g - 1), Entitled(s)
  PROVE  LET h == chain[g] IN
         /\ EpochAt(g) = h.epoch /\ h.epoch \in Nat
         /\ Excluded(s, g - 1) => Excluded(s, g)
         /\ h.epoch \notin f.keys /\ ~(h.tr.kind = "rotate" /\ s \in h.incl) => Excluded(s, g)
         /\ h.epoch \notin f.keys /\ h.tr.kind = "rotate" /\ s \in h.incl => h.epoch = f.epoch + 1
  <1>0. PICK h, d : h = chain[g] /\ d = g - 1
    OBVIOUS
  <1>1. Newest \in Nat /\ g \in 0 .. Newest /\ d \in 0 .. Newest /\ d \in Nat /\ g = d + 1
    BY <1>0 DEF Types, Newest
  <1>2. EpochAt(g) = h.epoch /\ h.epoch \in Nat /\ EpochAt(d) \in Nat
    BY <1>0, <1>1, Ats, SMTT(30) DEF Types, Heads
  <1>3. h.epoch = EpochAt(d) + (IF h.tr.kind = "rotate" THEN 1 ELSE 0)
    BY <1>0, <1>1 DEF Chained, Linked
  <1>4. ASSUME Excluded(s, d) PROVE Excluded(s, g) /\ ~(h.tr.kind = "rotate" /\ s \in h.incl)
    <2>1. PICK k \in 1 .. d : Rotation(k) /\ s \notin chain[k].incl
      BY <1>4 DEF Excluded
    <2>2. k \in 1 .. g
      BY <1>1
    <2>3. Excluded(s, g)
      BY <2>1, <2>2 DEF Excluded
    <2>4. s \in Eligible(k)
      <3>1. k \in 1 .. Newest
        BY <1>1, <2>1
      <3> QED
        BY <2>1, <3>1, Entitlement
    <2>5. h.tr.kind = "rotate" => h.incl \cap Eligible(k) \subseteq chain[k].incl
      BY <1>0, <2>1, <2>2 DEF Nested, Rotation
    <2> QED
      BY <2>1, <2>3, <2>4, <2>5
  <1>5. Covers(s, f, d)
    BY <1>0
  <1>6. h.epoch \notin f.keys => h.epoch > f.epoch
    BY <1>2
  <1>7. ASSUME h.epoch \notin f.keys, ~(h.tr.kind = "rotate" /\ s \in h.incl) PROVE Excluded(s, g)
    <2>1. CASE h.tr.kind = "rotate"
      <3>1. g \in 1 .. g /\ Rotation(g) /\ s \notin chain[g].incl
        BY <1>0, <1>1, <1>7, <2>1 DEF Rotation
      <3> QED
        BY <3>1 DEF Excluded
    <2>2. CASE h.tr.kind # "rotate"
      BY <1>2, <1>3, <1>4, <1>5, <1>6, <1>7, <2>2 DEF Covers
    <2> QED
      BY <2>1, <2>2
  <1>8. ASSUME h.epoch \notin f.keys, h.tr.kind = "rotate", s \in h.incl PROVE h.epoch = f.epoch + 1
    BY <1>2, <1>3, <1>4, <1>5, <1>6, <1>8 DEF Covers
  <1> QED
    BY <1>0, <1>2, <1>4, <1>7, <1>8

\* Storing the key after the newest one held.
LEMMA NextKey ==
  ASSUME NEW f \in Files, 0 \in f.keys, NEW e, f.keys = 0 .. f.epoch, e = f.epoch + 1
  PROVE  LET n == RecordEpochRotation(f, e) IN
         /\ n \in Files /\ n.epoch = e /\ n.keys = 0 .. e /\ n.keys = f.keys \cup {e}
         /\ n.head = f.head /\ n.prefix = f.prefix /\ n.wpin = f.wpin /\ FilePin(n) = FilePin(f)
  <1>0. PICK n : n = RecordEpochRotation(f, e)
    OBVIOUS
  <1>1. f.epoch \in Nat /\ e \in Nat
    BY DEF Files
  <1>2. n \in Files /\ n.head = f.head /\ n.prefix = f.prefix /\ n.wpin = f.wpin
    BY <1>0, <1>1, KeyKept
  <1>3. n.epoch = e /\ n.keys = f.keys \cup {f.epoch, e}
    BY <1>0, <1>1 DEF RecordEpochRotation, Files
  <1>4. n.keys = f.keys \cup {e} /\ n.keys = 0 .. e
    BY <1>1, <1>3
  <1>5. FilePin(n) = FilePin(f)
    BY <1>2 DEF FilePin
  <1> QED
    BY <1>0, <1>2, <1>3, <1>4, <1>5

LEMMA WalkKeys ==
  ASSUME Types, Types', Chained, Keyed, OneEach, NEW p \in Procs, Walk(p), UNCHANGED plan
  PROVE  Keyed'
  <1>0. PICK m, f, s, g, h : m = my[p] /\ f = File(p) /\ s = StoreOf[p] /\ g = m.pin.gen + 1 /\ h = chain[g]
    OBVIOUS
  <1>1. /\ at[p] = "walk" /\ UNCHANGED <<chain, members, faults>>
        /\ m \in Locals /\ f \in Files /\ 0 \in f.keys /\ f.epoch \in Nat /\ Newest \in Nat
        /\ Near("walk", m) /\ m.op \in plan.kinds[p] \cup {"none"} /\ m.pin.gen \in 0 .. Newest
        /\ (UpdateRepo(p, f) <=> UNCHANGED files)
        /\ (Careful(s) => Stored(s, f, "walk", m) /\ Opening(s, f, "walk", m) /\ Decrypts(p))
    <2>1. at[p] = "walk" /\ UNCHANGED <<chain, members, faults>>
      BY DEF Walk
    <2>2. Near("walk", m)
      BY <1>0, <2>1, OwnKeys
    <2>3. m.pin.gen \in 0 .. Newest
      BY <2>2 DEF Near, Walking
    <2> QED
      BY <1>0, <2>1, <2>2, <2>3, OwnKeys
  <1>2. Clean(p)
    BY DEF Walk, Fail, Clean
  <1>3. ASSUME NEW l \in {"page1", "done1"}, Goto(p, l), UNCHANGED files, NEW n \in Locals, my' = [my EXCEPT ![p] = n],
               Alike(n, m), n.epoch = m.epoch, n.keys = m.keys, n.got = m.got, n.undec = m.undec, l = "done1" => n.err # "none"
        PROVE  Keyed'
    <2>1. n.pin = m.pin /\ n.op = m.op
      BY <1>3 DEF Alike
    <2>2. Near(l, n)
      BY <1>1, <1>3, <2>1 DEF Near, Walking
    <2>3. Careful(s) => Stored(s, f, l, n)
      BY <1>1, <1>3, <2>1 DEF Stored
    <2>4. Careful(s) => Opening(s, f, l, n)
      BY <1>1, <1>3, <2>1 DEF Opening, Walking, Closing
    <2> QED
      BY <1>0, <1>1, <1>2, <1>3, <2>1, <2>2, <2>3, <2>4, KeyStays DEF Goto
  <1>4. CASE Goto(p, "page1") /\ UNCHANGED <<my, files>>
    <2>1. my' = [my EXCEPT ![p] = m] /\ Alike(m, m)
      BY <1>0, <1>4 DEF Types, Alike
    <2> QED
      BY <1>1, <1>3, <1>4, <2>1
  <1>5. ASSUME NEW e \in Errors, e # "none", NEW l \in {"page1", "done1"}, Goto(p, l), Local(p, [m EXCEPT !.err = e]), UNCHANGED files
        PROVE  Keyed'
    <2>1. PICK n : n = [m EXCEPT !.err = e]
      OBVIOUS
    <2>2. /\ n.epoch = m.epoch /\ n.keys = m.keys /\ n.got = m.got /\ n.undec = m.undec /\ n.err = e
          /\ Alike(n, m)
      BY <1>1, <2>1 DEF Locals, Alike
    <2>3. my' = [my EXCEPT ![p] = n]
      BY <1>5, <2>1 DEF Local
    <2>4. n \in Locals
      BY <2>3 DEF Types
    <2> QED
      BY <1>3, <1>5, <2>2, <2>3, <2>4
  <1>6. CASE m.pin.gen < m.end /\ StepOver(p, h) /\ UNCHANGED at
    <2>1. g \in 1 .. Newest /\ h \in Heads
      BY <1>0, <1>1, <1>6, Stepped, ZenonT(60)
    <2>2. h.tr.kind = "add" => h.tr.added \in Keys
      BY <1>0, <2>1, ZenonT(60) DEF Chained, Linked, Admissible
    <2>3. PICK n \in Locals :
             /\ my' = [my EXCEPT ![p] = n] /\ n.pin = PinAt(g) /\ n.epoch = h.epoch /\ n.op = m.op
             /\ n.keys = IF Unlocks(p, h) THEN m.keys \cup {h.epoch} ELSE m.keys
             /\ n.got = (m.got \/ (Tries(p) /\ h.epoch \in n.keys))
             /\ n.undec = (m.undec \/ (Tries(p) /\ h.epoch \notin n.keys))
      BY <1>0, <1>1, <1>6, <2>2, Stepped, SMTT(30)
    <2>4. PICK k \in Files : /\ UpdateRepo(p, k)
                             /\ IF Unlocks(p, h) THEN k = RecordEpochRotation(f, h.epoch) ELSE k = f
      <3>1. IF Unlocks(p, h) THEN UpdateRepo(p, RecordEpochRotation(f, h.epoch)) ELSE UNCHANGED files
        BY <1>0, <1>1, <1>6, Stepped, ZenonT(60)
      <3>2. h.epoch \in Nat
        BY <2>1 DEF Heads
      <3> QED
        BY <1>1, <3>1, <3>2, KeyKept
    <2>5. n.pin.gen = g /\ EpochAt(g) = h.epoch /\ g \in 0 .. Newest
      BY <1>0, <2>1, <2>3, Ats DEF Types
    <2>6. Near("walk", n)
      BY <2>3, <2>5 DEF Near
    <2>9. n.undec <=> m.undec \/ (Tries(p) /\ h.epoch \notin n.keys)
      BY Zenon, <2>3
    <2>7. ASSUME Careful(s) PROVE Stored(s, k, "walk", n) /\ Opening(s, k, "walk", n)
      <3>1. /\ Stored(s, f, "walk", m) /\ f.keys = 0 .. f.epoch /\ m.keys = f.keys /\ Covers(s, f, g - 1)
            /\ (m.undec => Excluded(s, g - 1)) /\ (Tries(p) <=> ~m.undec)
        BY <1>0, <1>1, <2>7 DEF Stored, Opening, Walking, Closing, Tries
      <3>2. /\ h.epoch \in Nat /\ (Excluded(s, g - 1) => Excluded(s, g))
            /\ (h.epoch \notin f.keys /\ ~(h.tr.kind = "rotate" /\ s \in h.incl) => Excluded(s, g))
            /\ (h.epoch \notin f.keys /\ h.tr.kind = "rotate" /\ s \in h.incl => h.epoch = f.epoch + 1)
        BY <1>0, <1>1, <2>1, <2>7, <3>1, Crossed, ZenonT(60) DEF Keyed, Careful
      <3>3. Unlocks(p, h) <=> ~m.undec /\ h.tr.kind = "rotate" /\ h.epoch \notin f.keys /\ s \in h.incl
        BY <1>0, <3>1 DEF Unlocks, CanOpen
      <3>4. CASE Unlocks(p, h)
        <4>1. /\ k.epoch = h.epoch /\ k.keys = 0 .. h.epoch /\ k.keys = f.keys \cup {h.epoch} /\ FilePin(k) = FilePin(f)
              /\ h.epoch = f.epoch + 1
          BY <1>1, <2>4, <3>1, <3>2, <3>3, <3>4, NextKey
        <4>2. h.epoch <= EpochAt(Newest)
          BY <2>5 DEF Keyed, Rising
        <4>3. EpochAt(FilePin(f).gen) \in Nat /\ FilePin(f).gen \in 0 .. Newest
          BY <3>1, Ats DEF Stored, Types
        <4>4. Stored(s, k, "walk", n)
          BY <1>1, <3>1, <4>1, <4>2, <4>3 DEF Stored, Covers
        <4>5. n.keys = k.keys /\ n.epoch = k.epoch /\ h.epoch \in n.keys
          BY <2>3, <3>1, <3>2, <3>4, <4>1
        <4>6. ~n.undec
          BY <2>9, <3>3, <3>4, <4>5
        <4>7. Covers(s, k, g) /\ n.epoch <= k.epoch
          BY <2>5, <3>2, <4>1, <4>5 DEF Covers
        <4> QED
          BY <2>5, <4>4, <4>5, <4>6, <4>7 DEF Opening, Walking
      <3>5. CASE ~Unlocks(p, h)
        <4>1. k = f /\ n.keys = f.keys
          BY <2>3, <2>4, <3>1, <3>5
        <4>2. Stored(s, k, "walk", n)
          BY <3>1, <4>1 DEF Stored
        <4>3. Covers(s, f, g) /\ (n.undec => Excluded(s, g)) /\ (~n.undec => n.epoch <= f.epoch)
          <5>1. CASE m.undec
            BY <2>3, <3>1, <3>2, <5>1 DEF Covers
          <5>2. CASE ~m.undec
            <6>1. CASE h.epoch \in f.keys
              <7>1. ~n.undec
                BY <2>9, <4>1, <5>2, <6>1
              <7>2. h.epoch <= f.epoch
                BY <1>1, <3>1, <3>2, <6>1
              <7> QED
                BY <2>3, <2>5, <7>1, <7>2 DEF Covers
            <6>2. CASE h.epoch \notin f.keys
              <7>1. Excluded(s, g) /\ n.undec
                BY <2>3, <3>1, <3>2, <3>3, <3>5, <4>1, <5>2, <6>2
              <7> QED
                BY <7>1 DEF Covers
            <6> QED
              BY <6>1, <6>2
          <5> QED
            BY <5>1, <5>2
        <4> QED
          BY <2>5, <4>1, <4>2, <4>3 DEF Opening, Walking
      <3> QED
        BY <3>4, <3>5
    <2>8. at' = [at EXCEPT ![p] = "walk"]
      BY <1>1, <1>6 DEF Types
    <2> QED
      BY <1>0, <1>1, <1>2, <2>3, <2>4, <2>6, <2>7, <2>8, KeyStays, ZenonT(60)
  <1>7. CASE End(p) /\ UNCHANGED files
    BY <1>1, <1>2, <1>7, EndKeys
  <1>8. {"VERIFICATION_BUDGET_EXCEEDED", "VAULT_WRITER_NOT_ADMITTED"} \subseteq Errors
    BY DEF Errors
  <1> QED
    BY <1>0, <1>4, <1>5, <1>6, <1>7, <1>8 DEF Walk, Fail

LEMMA PageKeys ==
  ASSUME Types, Types', Keyed, OneEach, NEW p \in Procs, Page(p), UNCHANGED plan
  PROVE  Keyed'
  <1>0. PICK m, f, s : m = my[p] /\ f = File(p) /\ s = StoreOf[p]
    OBVIOUS
  <1>1. /\ UNCHANGED <<chain, members, faults>>
        /\ m \in Locals /\ f \in Files /\ 0 \in f.keys /\ f.epoch \in f.keys /\ m.pin \in Pins /\ m.pin # None
        /\ Near(at[p], m) /\ m.dec \in Pins \cup {None} /\ WriterPin(m.ws, FALSE) \in WriterPins
        /\ (Careful(s) => Stored(s, f, at[p], m) /\ Opening(s, f, at[p], m))
    BY <1>0, OwnKeys, WriterPinTyped DEF Page, Locals
  <1>2. Clean(p)
    <2>1. m.err \in Errors
      BY <1>1 DEF Locals
    <2> QED
      BY <1>0, <2>1 DEF Page, Fail, Clean, Errors
  <1>3. UNCHANGED my => my' = [my EXCEPT ![p] = m]
    BY <1>0 DEF Types
  <1>4. ASSUME NEW k, at[p] = k, k \in {"page1", "page2", "page3"}, NEW l \in {"page2", "page3", "list", "catchup"},
               Goto(p, l), UNCHANGED my, NEW n \in Files, UpdateRepo(p, n), n.keys = f.keys, n.epoch = f.epoch,
               FilePin(n) = FilePin(f) \/ FilePin(n) = m.pin
        PROVE  Keyed'
    <2>1. k \in Listing /\ k \in Walking /\ k # "admitted" /\ l \in Walking
          /\ l \notin {"done1", "done2", "done3", "ready", "admit", "readback", "admitted"}
      BY <1>4 DEF Listing, Walking
    <2>2. Near(l, m)
      BY <1>1, <1>4, <2>1 DEF Near
    <2>3. ASSUME Careful(s) PROVE Stored(s, n, l, m) /\ Opening(s, n, l, m)
      <3>1. Stored(s, f, k, m) /\ Opening(s, f, k, m)
        BY <1>1, <1>4, <2>3
      <3>2. /\ m.keys = f.keys /\ Covers(s, f, m.pin.gen) /\ (m.got /\ ~m.undec => m.epoch <= f.epoch)
            /\ (m.undec => Excluded(s, m.pin.gen))
        BY <1>4, <2>1, <3>1 DEF Opening, Closing
      <3>3. m.pin.gen \in 0 .. Newest
        BY <1>1, <1>4, <2>1 DEF Near
      <3>4. Stored(s, n, l, m)
        BY <1>4, <2>1, <3>1, <3>2, <3>3 DEF Stored, Covers
      <3>5. Opening(s, n, l, m)
        BY <1>4, <2>1, <3>2 DEF Opening, Covers
      <3> QED
        BY <3>4, <3>5
    <2> QED
      BY <1>0, <1>1, <1>2, <1>3, <1>4, <2>2, <2>3, KeyStays DEF Goto
  <1>5. CASE at[p] = "page1" /\ UpdateRepo(p, [f EXCEPT !.prefix = m.pin]) /\ Goto(p, "page2") /\ UNCHANGED my
    <2>1. PICK n : n = [f EXCEPT !.prefix = m.pin]
      OBVIOUS
    <2>2. n \in Files /\ n.prefix = m.pin /\ n.keys = f.keys /\ n.epoch = f.epoch
      BY <1>1, <2>1 DEF Files
    <2>3. FilePin(n) = m.pin
      BY <1>1, <2>2 DEF FilePin
    <2> QED
      BY <1>4, <1>5, <2>1, <2>2, <2>3
  <1>6. CASE at[p] = "page2" /\ UpdateRepo(p, [f EXCEPT !.wpin = WriterPin(m.ws, FALSE)]) /\ Goto(p, "page3") /\ UNCHANGED my
    <2>1. PICK W, n : W = WriterPin(m.ws, FALSE) /\ n = [f EXCEPT !.wpin = W]
      OBVIOUS
    <2>2. n \in Files /\ n.prefix = f.prefix /\ n.head = f.head /\ n.keys = f.keys /\ n.epoch = f.epoch
      BY <1>1, <2>1 DEF Files
    <2>3. FilePin(n) = FilePin(f)
      BY <2>2 DEF FilePin
    <2> QED
      BY <1>4, <1>6, <2>1, <2>2, <2>3
  <1>7. CASE /\ at[p] = "page3"
             /\ UpdateRepo(p, IF ~Decrypts(p) \/ m.dec = None THEN f ELSE [f EXCEPT !.mat = m.dec])
             /\ End(p) \/ (Goto(p, IF m.more THEN "list" ELSE "catchup") /\ UNCHANGED my)
    <2>1. PICK n \in Files : /\ UpdateRepo(p, n) /\ n.keys = f.keys /\ n.epoch = f.epoch
                             /\ n.head = f.head /\ n.prefix = f.prefix
      <3>1. m.dec # None => [f EXCEPT !.mat = m.dec] \in Files
        BY <1>1 DEF Files
      <3>2. [f EXCEPT !.mat = m.dec].keys = f.keys /\ [f EXCEPT !.mat = m.dec].epoch = f.epoch
            /\ [f EXCEPT !.mat = m.dec].head = f.head /\ [f EXCEPT !.mat = m.dec].prefix = f.prefix
        BY <1>1 DEF Files
      <3> QED
        BY <1>1, <1>7, <3>1, <3>2
    <2>2. FilePin(n) = FilePin(f)
      BY <2>1 DEF FilePin
    <2>3. CASE End(p)
      BY <1>0, <1>1, <1>2, <1>7, <2>1, <2>2, <2>3, EndWrites
    <2>4. CASE Goto(p, IF m.more THEN "list" ELSE "catchup") /\ UNCHANGED my
      <3>1. PICK l \in {"list", "catchup"} : Goto(p, l)
        BY <2>4
      <3> QED
        BY <1>4, <1>7, <2>1, <2>2, <2>4, <3>1
    <2> QED
      BY <1>7, <2>3, <2>4
  <1> QED
    BY <1>0, <1>5, <1>6, <1>7 DEF Page, Fail

LEMMA CatchUpKeys ==
  ASSUME Types, Types', Sound, Keyed, Follows, OneEach, NEW p \in Procs, CatchUp(p), UNCHANGED plan
  PROVE  Keyed'
  <1>0. PICK m, f, s : m = my[p] /\ f = File(p) /\ s = StoreOf[p]
    OBVIOUS
  <1>1. at[p] = "catchup" /\ UNCHANGED <<chain, members, faults, codes>>
    BY Zenon DEF CatchUp
  <1>2. /\ m \in Locals /\ f \in Files /\ 0 \in f.keys /\ f.epoch \in Nat /\ Newest \in Nat
        /\ Near("catchup", m) /\ (UpdateRepo(p, f) <=> UNCHANGED files) /\ m.epoch \in Nat
        /\ (Careful(s) => Stored(s, f, "catchup", m) /\ Opening(s, f, "catchup", m) /\ Decrypts(p))
    BY <1>0, <1>1, OwnKeys DEF Locals
  <1>3. Clean(p)
    BY <1>1 DEF Clean
  <1>4. m.pin.gen \in 0 .. Newest /\ m.epoch = EpochAt(m.pin.gen)
    BY <1>2 DEF Near, Walking
  <1>5. CASE Goto(p, "done1") /\ ~Lacks(p) /\ UNCHANGED <<my, files>>
    <2>1. my' = [my EXCEPT ![p] = m] /\ UpdateRepo(p, f)
      BY <1>0, <1>2, <1>5 DEF Types
    <2>2. Near("done1", m)
      BY <1>2 DEF Near, Walking
    <2>3. ASSUME Careful(s) PROVE Stored(s, f, "done1", m) /\ Opening(s, f, "done1", m)
      <3>1. Stored(s, f, "catchup", m) /\ Opening(s, f, "catchup", m) /\ Decrypts(p)
        BY <1>2, <2>3
      <3>2. m.undec \/ m.got \/ m.pin.gen = 0
        BY <1>0, <1>4, <1>5, <3>1 DEF Lacks
      <3>3. m.pin.gen = 0 => m.epoch <= f.epoch
        BY <1>2, <1>4 DEF EpochAt
      <3>4. ~m.undec => m.epoch <= f.epoch
        BY <3>1, <3>2, <3>3 DEF Opening, Walking
      <3> QED
        BY <3>1, <3>4 DEF Stored, Opening, Walking, Closing
    <2> QED
      BY <1>0, <1>1, <1>2, <1>3, <1>5, <2>1, <2>2, <2>3, KeyStays DEF Goto
  <1>6. CASE CaughtUp(p)
    <2>1. Lacks(p)
      BY <1>6 DEF CaughtUp
    <2>2. PICK n \in Locals : /\ my' = [my EXCEPT ![p] = n] /\ n.pin = m.pin /\ n.op = m.op
                              /\ n.epoch = m.epoch /\ Caught(p, n)
      BY <1>0, <1>6 DEF CaughtUp, Alike
    <2>3. at' = [at EXCEPT ![p] = "catchup"]
      BY <1>1, <1>6 DEF CaughtUp, Types
    <2>4. Near("catchup", n)
      BY <1>2, <2>2 DEF Near, Walking
    <2>5. ~m.got /\ ~m.undec /\ m.pin.gen > 0
      BY <1>0, <2>1 DEF Lacks
    <2>6. ASSUME UNCHANGED files, n.keys = m.keys,
                 Careful(s) => (n.undec => Excluded(s, m.pin.gen) \/ s \in faults.torn) /\ (n.got /\ ~n.undec => m.epoch <= f.epoch)
          PROVE  Keyed'
      <3>1. Careful(s) => Stored(s, f, "catchup", n) /\ Opening(s, f, "catchup", n)
        BY <1>2, <2>2, <2>6 DEF Stored, Opening, Walking, Closing
      <3> QED
        BY <1>0, <1>1, <1>2, <1>3, <2>2, <2>3, <2>4, <2>6, <3>1, KeyStays
    <2>7. CASE m.epoch \in m.keys /\ n.keys = m.keys /\ UNCHANGED files /\ (KnownSigner(m.ws, chain[m.pin.gen]) => ~n.undec)
      <3>1. ASSUME n.undec, s \notin faults.torn PROVE FALSE
        <4>1. Walked(m)
          BY <1>0, <1>1, <3>1 DEF Follows, Placed, Walking
        <4>2. m.pin.gen \in 1 .. Newest /\ m.pin.gen \in m.pin.gen .. Newest
          BY <1>2, <1>4, <2>5
        <4>3. ResolveKnownWriter(WriterStateAt(m.pin.gen), chain[m.pin.gen].writer)
          BY <4>2 DEF Sound, Remembered
        <4>4. KnownSigner(m.ws, chain[m.pin.gen])
          BY <4>1, <4>3 DEF Walked, Same, KnownSigner, ResolveKnownWriter
        <4> QED
          BY <2>7, <3>1, <4>4
      <3>2. Careful(s) => m.epoch <= f.epoch
        BY <1>2, <2>7 DEF Opening, Stored, Walking
      <3> QED
        BY <2>6, <2>7, <3>1, <3>2
    <2>8. CASE m.epoch \notin m.keys /\ n.keys = m.keys /\ n.got = m.got /\ UNCHANGED files
      <3>1. Careful(s) => Excluded(s, m.pin.gen)
        BY <1>2, <1>4, <2>8 DEF Opening, Stored, Walking, Covers
      <3> QED
        BY <2>5, <2>6, <2>8, <3>1
    <2>9. CASE /\ m.epoch \notin m.keys /\ n.got = m.got /\ n.undec = m.undec
               /\ \E d \in m.keys : /\ d < m.epoch /\ \A x \in m.keys : x < m.epoch => x <= d
                                   /\ n.keys = m.keys \cup {1 + d}
                                   /\ UpdateRepo(p, RecordEpochRotation(f, 1 + d))
      <3>1. PICK d \in m.keys : /\ d < m.epoch /\ \A x \in m.keys : x < m.epoch => x <= d
                                /\ n.keys = m.keys \cup {1 + d}
                                /\ UpdateRepo(p, RecordEpochRotation(f, 1 + d))
        BY <2>9
      <3>2. PICK k : k = RecordEpochRotation(f, 1 + d)
        OBVIOUS
      <3>3. k \in Files
        BY <1>2, <3>1, <3>2, KeyKept DEF Locals
      <3>4. ASSUME Careful(s) PROVE Stored(s, k, "catchup", n) /\ Opening(s, k, "catchup", n)
        <4>1. Stored(s, f, "catchup", m) /\ m.keys = f.keys /\ f.keys = 0 .. f.epoch /\ Covers(s, f, m.pin.gen)
          BY <1>2, <3>4 DEF Stored, Opening, Walking
        <4>2. d = f.epoch /\ f.epoch < m.epoch
          BY <1>2, <2>9, <3>1, <4>1
        <4>3. /\ k.epoch = f.epoch + 1 /\ k.keys = 0 .. k.epoch /\ k.keys = f.keys \cup {1 + d}
              /\ FilePin(k) = FilePin(f)
          BY <1>2, <3>2, <4>1, <4>2, NextKey
        <4>4. EpochAt(m.pin.gen) <= EpochAt(Newest) /\ EpochAt(Newest) \in Nat
          BY <1>2, <1>4, Ats DEF Keyed, Rising, Types
        <4>5. EpochAt(FilePin(f).gen) \in Nat /\ FilePin(f).gen \in 0 .. Newest
          BY <4>1, Ats DEF Stored, Types
        <4>6. Stored(s, k, "catchup", n)
          BY <1>2, <1>4, <4>1, <4>2, <4>3, <4>4, <4>5 DEF Stored, Covers
        <4>7. Opening(s, k, "catchup", n)
          BY <1>2, <1>4, <2>2, <2>5, <2>9, <3>1, <4>1, <4>2, <4>3 DEF Opening, Walking, Closing, Covers
        <4> QED
          BY <4>6, <4>7
      <3> QED
        BY <1>0, <1>1, <1>2, <1>3, <2>2, <2>3, <2>4, <3>1, <3>2, <3>3, <3>4, KeyStays
    <2> QED
      BY <1>0, <2>2, <2>7, <2>8, <2>9 DEF Caught
  <1> QED
    BY <1>5, <1>6, CatchesUp

LEMMA DoneKeys ==
  ASSUME Types, Types', Sound, Keyed, OneEach, NEW p \in Procs, Done(p), UNCHANGED plan
  PROVE  Keyed'
  <1>0. PICK m, f, s, mat : m = my[p] /\ f = File(p) /\ s = StoreOf[p] /\ mat = IF m.pin.gen = 0 THEN m.pin ELSE m.dec
    OBVIOUS
  <1>1. /\ UNCHANGED <<chain, members, faults>>
        /\ m \in Locals /\ f \in Files /\ 0 \in f.keys /\ f.epoch \in f.keys /\ m.pin \in Pins /\ m.pin # None
        /\ Near(at[p], m) /\ m.dec \in Pins \cup {None} /\ WriterPin(m.ws, FALSE) \in WriterPins
        /\ (Careful(s) => Stored(s, f, at[p], m) /\ Opening(s, f, at[p], m)) /\ Newest \in Nat
    BY <1>0, OwnKeys, WriterPinTyped DEF Done, Locals
  <1>2. UNCHANGED my => my' = [my EXCEPT ![p] = m]
    BY <1>0 DEF Types
  <1>3. UNCHANGED codes => Clean(p)
    BY DEF Clean
  <1>4. ASSUME NEW k \in {"done1", "done2", "done3"}, at[p] = k, NEW l \in {"done2", "done3", "ready"},
               l = "ready" => ~m.undec /\ m.err = "none",
               Goto(p, l), UNCHANGED <<my, codes>>, NEW n \in Files, UpdateRepo(p, n), n.keys = f.keys, n.epoch = f.epoch,
               FilePin(n) = FilePin(f) \/ FilePin(n) = m.pin
        PROVE  Keyed'
    <2>1. k \in Walking
      BY <1>4 DEF Walking
    <2>2. Near(l, m)
      BY <1>1, <1>4, <2>1 DEF Near
    <2>3. ASSUME Careful(s) PROVE Stored(s, n, l, m) /\ Opening(s, n, l, m)
      <3>1. Stored(s, f, k, m) /\ Opening(s, f, k, m)
        BY <1>1, <1>4, <2>3
      <3>2. /\ m.keys = f.keys /\ Covers(s, f, m.pin.gen) /\ (m.got /\ ~m.undec => m.epoch <= f.epoch)
            /\ (m.undec => Excluded(s, m.pin.gen) \/ s \in faults.torn)
            /\ (~m.undec /\ m.err = "none" => m.epoch <= f.epoch)
        BY <1>4, <2>1, <3>1 DEF Opening
      <3>3. m.pin.gen \in 0 .. Newest
        BY <1>1, <1>4, <2>1 DEF Near
      <3>4. Stored(s, n, l, m)
        BY <1>4, <3>1, <3>2, <3>3 DEF Stored, Covers
      <3>5. Opening(s, n, l, m)
        BY <1>4, <3>2 DEF Opening, Covers, Walking, Closing
      <3> QED
        BY <3>4, <3>5
    <2> QED
      BY <1>0, <1>1, <1>2, <1>3, <1>4, <2>2, <2>3, KeyStays DEF Goto
  <1>5. CASE at[p] = "done1" /\ UpdateRepo(p, [f EXCEPT !.head = m.pin, !.prefix = None]) /\ Goto(p, "done2") /\ UNCHANGED <<my, codes>>
    <2>1. PICK n : n = [f EXCEPT !.head = m.pin, !.prefix = None]
      OBVIOUS
    <2>2. n \in Files /\ n.head = m.pin /\ n.prefix = None /\ n.keys = f.keys /\ n.epoch = f.epoch
      BY <1>1, <2>1 DEF Files
    <2>3. FilePin(n) = m.pin
      BY <1>1, <2>2 DEF FilePin
    <2> QED
      BY <1>4, <1>5, <2>1, <2>2, <2>3
  <1>6. CASE at[p] = "done2" /\ UpdateRepo(p, [f EXCEPT !.wpin = WriterPin(m.ws, FALSE)]) /\ Goto(p, "done3") /\ UNCHANGED <<my, codes>>
    <2>1. PICK W, n : W = WriterPin(m.ws, FALSE) /\ n = [f EXCEPT !.wpin = W]
      OBVIOUS
    <2>2. n \in Files /\ n.prefix = f.prefix /\ n.head = f.head /\ n.keys = f.keys /\ n.epoch = f.epoch
      BY <1>1, <2>1 DEF Files
    <2>3. FilePin(n) = FilePin(f)
      BY <2>2 DEF FilePin
    <2> QED
      BY <1>4, <1>6, <2>1, <2>2, <2>3
  <1>7. CASE /\ at[p] = "done3"
             /\ UpdateRepo(p, IF ~Decrypts(p) \/ mat = None THEN f ELSE [f EXCEPT !.mat = mat])
             /\ IF m.err # "none" THEN Fail(p, m.err)
                ELSE IF m.undec THEN Fail(p, IF s \in Keyless THEN "NO_ENVELOPE" ELSE "VAULT_EPOCH_NOT_OPENABLE")
                ELSE Goto(p, "ready") /\ UNCHANGED <<my, codes>>
    <2>1. PICK n \in Files : /\ UpdateRepo(p, n) /\ n.keys = f.keys /\ n.epoch = f.epoch
                             /\ n.head = f.head /\ n.prefix = f.prefix
      <3>1. mat \in Pins \cup {None}
        BY <1>0, <1>1
      <3>2. mat # None => [f EXCEPT !.mat = mat] \in Files
        BY <1>1, <3>1 DEF Files
      <3>3. [f EXCEPT !.mat = mat].keys = f.keys /\ [f EXCEPT !.mat = mat].epoch = f.epoch
            /\ [f EXCEPT !.mat = mat].head = f.head /\ [f EXCEPT !.mat = mat].prefix = f.prefix
        BY <1>1 DEF Files
      <3> QED
        BY <1>1, <1>7, <3>2, <3>3
    <2>2. FilePin(n) = FilePin(f)
      BY <2>1 DEF FilePin
    <2>3. CASE Goto(p, "ready") /\ UNCHANGED <<my, codes>> /\ ~m.undec /\ m.err = "none"
      BY <1>4, <1>7, <2>1, <2>2, <2>3
    <2>4. ASSUME NEW code, Fail(p, code), code # "EPOCH_REFUSED", code = "VAULT_EPOCH_NOT_OPENABLE" => m.undec /\ s \notin Keyless
          PROVE  Keyed'
      <3>1. ASSUME Careful(s), m.undec, s \notin Keyless PROVE s \notin members \ faults.torn
        <4>1. Excluded(s, m.pin.gen) \/ s \in faults.torn
          BY <1>1, <1>7, <3>1 DEF Opening, Walking
        <4>2. ASSUME Excluded(s, m.pin.gen) PROVE s \notin members
          <5>1. PICK k \in 1 .. m.pin.gen : Rotation(k) /\ s \notin chain[k].incl
            BY <4>2 DEF Excluded
          <5>2. k \in 1 .. Newest
            BY <1>1, <1>7 DEF Near, Walking
          <5>3. s \in Eligible(k)
            BY <3>1, <5>1, <5>2, Entitlement DEF Careful
          <5> QED
            BY <3>1, <5>1, <5>2, <5>3 DEF Keyed, Sealed, Readers
        <4> QED
          BY <4>1, <4>2
      <3>2. codes' = codes \cup {<<s, code>>} /\ End(p)
        BY <1>0, <2>4 DEF Fail
      <3>3. Grows /\ (Careful(s)' => Careful(s))
        <4>1. Grows
          BY <1>1, Still DEF Grows
        <4> QED
          BY <4>1, CarefulKept
      <3>4. \A c \in codes' \ codes : c = <<s, code>>
        BY <3>2
      <3>5. Unrefused'
        BY <1>1, <2>4, <3>1, <3>3, <3>4, CleanUnrefused DEF Keyed
      <3> QED
        BY <1>0, <1>1, <1>7, <2>1, <2>2, <3>2, <3>5, EndWrites
    <2>5. m.err \in Errors /\ \A e \in Errors : e # "EPOCH_REFUSED" /\ e # "VAULT_EPOCH_NOT_OPENABLE"
      BY <1>1 DEF Locals, Errors
    <2> QED
      BY <1>7, <2>3, <2>4, <2>5
  <1> QED
    BY <1>0, <1>5, <1>6, <1>7 DEF Done

LEMMA PublishKeys ==
  ASSUME Types, Types', Sound, Keyed, OneEach, NEW p \in Procs, Publish(p), UNCHANGED plan
  PROVE  Keyed'
  <1>0. PICK m, f, s : m = my[p] /\ f = File(p) /\ s = StoreOf[p]
    OBVIOUS
  <1>1. at[p] = "ready" /\ UNCHANGED <<chain, members, files, faults>>
    BY Publishes
  <1>2. /\ m \in Locals /\ f \in Files /\ UpdateRepo(p, f) /\ Near("ready", m) /\ f.epoch \in Nat
        /\ (Careful(s) => Stored(s, f, "ready", m) /\ Opening(s, f, "ready", m)) /\ Newest \in Nat
    BY <1>0, <1>1, OwnKeys
  <1>3. Clean(p)
    <2>1. ASSUME NEW code, code \notin {"EPOCH_REFUSED", "VAULT_EPOCH_NOT_OPENABLE"}, Fail(p, code) PROVE Clean(p)
      BY <2>1 DEF Fail, Clean
    <2>2. UNCHANGED codes => Clean(p)
      BY DEF Clean
    <2>3. NotWriter(p) => Clean(p)
      BY <2>1 DEF NotWriter
    <2>4. PublishPush(p) => Clean(p)
      BY <2>2, <2>3 DEF PublishPush, Submit
    <2>5. PublishAdd(p) => Clean(p)
      BY <2>1, <2>2, <2>3 DEF PublishAdd, Submit
    <2>6. PublishRotate(p) => Clean(p)
      BY <2>1, <2>2, <2>3 DEF PublishRotate, Submit
    <2>7. PublishConfirm(p) => Clean(p)
      BY <2>1, <2>2, <2>3 DEF PublishConfirm, Submit
    <2> QED
      BY <2>2, <2>4, <2>5, <2>6, <2>7 DEF Publish
  <1>4. CASE End(p)
    BY <1>1, <1>3, <1>4, EndKeys
  <1>5. ASSUME NEW h, Offers(p, h) PROVE Keyed'
    <2>1. PICK n : n = [m EXCEPT !.prop = h]
      OBVIOUS
    <2>2. at' = [at EXCEPT ![p] = "admit"] /\ my' = [my EXCEPT ![p] = n]
      BY <1>0, <1>5, <2>1 DEF Offers, Submit, Goto, Local
    <2>3. n \in Locals /\ n.prop = h /\ n.pin = m.pin /\ n.op = m.op
      BY <1>2, <2>1, <2>2, ZenonT(60) DEF Locals, Types
    <2>4. /\ h.gen = m.pin.gen + 1 /\ (h.tr.kind = "rotate" => h.incl = Included(p) /\ h.epoch = m.epoch + 1)
          /\ (h.tr.kind # "rotate" => h.epoch = f.epoch)
      BY <1>0, <1>5 DEF Offers
    <2>5. m.pin.gen \in 0 .. Newest /\ m.epoch = EpochAt(m.pin.gen)
      BY <1>2 DEF Near
    <2>6. /\ \A k \in 1 .. m.pin.gen : Rotation(k) => Included(p) \cap Eligible(k) \subseteq chain[k].incl
          /\ h.gen = Newest + 1 => Readers \cap Eligible(h.gen) \subseteq Included(p)
      <3>1. Included(p) \subseteq Readers
        BY DEF Included, Readers
      <3>2. \A k \in 1 .. m.pin.gen : Rotation(k) => Readers \cap Eligible(k) \subseteq chain[k].incl
        BY <1>2, <2>5 DEF Keyed, Sealed
      <3>3. ASSUME h.gen = Newest + 1 PROVE Readers \cap Eligible(h.gen) \subseteq Included(p)
        <4>1. h.gen - 1 = my[p].pin.gen /\ h.gen - 1 = Newest
          BY <1>0, <1>2, <2>4, <2>5, <3>3
        <4> QED
          BY <4>1 DEF Eligible, Readers, Included, Blocked
      <3> QED
        BY <3>1, <3>2, <3>3
    <2>7. Near("admit", n)
      BY <2>3, <2>4, <2>5, <2>6 DEF Near, Walking
    <2>8. ASSUME Careful(s) PROVE Stored(s, f, "admit", n) /\ Opening(s, f, "admit", n)
      <3>1. Stored(s, f, "ready", m) /\ m.epoch <= f.epoch
        BY <1>2, <2>8 DEF Opening
      <3>2. Stored(s, f, "admit", n)
        BY <3>1 DEF Stored
      <3>3. Opening(s, f, "admit", n)
        BY <1>2, <2>3, <2>4, <2>5, <3>1 DEF Opening, Walking
      <3> QED
        BY <3>2, <3>3
    <2> QED
      BY <1>0, <1>1, <1>2, <1>3, <2>2, <2>3, <2>7, <2>8, KeyStays
  <1> QED
    BY <1>4, <1>5, Publishes

LEMMA AdmitKeys ==
  ASSUME Types, Types', Sound, Keyed, OneEach, NEW p \in Procs, Admit(p), UNCHANGED plan
  PROVE  Keyed'
  <1>0. PICK m, f, s, h, c, I : m = my[p] /\ f = File(p) /\ s = StoreOf[p] /\ h = m.prop /\ c = Newest /\ I = Idle
    OBVIOUS
  <1>1. at[p] = "admit" /\ UNCHANGED <<members, files>>
    BY Admits
  <1>2. /\ m \in Locals /\ f \in Files /\ UpdateRepo(p, f) /\ Near("admit", m) /\ f.epoch \in Nat /\ c \in Nat
        /\ (Careful(s) => Stored(s, f, "admit", m) /\ Opening(s, f, "admit", m))
        /\ m.op \in plan.kinds[p] \cup {"none"} /\ h \in Heads /\ h.epoch \in Nat
    <2>1. m \in Locals
      BY <1>0, OwnKeys
    <2>2. h \in Heads /\ h.epoch \in Nat
      BY <1>0, <2>1 DEF Locals, Heads
    <2> QED
      BY <1>0, <1>1, <2>1, <2>2, OwnKeys
  <1>3. /\ m.pin.gen \in 0 .. c /\ h.gen = m.pin.gen + 1 /\ EpochAt(m.pin.gen) \in Nat
        /\ h.tr.kind = "rotate" => /\ h.epoch = EpochAt(m.pin.gen) + 1
                                   /\ \A k \in 1 .. m.pin.gen : Rotation(k) => h.incl \cap Eligible(k) \subseteq chain[k].incl
                                   /\ h.gen = c + 1 => Readers \cap Eligible(h.gen) \subseteq h.incl
    BY <1>0, <1>2, Ats DEF Near, Types
  <1>4. Successor(h) => m.pin.gen = c
    BY <1>0, <1>2, <1>3 DEF Successor
  <1>5. ASSUME Careful(s), Successor(h) PROVE f.epoch = EpochAt(c) /\ h.epoch = EpochAt(c) + (IF h.tr.kind = "rotate" THEN 1 ELSE 0)
    <2>1. EpochAt(c) <= f.epoch /\ f.epoch <= EpochAt(c) /\ EpochAt(c) \in Nat
          /\ (h.tr.kind # "rotate" => EpochAt(c) <= h.epoch /\ h.epoch <= f.epoch)
      BY <1>0, <1>2, <1>3, <1>4, <1>5 DEF Opening, Stored
    <2> QED
      BY <1>2, <1>3, <1>4, <1>5, <2>1
  <1>6. \A x \in codes' \ codes :
          x[1] = s /\ x[2] # "VAULT_EPOCH_NOT_OPENABLE" /\ (x[2] = "EPOCH_REFUSED" => Successor(h) /\ EpochRefused(h))
    BY <1>0 DEF Admit, Conflict, RotateFirst, Fail
  <1>7. faults'.torn = faults.torn /\ faults'.unkeyed = faults.unkeyed
    BY DEF Admit, Types, Faults
  <1>8. Grows /\ (Careful(s)' => Careful(s))
    <2>1. CASE UNCHANGED chain
      BY <1>1, <1>7, <2>1, Still, CarefulKept DEF Grows
    <2>2. CASE Adds(p)
      <3>1. Grows
        BY <1>0, <1>1, <1>2, <1>7, <2>2, AddsSound DEF Grows
      <3> QED
        BY <3>1, CarefulKept
    <2> QED
      BY <2>1, <2>2, Admits
  <1>9. Unrefused'
    <2>1. Careful(s) => ~(Successor(h) /\ EpochRefused(h))
      BY <1>0, <1>5 DEF EpochRefused
    <2> QED
      BY <1>1, <1>6, <1>7, <1>8, <2>1, CleanUnrefused DEF Keyed
  <1>10. CASE UNCHANGED <<chain, faults>> /\ End(p)
    BY <1>1, <1>9, <1>10, EndKeys
  <1>11. ASSUME UNCHANGED <<chain, faults>>, Goto(p, "open"), NEW n \in Locals, my' = [my EXCEPT ![p] = n], n.op = m.op
         PROVE  Keyed'
    <2>1. Near("open", n) /\ Opening(s, f, "open", n)
      BY RestKeys
    <2>2. Careful(s) => Stored(s, f, "open", n)
      BY <1>2, RestKeys
    <2> QED
      BY <1>0, <1>1, <1>2, <1>9, <1>11, <2>1, <2>2, KeyStays DEF Goto
  <1>12. ASSUME Adds(p)
         PROVE  /\ Grows /\ Rising' /\ Sealed' /\ Nested' /\ Near("readback", m)'
                /\ Careful(s)' => Stored(s, f, "readback", m)' /\ Opening(s, f, "readback", m)'
    <2>1. /\ Newest' = c + 1 /\ Old(Newest) /\ chain'[c + 1].epoch = h.epoch
          /\ chain'[c + 1].tr = h.tr /\ chain'[c + 1].incl = h.incl
          /\ \A g \in 1 .. c : chain'[g] = chain[g]
      BY <1>0, <1>1, <1>12, AddsSound, Grown
    <2>2. Successor(h) /\ ~EpochRefused(h) /\ m.pin.gen = c /\ h.gen = c + 1
      BY <1>0, <1>3, <1>4, <1>12 DEF Adds
    <2>3. Grows
      BY <1>8
    <2>4. h.epoch = EpochAt(c) + (IF h.tr.kind = "rotate" THEN 1 ELSE 0) /\ EpochAt(c) \in Nat
      BY <1>0, <1>3, <2>2 DEF EpochRefused
    <2>5. PICK d : d = c + 1
      OBVIOUS
    <2>6. EpochAt(d)' = h.epoch /\ (EpochAt(Newest))' = h.epoch
      BY <1>2, <2>1, <2>5 DEF EpochAt
    <2>7. Rising'
      <3>1. ASSUME NEW g \in 0 .. d PROVE EpochAt(g)' <= h.epoch
        <4>1. CASE g = d
          BY <1>2, <2>6, <4>1
        <4>2. CASE g # d
          <5>1. g \in 0 .. c
            BY <1>2, <2>5, <4>2
          <5>2. EpochAt(g)' = EpochAt(g) /\ EpochAt(g) <= EpochAt(c) /\ EpochAt(g) \in Nat
            BY <1>0, <2>1, <5>1, Ats DEF Old, Keyed, Rising, Types
          <5> QED
            BY <1>2, <2>4, <5>2
        <4> QED
          BY <4>1, <4>2
      <3> QED
        BY <2>1, <2>5, <2>6, <3>1 DEF Rising
    <2>8. Nested'
      <3>1. ASSUME NEW k \in 1 .. d, NEW g \in 1 .. k, Rotation(g)', Rotation(k)'
            PROVE  chain'[k].incl \cap Eligible(g)' \subseteq chain'[g].incl
        <4>1. CASE g = d
          BY <1>2, <2>5, <4>1
        <4>2. CASE g # d
          <5>1. g \in 1 .. c /\ chain'[g] = chain[g] /\ Rotation(g) /\ Eligible(g)' = Eligible(g)
            <6>1. g \in 1 .. c
              BY <1>2, <2>5, <3>1, <4>2
            <6> QED
              BY <1>0, <2>3, <3>1, <6>1, OldRotations
          <5>2. CASE k = d
            BY <1>3, <2>1, <2>2, <2>5, <3>1, <5>1, <5>2 DEF Rotation
          <5>3. CASE k # d
            <6>1. k \in 1 .. c
              BY <1>2, <2>5, <3>1, <5>3
            <6>2. chain'[k] = chain[k] /\ Rotation(k)
              BY <1>0, <2>3, <3>1, <6>1, OldRotations
            <6> QED
              BY <1>0, <5>1, <6>1, <6>2 DEF Keyed, Nested
          <5> QED
            BY <5>2, <5>3
        <4> QED
          BY <4>1, <4>2
      <3> QED
        BY <2>1, <2>5, <3>1 DEF Nested
    <2>9. Sealed'
      <3>1. ASSUME NEW g \in 1 .. d, Rotation(g)' PROVE Readers' \cap Eligible(g)' \subseteq chain'[g].incl
        <4>1. Readers' = Readers
          BY <1>1 DEF Readers
        <4>2. CASE g = d
          <5>1. d \in 1 .. Newest + 1
            BY <1>0, <1>2, <2>5
          <5>2. Eligible(d)' = Eligible(d)
            BY <2>3, <5>1, EligibleKept
          <5>3. h.tr.kind = "rotate"
            BY <2>1, <2>5, <3>1, <4>2 DEF Rotation
          <5>4. Readers \cap Eligible(d) \subseteq h.incl
            BY <1>3, <2>2, <2>5, <5>3
          <5> QED
            BY <2>1, <2>5, <4>1, <4>2, <5>2, <5>4
        <4>3. CASE g # d
          <5>1. g \in 1 .. Newest
            BY <1>0, <1>2, <2>5, <3>1, <4>3
          <5>2. chain'[g] = chain[g] /\ Rotation(g) /\ Eligible(g)' = Eligible(g)
            BY <2>3, <3>1, <5>1, OldRotations
          <5> QED
            BY <4>1, <5>1, <5>2 DEF Keyed, Sealed
        <4> QED
          BY <4>2, <4>3
      <3> QED
        BY <2>1, <2>5, <3>1 DEF Sealed
    <2>10. Near("readback", m)'
      BY <1>0, <1>2, <2>1, <2>2 DEF Near, Walking
    <2>11. ASSUME Careful(s)' PROVE Stored(s, f, "readback", m)' /\ Opening(s, f, "readback", m)'
      <3>1. Stored(s, f, "admit", m) /\ Opening(s, f, "admit", m) /\ Careful(s)
        BY <1>2, <1>8, <2>11
      <3>2. Stored(s, f, "readback", m)
        BY <3>1 DEF Stored
      <3>3. Stored(s, f, "readback", m)'
        BY <1>2, <2>3, <2>7, <3>2, StoredKept
      <3>4. IF h.tr.kind = "rotate" THEN h.epoch = f.epoch + 1 ELSE h.epoch <= f.epoch
        BY <1>2, <1>5, <2>2, <3>1
      <3>5. Opening(s, f, "readback", m)'
        BY <1>0, <3>4 DEF Opening, Walking
      <3> QED
        BY <3>3, <3>5
    <2> QED
      BY <2>3, <2>7, <2>8, <2>9, <2>10, <2>11
  <1>13. CASE Adds(p) /\ Goto(p, "readback") /\ UNCHANGED my
    <2>1. my' = [my EXCEPT ![p] = m] /\ at' = [at EXCEPT ![p] = "readback"]
      BY <1>0, <1>13 DEF Types, Goto
    <2> QED
      BY <1>0, <1>2, <1>9, <1>12, <1>13, <2>1, KeyStep
  <1>14. CASE Adds(p) /\ End(p)
    <2>1. my' = [my EXCEPT ![p] = I] /\ at' = [at EXCEPT ![p] = "idle"] /\ I.op = "none"
      BY <1>0, <1>14 DEF End, Goto, Local, Idle
    <2>2. Near("idle", I)' /\ Opening(s, f, "idle", I)'
      BY DEF Near, Opening, Walking
    <2>3. Stored(s, f, "readback", m)' => Stored(s, f, "idle", I)'
      BY DEF Stored
    <2> QED
      BY <1>0, <1>2, <1>9, <1>12, <1>14, <2>1, <2>2, <2>3, KeyStep
  <1> QED
    BY <1>0, <1>10, <1>11, <1>13, <1>14, Admits DEF Turned

LEMMA ReadbackKeys ==
  ASSUME Types, Types', Keyed, OneEach, NEW p \in Procs, Readback(p), UNCHANGED plan
  PROVE  Keyed'
  <1>0. PICK m, f, s, P : m = my[p] /\ f = File(p) /\ s = StoreOf[p] /\ P = PropPin(m)
    OBVIOUS
  <1>1. at[p] = "readback" /\ UNCHANGED <<chain, members, faults>>
    BY DEF Readback
  <1>2. /\ m \in Locals /\ f \in Files /\ Near("readback", m)
        /\ (Careful(s) => Stored(s, f, "readback", m) /\ Opening(s, f, "readback", m))
    BY <1>0, <1>1, OwnKeys
  <1>3. P.gen = m.prop.gen /\ P \in Pins /\ P # None
    BY <1>0, <1>2, Consts DEF PropPin, Locals, Heads, Pins
  <1>4. Clean(p)
    BY DEF Readback, Fail, Clean
  <1>5. CASE UpdateRepo(p, [f EXCEPT !.head = P, !.mat = P, !.prefix = None]) /\ Goto(p, "admitted") /\ UNCHANGED my
    <2>1. PICK n : n = [f EXCEPT !.head = P, !.mat = P, !.prefix = None]
      OBVIOUS
    <2>2. n \in Files /\ n.head = P /\ n.prefix = None /\ n.keys = f.keys /\ n.epoch = f.epoch
      BY <1>2, <1>3, <2>1 DEF Files
    <2>3. FilePin(n) = P
      BY <1>3, <2>2 DEF FilePin
    <2>4. Near("admitted", m) /\ m.prop.gen \in 1 .. Newest /\ chain[m.prop.gen].epoch = m.prop.epoch
      BY <1>2 DEF Near, Walking
    <2>5. m.prop.gen \in 0 .. Newest /\ EpochAt(m.prop.gen) = m.prop.epoch
      BY <2>4 DEF EpochAt
    <2>6. ASSUME Careful(s) PROVE Stored(s, n, "admitted", m) /\ Opening(s, n, "admitted", m)
      <3>1. Stored(s, f, "readback", m) /\ Opening(s, f, "readback", m)
        BY <1>2, <2>6
      <3>2. IF m.prop.tr.kind = "rotate" THEN m.prop.epoch = n.epoch + 1 ELSE m.prop.epoch <= n.epoch
        BY <2>2, <3>1 DEF Opening
      <3>3. Stored(s, n, "admitted", m)
        BY <1>3, <2>2, <2>3, <2>5, <3>1, <3>2 DEF Stored, Covers
      <3>4. Opening(s, n, "admitted", m)
        BY <1>3, <2>3, <3>2 DEF Opening, Walking
      <3> QED
        BY <3>3, <3>4
    <2>7. my' = [my EXCEPT ![p] = m]
      BY <1>0, <1>5 DEF Types
    <2> QED
      BY <1>0, <1>1, <1>2, <1>4, <1>5, <2>1, <2>2, <2>4, <2>6, <2>7, KeyStays DEF Goto
  <1>6. CASE End(p) /\ UNCHANGED files
    BY <1>1, <1>4, <1>6, EndKeys
  <1> QED
    BY <1>0, <1>5, <1>6 DEF Readback, PropPin, Fail

LEMMA AdmittedKeys ==
  ASSUME Types, Types', Keyed, OneEach, NEW p \in Procs, Admitted(p), UNCHANGED plan
  PROVE  Keyed'
  <1>0. PICK m, f, s, t : m = my[p] /\ f = File(p) /\ s = StoreOf[p] /\ t = m.prop.tr
    OBVIOUS
  <1>1. /\ UNCHANGED <<chain, members, codes>> /\ faults'.torn = faults.torn /\ faults'.unkeyed = faults.unkeyed
    BY DEF Admitted, Types, Faults
  <1>2. /\ m \in Locals /\ f \in Files /\ 0 \in f.keys /\ f.epoch \in Nat /\ Newest \in Nat /\ Near(at[p], m)
        /\ (UpdateRepo(p, f) <=> UNCHANGED files) /\ m.prop.epoch \in Nat
        /\ m.op \in plan.kinds[p] \cup {"none"}
        /\ (Careful(s) => Stored(s, f, at[p], m) /\ Opening(s, f, at[p], m))
    BY <1>0, OwnKeys DEF Locals, Heads
  <1>3. Clean(p)
    BY <1>1 DEF Clean
  <1>4. ASSUME NEW k \in Files, UpdateRepo(p, k), NEW l \in {"idle", "open", "writers"}, Goto(p, l),
               NEW n \in Locals, my' = [my EXCEPT ![p] = n], n.op = m.op \/ n.op = "none",
               Careful(s) => Stored(s, k, l, n)
        PROVE  Keyed'
    <2>1. Near(l, n) /\ Opening(s, k, l, n)
      BY RestKeys
    <2> QED
      BY <1>0, <1>1, <1>2, <1>3, <1>4, <2>1, KeyStays DEF Goto
  <1>5. ASSUME NEW k \in Files, UpdateRepo(p, k), EndOrPush(p),
               \A l \in {"idle", "open"} : \A n : Careful(s) => Stored(s, k, l, n)
        PROVE  Keyed'
    <2>1. CASE End(p)
      <3>1. PICK I : I = Idle
        OBVIOUS
      <3>2. my' = [my EXCEPT ![p] = I] /\ Goto(p, "idle") /\ I.op = "none" /\ I \in Locals
        BY <2>1, <3>1, IdleTyped DEF End, Local, Idle, Types
      <3> QED
        BY <1>4, <1>5, <3>2
    <2>2. CASE Goto(p, "open") /\ \E n \in Locals : my' = [my EXCEPT ![p] = n] /\ Turned(n, m)
      BY <1>4, <1>5, <2>2 DEF Turned
    <2> QED
      BY <1>0, <1>5, <2>1, <2>2, EndOrPushes
  <1>6. CASE /\ at[p] = "admitted"
             /\ IF t.kind = "rotate" THEN UpdateRepo(p, RecordEpochRotation(f, m.prop.epoch)) ELSE UNCHANGED files
             /\ IF ChangesWriters(t) THEN Goto(p, "writers") /\ UNCHANGED my ELSE EndOrPush(p)
    <2>1. PICK k \in Files : UpdateRepo(p, k) /\ k = IF t.kind = "rotate" THEN RecordEpochRotation(f, m.prop.epoch) ELSE f
      BY <1>2, <1>6, KeyKept
    <2>2. ASSUME Careful(s), NEW l \in {"idle", "open", "writers"}, NEW n PROVE Stored(s, k, l, n)
      <3>1. Stored(s, f, "admitted", m) /\ Opening(s, f, "admitted", m)
        BY <1>2, <1>6, <2>2
      <3>2. CASE t.kind # "rotate"
        BY <1>0, <2>1, <3>1, <3>2 DEF Stored
      <3>3. CASE t.kind = "rotate"
        <4>1. f.keys = 0 .. f.epoch /\ m.prop.epoch = f.epoch + 1 /\ FilePin(f).gen = m.prop.gen
          BY <1>0, <3>1, <3>3 DEF Stored, Opening
        <4>2. k.epoch = m.prop.epoch /\ k.keys = 0 .. m.prop.epoch /\ FilePin(k) = FilePin(f)
          BY <1>2, <2>1, <3>3, <4>1, NextKey
        <4>3. m.prop.gen \in 1 .. Newest /\ chain[m.prop.gen].epoch = m.prop.epoch
          BY <1>2, <1>6 DEF Near
        <4>4. m.prop.gen \in 0 .. Newest /\ EpochAt(m.prop.gen) = m.prop.epoch
          BY <4>3 DEF EpochAt
        <4>5. EpochAt(m.prop.gen) <= EpochAt(Newest)
          BY <4>4 DEF Keyed, Rising
        <4> QED
          BY <1>2, <4>1, <4>2, <4>4, <4>5 DEF Stored, Covers
      <3> QED
        BY <3>2, <3>3
    <2>3. CASE ChangesWriters(t)
      <3>1. my' = [my EXCEPT ![p] = m] /\ Goto(p, "writers")
        BY <1>0, <1>6, <2>3 DEF Types
      <3> QED
        BY <1>2, <1>4, <2>1, <2>2, <3>1
    <2>4. CASE ~ChangesWriters(t)
      BY <1>5, <1>6, <2>1, <2>2, <2>4
    <2> QED
      BY <2>3, <2>4
  <1>7. CASE at[p] = "writers" /\ EndOrPush(p) /\ \E W : UpdateRepo(p, [f EXCEPT !.wpin = W])
    <2>1. PICK W, k : k = [f EXCEPT !.wpin = W] /\ UpdateRepo(p, k)
      BY <1>7
    <2>2. k.keys = f.keys /\ k.epoch = f.epoch /\ k.head = f.head /\ k.prefix = f.prefix /\ k = files'[s]
      BY <1>0, <1>2, <2>1, Consts DEF Files, UpdateRepo, Types, FilesTyped
    <2>3. FilePin(k) = FilePin(f) /\ k \in Files
      BY <1>0, <2>2, Consts DEF FilePin, Types, FilesTyped
    <2>4. Careful(s) => Stored(s, f, "writers", m)
      BY <1>2, <1>7
    <2>5. \A l \in {"idle", "open"} : \A n : Careful(s) => Stored(s, k, l, n)
      BY <2>2, <2>3, <2>4 DEF Stored, Covers
    <2> QED
      BY <1>5, <1>7, <2>1, <2>3, <2>5
  <1> QED
    BY <1>0, <1>6, <1>7 DEF Admitted

LEMMA CrashKeys ==
  ASSUME Types, Types', Keyed, OneEach, NEW p \in Procs, Crash(p), UNCHANGED plan
  PROVE  Keyed'
  <1>0. PICK m, f, s, I : m = my[p] /\ f = File(p) /\ s = StoreOf[p] /\ I = Idle
    OBVIOUS
  <1>1. /\ at' = [at EXCEPT ![p] = "idle"] /\ my' = [my EXCEPT ![p] = I] /\ I.op = "none"
        /\ UNCHANGED <<chain, members, files, codes>>
    BY <1>0 DEF Crash, End, Goto, Local, Idle
  <1>2. /\ faults.torn \subseteq faults'.torn
        /\ faults'.unkeyed = IF BeforeKey(p) THEN faults.unkeyed \cup {s} ELSE faults.unkeyed
    BY <1>0 DEF Crash, Types, Faults
  <1>3. /\ f \in Files /\ UpdateRepo(p, f) /\ (Careful(s) => Stored(s, f, at[p], m))
    BY <1>0, <1>1, OwnKeys
  <1>4. Grows
    BY <1>1, <1>2, Still DEF Grows
  <1>5. Rising' /\ Sealed' /\ Nested'
    BY <1>1, <1>4, ChainRests
  <1>6. Unrefused'
    BY <1>1, <1>4, CleanUnrefused DEF Keyed
  <1>7. Near("idle", I)' /\ Opening(s, f, "idle", I)'
    BY DEF Near, Opening, Walking
  <1>8. ASSUME Careful(s)' PROVE Stored(s, f, "idle", I)'
    <2>1. Careful(s) /\ ~BeforeKey(p)
      <3>1. Careful(s)
        BY <1>4, <1>8, CarefulKept
      <3> QED
        BY <1>2, <1>8, <3>1 DEF Careful
    <2>2. Stored(s, f, "idle", I)
      BY <1>0, <1>3, <2>1, RestKeys DEF BeforeKey
    <2> QED
      BY <1>3, <1>4, <1>5, <2>2, StoredKept
  <1> QED
    BY <1>0, <1>1, <1>3, <1>4, <1>5, <1>6, <1>7, <1>8, KeyStep

LEMMA SameKeys ==
  ASSUME Types, Types', Keyed, UNCHANGED <<plan, chain, files, at, my, codes>>, members' \subseteq members,
         faults'.torn = faults.torn, faults'.unkeyed = faults.unkeyed
  PROVE  Keyed'
  <1>1. Grows
    BY Still DEF Grows
  <1>2. Rising' /\ Sealed' /\ Nested'
    BY <1>1, ChainRests
  <1>3. Unrefused'
    BY <1>1, CleanUnrefused DEF Keyed
  <1>4. ASSUME NEW q \in Procs
        PROVE  /\ Near(at[q], my[q])' /\ (my[q].op \in plan.kinds[q] \cup {"none"})'
               /\ Careful(StoreOf[q])' => Stored(StoreOf[q], File(q), at[q], my[q])' /\ Opening(StoreOf[q], File(q), at[q], my[q])'
    <2>1. PICK k, m, g, s : k = at[q] /\ m = my[q] /\ g = File(q) /\ s = StoreOf[q]
      OBVIOUS
    <2>2. Near(k, m) /\ m \in Locals /\ g \in Files /\ m.op \in plan.kinds[q] \cup {"none"}
          /\ (Careful(s) => Stored(s, g, k, m) /\ Opening(s, g, k, m))
      BY <2>1, Fields DEF Keyed
    <2>3. Careful(s)' => Careful(s)
      BY <1>1, CarefulKept
    <2>4. Near(k, m)' /\ (Careful(s)' => Stored(s, g, k, m)' /\ Opening(s, g, k, m)')
      BY <1>1, <1>2, <2>2, <2>3, NearKept, StoredKept, OpeningKept
    <2>5. at'[q] = k /\ my'[q] = m /\ File(q)' = g
      BY <2>1 DEF File
    <2> QED
      BY <2>1, <2>2, <2>4, <2>5
  <1> QED
    BY <1>2, <1>3, <1>4 DEF Keyed

LEMMA InitKeys == ASSUME Init PROVE Keyed
  <1>1. chain = <<>> /\ codes = {} /\ Newest = 0
    BY DEF Init, Newest
  <1>2. Rising /\ Sealed /\ Nested /\ Unrefused
    BY <1>1 DEF Rising, Sealed, Nested, Unrefused, EpochAt
  <1>3. ASSUME NEW p \in Procs
        PROVE  /\ Near(at[p], my[p]) /\ my[p].op \in plan.kinds[p] \cup {"none"}
               /\ Stored(StoreOf[p], File(p), at[p], my[p]) /\ Opening(StoreOf[p], File(p), at[p], my[p])
    <2>1. PICK m, f, s : m = my[p] /\ f = File(p) /\ s = StoreOf[p]
      OBVIOUS
    <2>2. at[p] = "idle" /\ m.op = "none" /\ f.keys = {0} /\ f.epoch = 0 /\ f.prefix = None /\ f.head = None
      BY <2>1, Consts DEF Init, File, NewFile, Idle
    <2>3. FilePin(f).gen = 0
      BY <2>2 DEF FilePin, Genesis
    <2>4. Stored(s, f, "idle", m)
      BY <1>1, <2>2, <2>3 DEF Stored, Covers, EpochAt
    <2>5. Near("idle", m) /\ Opening(s, f, "idle", m)
      BY RestKeys
    <2> QED
      BY <2>1, <2>2, <2>4, <2>5
  <1> QED
    BY <1>2, <1>3 DEF Keyed

\* Only the gateway loses heads.
LEMMA StepLoses ==
  ASSUME Types, NEW p \in Procs, Begin(p) \/ Crash(p) \/ Step(p)
  PROVE  faults'.rollback = faults.rollback
  <1>1. CASE UNCHANGED faults
    BY <1>1
  <1>2. CASE Crash(p)
    BY <1>2 DEF Crash, Types, Faults
  <1>3. CASE Admit(p)
    BY <1>1, <1>3, Admits DEF Types, Faults
  <1>4. CASE Admitted(p)
    BY <1>4 DEF Admitted, Types, Faults
  <1> QED
    BY Zenon, <1>1, <1>2, <1>3, <1>4 DEF Step, Begin, Open, List, Walk, Page, CatchUp, Done, Publish, Readback

LEMMA NextKeys ==
  ASSUME Types, Types', Sound, OneEach, [Next]_vars, faults.rollback = 0 => Follows /\ Keyed, faults'.rollback = 0
  PROVE  Keyed'
  <1>1. CASE UNCHANGED vars
    <2>1. UNCHANGED <<plan, chain, files, at, my, codes, faults, members>>
      BY <1>1 DEF vars
    <2> QED
      BY <2>1, SameKeys
  <1>2. ASSUME NEW p \in Procs, Begin(p) \/ Crash(p) \/ Step(p), UNCHANGED plan PROVE Keyed'
    <2>1. faults'.rollback = faults.rollback
      BY Zenon, <1>2, StepLoses
    <2> QED
      BY <1>2, <2>1, BeginKeys, CrashKeys, OpenKeys, ListKeys, WalkKeys, PageKeys, CatchUpKeys, DoneKeys, PublishKeys,
         AdmitKeys, ReadbackKeys, AdmittedKeys DEF Step, Sound
  <1>3. CASE RemoveMember /\ UNCHANGED plan
    <2>1. /\ UNCHANGED <<chain, files, at, my, codes>> /\ members' \subseteq members /\ faults'.torn = faults.torn
          /\ faults'.unkeyed = faults.unkeyed /\ faults'.rollback = faults.rollback
      BY <1>3 DEF RemoveMember, Types, Faults
    <2> QED
      BY <1>3, <2>1, SameKeys
  <1>4. CASE Rollback
    BY <1>4 DEF Rollback, Types, Faults
  <1> QED
    BY <1>1, <1>2, <1>3, <1>4 DEF Next

\* As long as the gateway keeps its heads, the epochs of the files follow the chain.
KInv == faults.rollback = 0 => Keyed

LEMMA KeysKept == ASSUME OneEach PROVE Spec => []KInv
  <1>1. Init => KInv
    BY InitKeys DEF KInv
  <1>2. IInv /\ IInv' /\ KInv /\ [Next]_vars => KInv'
    BY NextKeys DEF IInv, KInv
  <1> QED
    BY <1>1, <1>2, Kept, PTL DEF Spec

\* A head that wins its generation carries the epoch the gateway expects: a
\* keystore that reads every epoch it verifies, and loses no key between two
\* writes, has its pointer at the epoch of its base whenever it signs.
THEOREM NoEpochRefusalHolds == ASSUME OneEach PROVE Spec => []NoEpochRefusal
  <1>1. KInv => NoEpochRefusal
    BY DEF KInv, Keyed, Unrefused, NoEpochRefusal
  <1> QED
    BY <1>1, KeysKept, PTL

\* A keyed member that reads what it verifies opens every rotation it walks over
\* or catches up on, because each is sealed to it and each signer is known.
THEOREM MembersRead == ASSUME OneEach PROVE Spec => []MembersCanRead
  <1>1. KInv => MembersCanRead
    BY DEF KInv, Keyed, Unrefused, MembersCanRead
  <1> QED
    BY <1>1, KeysKept, PTL

\* Every rotation that a keyed member still lacks, and that found it confirmed or
\* a writer, carries its envelope, although it was sealed from a manifest and
\* members read before it was admitted; and its signer is among the writers,
\* current or retired, the member has pinned.
THEOREM RotationsHold == ASSUME OneEach PROVE Spec => []RotationsStayOpenable
  <1>1. IInv /\ KInv => RotationsStayOpenable
    <2> SUFFICES ASSUME IInv, KInv, NEW s \in members \ (Keyless \cup faults.torn), faults.rollback = 0, Quiet(s), Entitled(s),
                        NEW f, f = files[s], f.head # None, f.prefix = None, f.wpin # None, ~f.wpin.legacy,
                        NEW g \in 1 .. f.head.gen, chain[g].tr.kind = "rotate"
                 PROVE  s \in chain[g].incl /\ KnownSigner(Resumed(f.wpin), chain[g])
      BY DEF RotationsStayOpenable
    <2>1. s \in Keys /\ s \notin faults.torn
      BY DEF IInv, Types
    <2>2. Pinned(f) /\ FilePin(f) = f.head /\ f.head.gen \in Nat /\ Newest \in Nat
      <3>1. Pinned(f) /\ f \in Files
        BY <2>1, Rests
      <3>2. FilePin(f) = f.head
        BY DEF FilePin
      <3>3. FilePin(f).gen \in Nat
        BY <3>1, FilePinTyped
      <3> QED
        BY <3>1, <3>2, <3>3 DEF IInv, Types, Newest
    <2>3. f.head.gen <= Newest
      BY <2>2 DEF Pinned, OnChain
    <2>4. s \in chain[g].incl
      <3>1. g \in 1 .. Newest /\ Rotation(g)
        BY <2>2, <2>3 DEF Rotation
      <3>2. s \in Eligible(g)
        BY <3>1, Entitlement
      <3> QED
        BY <3>1, <3>2 DEF KInv, Keyed, Sealed, Readers
    <2>5. ResolveKnownWriter(WriterStateAt(f.head.gen), chain[g].writer)
      <3>1. PICK k : k = f.head.gen
        OBVIOUS
      <3>2. g \in 1 .. Newest /\ k \in g .. Newest
        BY <2>2, <2>3, <3>1
      <3> QED
        BY <3>1, <3>2 DEF IInv, Sound, Remembered
    <2>6. PICK r : r = Resumed(f.wpin)
      OBVIOUS
    <2>7. r.writers = f.wpin.writers /\ r.retired = f.wpin.retired
      BY <2>6 DEF Resumed, InitialWriterState
    <2>8. f.wpin.writers = WriterStateAt(f.head.gen).writers /\ f.wpin.retired = WriterStateAt(f.head.gen).retired
      BY <2>2 DEF Pinned
    <2>9. KnownSigner(r, chain[g])
      BY <2>5, <2>7, <2>8 DEF KnownSigner, ResolveKnownWriter
    <2> QED
      BY <2>4, <2>6, <2>9
  <1> QED
    BY <1>1, Kept, KeysKept, PTL
=============================================================================
