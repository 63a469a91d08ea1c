----------------------------- MODULE VaultChain -----------------------------
(***************************************************************************)
(* The head chain of a vault and the clients that follow and extend it     *)
(* (sdk/src/node/vault-publication.ts, class Vault).  The gateway keeps an *)
(* append-only chain of signed heads and admits one head per generation.   *)
(* Each keystore keeps pins to the generation it authenticated, the writer *)
(* set replayed to it and the epoch keys it holds.  A process verifies the *)
(* chain upwards from its keystore's pins (verifyToNewest), then signs and *)
(* submits a head (push, rotateEpoch, a pin manifest, add_writer_key).     *)
(* Every updateRepo is a step of its own: a crash, or another process of   *)
(* the same keystore, comes between any two of them.                       *)
(*                                                                         *)
(* Refs and retention roots, which ride every head, are in VaultRefs.      *)
(***************************************************************************)
EXTENDS VaultWriterSet, Sequences

CONSTANTS
  Procs,        \* processes
  StoreOf,      \* the keystore, named by its key, that a process opens
  Keyless,      \* principals without a published encryption key (CI writers)
  Plans         \* the limits and the workloads that Init chooses among

\* A plan: who is in the organization; page, budget and retries stand for
\* VAULT_MAX_HEADS_PER_LISTING_PAGE, the verification budget of one call and
\* VAULT_PUSH_CONFLICT_RETRIES; the operations of each process; whom the genesis
\* pin manifest confirms, whom it names with a key they have replaced since, and for
\* whom an owner has a confirmation to publish; and the bounds on operations, on who
\* may be removed, on crashes, lost answers, removed members and lost heads.
PlanSet ==
  [keys : SUBSET Keys, page : Nat \ {0}, budget : Nat \ {0}, retries : Nat,
   kinds : [Procs -> SUBSET {"sync", "verify", "push", "rotate", "rekey", "confirm", "add", "activate"}],
   pinned : SUBSET Keys, stale : SUBSET Keys, pending : SUBSET Keys,
   ops : [Procs -> Nat], leavers : SUBSET Keys,
   crashes : Nat, lost : Nat, removals : Nat, rollbacks : Nat]

ASSUME ChainAssumption ==
  /\ StoreOf \in [Procs -> Keys] /\ Keyless \subseteq Keys
  /\ None \notin Procs
  /\ \A x \in Plans : x \in PlanSet /\ Creator \in x.keys

VARIABLES
  plan,       \* the plan: fixed by Init
  chain,      \* gateway: the admitted heads, by generation
  members,    \* gateway: principals eligible to write and to read
  files,      \* repos/<id>.json of each keystore
  at,         \* where each process is
  my,         \* the locals of each process
  ops,        \* operations each process has begun
  faults,     \* history: crashes, lost answers, removals, rollbacks so far, and the
              \* keystores whose process died between the pins it was writing (torn),
              \* or before the key of a rotation it had pinned (unkeyed), and those
              \* that pinned writers of a publication (rebuilt, from genesis, next)
  codes       \* history: error codes that ended an operation of a keystore

vars == <<plan, chain, members, files, at, my, ops, faults, codes>>

-----------------------------------------------------------------------------
(* Heads and pins.  The hash of a head is its id: the process that signed  *)
(* it and the number of rollbacks before, unique at its generation.        *)

Genesis == [gen |-> 0, id |-> <<0, None>>]

Newest == Len(chain)
PinAt(g) == IF g = 0 THEN Genesis ELSE [gen |-> g, id |-> chain[g].id]
EpochAt(g) == IF g = 0 THEN 0 ELSE chain[g].epoch
\* The writer state a reader that starts at genesis has after generation g.
WriterStateAt(g) == IF g = 0 THEN InitialWriterState ELSE chain[g].ws

OnChain(pin) == pin.gen <= Newest /\ PinAt(pin.gen) = pin

\* ineligible_members: writers that are no longer eligible.
Blocked == WriterStateAt(Newest).writers \ members

\* The effective pin manifest after generation g: a manifest riding a head keeps
\* the entries of the one before it.  Who is pinned under the current key, and who
\* under another one.
ConfirmedAt(g) == plan.pinned \cup UNION {chain[x].confirms : x \in 1 .. g}
StaleAt(g) == plan.stale \ ConfirmedAt(g)

\* A manifest names its predecessor by hash, so it is known by the heads that
\* carried one up to it.
Manifest(g) == {PinAt(x) : x \in {y \in 1 .. g : chain[y].confirms # {}}}

\* Mutant of Included: a surviving writer needs a pin as well.
IncludedPinned(p) == (members \ Keyless) \cap ConfirmedAt(my[p].pin.gen)

\* The included bucket of a rotation over the base of p: the keyed members pinned
\* before it, and, pin or no pin, those that are writers and survive it.
Included(p) ==
  {s \in members \ Keyless :
     s \in ConfirmedAt(my[p].pin.gen) \/ s \in WriterStateAt(Newest).writers \ Blocked}

-----------------------------------------------------------------------------
(* The repo file.                                                          *)

\* writer_set_pin as verifyToNewest writes it; the publishing paths leave out
\* retired_writers, which marks the pin as one to rebuild from genesis.
WriterPin(ws, legacy) ==
  [version |-> ws.version, writers |-> ws.writers,
   retired |-> IF legacy THEN {} ELSE ws.retired, legacy |-> legacy]

\* burnedWriterKeyIds and consumedHandoffIds are not persisted.
Resumed(wpin) ==
  [InitialWriterState EXCEPT !.version = wpin.version, !.writers = wpin.writers,
                             !.retired = wpin.retired]

NewFile ==
  [head |-> None, prefix |-> None, mat |-> None, wpin |-> None, epoch |-> 0, keys |-> {0}]

File(p) == files[StoreOf[p]]
UpdateRepo(p, f) == files' = [files EXCEPT ![StoreOf[p]] = f]

\* Mutant of RecordEpochRotation: the key is stored, the pointer stays.
RecordKeyOnly(f, e) == [f EXCEPT !.keys = @ \cup {f.epoch, e}]

RecordEpochRotation(f, e) == [f EXCEPT !.epoch = e, !.keys = @ \cup {f.epoch, e}]

-----------------------------------------------------------------------------
(* Processes.                                                              *)

NoHead ==
  [gen |-> 0, id |-> <<0, None>>, prev |-> <<0, None>>, epoch |-> 0, writer |-> None,
   tr |-> NoTransition, incl |-> {}, confirms |-> {}, ws |-> InitialWriterState]

Idle ==
  [op |-> "none", grantor |-> None, target |-> None, receipt |-> {},
   nested |-> FALSE, rotated |-> FALSE, conflicts |-> 0, outer |-> 0,
   pin |-> Genesis, ws |-> InitialWriterState, epoch |-> 0, units |-> 0, end |-> 0,
   more |-> FALSE, keys |-> {}, dec |-> None, got |-> FALSE, anchored |-> FALSE, undec |-> FALSE,
   err |-> "none", prop |-> NoHead]

Goto(p, l) == at' = [at EXCEPT ![p] = l]
Local(p, m) == my' = [my EXCEPT ![p] = m]

\* An operation that ends, with or without an error, forgets its locals.
End(p) == Goto(p, "idle") /\ Local(p, Idle)
Fail(p, code) == End(p) /\ codes' = codes \cup {<<StoreOf[p], code>>}

Init ==
  /\ chain = <<>>
  /\ plan \in Plans
  /\ members = plan.keys
  /\ files = [s \in Keys |-> NewFile]
  /\ at = [p \in Procs |-> "idle"]
  /\ my = [p \in Procs |-> Idle]
  /\ ops = [p \in Procs |-> 0]
  /\ faults = [crash |-> 0, lost |-> 0, removal |-> 0, rollback |-> 0,
               torn |-> {}, unkeyed |-> {}, rebuilt |-> {}]
  /\ codes = {}

\* "add" admits another member through the writer door; "activate" is the
\* handoff door, where the new writer admits itself under a grant; "confirm"
\* publishes a pin, which a rotation may also carry ("rekey" is the elective one).
Targets(p, op) ==
  CASE op = "add"                   -> members
    [] op = "activate"              -> {StoreOf[p]}
    [] op = "confirm"               -> members \cap plan.pending
    [] op \in {"rotate", "rekey"}   -> (members \cap plan.pending) \cup {None}
    [] OTHER                        -> {None}

\* A confirmation receipt is issued against the manifest of that moment.
Begin(p) ==
  /\ at[p] = "idle" /\ ops[p] < plan.ops[p]
  /\ ops' = [ops EXCEPT ![p] = @ + 1]
  /\ \E op \in plan.kinds[p] :
       \E w \in Targets(p, op), g \in IF op = "activate" THEN plan.keys ELSE {None} :
         Local(p, [Idle EXCEPT !.op = op, !.target = w, !.grantor = g, !.receipt = Manifest(Newest)])
  /\ Goto(p, "open")
  /\ UNCHANGED <<chain, members, files, faults, codes>>

-----------------------------------------------------------------------------
(* verifyToNewest, run by materialize with decryptValidate and strict, and *)
(* by verify without.                                                      *)

\* Mutant of StartPin: every call walks from genesis.
StartPinGenesis(f) == Genesis

StartPin(f) ==
  IF f.wpin # None /\ f.wpin.legacy THEN Genesis
  ELSE IF f.prefix # None THEN f.prefix
  ELSE IF f.head # None THEN f.head ELSE Genesis

StartWriters(f) ==
  IF f.wpin # None /\ ~f.wpin.legacy THEN Resumed(f.wpin) ELSE InitialWriterState

\* tryStateFastPath answers a walk of no or one head from one state read,
\* where only a current pin is compared with the vault and a single newer head
\* is left to its chain link; without it (or its cached head) the pinned head
\* is read back and the chain is listed.
Open(p) ==
  LET f == File(p)
      pin == StartPin(f)
      start == [my[p] EXCEPT !.pin = pin, !.ws = StartWriters(f), !.epoch = EpochAt(pin.gen),
                             !.units = 0, !.end = Newest, !.more = FALSE, !.keys = f.keys,
                             !.dec = f.mat, !.got = FALSE, !.anchored = FALSE, !.undec = FALSE,
                             !.err = "none"] IN
  /\ at[p] = "open"
  /\ \/ /\ Newest < pin.gen
        /\ Fail(p, "GENERATION_REGRESSION")
     \/ /\ (Newest = pin.gen /\ OnChain(pin)) \/ Newest = pin.gen + 1
        /\ Local(p, start) /\ Goto(p, "walk") /\ UNCHANGED codes
     \/ /\ Newest > pin.gen + 1 \/ (Newest = pin.gen + 1 /\ pin.gen > 0)
        /\ OnChain(pin)
        /\ Local(p, start) /\ Goto(p, "list") /\ UNCHANGED codes
     \/ /\ Newest >= pin.gen /\ ~OnChain(pin)
        /\ Fail(p, "CHAIN_BROKEN")
  /\ UNCHANGED <<chain, members, files, ops, faults>>

List(p) ==
  LET from == my[p].pin.gen
      end == IF Newest <= from THEN from
             ELSE IF Newest < from + plan.page THEN Newest ELSE from + plan.page IN
  /\ at[p] = "list"
  /\ Local(p, [my[p] EXCEPT !.end = end, !.more = (end < Newest)])
  /\ Goto(p, "walk")
  /\ UNCHANGED <<chain, members, files, ops, faults, codes>>

\* The writer-state verdict on the next head, before its link is checked.
SignerAdmitted(ws, h) ==
  IF h.tr.kind = "add" THEN ValidateAddWriterKey(ws, h.tr, h.writer)
                       ELSE ResolveActiveWriter(ws, h.writer)

\* Mutant of CheckChainLink: the epoch may not change, even by a rotation.
CheckLinkOneEpoch(pin, epoch, h) == h.prev = pin.id /\ h.epoch = epoch

CheckChainLink(pin, epoch, h) ==
  /\ h.prev = pin.id
  /\ h.epoch = IF h.tr.kind = "rotate" THEN epoch + 1 ELSE epoch

\* A reader takes the declared removal for the blocked set.
RemovalValid(ws, h) ==
  h.tr.kind = "rotate" /\ h.tr.removed # {} =>
    ValidateWriterSetUpdate(ws, h.tr, h.writer, h.tr.removed, ws.writers \subseteq h.tr.removed)

\* openEpochRotationForRecipient: the envelope is there for this keystore.
CanOpen(p, h) == StoreOf[p] \in h.incl

\* repos.verify walks the chain without decrypting (decryptValidate: false).
Decrypts(p) == my[p].op # "verify"

\* Advance over one head: replay its transition, then try to decrypt it, which
\* opens the rotation it carries and records the epoch key.
StepOver(p, h) ==
  LET m == my[p]
      tries == Decrypts(p) /\ ~m.undec
      opens == tries /\ h.tr.kind = "rotate" /\ h.epoch \notin m.keys /\ CanOpen(p, h)
      keys == IF opens THEN m.keys \cup {h.epoch} ELSE m.keys
      reads == tries /\ h.epoch \in keys
      pin == PinAt(m.pin.gen + 1) IN
  /\ Local(p, [m EXCEPT !.pin = pin, !.ws = ApplyTransition(@, h.tr), !.epoch = h.epoch,
                        !.units = @ + (IF tries THEN 2 ELSE 1), !.keys = keys,
                        !.dec = IF reads THEN pin ELSE @, !.got = (@ \/ reads),
                        !.undec = @ \/ (tries /\ ~reads)])
  /\ IF opens THEN UpdateRepo(p, RecordEpochRotation(File(p), h.epoch)) ELSE UNCHANGED files

Walk(p) ==
  LET m == my[p]
      h == chain[m.pin.gen + 1]
      link == CheckChainLink(m.pin, m.epoch, h) IN
  /\ at[p] = "walk"
  /\ \/ /\ m.pin.gen >= m.end
        /\ Goto(p, "page1")
        /\ UNCHANGED <<my, files, codes>>
     \/ /\ m.pin.gen < m.end /\ m.units >= plan.budget
        /\ Local(p, [m EXCEPT !.err = "VERIFICATION_BUDGET_EXCEEDED"])
        /\ Goto(p, "page1")
        /\ UNCHANGED <<files, codes>>
     \/ /\ m.pin.gen < m.end /\ m.units < plan.budget
        /\ \/ /\ SignerAdmitted(m.ws, h) /\ ~link
              /\ Fail(p, "CHAIN_BROKEN")
              /\ UNCHANGED files
           \/ /\ ~SignerAdmitted(m.ws, h) \/ (link /\ ~RemovalValid(m.ws, h))
              /\ Local(p, [m EXCEPT !.err = "VAULT_WRITER_NOT_ADMITTED"])
              /\ Goto(p, "done1")
              /\ UNCHANGED <<files, codes>>
           \/ /\ SignerAdmitted(m.ws, h) /\ link /\ RemovalValid(m.ws, h)
              /\ StepOver(p, h)
              /\ UNCHANGED <<at, codes>>
  /\ UNCHANGED <<chain, members, ops, faults>>

\* Mutant of Page: the listing is asked for again whatever has_more says.
PageAgain(p) ==
  LET m == my[p] f == File(p) IN
  /\ \/ /\ at[p] = "page1"
        /\ UpdateRepo(p, [f EXCEPT !.prefix = m.pin])
        /\ Goto(p, "page2") /\ UNCHANGED <<my, codes>>
     \/ /\ at[p] = "page2"
        /\ UpdateRepo(p, [f EXCEPT !.wpin = WriterPin(m.ws, FALSE)])
        /\ Goto(p, "page3") /\ UNCHANGED <<my, codes>>
     \/ /\ at[p] = "page3"
        /\ UpdateRepo(p, IF ~Decrypts(p) \/ m.dec = None THEN f ELSE [f EXCEPT !.mat = m.dec])
        /\ IF m.err # "none" THEN Fail(p, m.err)
           ELSE Goto(p, "list") /\ UNCHANGED <<my, codes>>
  /\ UNCHANGED <<chain, members, ops, faults>>

\* The three writes after a page: verified_prefix, writer_set_pin, materialized_pin.
Page(p) ==
  LET m == my[p] f == File(p) IN
  /\ \/ /\ at[p] = "page1"
        /\ UpdateRepo(p, [f EXCEPT !.prefix = m.pin])
        /\ Goto(p, "page2") /\ UNCHANGED <<my, codes>>
     \/ /\ at[p] = "page2"
        /\ UpdateRepo(p, [f EXCEPT !.wpin = WriterPin(m.ws, FALSE)])
        /\ Goto(p, "page3") /\ UNCHANGED <<my, codes>>
     \/ /\ at[p] = "page3"
        /\ UpdateRepo(p, IF ~Decrypts(p) \/ m.dec = None THEN f ELSE [f EXCEPT !.mat = m.dec])
        /\ IF m.err # "none" THEN Fail(p, m.err)
           ELSE Goto(p, IF m.more THEN "list" ELSE "catchup") /\ UNCHANGED <<my, codes>>
  /\ UNCHANGED <<chain, members, ops, faults>>

\* A head already walked verifies under a known writer or the creator fallback.
KnownSigner(ws, h) == ResolveKnownWriter(ws, h.writer) \/ h.writer = Creator

\* A call that walked nothing new still decrypts the newest head: it walks back
\* to the newest head it holds a key for, decrypts that one, then opens the
\* rotations since, oldest first.
CatchUp(p) ==
  LET m == my[p] f == File(p)
      needed == Decrypts(p) /\ ~m.undec /\ ~m.got /\ m.pin.gen > 0
      readable == {g \in 1 .. m.pin.gen : chain[g].epoch \in m.keys}
      anchor == CHOOSE g \in readable : \A x \in readable : x <= g
      held == {e \in m.keys : e < m.epoch}
      next == 1 + CHOOSE e \in held : \A x \in held : x <= e
      rot == CHOOSE g \in 1 .. Newest : chain[g].tr.kind = "rotate" /\ chain[g].epoch = next IN
  /\ at[p] = "catchup"
  /\ \/ /\ ~needed
        /\ Goto(p, "done1") /\ UNCHANGED <<my, files, codes>>
     \/ /\ needed /\ m.epoch \in m.keys
        /\ LET ok == KnownSigner(m.ws, chain[m.pin.gen]) IN
             Local(p, [m EXCEPT !.dec = IF ok THEN m.pin ELSE @, !.got = ok, !.undec = ~ok])
        /\ UNCHANGED <<at, files, codes>>
     \/ /\ needed /\ m.epoch \notin m.keys /\ ~m.anchored
        /\ LET ok == readable # {} /\ KnownSigner(m.ws, chain[anchor]) IN
             Local(p, [m EXCEPT !.anchored = TRUE, !.dec = IF ok THEN PinAt(anchor) ELSE @,
                                !.undec = (readable # {} /\ ~ok)])
        /\ UNCHANGED <<at, files, codes>>
     \/ /\ needed /\ m.epoch \notin m.keys /\ m.anchored
        /\ IF CanOpen(p, chain[rot]) /\ KnownSigner(m.ws, chain[rot])
           THEN /\ Local(p, [m EXCEPT !.keys = @ \cup {next}])
                /\ UpdateRepo(p, RecordEpochRotation(f, next))
           ELSE Local(p, [m EXCEPT !.undec = TRUE]) /\ UNCHANGED files
        /\ UNCHANGED <<at, codes>>
  /\ UNCHANGED <<chain, members, ops, faults>>

\* The closing writes, also of a refused head: head_pin, writer_set_pin,
\* materialized_pin.  An undecryptable newest head then fails the call.
Done(p) ==
  LET m == my[p] f == File(p)
      mat == IF m.pin.gen = 0 THEN m.pin ELSE m.dec IN
  /\ \/ /\ at[p] = "done1"
        /\ UpdateRepo(p, [f EXCEPT !.head = m.pin, !.prefix = None])
        /\ Goto(p, "done2") /\ UNCHANGED <<my, codes>>
     \/ /\ at[p] = "done2"
        /\ UpdateRepo(p, [f EXCEPT !.wpin = WriterPin(m.ws, FALSE)])
        /\ Goto(p, "done3") /\ UNCHANGED <<my, codes>>
     \/ /\ at[p] = "done3"
        /\ UpdateRepo(p, IF ~Decrypts(p) \/ mat = None THEN f ELSE [f EXCEPT !.mat = mat])
        /\ IF m.err # "none" THEN Fail(p, m.err)
           ELSE IF m.undec THEN Fail(p, IF StoreOf[p] \in Keyless THEN "NO_ENVELOPE" ELSE "VAULT_EPOCH_NOT_OPENABLE")
           ELSE Goto(p, "ready") /\ UNCHANGED <<my, codes>>
  /\ UNCHANGED <<chain, members, ops, faults>>

-----------------------------------------------------------------------------
(* Publishing over the base just materialized.                             *)

\* The pin-manifest update a head carries, and whether its receipt was issued
\* against another manifest than the one it is now built from.
Confirms(p) == IF my[p].op \in {"confirm", "rotate", "rekey"} THEN {my[p].target} \ {None} ELSE {}
ReceiptStale(p) == Confirms(p) # {} /\ my[p].receipt # Manifest(my[p].pin.gen)

\* signHead: the epoch is the keystore's pointer unless a rotation names its own.
SignHead(p, tr, epoch, incl) ==
  [gen |-> my[p].pin.gen + 1, id |-> <<faults.rollback, p>>, prev |-> my[p].pin.id,
   epoch |-> epoch, writer |-> StoreOf[p], tr |-> tr, incl |-> incl,
   confirms |-> Confirms(p), ws |-> InitialWriterState]

Submit(p, h) == Local(p, [my[p] EXCEPT !.prop = h]) /\ Goto(p, "admit") /\ UNCHANGED codes

\* assertCallerIsWriter, against the writer_set_pin in the file.
CallerIsWriter(p) == File(p).wpin # None /\ StoreOf[p] \in File(p).wpin.writers

Kind(p) == IF my[p].nested \/ my[p].op = "rekey" THEN "rotate" ELSE my[p].op

NotWriter(p) == Fail(p, IF my[p].conflicts > 0 THEN "VAULT_WRITER_REMOVED" ELSE "CALLER_NOT_A_WRITER")

PublishPush(p) ==
  /\ Kind(p) = "push"
  /\ IF CallerIsWriter(p) THEN Submit(p, SignHead(p, NoTransition, File(p).epoch, {})) ELSE NotWriter(p)

\* #publishAddWriterKeyTransition: both doors.
PublishAdd(p) ==
  LET w == my[p].target
      wpin == File(p).wpin IN
  /\ Kind(p) \in {"add", "activate"}
  /\ IF Kind(p) = "add" /\ ~CallerIsWriter(p) THEN NotWriter(p)
     ELSE IF wpin = None THEN Fail(p, "VAULT_WRITER_STATE_UNAVAILABLE")
     ELSE IF w \in wpin.writers THEN End(p) /\ UNCHANGED codes
     ELSE Submit(p, SignHead(p, AddTransition(Resumed(wpin), w, my[p].grantor), File(p).epoch, {}))

\* loadEffectivePinManifest reads the head of the base back.
BaseGone(p) == my[p].pin.gen > Newest

\* publishPinManifestUpdate: an ordinary head that carries the update.
PublishConfirm(p) ==
  /\ Kind(p) = "confirm"
  /\ IF ~CallerIsWriter(p) THEN NotWriter(p)
     ELSE IF BaseGone(p) THEN Fail(p, "CHAIN_BROKEN")
     ELSE IF ReceiptStale(p) THEN Fail(p, "VALIDATION_FAILED")
     ELSE Submit(p, SignHead(p, NoTransition, File(p).epoch, {}))

\* rotateEpoch: a pin that disagrees with the directory blocks it; the blocked
\* set is read now and folded into the rotation; an update it carries does not
\* count for its own recipients.
PublishRotate(p) ==
  LET wpin == File(p).wpin
      tr == RotateTransition(Resumed(wpin), Blocked) IN
  /\ Kind(p) = "rotate"
  /\ IF ~CallerIsWriter(p) THEN NotWriter(p)
     ELSE IF BaseGone(p) THEN Fail(p, "CHAIN_BROKEN")
     ELSE IF (members \ Keyless) \cap StaleAt(my[p].pin.gen) # {} THEN Fail(p, "VAULT_ROTATION_BLOCKED_PIN_MISMATCH")
     ELSE IF my[p].op = "rekey" /\ Included(p) # members THEN Fail(p, "EPOCH_ROTATION_INCOMPLETE_ENROLLMENT")
     ELSE IF Included(p) = {} THEN Fail(p, "EPOCH_ROTATION_WOULD_LEAVE_VAULT_UNCOVERED")
     ELSE IF /\ Blocked # {}
             /\ ~ValidateWriterSetUpdate(Resumed(wpin), tr, StoreOf[p], Blocked, FALSE)
          THEN Fail(p, "WRITER_SET_UPDATE_INVALID")
     ELSE IF ReceiptStale(p) THEN Fail(p, "VALIDATION_FAILED")
     ELSE Submit(p, SignHead(p, tr, my[p].epoch + 1, Included(p)))

Publish(p) ==
  /\ at[p] = "ready"
  /\ \/ Kind(p) \in {"sync", "verify"} /\ End(p) /\ UNCHANGED codes
     \/ PublishPush(p) \/ PublishConfirm(p) \/ PublishAdd(p) \/ PublishRotate(p)
  /\ UNCHANGED <<chain, members, files, ops, faults>>

-----------------------------------------------------------------------------
(* The gateway's admission fence, as the client relies on it.              *)

EpochRefused(h) == h.epoch # EpochAt(Newest) + (IF h.tr.kind = "rotate" THEN 1 ELSE 0)

RotationRequired(h) == h.tr.kind # "rotate" /\ Blocked # {}

TransitionAdmissible(h) ==
  LET ws == WriterStateAt(Newest) IN
  CASE h.tr.kind = "none"   -> h.writer \in ws.writers
    [] h.tr.kind = "add"    -> ValidateAddWriterKey(ws, h.tr, h.writer) /\ h.tr.added \in members
    [] h.tr.kind = "rotate" -> /\ h.writer \in ws.writers
                               /\ h.tr.removed = Blocked
                               /\ Blocked # {} => ValidateWriterSetUpdate(ws, h.tr, h.writer, Blocked, FALSE)

Successor(h) == h.gen = Newest + 1 /\ h.prev = PinAt(Newest).id

\* The answer: a CAS conflict re-verifies from storage; a rotation the removal
\* of a member calls for is run once inside a push; anything else ends the call.
Conflict(p) ==
  LET m == my[p] IN
  IF m.conflicts + 1 > plan.retries THEN Fail(p, "HEAD_CAS_CONFLICT")
  ELSE Local(p, [m EXCEPT !.conflicts = @ + 1]) /\ Goto(p, "open") /\ UNCHANGED codes

RotateFirst(p) ==
  LET m == my[p] IN
  IF m.op = "push" /\ ~m.rotated
  THEN /\ Local(p, [m EXCEPT !.nested = TRUE, !.rotated = TRUE, !.outer = m.conflicts, !.conflicts = 0])
       /\ Goto(p, "open") /\ UNCHANGED codes
  ELSE Fail(p, "EPOCH_ROTATION_REQUIRED")

Admit(p) ==
  LET h == my[p].prop IN
  /\ at[p] = "admit"
  /\ \/ /\ h.gen <= Newest
        /\ Conflict(p) /\ UNCHANGED <<chain, faults>>
     \/ /\ h.gen > Newest
        /\ \/ /\ Successor(h) /\ ~EpochRefused(h) /\ RotationRequired(h)
              /\ RotateFirst(p) /\ UNCHANGED <<chain, faults>>
           \/ /\ Successor(h) /\ EpochRefused(h)
              /\ Fail(p, "EPOCH_REFUSED") /\ UNCHANGED <<chain, faults>>
           \/ /\ \/ ~Successor(h)
                 \/ ~EpochRefused(h) /\ ~RotationRequired(h) /\ ~TransitionAdmissible(h)
              /\ Fail(p, "REFUSED") /\ UNCHANGED <<chain, faults>>
           \/ /\ Successor(h) /\ ~EpochRefused(h) /\ ~RotationRequired(h) /\ TransitionAdmissible(h)
              /\ chain' = Append(chain, [h EXCEPT !.ws = ApplyTransition(WriterStateAt(Newest), h.tr)])
              /\ \/ /\ Goto(p, "readback")
                    /\ UNCHANGED <<my, codes, faults>>
                 \/ /\ faults.lost < plan.lost
                    /\ faults' = [faults EXCEPT !.lost = @ + 1]
                    /\ Fail(p, "NETWORK_ERROR")
  /\ UNCHANGED <<members, files, ops>>

\* Readback, then the pins: the head is compared before anything advances.
Readback(p) ==
  LET pin == [gen |-> my[p].prop.gen, id |-> my[p].prop.id] IN
  /\ at[p] = "readback"
  /\ IF OnChain(pin)
     THEN /\ UpdateRepo(p, [File(p) EXCEPT !.head = pin, !.mat = pin, !.prefix = None])
          /\ Goto(p, "admitted") /\ UNCHANGED <<my, codes>>
     ELSE Fail(p, "VAULT_HEAD_READBACK_MISMATCH") /\ UNCHANGED files
  /\ UNCHANGED <<chain, members, ops, faults>>

\* After its rotation a push goes on with a fresh base.
EndOrPush(p) ==
  IF my[p].nested
  THEN Local(p, [my[p] EXCEPT !.nested = FALSE, !.conflicts = my[p].outer]) /\ Goto(p, "open")
  ELSE End(p)

\* Mutant of Admitted: the writer set of an admitted head is not pinned.
AdmittedUnpinned(p) ==
  /\ at[p] = "admitted"
  /\ IF my[p].prop.tr.kind = "rotate"
     THEN UpdateRepo(p, RecordEpochRotation(File(p), my[p].prop.epoch)) ELSE UNCHANGED files
  /\ EndOrPush(p)
  /\ UNCHANGED <<chain, members, ops, faults, codes>>

ChangesWriters(tr) == tr.kind = "add" \/ (tr.kind = "rotate" /\ tr.removed # {})

\* The writes that follow an admitted transition: the epoch key, then the
\* writer set the head carries.
Admitted(p) ==
  LET tr == my[p].prop.tr IN
  /\ \/ /\ at[p] = "admitted"
        /\ IF tr.kind = "rotate" THEN UpdateRepo(p, RecordEpochRotation(File(p), my[p].prop.epoch)) ELSE UNCHANGED files
        /\ IF ChangesWriters(tr) THEN Goto(p, "writers") /\ UNCHANGED my ELSE EndOrPush(p)
        /\ UNCHANGED faults
     \/ /\ at[p] = "writers"
        /\ LET base == [InitialWriterState EXCEPT !.version = tr.base[1], !.writers = tr.base[2]] IN
             UpdateRepo(p, [File(p) EXCEPT !.wpin = WriterPin(ApplyTransition(base, tr), TRUE)])
        /\ faults' = [faults EXCEPT !.rebuilt = @ \cup {StoreOf[p]}]
        /\ EndOrPush(p)
  /\ UNCHANGED <<chain, members, ops, codes>>

-----------------------------------------------------------------------------
(* The environment.                                                        *)

\* The generation pin is written and the writer set at it is not.
BetweenPins(p) == at[p] \in {"page2", "done2"} \/ (at[p] \in {"admitted", "writers"} /\ ChangesWriters(my[p].prop.tr))

\* The pin of a rotation is written and its epoch key is not.
BeforeKey(p) == at[p] = "admitted" /\ my[p].prop.tr.kind = "rotate"

Crash(p) ==
  /\ at[p] # "idle" /\ faults.crash < plan.crashes
  /\ faults' = [faults EXCEPT !.crash = @ + 1,
                              !.torn = IF BetweenPins(p) THEN @ \cup {StoreOf[p]} ELSE @,
                              !.unkeyed = IF BeforeKey(p) THEN @ \cup {StoreOf[p]} ELSE @]
  /\ End(p)
  /\ UNCHANGED <<chain, members, files, ops, codes>>

RemoveMember ==
  /\ faults.removal < plan.removals
  /\ \E m \in members \cap plan.leavers : members' = members \ {m}
  /\ faults' = [faults EXCEPT !.removal = @ + 1]
  /\ UNCHANGED <<chain, files, at, my, ops, codes>>

\* Heads vanish between two calls, not in the middle of a walk.
Rollback ==
  /\ faults.rollback < plan.rollbacks /\ Newest > 0
  /\ \A p \in Procs : at[p] \in {"idle", "open", "ready", "admit", "readback", "admitted", "writers"}
  /\ chain' = SubSeq(chain, 1, Newest - 1)
  /\ faults' = [faults EXCEPT !.rollback = @ + 1]
  /\ UNCHANGED <<members, files, at, my, ops, codes>>

Step(p) ==
  \/ Open(p) \/ List(p) \/ Walk(p) \/ Page(p) \/ CatchUp(p) \/ Done(p)
  \/ Publish(p) \/ Admit(p) \/ Readback(p) \/ Admitted(p)

Next ==
  /\ \/ \E p \in Procs : Begin(p) \/ Step(p) \/ Crash(p)
     \/ RemoveMember \/ Rollback
  /\ UNCHANGED plan

\* Processes run on, and the transport answers or errors: as long as an operation
\* has a step to take, some operation takes one.  No operation waits for another.
Fairness == WF_vars((\E p \in Procs : Step(p)) /\ UNCHANGED plan)

Spec == Init /\ [][Next]_vars /\ Fairness
-----------------------------------------------------------------------------
(* Properties.                                                             *)

Pins == [gen : Nat, id : Nat \X (Procs \cup {None})]
Transitions ==
  [kind : {"none", "add", "rotate"}, added : Keys \cup {None}, grantor : Keys \cup {None},
   removed : SUBSET Keys, base : Nat \X SUBSET Keys]
Heads ==
  [gen : Nat, id : Nat \X (Procs \cup {None}), prev : Nat \X (Procs \cup {None}), epoch : Nat,
   writer : Keys \cup {None}, tr : Transitions, incl : SUBSET Keys, confirms : SUBSET Keys, ws : WriterStates]
WriterPins == [version : Nat, writers : SUBSET Keys, retired : SUBSET Keys, legacy : BOOLEAN]
\* An absent pin is no pin.
ASSUME AbsentAssumption == None \notin Pins \cup WriterPins

Labels ==
  {"idle", "open", "list", "walk", "page1", "page2", "page3", "catchup", "done1", "done2",
   "done3", "ready", "admit", "readback", "admitted", "writers"}

\* The fields the code reads keep their types, conflict retries stay bounded and
\* a call never spends more than one head past its verification budget.
TypeOK ==
  /\ \A g \in 1 .. Newest : chain[g] \in Heads /\ chain[g].gen = g
  /\ members \subseteq Keys
  /\ \A s \in Keys :
       /\ {files[s].head, files[s].prefix, files[s].mat} \subseteq Pins \cup {None}
       /\ files[s].wpin \in WriterPins \cup {None}
       /\ files[s].epoch \in files[s].keys /\ files[s].keys \subseteq Nat
  /\ \A p \in Procs :
       /\ at[p] \in Labels
       /\ my[p].units <= plan.budget + 1 /\ my[p].conflicts <= plan.retries /\ my[p].outer <= plan.retries
       /\ my[p].ws \in WriterStates /\ my[p].pin \in Pins /\ my[p].prop \in Heads

\* No writer_set_pin is "equivalent to the genesis-only singleton".
PinnedWriters(f) == IF f.wpin = None THEN InitialWriterState ELSE Resumed(f.wpin)

Quiet(s) == \A p \in Procs : StoreOf[p] = s => at[p] = "idle"

\* VaultRepoFile.writer_set_pin "advances in lockstep with head_pin /
\* verified_prefix - always at the SAME generation, never ahead or behind":
\* whenever no process works on a keystore, its writer set is the one the
\* chain has at the generation verifyToNewest will resume from, the retired
\* writers included unless the pin says it lacks them.  Only a death between the
\* two updateRepos breaks it, and a gateway that loses heads.
Lockstep ==
  \A s \in Keys : LET f == files[s]
                      pin == IF f.prefix # None THEN f.prefix ELSE f.head IN
    s \notin faults.torn /\ faults.rollback = 0 /\ Quiet(s) /\ pin # None =>
      /\ Commitment(PinnedWriters(f)) = Commitment(WriterStateAt(pin.gen))
      /\ f.wpin # None /\ ~f.wpin.legacy => f.wpin.retired = WriterStateAt(pin.gen).retired

\* A chain the gateway never lost a head of is accepted by every reader:
\* resuming with empty burned and consumed sets, walking again from genesis
\* over a legacy pin, crashing and racing other writers raise no integrity alarm,
\* except in a keystore whose process died between the two pins.
NoFalseAlarm ==
  faults.rollback = 0 =>
    \A c \in codes : c[1] \notin faults.torn => c[2] \notin {"CHAIN_BROKEN", "GENERATION_REGRESSION", "VAULT_WRITER_NOT_ADMITTED"}

\* Every rotation found s among the writers or pinned before it.
Entitled(s) ==
  \A g \in 1 .. Newest : chain[g].tr.kind = "rotate" => s \in WriterStateAt(g - 1).writers \cup ConfirmedAt(g - 1)

\* The processes of a keystore decrypt what they verify (repos.verify does not),
\* none died before it stored the key of a rotation it had pinned, and no rotation
\* came before its principal was confirmed or made a writer.
Careful(s) == s \notin faults.unkeyed /\ Entitled(s) /\ \A p \in Procs : StoreOf[p] = s => "verify" \notin plan.kinds[p]

\* signHead: "every ORDINARY (non-rotate_epoch) head this principal signs must
\* still claim the vault's CURRENT epoch".  A head that wins its generation is
\* never turned away for the epoch read from the keystore's pointer, unless the
\* gateway lost the rotation the pointer stands for, the keystore skipped a
\* rotation and opens it after later ones, or its principal was left out of one.
NoEpochRefusal ==
  faults.rollback = 0 => \A c \in codes : c[2] = "EPOCH_REFUSED" => ~Careful(c[1])

\* A keyed member whom every rotation found confirmed or a writer can decrypt the
\* newest head, whoever rotated the epoch and whenever it looks, unless its
\* process died between two pins or its keystore skipped a rotation.
MembersCanRead ==
  faults.rollback = 0 =>
    \A c \in codes : c[2] = "VAULT_EPOCH_NOT_OPENABLE" /\ Careful(c[1]) => c[1] \notin members \ faults.torn

\* "Never a silent gap - this is exactly the mechanism that makes a vault
\* readable end to end even when chain verification and decrypt-validation
\* happened in genuinely SEPARATE calls."
NoSilentGap ==
  \A c \in codes : c[2] = "VAULT_EPOCH_NOT_OPENABLE" /\ Entitled(c[1]) => c[1] \notin members \ faults.torn

\* The protocol's rollback rule ("regression below it = GENERATION_REGRESSION,
\* no publish"): a keystore's authenticated pin never moves to an older
\* generation.  Only one that starts over from genesis can let it: it pinned the
\* writers of a publication, and then its process died between two pins or the
\* gateway lost a head.
HeadPinNeverMovesBack ==
  [][\A s \in Keys : files[s].head # None /\ files'[s].head # None
                       => \/ files'[s].head.gen >= files[s].head.gen
                          \/ s \in faults.rebuilt /\ (s \in faults.torn \/ faults.rollback > 0)]_vars

\* "A head such a writer signed while active is re-read later by the decrypt
\* catch-up ... and only its own key verifies it": a keyed member at rest on
\* a head, whom every rotation found confirmed or a writer, can still open every
\* epoch it lacks: each rotation is sealed to it and its signer is among the
\* writers, current or retired, it has pinned, as long as the chain keeps its
\* heads and no process died between the two pins.
RotationsStayOpenable ==
  \A s \in members \ (Keyless \cup faults.torn) : LET f == files[s] IN
    faults.rollback = 0 /\ Quiet(s) /\ Entitled(s) /\ f.head # None /\ f.prefix = None /\ f.wpin # None /\ ~f.wpin.legacy =>
      \A g \in 1 .. f.head.gen :
        /\ chain[g].tr.kind = "rotate"
        /\ \A e \in f.keys : e < chain[g].epoch
        => s \in chain[g].incl /\ KnownSigner(Resumed(f.wpin), chain[g])

\* Page walks, conflict retries and the rotation inside a push all end.
EveryOpEnds == <>[](\A p \in Procs : at[p] = "idle")
=============================================================================
