--------------------------- MODULE VaultWriterSet ---------------------------
(***************************************************************************)
(* The writer set of a vault as chain state: the pure functions of         *)
(* sdk/src/node/vault-writer-state.ts.  A key stands for its id, its       *)
(* public key and the principal that holds it (each derives from the       *)
(* other); a set commitment (version, sha256) stands for the version and   *)
(* the set it hashes.  Signatures that verify are implied by naming the    *)
(* signer.                                                                 *)
(***************************************************************************)
EXTENDS Integers, FiniteSets

CONSTANTS
  Keys,        \* writer keys, one per principal
  Creator,     \* the key genesis names
  None,        \* absent value
  MaxWriters   \* MAX_VAULT_WRITERS

ASSUME WriterAssumption ==
  /\ Creator \in Keys /\ None \notin Keys
  /\ MaxWriters \in Nat /\ MaxWriters >= 1

\* A handoff id names one grant: who offered write access, and to whom.
Handoffs == Keys \X Keys

WriterStates ==
  [version : Nat, writers : SUBSET Keys, burned : SUBSET Keys,
   consumed : SUBSET Handoffs, retired : SUBSET Keys]

InitialWriterState ==
  [version |-> 0, writers |-> {Creator}, burned |-> {}, consumed |-> {}, retired |-> {}]

\* What a payload commits to: the version and the set of a writer state.
Commitment(ws) == <<ws.version, ws.writers>>

\* A transition riding a head.  An "add" names the added key and, through the
\* handoff door, the grantor; a "rotate" names the writers it removes.
NoTransition ==
  [kind |-> "none", added |-> None, grantor |-> None, removed |-> {}, base |-> <<0, {}>>]

AddTransition(ws, w, g) ==
  [NoTransition EXCEPT !.kind = "add", !.added = w, !.grantor = g, !.base = Commitment(ws)]

RotateTransition(ws, R) ==
  [NoTransition EXCEPT !.kind = "rotate", !.removed = R, !.base = Commitment(ws)]

ApplyAddWriterKey(ws, w, g) ==
  [ws EXCEPT !.version = @ + 1,
             !.writers = @ \cup {w},
             !.consumed = IF g = None THEN @ ELSE @ \cup {<<g, w>>}]

\* Mutant of ApplyWriterSetUpdate: the keys of removed writers are forgotten.
ApplyUpdateForgetting(ws, R) ==
  [ws EXCEPT !.version = @ + 1, !.writers = @ \ R, !.burned = @ \cup R]

ApplyWriterSetUpdate(ws, R) ==
  [ws EXCEPT !.version = @ + 1,
             !.writers = @ \ R,
             !.burned  = @ \cup R,
             !.retired = @ \cup (ws.writers \cap R)]

\* The "writer" door is signed by an active writer, the "handoff" door by the
\* added key itself under a grant of an active writer, once.
ValidateAddWriterKey(ws, t, signer) ==
  /\ t.base = Commitment(ws)
  /\ t.added \notin ws.burned
  /\ t.added \notin ws.writers
  /\ Cardinality(ws.writers) < MaxWriters
  /\ IF t.grantor = None
     THEN signer # t.added /\ signer \in ws.writers
     ELSE /\ signer = t.added /\ t.grantor \in ws.writers
          /\ <<t.grantor, t.added>> \notin ws.consumed

\* removed[] equals the blocked set exactly; the signer survives unless the
\* update is the declared read-only terminal.
ValidateWriterSetUpdate(ws, t, signer, blocked, allowEmpty) ==
  LET left == ws.writers \ t.removed IN
  /\ t.base = Commitment(ws)
  /\ t.removed = blocked
  /\ left = {} => allowEmpty
  /\ left # {} => signer \in left

\* The state after a transition that was admitted: replayWriterState's step.
\* A rotation carries a writer_set_update only when it removes somebody.
ApplyTransition(ws, t) ==
  CASE t.kind = "add"                         -> ApplyAddWriterKey(ws, t.added, t.grantor)
    [] t.kind = "rotate" /\ t.removed # {}    -> ApplyWriterSetUpdate(ws, t.removed)
    [] OTHER                                  -> ws

ResolveActiveWriter(ws, k) == k \in ws.writers
ResolveKnownWriter(ws, k) == k \in ws.writers \cup ws.retired
=============================================================================
