------------------------- MODULE VaultCreationProofs -------------------------
(***************************************************************************)
(* Proofs about VaultCreation: the key a keystore holds is the admitted    *)
(* one, and what a journal calls ACTIVE is held, for any processes,        *)
(* keystore layouts, gateways and bounds; and a push that creates its vault*)
(* keeps the head pin (Quiet), where a keystore has one process.           *)
(***************************************************************************)
EXTENDS VaultCreation, TLAPS

Vault == [id : Stores \X Nat, live : BOOLEAN, object : Nat, genesis : Nat, key : Nat]
Repo == [vault : Nat, key : Nat, genesis : Nat, pinned : BOOLEAN]
Places == {"idle", "open", "allocate", "allocated", "reconcile", "poll", "seal", "check", "put", "stored",
           "prepare", "read", "admit", "admitted", "save", "receipt", "activate"}
Memory == [pc : Places, at : Nat, j : Journal, ans : Nat]

Types ==
  /\ env \in [home : Homes, mode : Modes, resolves : Resolutions]
  /\ vaults \in Seq(Vault)
  /\ minted \in Nat
  /\ journals \in [Stores -> Seq(Journal)]
  /\ repo \in [Stores -> Repo \cup {None}]
  /\ receipt \in [Stores -> Nat \cup {None}]
  /\ proc \in [Procs -> Memory]

\* One allocation is live, and a genesis goes with the key in the stored object.
Allocations ==
  /\ \A v, w \in 1..Len(vaults) : vaults[v].live /\ vaults[w].live => v = w
  /\ \A v \in 1..Len(vaults) : vaults[v].genesis # 0 =>
       /\ vaults[v].live
       /\ vaults[v].key = vaults[v].object /\ vaults[v].object # 0

\* A copy of a journal, on disk or in memory, says what has been done.
Done(j) ==
  /\ j.stage # "KEYS" => j.vault \in 1..Len(vaults)
  /\ j.stage \in {"PREPARED", "FINALIZED", "GENESIS", "ACTIVE"} => j.key # 0
  /\ j.stage \in {"FINALIZED", "GENESIS", "ACTIVE"} => vaults[j.vault].object = j.key
  /\ j.stage \in {"GENESIS", "ACTIVE"} => j.genesis # 0

Stands(g) == \E v \in 1..Len(vaults) : vaults[v].genesis = g

\* What a keystore holds.
Held(s) ==
  /\ repo[s] # None =>
       /\ repo[s].vault \in 1..Len(vaults)
       /\ repo[s].genesis # 0 /\ vaults[repo[s].vault].genesis = repo[s].genesis
       /\ repo[s].key = vaults[repo[s].vault].object
  /\ receipt[s] # None => receipt[s] # 0 /\ Stands(receipt[s])
  /\ \A n \in 1..Len(journals[s]) :
       /\ Done(journals[s][n])
       /\ journals[s][n].stage = "ACTIVE" =>
            /\ vaults[journals[s][n].vault].genesis = journals[s][n].genesis
            /\ repo[s] # None /\ receipt[s] # None

\* What a process has in memory, given where it is.
Placed(p) ==
  LET m == proc[p] IN
  /\ Done(m.j)
  /\ m.pc \notin {"idle", "open"} => m.at \in 1..Len(journals[home(p)])
  /\ m.pc \in {"allocate", "allocated", "reconcile", "poll"} => m.j.stage = "KEYS"
  /\ m.pc = "allocated" => m.ans \in 0..Len(vaults)
  /\ m.pc = "seal" => m.j.stage # "KEYS"
  /\ m.pc \in {"check", "put", "stored"} => m.j.stage = "PREPARED"
  /\ m.pc = "stored" => vaults[m.j.vault].object = m.j.key
  /\ m.pc = "prepare" => m.j.stage = "FINALIZED"
  /\ m.pc \in {"read", "admit", "admitted", "save", "receipt", "activate"} => m.j.stage = "GENESIS"
  /\ m.pc = "admitted" /\ m.ans # 0 => vaults[m.j.vault].genesis = m.ans
  /\ m.pc \in {"save", "receipt", "activate"} => vaults[m.j.vault].genesis = m.j.genesis
  /\ m.pc \in {"receipt", "activate"} => repo[home(p)] # None
  /\ m.pc = "activate" => receipt[home(p)] # None

IInv ==
  /\ Types /\ Allocations
  /\ \A s \in Stores : Held(s)
  /\ \A p \in Procs : Placed(p)
-----------------------------------------------------------------------------
(* What never changes back.                                                *)

LEMMA Home == ASSUME Types, NEW p \in Procs PROVE home(p) \in Stores
  BY DEF Types, home, Stores

LEMMA OneGenesis ==
  ASSUME Allocations, NEW v \in 1..Len(vaults), NEW w \in 1..Len(vaults),
         vaults[v].genesis # 0, vaults[w].genesis # 0
  PROVE  v = w
  BY DEF Allocations

\* An allocation, an object and a genesis stay once they are there.
Grown ==
  /\ 1..Len(vaults) \subseteq 1..Len(vaults')
  /\ \A v \in 1..Len(vaults) :
       /\ vaults[v].object # 0 => vaults'[v].object = vaults[v].object
       /\ vaults[v].genesis # 0 => vaults'[v].genesis = vaults[v].genesis

LEMMA DoneStays ==
  ASSUME Grown, NEW j, Done(j) PROVE Done(j)'
  BY DEF Grown, Done

\* Journals of a keystore are added, and files once written are not removed.
LEMMA PlacedStays ==
  ASSUME Types, Allocations, Grown, NEW q \in Procs, Placed(q), proc'[q] = proc[q], env' = env,
         1..Len(journals[home(q)]) \subseteq 1..Len(journals'[home(q)]),
         0..Len(vaults) \subseteq 0..Len(vaults'),
         repo[home(q)] # None => repo'[home(q)] # None,
         receipt[home(q)] # None => receipt'[home(q)] # None
  PROVE  Placed(q)'
  <1> DEFINE m == proc[q]
  <1>1. Done(m.j) /\ Done(m.j)' /\ home(q)' = home(q)
    BY DoneStays DEF Placed, home
  <1>2. m.pc = "stored" => vaults'[m.j.vault].object = m.j.key
    BY <1>1 DEF Placed, Done, Grown
  <1>3. m.pc = "admitted" /\ m.ans # 0 => vaults'[m.j.vault].genesis = m.ans
    BY <1>1 DEF Placed, Done, Grown
  <1>4. m.pc \in {"save", "receipt", "activate"} => vaults'[m.j.vault].genesis = m.j.genesis
    BY <1>1 DEF Placed, Done, Grown
  <1>5. QED
    BY <1>1, <1>2, <1>3, <1>4 DEF Placed

LEMMA HeldStays ==
  ASSUME Types, Allocations, Grown, NEW s \in Stores, Held(s),
         journals'[s] = journals[s], repo'[s] = repo[s], receipt'[s] = receipt[s]
  PROVE  Held(s)'
  <1>1. repo[s] # None =>
          /\ repo'[s].vault \in 1..Len(vaults')
          /\ repo'[s].genesis # 0 /\ vaults'[repo'[s].vault].genesis = repo'[s].genesis
          /\ repo'[s].key = vaults'[repo'[s].vault].object
    BY DEF Held, Grown, Allocations
  <1>2. receipt[s] # None => receipt[s] # 0 /\ Stands(receipt[s])'
    BY DEF Held, Stands, Grown
  <1>3. ASSUME NEW n \in 1..Len(journals[s])
        PROVE  /\ Done(journals[s][n])'
               /\ journals[s][n].stage = "ACTIVE" =>
                    vaults'[journals[s][n].vault].genesis = journals[s][n].genesis
    <2>1. PICK j : j = journals[s][n]
      OBVIOUS
    <2>2. /\ Done(j)
          /\ j.stage = "ACTIVE" => vaults[j.vault].genesis = j.genesis
      BY <2>1 DEF Held
    <2>3. Done(j)'
      BY <2>2, DoneStays
    <2>4. j.stage = "ACTIVE" => vaults'[j.vault].genesis = j.genesis
      BY <2>2 DEF Done, Grown
    <2>5. journals'[s][n] = j
      BY <2>1
    <2>6. QED
      BY <2>1, <2>3, <2>4, <2>5
  <1>4. QED
    BY <1>1, <1>2, <1>3 DEF Held

\* The frame of a step of p: the others of its keystore and the other keystores.
Framed(p) ==
  /\ env' = env
  /\ \A q \in Procs \ {p} : proc'[q] = proc[q]
  /\ \A s \in Stores \ {home(p)} : /\ journals'[s] = journals[s]
                                   /\ repo'[s] = repo[s] /\ receipt'[s] = receipt[s]
  /\ 1..Len(journals[home(p)]) \subseteq 1..Len(journals'[home(p)])
  /\ 0..Len(vaults) \subseteq 0..Len(vaults')
  /\ repo[home(p)] # None => repo'[home(p)] # None
  /\ receipt[home(p)] # None => receipt'[home(p)] # None

LEMMA Joined ==
  ASSUME IInv, NEW p \in Procs, Framed(p), Grown, Types', Allocations', Held(home(p))', Placed(p)'
  PROVE  IInv'
  <1>1. \A s \in Stores : Held(s)'
    <2> TAKE s \in Stores
    <2>1. CASE s = home(p)
      BY <2>1 DEF Framed, home
    <2>2. CASE s # home(p)
      BY <2>2, HeldStays DEF IInv, Framed
    <2>3. QED
      BY <2>1, <2>2
  <1>2. \A q \in Procs : Placed(q)'
    <2> TAKE q \in Procs
    <2>1. CASE q = p
      BY <2>1
    <2>2. CASE q # p
      <3>1. home(q) \in Stores
        BY Home DEF IInv
      <3>2. /\ 1..Len(journals[home(q)]) \subseteq 1..Len(journals'[home(q)])
            /\ repo[home(q)] # None => repo'[home(q)] # None
            /\ receipt[home(q)] # None => receipt'[home(q)] # None
        BY <3>1 DEF Framed
      <3>3. QED
        BY <2>2, <3>2, PlacedStays DEF IInv, Framed
    <2>3. QED
      BY <2>1, <2>2
  <1>3. QED
    BY <1>1, <1>2 DEF IInv

\* A step that changes what is in memory only.
LEMMA InMemory ==
  ASSUME IInv, NEW p \in Procs, NEW m \in Memory, proc' = [proc EXCEPT ![p] = m],
         UNCHANGED <<env, server, minted, disk>>, Placed(p)'
  PROVE  IInv'
  <1>1. Types' /\ Allocations' /\ Grown /\ Framed(p)
    BY Home DEF IInv, Types, Allocations, Grown, Framed, server, disk
  <1>2. Held(home(p))'
    BY Home, HeldStays, <1>1 DEF IInv, disk, home
  <1>3. QED
    BY <1>1, <1>2, Joined

\* A step that writes one journal.
LEMMA Written ==
  ASSUME IInv, NEW p \in Procs, proc[p].pc \notin {"idle", "open"},
         NEW j \in Journal, Done(j), j.stage = "ACTIVE" =>
           /\ vaults[j.vault].genesis = j.genesis
           /\ repo[home(p)] # None /\ receipt[home(p)] # None,
         Persist(p, j), NEW m \in Memory, proc' = [proc EXCEPT ![p] = m],
         UNCHANGED <<env, server, repo, receipt>>, minted' \in Nat, Placed(p)'
  PROVE  IInv'
  <1> DEFINE s == home(p)
             n == proc[p].at
  <1>1. s \in Stores /\ n \in 1..Len(journals[s]) /\ journals[s] \in Seq(Journal)
    BY Home DEF IInv, Types, Placed
  <1>2. journals' = [journals EXCEPT ![s][n] = j]
    BY DEF Persist
  <1>3. /\ journals' \in [Stores -> Seq(Journal)] /\ Len(journals'[s]) = Len(journals[s])
        /\ journals'[s][n] = j
        /\ \A i \in 1..Len(journals[s]) : i # n => journals'[s][i] = journals[s][i]
        /\ \A r \in Stores \ {s} : journals'[r] = journals[r]
    <2>1. journals \in [Stores -> Seq(Journal)]
      BY DEF IInv, Types
    <2>2. PICK new : new = [journals[s] EXCEPT ![n] = j]
      OBVIOUS
    <2>3. /\ new \in Seq(Journal) /\ Len(new) = Len(journals[s]) /\ new[n] = j
          /\ \A i \in 1..Len(journals[s]) : i # n => new[i] = journals[s][i]
      BY <1>1, <2>2
    <2>4. journals' = [journals EXCEPT ![s] = new]
      BY <1>2, <2>2
    <2>5. QED
      BY <1>1, <2>1, <2>3, <2>4
  <1>4. Types' /\ Allocations' /\ Grown
    BY <1>3 DEF IInv, Types, Allocations, Grown, server
  <1>5. Framed(p)
    BY <1>1, <1>3 DEF IInv, Types, Framed, server
  <1>6. Held(s)'
    <2>1. s' = s
      BY DEF home
    <2>2. ASSUME NEW i \in 1..Len(journals'[s])
          PROVE  /\ Done(journals[s][i])'
                 /\ journals'[s][i].stage = "ACTIVE" =>
                      /\ vaults'[journals'[s][i].vault].genesis = journals'[s][i].genesis
                      /\ repo'[s] # None /\ receipt'[s] # None
      <3>1. CASE i = n
        <4>1. Done(j)'
          BY <1>4, DoneStays
        <4>2. QED
          BY <1>3, <2>1, <3>1, <4>1 DEF server
      <3>2. CASE i # n
        <4>1. PICK old : old = journals[s][i]
          OBVIOUS
        <4>2. /\ Done(old)
              /\ old.stage = "ACTIVE" => /\ vaults[old.vault].genesis = old.genesis
                                         /\ repo[s] # None /\ receipt[s] # None
          BY <1>1, <1>3, <4>1 DEF IInv, Held
        <4>3. Done(old)'
          BY <1>4, <4>2, DoneStays
        <4>4. journals'[s][i] = old
          BY <1>3, <3>2, <4>1
        <4>5. QED
          BY <2>1, <4>2, <4>3, <4>4 DEF server
      <3>3. QED
        BY <3>1, <3>2
    <2>3. Held(s)
      BY <1>1 DEF IInv
    <2>4. QED
      BY <2>1, <2>2, <2>3 DEF Held, Stands, server
  <1>7. QED
    BY <1>4, <1>5, <1>6, Joined
-----------------------------------------------------------------------------
(* The steps of a process.                                                 *)

LEMMA FreshMemory ==
  /\ NewJournal \in Journal /\ NewJournal.stage = "KEYS" /\ NewJournal.refused = FALSE
  /\ Idle \in Memory /\ Idle.pc = "idle" /\ Idle.j = NewJournal
  <1>1. NewJournal \in Journal /\ NewJournal.stage = "KEYS" /\ NewJournal.refused = FALSE
    BY DEF NewJournal, Journal, Stages
  <1>2. Idle \in Memory /\ Idle.pc = "idle" /\ Idle.j = NewJournal
    BY <1>1 DEF Idle, Memory, Places
  <1>3. QED
    BY <1>1, <1>2

LEMMA FreshIsDone == Done(NewJournal)
  BY FreshMemory DEF Done

LEMMA GotoMoves ==
  ASSUME Types, NEW p \in Procs, NEW next \in Places, NEW ans \in Nat, Goto(p, next, ans)
  PROVE  \E m \in Memory : /\ proc' = [proc EXCEPT ![p] = m]
                           /\ m.pc = next /\ m.ans = ans /\ m.j = proc[p].j /\ m.at = proc[p].at
  <1> DEFINE m == [proc[p] EXCEPT !.pc = next, !.ans = ans]
  <1>1. proc[p] \in Memory
    BY DEF Types
  <1>2. m \in Memory /\ m.pc = next /\ m.ans = ans /\ m.j = proc[p].j /\ m.at = proc[p].at
    BY <1>1 DEF Memory
  <1>3. proc' = [proc EXCEPT ![p] = m]
    BY DEF Goto
  <1>4. QED
    BY <1>2, <1>3

LEMMA AdvanceMoves ==
  ASSUME Types, NEW p \in Procs, NEW next \in Places, NEW j \in Journal, Advance(p, j, next)
  PROVE  /\ Persist(p, j) /\ UNCHANGED <<repo, receipt>>
         /\ \E m \in Memory : /\ proc' = [proc EXCEPT ![p] = m]
                              /\ m.pc = next /\ m.ans = 0 /\ m.j = j /\ m.at = proc[p].at
  <1> DEFINE m == [pc |-> next, at |-> proc[p].at, j |-> j, ans |-> 0]
  <1>1. m \in Memory
    BY DEF Types, Memory
  <1>2. proc' = [proc EXCEPT ![p] = m]
    BY DEF Advance
  <1>3. QED
    BY <1>1, <1>2 DEF Advance

\* A call that ends, in whatever way.
LEMMA EndsKept ==
  ASSUME IInv, NEW p \in Procs, Ends(p), UNCHANGED <<env, server, minted, disk>>
  PROVE  IInv'
  <1>1. proc' = [proc EXCEPT ![p] = Idle]
    BY DEF Ends
  <1>2. Placed(p)'
    <2>1. proc'[p] = Idle
      BY <1>1 DEF IInv, Types
    <2>2. Done(NewJournal)'
      BY FreshMemory DEF Done
    <2>3. QED
      BY <2>1, <2>2, FreshMemory DEF Placed
  <1>3. QED
    BY <1>1, <1>2, FreshMemory, InMemory

\* A step to another place, with the same journal.
LEMMA GotoKept ==
  ASSUME IInv, NEW p \in Procs, NEW next \in Places, NEW ans \in Nat, Goto(p, next, ans),
         UNCHANGED <<env, server, minted, disk>>,
         \A m \in Memory : m.pc = next /\ m.ans = ans /\ m.j = proc[p].j /\ m.at = proc[p].at /\ proc'[p] = m
           => Placed(p)'
  PROVE  IInv'
  <1>1. PICK m \in Memory : /\ proc' = [proc EXCEPT ![p] = m]
                            /\ m.pc = next /\ m.ans = ans /\ m.j = proc[p].j /\ m.at = proc[p].at
    BY GotoMoves DEF IInv
  <1>2. proc'[p] = m
    BY <1>1 DEF IInv, Types
  <1>3. QED
    BY <1>1, <1>2, InMemory

\* Refusals.
LEMMA RefuseKept ==
  ASSUME IInv, NEW p \in Procs, NEW next \in {"idle", "poll"}, Refuse(p, next),
         proc[p].pc \notin {"idle", "open"}, proc[p].j.stage # "ACTIVE",
         next = "poll" => proc[p].j.stage = "KEYS",
         UNCHANGED <<env, server, minted>>
  PROVE  IInv'
  <1>0. proc[p] \in Memory /\ Placed(p)
    BY DEF IInv, Types
  <1>1. PICK j : j = [proc[p].j EXCEPT !.refused = TRUE]
    OBVIOUS
  <1>2. j \in Journal /\ j.stage # "ACTIVE" /\ Done(j)
    BY <1>0, <1>1 DEF Memory, Journal, Placed, Done
  <1>3. Persist(p, j) /\ UNCHANGED <<repo, receipt>>
    BY <1>1 DEF Refuse
  <1>4. PICK m \in Memory : /\ proc' = [proc EXCEPT ![p] = m]
                            /\ \/ m = Idle
                               \/ m.pc = "poll" /\ m.j.stage = "KEYS" /\ m.j = proc[p].j /\ m.at = proc[p].at
    <2>1. CASE next = "idle"
      BY <2>1, FreshMemory DEF Refuse
    <2>2. CASE next = "poll"
      <3> DEFINE m == [proc[p] EXCEPT !.pc = next, !.ans = 0]
      <3>1. m \in Memory /\ m.pc = "poll" /\ m.j.stage = "KEYS" /\ m.j = proc[p].j /\ m.at = proc[p].at
        BY <1>0, <2>2 DEF Memory, Places
      <3>2. proc' = [proc EXCEPT ![p] = m]
        BY <2>2 DEF Refuse
      <3>3. QED
        BY <3>1, <3>2
    <2>3. QED
      BY <2>1, <2>2
  <1>5. Placed(p)'
    <2>1. proc'[p] = m
      BY <1>4 DEF IInv, Types
    <2>2. 1..Len(journals[home(p)]) = 1..Len(journals'[home(p)]) /\ home(p)' = home(p)
      <3>1. home(p) \in Stores /\ journals[home(p)] \in Seq(Journal) /\ journals \in [Stores -> Seq(Journal)]
        BY Home DEF IInv, Types
      <3>2. proc[p].at \in 1..Len(journals[home(p)])
        BY <1>0 DEF Placed
      <3>3. PICK n : n = proc[p].at
        OBVIOUS
      <3>4. PICK new : new = [journals[home(p)] EXCEPT ![n] = j]
        OBVIOUS
      <3>5. Len(new) = Len(journals[home(p)])
        BY <1>2, <3>1, <3>2, <3>3, <3>4
      <3>6. journals'[home(p)] = new
        BY <1>3, <3>1, <3>3, <3>4 DEF Persist
      <3>7. QED
        BY <3>5, <3>6 DEF home
    <2>3. CASE m = Idle
      <3>1. Done(NewJournal)'
        BY FreshMemory DEF Done
      <3>2. QED
        BY <2>1, <2>3, <3>1, FreshMemory DEF Placed
    <2>4. CASE m.pc = "poll" /\ m.j.stage = "KEYS" /\ m.j = proc[p].j /\ m.at = proc[p].at
      BY <1>0, <2>1, <2>2, <2>4 DEF Placed, Done, server
    <2>5. QED
      BY <1>4, <2>3, <2>4
  <1>6. QED
    BY <1>2, <1>3, <1>4, <1>5, Written DEF IInv, Types

\* A request that changes the allocations.
LEMMA AtServer ==
  ASSUME IInv, NEW p \in Procs, vaults' \in Seq(Vault), Grown, Allocations',
         0..Len(vaults) \subseteq 0..Len(vaults'),
         NEW m \in Memory, proc' = [proc EXCEPT ![p] = m],
         UNCHANGED <<env, minted, disk>>, Placed(p)'
  PROVE  IInv'
  <1>1. Types' /\ Framed(p)
    BY Home DEF IInv, Types, Framed, disk
  <1>2. Held(home(p))'
    BY Home, HeldStays DEF IInv, disk, home
  <1>3. QED
    BY <1>1, <1>2, Joined

\* One stage further, with a journal that says what was done.
LEMMA AdvanceKept ==
  ASSUME IInv, NEW p \in Procs, proc[p].pc \notin {"idle", "open"}, NEW next \in Places,
         NEW j \in Journal, Done(j), j.stage # "ACTIVE", Advance(p, j, next),
         UNCHANGED <<env, server>>, minted' \in Nat,
         \/ next = "seal" /\ j.stage = "ALLOCATED"
         \/ next = "check" /\ j.stage = "PREPARED"
         \/ next = "prepare" /\ j.stage = "FINALIZED"
         \/ next = "read" /\ j.stage = "GENESIS"
  PROVE  IInv'
  <1>1. PICK m \in Memory : /\ proc' = [proc EXCEPT ![p] = m]
                            /\ m.pc = next /\ m.ans = 0 /\ m.j = j /\ m.at = proc[p].at
    BY AdvanceMoves DEF IInv
  <1>2. Persist(p, j) /\ UNCHANGED <<repo, receipt>>
    BY DEF Advance
  <1>3. Placed(p)'
    <2>1. proc'[p] = m
      BY <1>1 DEF IInv, Types
    <2>2. proc[p].at \in 1..Len(journals[home(p)])
      BY DEF IInv, Placed
    <2>3. 1..Len(journals[home(p)]) = 1..Len(journals'[home(p)]) /\ home(p)' = home(p)
      <3>1. home(p) \in Stores /\ journals[home(p)] \in Seq(Journal) /\ journals \in [Stores -> Seq(Journal)]
        BY Home DEF IInv, Types
      <3>3. PICK n : n = proc[p].at
        OBVIOUS
      <3>4. PICK new : new = [journals[home(p)] EXCEPT ![n] = j]
        OBVIOUS
      <3>5. Len(new) = Len(journals[home(p)])
        BY <2>2, <3>1, <3>3, <3>4
      <3>6. journals'[home(p)] = new
        BY <1>2, <3>1, <3>3, <3>4 DEF Persist
      <3>7. QED
        BY <3>5, <3>6 DEF home
    <2>4. Done(j)'
      BY DEF Done, server
    <2>5. QED
      BY <1>1, <2>1, <2>2, <2>3, <2>4 DEF Placed
  <1>4. QED
    BY <1>1, <1>2, <1>3, Written

LEMMA BeginKept == ASSUME IInv, NEW p \in Procs, OpenOrCreate(p) \/ PushToCreate(p) PROVE IInv'
  <1>1. Goto(p, "open", 0) /\ UNCHANGED <<env, server, minted, disk>>
    BY DEF OpenOrCreate, PushToCreate
  <1>2. Done(proc[p].j)
    BY DEF IInv, Placed
  <1>3. \A m \in Memory : m.pc = "open" /\ m.ans = 0 /\ m.j = proc[p].j /\ m.at = proc[p].at /\ proc'[p] = m
          => Placed(p)'
    BY <1>1, <1>2 DEF Placed, Done, server
  <1>4. QED
    BY <1>1, <1>3, GotoKept DEF Places

LEMMA OpenKept == ASSUME IInv, NEW p \in Procs, Open(p) PROVE IInv'
  <1> DEFINE s == home(p)
  <1>0. /\ s \in Stores /\ Held(s) /\ journals \in [Stores -> Seq(Journal)] /\ journals[s] \in Seq(Journal)
        /\ proc \in [Procs -> Memory] /\ UNCHANGED <<env, server, minted>> /\ s' = s
    BY Home DEF IInv, Types, Open, home
  <1>1. ASSUME NEW n \in Resumable(s),
               proc' = [proc EXCEPT ![p] = [pc |-> ResumeAt(journals[s][n].stage), at |-> n,
                                            j |-> journals[s][n], ans |-> 0]],
               UNCHANGED disk
        PROVE  IInv'
    <2>1. PICK j : j = journals[s][n]
      OBVIOUS
    <2>2. n \in 1..Len(journals[s]) /\ j \in Journal /\ j.stage \in Stages \ {"ACTIVE"} /\ Done(j)
      <3>1. n \in 1..Len(journals[s]) /\ j.stage # "ACTIVE"
        BY <2>1 DEF Resumable
      <3>2. j \in Journal /\ Done(j)
        BY <1>0, <2>1, <3>1 DEF Held
      <3>3. QED
        BY <3>1, <3>2 DEF Journal
    <2> DEFINE m == [pc |-> ResumeAt(j.stage), at |-> n, j |-> j, ans |-> 0]
    <2>3. /\ ResumeAt(j.stage) \in Places \ {"idle", "open"}
          /\ ResumeAt(j.stage) = "allocate" => j.stage = "KEYS"
          /\ ResumeAt(j.stage) = "seal" => j.stage = "ALLOCATED"
          /\ ResumeAt(j.stage) = "check" => j.stage = "PREPARED"
          /\ ResumeAt(j.stage) = "prepare" => j.stage = "FINALIZED"
          /\ ResumeAt(j.stage) = "read" => j.stage = "GENESIS"
          /\ ResumeAt(j.stage) \in {"allocate", "seal", "check", "prepare", "read"}
      BY <2>2 DEF ResumeAt, Stages, Places
    <2>4. m \in Memory
      BY <2>2, <2>3 DEF Memory
    <2>5. proc' = [proc EXCEPT ![p] = m]
      BY <1>1, <2>1
    <2>6. proc'[p] = m
      BY <1>0, <2>5
    <2>7. Done(j)' /\ 1..Len(journals'[s]) = 1..Len(journals[s])
      BY <1>0, <1>1, <2>2 DEF Done, server, disk
    <2>8. Placed(p)'
      BY <1>0, <2>2, <2>3, <2>6, <2>7 DEF Placed
    <2>9. QED
      BY <1>0, <1>1, <2>4, <2>5, <2>8, InMemory
  <1>2. ASSUME journals' = [journals EXCEPT ![s] = Append(@, NewJournal)],
               proc' = [proc EXCEPT ![p] = [pc |-> "allocate", at |-> Len(journals[s]) + 1,
                                            j |-> NewJournal, ans |-> 0]],
               UNCHANGED <<repo, receipt>>
        PROVE  IInv'
    <2> DEFINE m == [pc |-> "allocate", at |-> Len(journals[s]) + 1, j |-> NewJournal, ans |-> 0]
    <2>1. m \in Memory
      BY <1>0, FreshMemory DEF Memory, Places
    <2>2. proc'[p] = m
      BY <1>0, <1>2
    <2>3. /\ journals'[s] = Append(journals[s], NewJournal)
          /\ \A r \in Stores \ {s} : journals'[r] = journals[r]
          /\ journals' \in [Stores -> Seq(Journal)]
      BY <1>0, <1>2, FreshMemory
    <2>4. /\ Len(journals'[s]) = Len(journals[s]) + 1
          /\ journals'[s][Len(journals[s]) + 1] = NewJournal
          /\ \A n \in 1..Len(journals[s]) : journals'[s][n] = journals[s][n]
      BY <1>0, <2>3, FreshMemory
    <2>5. Done(NewJournal)'
      BY FreshMemory DEF Done
    <2>6. Types' /\ Allocations' /\ Grown
      BY <1>0, <1>2, <2>1, <2>3 DEF IInv, Types, Allocations, Grown, server
    <2>7. Framed(p)
      BY <1>0, <1>2, <2>3, <2>4 DEF Framed, server
    <2>8. Placed(p)'
      BY <1>0, <2>2, <2>4, <2>5, FreshMemory DEF Placed
    <2>9. Held(s)'
      <3>1. ASSUME NEW n \in 1..Len(journals'[s])
            PROVE  /\ Done(journals[s][n])'
                   /\ journals'[s][n].stage = "ACTIVE" =>
                        /\ vaults'[journals'[s][n].vault].genesis = journals'[s][n].genesis
                        /\ repo'[s] # None /\ receipt'[s] # None
        <4>1. CASE n = Len(journals[s]) + 1
          BY <1>0, <2>4, <2>5, <4>1, FreshMemory
        <4>2. CASE n # Len(journals[s]) + 1
          <5>1. n \in 1..Len(journals[s])
            BY <1>0, <2>4, <4>2
          <5>2. PICK old : old = journals[s][n]
            OBVIOUS
          <5>3. /\ Done(old)
                /\ old.stage = "ACTIVE" => /\ vaults[old.vault].genesis = old.genesis
                                           /\ repo[s] # None /\ receipt[s] # None
            BY <1>0, <5>1, <5>2 DEF Held
          <5>4. Done(old)'
            BY <1>0, <5>3 DEF Done, server
          <5>5. journals'[s][n] = old
            BY <2>4, <5>1, <5>2
          <5>6. QED
            BY <1>0, <1>2, <5>3, <5>4, <5>5 DEF server
        <4>3. QED
          BY <4>1, <4>2
      <3>2. QED
        BY <1>0, <1>2, <3>1 DEF Held, Stands, server
    <2>10. QED
      BY <2>6, <2>7, <2>8, <2>9, Joined
  <1>3. CASE Ends(p) /\ UNCHANGED disk
    BY <1>0, <1>3, EndsKept
  <1>4. QED
    BY <1>1, <1>2, <1>3 DEF Open

LEMMA AllocateKept == ASSUME IInv, NEW p \in Procs, Allocate(p) PROVE IInv'
  <1> DEFINE id == <<home(p), proc[p].at>>
  <1>0. /\ proc[p].pc = "allocate" /\ UNCHANGED <<env, minted, disk>> /\ vaults \in Seq(Vault)
        /\ proc[p] \in Memory /\ Placed(p) /\ home(p) \in Stores /\ proc \in [Procs -> Memory]
    BY Home DEF IInv, Types, Allocate
  <1>1. ASSUME NEW v \in 0..Len(vaults'), Goto(p, "allocated", v), Grown, Allocations',
               vaults' \in Seq(Vault), 0..Len(vaults) \subseteq 0..Len(vaults')
        PROVE  IInv'
    <2>1. v \in Nat
      BY <1>1
    <2>2. PICK m \in Memory : /\ proc' = [proc EXCEPT ![p] = m]
                              /\ m.pc = "allocated" /\ m.ans = v /\ m.j = proc[p].j /\ m.at = proc[p].at
      BY <1>1, <2>1, GotoMoves DEF IInv, Places
    <2>3. proc'[p] = m
      BY <1>0, <2>2
    <2>4. Done(m.j)'
      <3>1. PICK j : j = proc[p].j
        OBVIOUS
      <3>2. Done(j)'
        BY <1>0, <1>1, <3>1, DoneStays DEF Placed
      <3>3. QED
        BY <2>2, <3>1, <3>2
    <2>5. Placed(p)'
      BY <1>0, <1>1, <2>2, <2>3, <2>4 DEF Placed, disk, home
    <2>6. QED
      BY <1>0, <1>1, <2>2, <2>5, AtServer
  <1>2. ASSUME NEW v \in 0..Len(vaults), Goto(p, "allocated", v), UNCHANGED vaults PROVE IInv'
    BY <1>0, <1>1, <1>2 DEF IInv, Allocations, Grown
  <1>3. ASSUME Live = {}, Goto(p, "allocated", Len(vaults) + 1),
               vaults' = Append(vaults, [id |-> id, live |-> TRUE, object |-> 0, genesis |-> 0, key |-> 0])
        PROVE  IInv'
    <2>1. PICK new : new = [id |-> id, live |-> TRUE, object |-> 0, genesis |-> 0, key |-> 0]
      OBVIOUS
    <2>2. new \in Vault /\ new.genesis = 0
      BY <1>0, <2>1 DEF Vault, Memory
    <2>3. /\ vaults' \in Seq(Vault) /\ Len(vaults') = Len(vaults) + 1 /\ Len(vaults) \in Nat
          /\ vaults'[Len(vaults) + 1] = new
          /\ \A v \in 1..Len(vaults) : vaults'[v] = vaults[v]
      BY <1>0, <1>3, <2>1, <2>2
    <2>4. Grown
      BY <2>3 DEF Grown
    <2>5. \A v \in 1..Len(vaults) : ~vaults[v].live
      BY <1>3 DEF Live
    <2>6. Allocations'
      BY <2>2, <2>3, <2>5 DEF IInv, Allocations
    <2>7. QED
      BY <1>1, <1>3, <2>3, <2>4, <2>6
  <1>4. QED
    <2>1. CASE {v \in 1..Len(vaults) : vaults[v].id = id} # {}
      <3>1. \E v \in {w \in 1..Len(vaults) : vaults[w].id = id} : Goto(p, "allocated", v) /\ UNCHANGED vaults
        BY <2>1 DEF Allocate
      <3>2. QED
        BY <1>2, <3>1
    <2>2. CASE {v \in 1..Len(vaults) : vaults[v].id = id} = {} /\ Live # {}
      <3>1. 0 \in 0..Len(vaults)
        BY <1>0
      <3>2. QED
        BY <1>2, <2>2, <3>1 DEF Allocate
    <2>3. CASE {v \in 1..Len(vaults) : vaults[v].id = id} = {} /\ Live = {}
      BY <1>3, <2>3 DEF Allocate
    <2>4. QED
      BY <2>1, <2>2, <2>3

LEMMA AllocatedKept == ASSUME IInv, NEW p \in Procs, Allocated(p) \/ Reconcile(p) \/ Poll(p) PROVE IInv'
  <1> DEFINE v == proc[p].ans
  <1>0. /\ UNCHANGED <<env, server, minted>> /\ proc[p] \in Memory /\ Placed(p)
        /\ proc[p].pc \in {"allocated", "reconcile", "poll"} /\ proc[p].j.stage = "KEYS"
        /\ minted' \in Nat
    BY DEF IInv, Types, Placed, Allocated, Reconcile, Poll
  <1>a. ASSUME NEW next \in {"reconcile", "poll"}, NEW ans \in Nat, Goto(p, next, ans), UNCHANGED disk PROVE IInv'
    <2>1. \A m \in Memory : m.pc = next /\ m.ans = ans /\ m.j = proc[p].j /\ m.at = proc[p].at /\ proc'[p] = m
            => Placed(p)'
      BY <1>0, <1>a DEF Placed, Done, server, disk, home
    <2>2. QED
      BY <1>0, <1>a, <2>1, GotoKept DEF Places
  <1>1. CASE Allocated(p)
    <2>0. v \in 0..Len(vaults) /\ proc[p].pc = "allocated"
      BY <1>0, <1>1 DEF Allocated, Placed
    <2>1. CASE v = 0 /\ Refuse(p, "poll")
      BY <1>0, <2>0, <2>1, RefuseKept
    <2>2. CASE v = 0 /\ Goto(p, "reconcile", 0) /\ UNCHANGED disk
      BY <1>a, <2>2
    <2>3. CASE Refuse(p, "idle")
      BY <1>0, <2>0, <2>3, RefuseKept
    <2>4. CASE v # 0 /\ Advance(p, [proc[p].j EXCEPT !.stage = "ALLOCATED", !.vault = v], "seal")
      <3>1. PICK j : j = [proc[p].j EXCEPT !.stage = "ALLOCATED", !.vault = v]
        OBVIOUS
      <3>2. v \in 1..Len(vaults) /\ v \in Nat
        BY <2>0, <2>4 DEF IInv, Types
      <3>3. j \in Journal /\ j.stage = "ALLOCATED" /\ j.vault = v
        BY <1>0, <3>1, <3>2 DEF Memory, Journal, Stages
      <3>4. Done(j)
        BY <3>2, <3>3 DEF Done
      <3>5. Advance(p, j, "seal")
        BY <2>4, <3>1
      <3>6. QED
        BY <1>0, <2>0, <3>3, <3>4, <3>5, AdvanceKept DEF Places
    <2>5. QED
      BY <1>1, <2>1, <2>2, <2>3, <2>4 DEF Allocated
  <1>2. CASE Reconcile(p)
    BY <1>0, <1>2, EndsKept DEF Reconcile
  <1>3. CASE Poll(p)
    BY <1>0, <1>3, <1>a, EndsKept DEF Poll, Memory
  <1>4. QED
    BY <1>1, <1>2, <1>3

LEMMA SealKept == ASSUME IInv, NEW p \in Procs, Seal(p) \/ PrepareGenesis(p) PROVE IInv'
  <1>0. /\ UNCHANGED <<env, server>> /\ proc[p] \in Memory /\ Placed(p)
        /\ minted' \in Nat /\ minted' # 0
    BY DEF IInv, Types, Seal, PrepareGenesis
  <1>1. CASE Seal(p)
    <2>1. PICK j : j = [proc[p].j EXCEPT !.stage = "PREPARED", !.key = minted']
      OBVIOUS
    <2>2. Advance(p, j, "check") /\ proc[p].pc = "seal" /\ proc[p].j.stage # "KEYS"
      BY <1>0, <1>1, <2>1 DEF Seal, Placed
    <2>3. j \in Journal /\ j.stage = "PREPARED" /\ j.vault = proc[p].j.vault /\ j.key = minted'
      BY <1>0, <2>1 DEF Memory, Journal, Stages
    <2>4. Done(j)
      BY <1>0, <2>2, <2>3 DEF Placed, Done
    <2>5. QED
      BY <1>0, <2>2, <2>3, <2>4, AdvanceKept DEF Places
  <1>2. CASE PrepareGenesis(p)
    <2>1. PICK j : j = [proc[p].j EXCEPT !.stage = "GENESIS", !.genesis = minted']
      OBVIOUS
    <2>2. Advance(p, j, "read") /\ proc[p].pc = "prepare" /\ proc[p].j.stage = "FINALIZED"
      BY <1>0, <1>2, <2>1 DEF PrepareGenesis, Placed
    <2>3. /\ j \in Journal /\ j.stage = "GENESIS" /\ j.vault = proc[p].j.vault /\ j.key = proc[p].j.key
          /\ j.genesis = minted'
      BY <1>0, <2>1 DEF Memory, Journal, Stages
    <2>4. Done(j)
      BY <1>0, <2>2, <2>3 DEF Placed, Done
    <2>5. QED
      BY <1>0, <2>2, <2>3, <2>4, AdvanceKept DEF Places
  <1>3. QED
    BY <1>1, <1>2

LEMMA StoreKept == ASSUME IInv, NEW p \in Procs, CheckObject(p) \/ PutObject(p) \/ Stored(p) PROVE IInv'
  <1> DEFINE old == proc[p].j
             remote == vaults[old.vault].object
  <1>0. /\ env' = env /\ minted' = minted /\ minted' \in Nat /\ proc[p] \in Memory /\ Placed(p)
        /\ proc[p].pc \in {"check", "put", "stored"} /\ old \in Journal
        /\ old.stage = "PREPARED" /\ old.vault \in 1..Len(vaults) /\ old.key # 0 /\ Done(old)
        /\ proc \in [Procs -> Memory] /\ vaults \in Seq(Vault)
    BY DEF IInv, Types, Placed, Done, CheckObject, PutObject, Stored, Memory
  <1>a. ASSUME remote = old.key, Advance(p, [old EXCEPT !.stage = "FINALIZED"], "prepare"), UNCHANGED server
        PROVE  IInv'
    <2>1. PICK j : j = [old EXCEPT !.stage = "FINALIZED"]
      OBVIOUS
    <2>2. j \in Journal /\ j.stage = "FINALIZED" /\ j.vault = old.vault /\ j.key = old.key
      BY <1>0, <2>1 DEF Journal, Stages
    <2>3. Done(j)
      BY <1>0, <1>a, <2>2 DEF Done
    <2>4. QED
      BY <1>0, <1>a, <2>1, <2>2, <2>3, AdvanceKept DEF Places
  <1>1. CASE CheckObject(p)
    <2>1. CASE Goto(p, "put", 0) /\ UNCHANGED disk
      <3>1. \A m \in Memory : m.pc = "put" /\ m.ans = 0 /\ m.j = old /\ m.at = proc[p].at /\ proc'[p] = m
              => Placed(p)'
        BY <1>0, <1>1, <2>1 DEF CheckObject, Placed, Done, server, disk, home
      <3>2. QED
        BY <1>0, <1>1, <2>1, <3>1, GotoKept DEF CheckObject, Places
    <2>2. CASE Refuse(p, "idle")
      BY <1>0, <1>1, <2>2, RefuseKept DEF CheckObject
    <2>3. CASE remote = old.key /\ Advance(p, [old EXCEPT !.stage = "FINALIZED"], "prepare")
      BY <1>1, <1>a, <2>3 DEF CheckObject
    <2>4. QED
      BY <1>1, <2>1, <2>2, <2>3 DEF CheckObject
  <1>2. CASE PutObject(p)
    <2>1. CASE Ends(p) /\ UNCHANGED vaults
      BY <1>0, <1>2, <2>1, EndsKept DEF PutObject, server
    <2>2. CASE /\ remote \in {0, old.key} /\ vaults' = [vaults EXCEPT ![old.vault].object = old.key]
               /\ Goto(p, "stored", 0)
      <3>1. PICK v, k : v = old.vault /\ k = old.key
        OBVIOUS
      <3>2. PICK new : new = [vaults[v] EXCEPT !.object = k]
        OBVIOUS
      <3>3. v \in 1..Len(vaults) /\ k \in Nat /\ k # 0 /\ vaults[v] \in Vault
        BY <1>0, <3>1 DEF Journal
      <3>4. /\ new \in Vault /\ new.object = k /\ new.live = vaults[v].live
            /\ new.genesis = vaults[v].genesis /\ new.key = vaults[v].key
        BY <3>2, <3>3 DEF Vault
      <3>5. vaults' = [vaults EXCEPT ![v] = new]
        BY <2>2, <3>1, <3>2
      <3>6. /\ vaults' \in Seq(Vault) /\ Len(vaults') = Len(vaults) /\ vaults'[v] = new
            /\ \A w \in 1..Len(vaults) : w # v => vaults'[w] = vaults[w]
        BY <1>0, <3>3, <3>4, <3>5
      <3>7. vaults[v].object \in {0, k}
        BY <2>2, <3>1
      <3>8. Grown
        BY <3>3, <3>4, <3>6, <3>7 DEF Grown
      <3>9. Allocations'
        BY <3>3, <3>4, <3>6, <3>7 DEF IInv, Allocations
      <3>10. PICK m \in Memory : /\ proc' = [proc EXCEPT ![p] = m]
                                 /\ m.pc = "stored" /\ m.ans = 0 /\ m.j = old /\ m.at = proc[p].at
        BY <1>0, <2>2, GotoMoves DEF IInv, Places
      <3>11. proc'[p] = m
        BY <1>0, <3>10
      <3>12. Done(m.j)'
        <4>1. PICK j : j = old
          OBVIOUS
        <4>2. Done(j)'
          BY <1>0, <3>8, <4>1, DoneStays
        <4>3. QED
          BY <3>10, <4>1, <4>2
      <3>13. vaults'[m.j.vault].object = m.j.key
        BY <3>1, <3>4, <3>6, <3>10
      <3>14. Placed(p)'
        BY <1>0, <1>2, <3>10, <3>11, <3>12, <3>13 DEF PutObject, Placed, disk, home
      <3>15. QED
        BY <1>0, <1>2, <3>6, <3>8, <3>9, <3>10, <3>14, AtServer DEF PutObject
    <2>3. QED
      BY <1>2, <2>1, <2>2 DEF PutObject
  <1>3. CASE Stored(p)
    BY <1>0, <1>3, <1>a DEF Stored, Placed
  <1>4. QED
    BY <1>1, <1>2, <1>3

LEMMA GenesisKept == ASSUME IInv, NEW p \in Procs, ReadGenesis(p) \/ Admitted(p) PROVE IInv'
  <1> DEFINE j == proc[p].j
  <1>0. /\ UNCHANGED <<env, server, minted>> /\ proc[p] \in Memory /\ Placed(p) /\ j \in Journal
        /\ proc[p].pc \in {"read", "admitted"} /\ j.stage = "GENESIS" /\ Done(j) /\ j.genesis # 0
    BY DEF IInv, Types, Placed, Done, ReadGenesis, Admitted, Memory
  <1>1. ASSUME NEW next \in {"admit", "save"}, Goto(p, next, 0), UNCHANGED disk,
               next = "save" => vaults[j.vault].genesis = j.genesis
        PROVE  IInv'
    <2>1. \A m \in Memory : m.pc = next /\ m.ans = 0 /\ m.j = j /\ m.at = proc[p].at /\ proc'[p] = m
            => Placed(p)'
      BY <1>0, <1>1 DEF Placed, Done, server, disk, home
    <2>2. QED
      BY <1>0, <1>1, <2>1, GotoKept DEF Places
  <1>2. CASE Refuse(p, "idle")
    BY <1>0, <1>2, RefuseKept
  <1>3. CASE ReadGenesis(p)
    BY <1>1, <1>2, <1>3 DEF ReadGenesis
  <1>4. CASE Admitted(p)
    <2>1. proc[p].ans = j.genesis => vaults[j.vault].genesis = j.genesis
      BY <1>0, <1>4 DEF Admitted, Placed
    <2>2. QED
      BY <1>1, <1>2, <1>4, <2>1 DEF Admitted
  <1>5. QED
    BY <1>3, <1>4

LEMMA AdmitKept == ASSUME IInv, NEW p \in Procs, AdmitGenesis(p) PROVE IInv'
  <1> DEFINE old == proc[p].j
  <1>0. /\ UNCHANGED <<env, reclaims, minted, disk>> /\ proc[p] \in Memory /\ Placed(p)
        /\ proc[p].pc = "admit" /\ old \in Journal /\ old.stage = "GENESIS"
        /\ old.vault \in 1..Len(vaults) /\ old.key # 0 /\ old.genesis # 0 /\ Done(old)
        /\ vaults[old.vault].object = old.key
        /\ proc \in [Procs -> Memory] /\ vaults \in Seq(Vault)
    BY DEF IInv, Types, Placed, Done, AdmitGenesis, Memory
  <1>1. ASSUME NEW ans \in Nat, Goto(p, "admitted", ans), UNCHANGED vaults,
               ans # 0 => vaults[old.vault].genesis = ans
        PROVE  IInv'
    <2>1. \A m \in Memory : m.pc = "admitted" /\ m.ans = ans /\ m.j = old /\ m.at = proc[p].at /\ proc'[p] = m
            => Placed(p)'
      BY <1>0, <1>1 DEF Placed, Done, disk, home
    <2>2. QED
      BY <1>0, <1>1, <2>1, GotoKept DEF Places, server
  <1>2. CASE /\ vaults[old.vault].live /\ vaults[old.vault].genesis = 0
             /\ vaults' = [vaults EXCEPT ![old.vault].genesis = old.genesis, ![old.vault].key = old.key]
             /\ Goto(p, "admitted", old.genesis)
    <2>1. PICK v, g, k : v = old.vault /\ g = old.genesis /\ k = old.key
      OBVIOUS
    <2>2. PICK new : new = [vaults[v] EXCEPT !.genesis = g, !.key = k]
      OBVIOUS
    <2>3. v \in 1..Len(vaults) /\ k \in Nat \ {0} /\ g \in Nat \ {0} /\ vaults[v] \in Vault
      BY <1>0, <2>1 DEF Journal
    <2>4. /\ new \in Vault /\ new.object = vaults[v].object /\ new.live = vaults[v].live
          /\ new.genesis = g /\ new.key = k
      BY <2>2, <2>3 DEF Vault
    <2>5. vaults' = [vaults EXCEPT ![v] = new]
      BY <1>0, <1>2, <2>1, <2>2, <2>3
    <2>6. /\ vaults' \in Seq(Vault) /\ Len(vaults') = Len(vaults) /\ vaults'[v] = new
          /\ \A w \in 1..Len(vaults) : w # v => vaults'[w] = vaults[w]
      BY <1>0, <2>3, <2>4, <2>5
    <2>7. vaults[v].live /\ vaults[v].genesis = 0 /\ vaults[v].object = k
      BY <1>0, <1>2, <2>1
    <2>8. Grown
      BY <2>3, <2>4, <2>6, <2>7 DEF Grown
    <2>9. Allocations'
      <3>1. \A w \in 1..Len(vaults) : vaults'[w].live = vaults[w].live
        BY <2>4, <2>6
      <3>2. ASSUME NEW w \in 1..Len(vaults), vaults'[w].genesis # 0
            PROVE  vaults'[w].live /\ vaults'[w].key = vaults'[w].object /\ vaults'[w].object # 0
        <4>1. CASE w = v
          BY <2>3, <2>4, <2>6, <2>7, <4>1
        <4>2. CASE w # v
          BY <2>6, <3>2, <4>2 DEF IInv, Allocations
        <4>3. QED
          BY <4>1, <4>2
      <3>3. QED
        BY <2>6, <3>1, <3>2 DEF IInv, Allocations
    <2>10. PICK m \in Memory : /\ proc' = [proc EXCEPT ![p] = m]
                               /\ m.pc = "admitted" /\ m.ans = g /\ m.j = old /\ m.at = proc[p].at
      BY <1>2, <2>1, <2>3, GotoMoves DEF IInv, Places
    <2>11. proc'[p] = m
      BY <1>0, <2>10
    <2>12. Done(m.j)'
      <3>1. PICK j : j = old
        OBVIOUS
      <3>2. Done(j)'
        BY <1>0, <2>8, <3>1, DoneStays
      <3>3. QED
        BY <2>10, <3>1, <3>2
    <2>13. vaults'[m.j.vault].genesis = m.ans
      BY <2>1, <2>4, <2>6, <2>10
    <2>14. Placed(p)'
      BY <1>0, <2>10, <2>11, <2>12, <2>13 DEF Placed, disk, home
    <2>15. QED
      BY <1>0, <2>6, <2>8, <2>9, <2>10, <2>14, AtServer
  <1>3. QED
    <2>1. vaults[old.vault].genesis \in Nat
      <3>1. vaults[old.vault] \in Vault
        BY <1>0
      <3>2. QED
        BY <3>1 DEF Vault
    <2>2. QED
      BY <1>1, <1>2, <2>1 DEF AdmitGenesis

\* A step that writes the repo file or the receipt.
LEMMA Saved ==
  ASSUME IInv, NEW p \in Procs, UNCHANGED <<env, server, minted, journals>>,
         repo' \in [Stores -> Repo \cup {None}], receipt' \in [Stores -> Nat \cup {None}],
         \A s \in Stores \ {home(p)} : repo'[s] = repo[s] /\ receipt'[s] = receipt[s],
         repo[home(p)] # None => repo'[home(p)] # None,
         receipt[home(p)] # None => receipt'[home(p)] # None,
         repo'[home(p)] # None =>
           LET r == repo'[home(p)] IN
           /\ r.vault \in 1..Len(vaults)
           /\ r.genesis # 0 /\ vaults[r.vault].genesis = r.genesis /\ r.key = vaults[r.vault].object,
         receipt'[home(p)] # None => receipt'[home(p)] # 0 /\ Stands(receipt'[home(p)]),
         NEW m \in Memory, proc' = [proc EXCEPT ![p] = m], Placed(p)'
  PROVE  IInv'
  <1> DEFINE s == home(p)
  <1>1. Types' /\ Allocations' /\ Grown
    BY DEF IInv, Types, Allocations, Grown, server
  <1>2. Framed(p)
    BY DEF IInv, Types, Framed, server
  <1>3. s' = s /\ s \in Stores /\ Held(s)
    BY Home DEF IInv, home
  <1>4. ASSUME NEW n \in 1..Len(journals[s])
        PROVE  /\ Done(journals[s][n])'
               /\ journals[s][n].stage = "ACTIVE" =>
                    /\ vaults[journals[s][n].vault].genesis = journals[s][n].genesis
                    /\ repo'[s] # None /\ receipt'[s] # None
    <2>1. PICK j : j = journals[s][n]
      OBVIOUS
    <2>2. Done(j) /\ (j.stage = "ACTIVE" => /\ vaults[j.vault].genesis = j.genesis
                                            /\ repo[s] # None /\ receipt[s] # None)
      BY <1>3, <2>1 DEF Held
    <2>3. Done(j)'
      BY <1>1, <2>2, DoneStays
    <2>4. journals'[s][n] = j
      BY <2>1
    <2>5. QED
      BY <1>3, <2>1, <2>2, <2>3, <2>4
  <1>5. Held(s)'
    BY <1>3, <1>4 DEF Held, Stands, server
  <1>6. QED
    BY <1>1, <1>2, <1>5, Joined

LEMMA SaveKept == ASSUME IInv, NEW p \in Procs, SaveRepo(p) \/ SaveReceipt(p) PROVE IInv'
  <1> DEFINE j == proc[p].j
  <1>0. /\ UNCHANGED <<env, server, minted, journals>> /\ proc[p] \in Memory /\ Placed(p) /\ Held(home(p))
        /\ proc[p].pc \in {"save", "receipt"} /\ j \in Journal /\ j.stage = "GENESIS"
        /\ j.vault \in 1..Len(vaults) /\ j.genesis # 0 /\ vaults[j.vault].genesis = j.genesis
        /\ vaults[j.vault].object = j.key /\ Done(j) /\ home(p) \in Stores /\ home(p)' = home(p)
        /\ proc \in [Procs -> Memory]
        /\ repo \in [Stores -> Repo \cup {None}] /\ receipt \in [Stores -> Nat \cup {None}]
    <2>1. /\ home(p) \in Stores /\ proc[p] \in Memory /\ Placed(p) /\ proc \in [Procs -> Memory]
          /\ repo \in [Stores -> Repo \cup {None}] /\ receipt \in [Stores -> Nat \cup {None}]
          /\ proc[p].pc \in {"save", "receipt"}
          /\ UNCHANGED <<env, server, minted, journals>>
      BY Home DEF IInv, Types, SaveRepo, SaveReceipt
    <2>2. j \in Journal /\ Held(home(p)) /\ home(p)' = home(p)
      BY <2>1 DEF IInv, Memory, home
    <2>3. /\ j.stage = "GENESIS" /\ Done(j) /\ vaults[j.vault].genesis = j.genesis
      BY <2>1 DEF Placed
    <2>4. /\ j.vault \in 1..Len(vaults) /\ j.genesis # 0 /\ vaults[j.vault].object = j.key
      BY <2>3 DEF Done
    <2>5. QED
      BY <2>1, <2>2, <2>3, <2>4
  <1>a. ASSUME NEW m \in Memory, m.j = j PROVE Done(m.j)'
    BY <1>0, <1>a DEF Done, server
  <1>1. CASE SaveRepo(p)
    <2>1. PICK r : r = [vault |-> j.vault, key |-> j.key, genesis |-> j.genesis, pinned |-> FALSE]
      OBVIOUS
    <2>2. /\ r \in Repo /\ r.vault = j.vault /\ r.key = j.key /\ r.genesis = j.genesis
      BY <1>0, <2>1 DEF Repo, Journal
    <2>3. r # None
      BY <2>2, BoundsAssumption DEF Repo
    <2>4. repo' = [repo EXCEPT ![home(p)] = r] /\ receipt' = receipt /\ Goto(p, "receipt", 0)
      BY <1>1, <2>1 DEF SaveRepo
    <2>5. PICK m \in Memory : /\ proc' = [proc EXCEPT ![p] = m]
                              /\ m.pc = "receipt" /\ m.ans = 0 /\ m.j = j /\ m.at = proc[p].at
      BY <1>0, <2>4, GotoMoves DEF IInv, Places
    <2>6. proc'[p] = m /\ repo'[home(p)] = r
      BY <1>0, <2>4, <2>5
    <2>7. Placed(p)'
      BY <1>0, <1>1, <1>a, <2>3, <2>4, <2>5, <2>6 DEF Placed, SaveRepo, server
    <2>8. /\ repo' \in [Stores -> Repo \cup {None}]
          /\ \A s \in Stores \ {home(p)} : repo'[s] = repo[s]
      BY <1>0, <2>2, <2>4
    <2>9. receipt'[home(p)] # None => receipt'[home(p)] # 0 /\ Stands(receipt'[home(p)])
      BY <1>0, <2>4 DEF Held
    <2>10. QED
      BY <1>0, <2>2, <2>3, <2>4, <2>5, <2>6, <2>7, <2>8, <2>9, Saved
  <1>2. CASE SaveReceipt(p)
    <2>1. PICK g : g = j.genesis
      OBVIOUS
    <2>2. g \in Nat /\ g # 0 /\ g # None /\ Stands(g)
      BY <1>0, <2>1, BoundsAssumption DEF Journal, Stands
    <2>3. receipt' = [receipt EXCEPT ![home(p)] = g] /\ repo' = repo /\ Goto(p, "activate", 0)
      BY <1>2, <2>1 DEF SaveReceipt
    <2>4. PICK m \in Memory : /\ proc' = [proc EXCEPT ![p] = m]
                              /\ m.pc = "activate" /\ m.ans = 0 /\ m.j = j /\ m.at = proc[p].at
      BY <1>0, <2>3, GotoMoves DEF IInv, Places
    <2>5. proc'[p] = m /\ receipt'[home(p)] = g
      BY <1>0, <2>3, <2>4
    <2>6. Placed(p)'
      BY <1>0, <1>2, <1>a, <2>2, <2>3, <2>4, <2>5 DEF Placed, SaveReceipt, server
    <2>7. /\ receipt' \in [Stores -> Nat \cup {None}]
          /\ \A s \in Stores \ {home(p)} : receipt'[s] = receipt[s]
      BY <1>0, <2>2, <2>3
    <2>8. repo'[home(p)] # None =>
           LET r == repo'[home(p)] IN
           /\ r.vault \in 1..Len(vaults)
           /\ r.genesis # 0 /\ vaults[r.vault].genesis = r.genesis /\ r.key = vaults[r.vault].object
      BY <1>0, <2>3 DEF Held
    <2>9. QED
      BY <1>0, <2>2, <2>3, <2>4, <2>5, <2>6, <2>7, <2>8, Saved
  <1>3. QED
    BY <1>1, <1>2

LEMMA ActivateKept == ASSUME IInv, NEW p \in Procs, Activate(p) PROVE IInv'
  <1>0. /\ proc[p] \in Memory /\ Placed(p) /\ proc[p].pc = "activate" /\ proc \in [Procs -> Memory]
        /\ UNCHANGED <<env, server, minted, repo, receipt>> /\ minted' \in Nat
    BY DEF IInv, Types, Activate
  <1>1. PICK j : j = [proc[p].j EXCEPT !.stage = "ACTIVE"]
    OBVIOUS
  <1>2. /\ j \in Journal /\ j.stage = "ACTIVE" /\ j.vault = proc[p].j.vault /\ j.key = proc[p].j.key
        /\ j.genesis = proc[p].j.genesis
    BY <1>0, <1>1 DEF Memory, Journal, Stages
  <1>3. /\ Done(j) /\ vaults[j.vault].genesis = j.genesis
        /\ repo[home(p)] # None /\ receipt[home(p)] # None
    BY <1>0, <1>2 DEF Placed, Done
  <1>4. Persist(p, j) /\ proc' = [proc EXCEPT ![p] = Idle]
    BY <1>1 DEF Activate, Ends
  <1>5. Placed(p)'
    <2>1. proc'[p] = Idle
      BY <1>0, <1>4
    <2>2. Done(NewJournal)'
      BY FreshMemory DEF Done
    <2>3. QED
      BY <2>1, <2>2, FreshMemory DEF Placed
  <1>6. QED
    BY <1>0, <1>2, <1>3, <1>4, <1>5, FreshMemory, Written

-----------------------------------------------------------------------------
(* The environment, and the theorems.                                      *)

\* A pin leaves what the keystore holds, and a reclaimed allocation has no genesis.
LEMMA PushKept == ASSUME IInv, NEW s \in Stores, Push(s) PROVE IInv'
  <1>0. /\ repo \in [Stores -> Repo \cup {None}] /\ repo[s] # None
        /\ UNCHANGED <<env, server, minted, journals, recent, receipt, proc, faults>>
    BY DEF IInv, Types, Push
  <1>1. PICK r : r = [repo[s] EXCEPT !.pinned = TRUE]
    OBVIOUS
  <1>2. /\ r \in Repo /\ r.vault = repo[s].vault /\ r.key = repo[s].key /\ r.genesis = repo[s].genesis
    <2>1. repo[s] \in Repo
      BY <1>0
    <2>2. QED
      BY <1>1, <2>1 DEF Repo
  <1>3. repo' = [repo EXCEPT ![s] = r]
    BY <1>1 DEF Push
  <1>4. /\ repo' \in [Stores -> Repo \cup {None}] /\ repo'[s] = r /\ repo'[s] # None
        /\ \A t \in Stores \ {s} : repo'[t] = repo[t]
    BY <1>0, <1>2, <1>3, BoundsAssumption DEF Repo
  <1>5. Types' /\ Allocations' /\ Grown
    BY <1>0, <1>4 DEF IInv, Types, Allocations, Grown, server
  <1>6. \A t \in Stores : repo[t] # None => repo'[t] # None
    BY <1>4
  <1>7. \A p \in Procs : Placed(p)'
    <2> TAKE p \in Procs
    <2>1. home(p) \in Stores
      BY Home DEF IInv
    <2>2. QED
      BY <1>0, <1>5, <1>6, <2>1, PlacedStays DEF IInv, server
  <1>8. \A t \in Stores : Held(t)'
    <2> TAKE t \in Stores
    <2>1. CASE t # s
      BY <1>0, <1>4, <1>5, <2>1, HeldStays DEF IInv
    <2>2. CASE t = s
      <3>1. Held(s)
        BY DEF IInv
      <3>2. ASSUME NEW n \in 1..Len(journals[s])
            PROVE  /\ Done(journals[s][n])'
                   /\ journals[s][n].stage = "ACTIVE" =>
                        vaults'[journals[s][n].vault].genesis = journals[s][n].genesis
        <4>1. Done(journals[s][n])
          BY <3>1 DEF Held
        <4>2. QED
          BY <1>0, <3>1, <4>1 DEF Held, Done, server
      <3>3. QED
        BY <1>0, <1>2, <1>4, <2>2, <3>1, <3>2 DEF Held, Stands, server
    <2>3. QED
      BY <2>1, <2>2
  <1>9. QED
    BY <1>5, <1>7, <1>8 DEF IInv

LEMMA ReclaimKept == ASSUME IInv, Reclaim PROVE IInv'
  <1>0. /\ UNCHANGED <<env, minted, disk, proc>> /\ vaults \in Seq(Vault)
    BY DEF IInv, Types, Reclaim
  <1>1. PICK v \in Live : vaults[v].genesis = 0 /\ vaults' = [vaults EXCEPT ![v].live = FALSE]
    BY DEF Reclaim
  <1>2. PICK new : new = [vaults[v] EXCEPT !.live = FALSE]
    OBVIOUS
  <1>3. v \in 1..Len(vaults) /\ vaults[v] \in Vault
    BY <1>0, <1>1 DEF Live
  <1>4. /\ new \in Vault /\ new.object = vaults[v].object /\ new.live = FALSE
        /\ new.genesis = 0 /\ new.key = vaults[v].key
    BY <1>1, <1>2, <1>3 DEF Vault
  <1>5. vaults' = [vaults EXCEPT ![v] = new]
    BY <1>1, <1>2
  <1>6. /\ vaults' \in Seq(Vault) /\ Len(vaults') = Len(vaults) /\ vaults'[v] = new
        /\ \A w \in 1..Len(vaults) : w # v => vaults'[w] = vaults[w]
    BY <1>0, <1>3, <1>4, <1>5
  <1>7. Grown
    BY <1>1, <1>3, <1>4, <1>6 DEF Grown
  <1>8. Allocations'
    BY <1>3, <1>4, <1>6 DEF IInv, Allocations
  <1>9. Types'
    BY <1>0, <1>6 DEF IInv, Types, disk
  <1>10. \A s \in Stores : Held(s)'
    BY <1>0, <1>7, HeldStays DEF IInv, disk
  <1>11. \A p \in Procs : Placed(p)'
    BY <1>0, <1>6, <1>7, PlacedStays DEF IInv, disk
  <1>12. QED
    BY <1>8, <1>9, <1>10, <1>11 DEF IInv

LEMMA InitInv == Init => IInv
  <1> SUFFICES ASSUME Init PROVE IInv
    OBVIOUS
  <1>1. Types
    BY FreshMemory DEF Init, Types
  <1>2. Allocations
    BY DEF Init, Allocations
  <1>3. \A s \in Stores : Held(s)
    BY DEF Init, Held
  <1>4. \A p \in Procs : Placed(p)
    BY FreshMemory, FreshIsDone DEF Init, Placed
  <1>5. QED
    BY <1>1, <1>2, <1>3, <1>4 DEF IInv

LEMMA IInvKept == IInv /\ [Next]_vars => IInv'
  <1> SUFFICES ASSUME IInv, [Next]_vars PROVE IInv'
    OBVIOUS
  <1>1. ASSUME NEW p \in Procs, Step(p) PROVE IInv'
    BY <1>1, BeginKept, OpenKept, AllocateKept, AllocatedKept, SealKept, StoreKept, GenesisKept,
       AdmitKept, SaveKept, ActivateKept DEF Step
  <1>2. ASSUME NEW p \in Procs, Fail(p) PROVE IInv'
    BY <1>2, EndsKept DEF Fail
  <1>3. CASE UNCHANGED vars
    BY <1>3 DEF vars, server, disk, IInv, Types, Allocations, Held, Placed, Done, Stands, home
  <1>4. QED
    BY <1>1, <1>2, <1>3, PushKept, ReclaimKept DEF Next

LEMMA Invariant == Spec => []IInv
  BY InitInv, IInvKept, PTL DEF Spec

\* The state of the gateway, of the keystores and of the calls has its type.
THEOREM TypeCorrect == Spec => []Types
  <1>1. IInv => Types
    BY DEF IInv
  <1>2. QED
    BY <1>1, Invariant, PTL

\* A repo file names the genesis the gateway admitted and holds its key, which is
\* the one sealed in the stored envelope (saveRepo after admission).
THEOREM KeyIsCanonical == Spec => []HeldKeyIsCanonical
  <1>1. IInv => HeldKeyIsCanonical
    <2> SUFFICES ASSUME IInv, NEW s \in Stores, repo[s] # None
                 PROVE  LET v == vaults[repo[s].vault] IN
                        /\ v.genesis = repo[s].genesis
                        /\ v.key = repo[s].key /\ v.object = repo[s].key
                        /\ v.live
      BY DEF HeldKeyIsCanonical
    <2>1. Held(s)
      BY DEF IInv
    <2>2. QED
      BY <2>1 DEF Held, IInv, Allocations
  <1>2. QED
    BY <1>1, Invariant, PTL

\* A journal that says ACTIVE left a repo file and a receipt of the genesis that
\* stands (the order of saveRepo, the receipt and the last persist).
THEOREM ActiveHolds == Spec => []ActiveIsHeld
  <1>1. IInv => ActiveIsHeld
    <2> SUFFICES ASSUME IInv, NEW s \in Stores, NEW n \in 1..Len(journals[s]),
                        journals[s][n].stage = "ACTIVE"
                 PROVE  /\ repo[s] # None /\ repo[s].genesis = vaults[journals[s][n].vault].genesis
                        /\ receipt[s] = vaults[journals[s][n].vault].genesis
      BY DEF ActiveIsHeld
    <2>1. PICK j : j = journals[s][n]
      OBVIOUS
    <2>2. /\ Held(s) /\ Allocations /\ Done(j) /\ vaults[j.vault].genesis = j.genesis
          /\ repo[s] # None /\ receipt[s] # None /\ j.stage = "ACTIVE"
      BY <2>1 DEF IInv, Held
    <2>3. j.vault \in 1..Len(vaults) /\ vaults[j.vault].genesis # 0
      BY <2>2 DEF Done
    <2>4. repo[s].vault = j.vault
      BY <2>2, <2>3, OneGenesis DEF Held
    <2>5. PICK w \in 1..Len(vaults) : vaults[w].genesis = receipt[s] /\ receipt[s] # 0
      BY <2>2 DEF Held, Stands
    <2>6. w = j.vault
      BY <2>2, <2>3, <2>5, OneGenesis
    <2>7. QED
      BY <2>1, <2>2, <2>4, <2>5, <2>6 DEF Held
  <1>2. QED
    BY <1>1, Invariant, PTL

-----------------------------------------------------------------------------
(* The head pin.                                                           *)

\* A keystore of one process that has a repo file runs no creation up to its
\* saveRepo again: the genesis it names resolves, so pushToCreateVault ends before
\* it looks for a journal.
Ended == {"idle", "receipt", "activate"}
ByName == Orderly /\ env.mode = "name"
Quiet == ByName => \A p \in Procs : repo[home(p)] # None => proc[p].pc \in Ended

LEMMA HeldIsFound ==
  ASSUME IInv, Orderly, NEW s \in Stores, repo[s] # None PROVE Found
  <1>1. Held(s) /\ Allocations
    BY DEF IInv
  <1> PICK v : v = repo[s].vault
    OBVIOUS
  <1>2. v \in 1..Len(vaults) /\ vaults[v].genesis # 0 /\ vaults[v].live
    BY <1>1 DEF Held, Allocations
  <1> QED
    BY <1>2 DEF Found, Live, Resolvable, Orderly

\* Where a process can be after a step, and what a step does to the repo files.
LEMMA StepMoves ==
  ASSUME Types, NEW p \in Procs, Step(p) \/ Fail(p)
  PROVE  /\ env' = env
         /\ \A q \in Procs \ {p} : proc'[q] = proc[q]
         /\ repo' = repo \/ SaveRepo(p)
         /\ proc[p].pc \in Ended => proc'[p].pc \in Ended \/ OpenOrCreate(p) \/ PushToCreate(p)
  <1>1. env' = env
    BY DEF Step, Fail, OpenOrCreate, PushToCreate, Open, Allocate, Allocated, Reconcile, Poll, Seal, CheckObject,
           PutObject, Stored, PrepareGenesis, ReadGenesis, AdmitGenesis, Admitted, SaveRepo, SaveReceipt, Activate
  <1>2. repo' = repo \/ SaveRepo(p)
    BY DEF Step, Fail, OpenOrCreate, PushToCreate, Open, Allocate, Allocated, Reconcile, Poll, Seal, CheckObject,
           PutObject, Stored, PrepareGenesis, ReadGenesis, AdmitGenesis, Admitted, SaveReceipt, Activate,
           Refuse, Advance, disk
  <1>3. \E m : proc' = [proc EXCEPT ![p] = m]
    BY DEF Step, Fail, OpenOrCreate, PushToCreate, Open, Allocate, Allocated, Reconcile, Poll, Seal, CheckObject,
           PutObject, Stored, PrepareGenesis, ReadGenesis, AdmitGenesis, Admitted, SaveRepo, SaveReceipt, Activate,
           Refuse, Advance, Goto, Ends
  <1>4. \A q \in Procs \ {p} : proc'[q] = proc[q]
    BY <1>3 DEF Types
  <1>5. ASSUME proc[p].pc \in Ended PROVE proc'[p].pc \in Ended \/ OpenOrCreate(p) \/ PushToCreate(p)
    <2>1. CASE Fail(p) \/ Activate(p)
      BY <2>1, FreshMemory DEF Fail, Activate, Ends, Ended, Types
    <2>2. CASE SaveReceipt(p)
      BY <2>2 DEF SaveReceipt, Goto, Ended, Types, Memory
    <2> QED
      BY <1>5, <2>1, <2>2 DEF Ended, Step, Open, Allocate, Allocated, Reconcile, Poll, Seal, CheckObject,
         PutObject, Stored, PrepareGenesis, ReadGenesis, AdmitGenesis, Admitted, SaveRepo
  <1> QED
    BY <1>1, <1>2, <1>4, <1>5

LEMMA StepQuiet ==
  ASSUME IInv, Quiet, ByName, NEW p \in Procs, Step(p) \/ Fail(p)
  PROVE  Quiet' /\ \A s \in Stores : repo[s] # None => repo'[s] = repo[s]
  <1>1. Types /\ home(p) \in Stores
    BY Home DEF IInv
  <1>2. /\ env' = env /\ \A q \in Procs \ {p} : proc'[q] = proc[q]
        /\ repo' = repo \/ SaveRepo(p)
        /\ proc[p].pc \in Ended => proc'[p].pc \in Ended \/ OpenOrCreate(p) \/ PushToCreate(p)
    BY <1>1, StepMoves
  <1>3. \A q \in Procs : home(q)' = home(q)
    BY <1>2 DEF home
  <1>4. ASSUME repo[home(p)] # None PROVE proc[p].pc \in Ended /\ ~OpenOrCreate(p) /\ ~PushToCreate(p)
    <2>1. Found
      BY <1>1, <1>4, HeldIsFound DEF ByName
    <2> QED
      BY <1>4, <2>1 DEF Quiet, ByName, OpenOrCreate, PushToCreate
  <1>5. ASSUME SaveRepo(p) PROVE /\ repo[home(p)] = None /\ proc'[p].pc = "receipt"
                                 /\ \A s \in Stores \ {home(p)} : repo'[s] = repo[s]
    BY <1>1, <1>4, <1>5 DEF SaveRepo, Goto, Types, Memory, Ended
  <1>6. \A s \in Stores : repo[s] # None => repo'[s] = repo[s]
    BY <1>2, <1>5
  <1>7. ASSUME NEW q \in Procs, repo'[home(q)] # None PROVE proc'[q].pc \in Ended
    <2>1. CASE q = p
      BY <1>2, <1>4, <1>5, <1>7, <2>1 DEF Ended
    <2>2. CASE q # p
      <3>1. home(q) # home(p) /\ home(q) \in Stores
        BY <1>1, <2>2, Home DEF ByName, Orderly
      <3>2. repo'[home(q)] = repo[home(q)]
        BY <1>2, <1>5, <3>1
      <3> QED
        BY <1>2, <1>7, <2>2, <3>2 DEF Quiet
    <2> QED
      BY <2>1, <2>2
  <1> QED
    BY <1>3, <1>6, <1>7 DEF Quiet

LEMMA QuietKept ==
  ASSUME IInv, Quiet, [Next]_vars
  PROVE  /\ Quiet'
         /\ ByName => \A s \in Stores : repo[s] # None /\ repo[s].pinned => repo'[s].pinned
  <1>1. env' = env
    BY StepMoves DEF IInv, Next, vars, Push, Reclaim
  <1>2. ByName' = ByName /\ \A q \in Procs : home(q)' = home(q)
    BY <1>1 DEF ByName, Orderly, home
  <1>3. CASE ~ByName
    BY <1>2, <1>3 DEF Quiet
  <1>4. CASE ByName
    <2>1. ASSUME NEW p \in Procs, Step(p) \/ Fail(p)
          PROVE  Quiet' /\ \A s \in Stores : repo[s] # None => repo'[s] = repo[s]
      BY <1>4, <2>1, StepQuiet
    <2>2. ASSUME NEW s \in Stores, Push(s)
          PROVE  Quiet' /\ \A t \in Stores : repo[t] # None /\ repo[t].pinned => repo'[t].pinned
      <3>1. proc' = proc /\ repo[s] # None /\ ~repo[s].pinned /\ \A t \in Stores \ {s} : repo'[t] = repo[t]
        BY <2>2 DEF Push, IInv, Types
      <3>2. \A q \in Procs : home(q) \in Stores
        BY Home DEF IInv
      <3>3. \A q \in Procs : repo'[home(q)] # None => repo[home(q)] # None
        BY <3>1, <3>2
      <3> QED
        BY <1>2, <3>1, <3>3 DEF Quiet
    <2>3. CASE Reclaim \/ UNCHANGED vars
      BY <1>2, <2>3 DEF Reclaim, vars, disk, Quiet
    <2> QED
      BY <2>1, <2>2, <2>3 DEF Next
  <1> QED
    BY <1>3, <1>4

\* The push that creates its vault never erases a head pin that a later push
\* recorded in the repo file, whatever fails and however often it is called again.
THEOREM PinIsKept == Spec => PushToCreateKeepsPin
  <1>1. Init => Quiet
    BY Home, InitInv DEF Init, Quiet, IInv
  <1>2. IInv /\ Quiet /\ [Next]_vars => Quiet'
    BY QuietKept
  <1>3. IInv /\ Quiet /\ [Next]_vars =>
          [Orderly /\ env.mode = "name" =>
             \A s \in Stores : repo[s] # None /\ repo[s].pinned => repo'[s].pinned]_vars
    BY QuietKept DEF ByName
  <1> QED
    BY <1>1, <1>2, <1>3, Invariant, PTL DEF Spec, PushToCreateKeepsPin
=============================================================================
