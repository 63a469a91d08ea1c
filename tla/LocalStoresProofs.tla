-------------------------- MODULE LocalStoresProofs --------------------------
(***************************************************************************)
(* Proofs about LocalStores: types, and which updates survive, for any     *)
(* processes, wallets, projects and approvals and any number of calls and  *)
(* crashes.                                                                *)
(***************************************************************************)
EXTENDS LocalStores, TLAPS

Holding(p, f) == at[p] \in {"read", "write", "unlock"} /\ FileOf(my[p].op) = f

\* What a call is about, given where it is.
Placed(p) ==
  /\ at[p] \in {"lock", "read", "write", "unlock"} =>
       /\ my[p].op \in {"save", "remove", "clear", "use", "import", "mark"}
       /\ my[p].op # "mark" => my[p].arg \in Projects
  /\ at[p] = "approvals" => my[p].op = "approve"
  /\ at[p] \in {"approvals", "push"} /\ my[p].op = "approve" => my[p].arg \in Approvals

Types == TypeOK /\ \A p \in Procs : Placed(p)

\* A lock directory has one live holder at most; that of a dead one stays.
Locked ==
  \A f \in Files : \A p \in Procs : Holding(p, f) =>
    /\ lock[f]
    /\ \A q \in Procs : Holding(q, f) => p = q

\* A holder writes over nothing that was saved since it read.
KeysKept ==
  ~raced =>
    /\ saved # {} => keys # None /\ saved \subseteq keys
    /\ \A p \in Procs : at[p] = "write" /\ FileOf(my[p].op) = "keys" => saved \subseteq my[p].copy

\* The choice of a wallet is its scoped entry, and a holder has seen it.
ChoiceKept ==
  /\ \A w \in Wallets : used[w] # None => state.scoped[w].cur = used[w]
  /\ \A p \in Procs : at[p] = "write" /\ FileOf(my[p].op) = "state" => my[p].view = state

\* Saves of approvals that do not overlap are one at a time.
ApprovalsKept ==
  ~overlapped =>
    /\ granted \subseteq approvals
    /\ \A p \in Procs : at[p] = "push" /\ my[p].op = "approve" =>
         /\ granted \subseteq my[p].seen
         /\ \A q \in Procs : at[q] = "push" /\ my[q].op = "approve" => p = q

IInv == Types /\ Locked /\ KeysKept /\ ChoiceKept /\ ApprovalsKept
-----------------------------------------------------------------------------
(* The state file.                                                         *)

LEMMA NewStateType == NewState \in State
  BY DEF NewState, State, Nothing, Scope

LEMMA UsedType ==
  ASSUME NEW v \in State, NEW w \in Wallets, NEW x \in Projects
  PROVE  /\ Used(v, w, x) \in State
         /\ Used(v, w, x).scoped[w].cur = x
         /\ \A u \in Wallets \ {w} : Used(v, w, x).scoped[u] = v.scoped[u]
  <1> DEFINE cur == IF v.scoped[w].cur # None THEN v.scoped[w].cur ELSE v.flat.cur
             next == [cur |-> x, prev |-> IF cur # x THEN cur ELSE None]
  <1>1. v.scoped \in [Wallets -> Scope] /\ v.flat \in Scope
    BY DEF State
  <1>2. v.scoped[w].cur \in Projects \cup {None} /\ v.flat.cur \in Projects \cup {None}
    BY <1>1 DEF Scope
  <1>3. next \in Scope /\ next.cur = x
    BY <1>2 DEF Scope
  <1>4. Used(v, w, x) = [scoped |-> [v.scoped EXCEPT ![w] = next], flat |-> next]
    BY DEF Used
  <1> HIDE DEF next
  <1>5. QED
    BY <1>1, <1>3, <1>4 DEF State

LEMMA ClearedType ==
  ASSUME NEW v \in State, NEW w \in Wallets, NEW x \in Projects
  PROVE  /\ Cleared(v, w, x) \in State
         /\ v.scoped[w].cur # x => Cleared(v, w, x).scoped[w] = v.scoped[w]
         /\ \A u \in Wallets \ {w} : Cleared(v, w, x).scoped[u] = v.scoped[u]
  <1> DEFINE next == [cur |-> v.scoped[w].prev, prev |-> None]
             scoped == IF v.scoped[w].cur = x THEN [v.scoped EXCEPT ![w] = next] ELSE v.scoped
             flat == IF v.flat.cur = x
                     THEN [cur |-> IF v.flat.prev # x THEN v.flat.prev ELSE None, prev |-> None]
                     ELSE v.flat
  <1>1. v.scoped \in [Wallets -> Scope] /\ v.flat \in Scope
    BY DEF State
  <1>2. next \in Scope
    BY <1>1 DEF Scope
  <1>3. flat \in Scope
    BY <1>1 DEF Scope
  <1>4. Cleared(v, w, x) = [scoped |-> scoped, flat |-> flat]
    BY DEF Cleared
  <1> HIDE DEF next, flat
  <1>5. QED
    BY <1>1, <1>2, <1>3, <1>4 DEF State
-----------------------------------------------------------------------------
(* Every step keeps the types.                                             *)

Made(op, arg) == [Idle EXCEPT !.op = op, !.arg = arg]

LEMMA FreshCall ==
  /\ Idle \in Local /\ Idle.op = "none"
  /\ \A op \in Ops, arg \in Projects \cup Approvals \cup {None} :
       Made(op, arg) \in Local /\ Made(op, arg).op = op /\ Made(op, arg).arg = arg
  <1>1. 0 \in 0 .. Retries - 1
    BY StoresAssumption DEF StoresAssumption
  <1>2. Idle \in Local /\ Idle.op = "none"
    BY <1>1, NewStateType DEF Idle, Local, Ops
  <1>3. ASSUME NEW op \in Ops, NEW arg \in Projects \cup Approvals \cup {None}
        PROVE  Made(op, arg) \in Local /\ Made(op, arg).op = op /\ Made(op, arg).arg = arg
    <2> DEFINE made == [op |-> op, arg |-> arg, copy |-> {}, view |-> NewState, seen |-> {}, tries |-> 0]
    <2>a. [Idle EXCEPT !.op = op] = [op |-> op, arg |-> None, copy |-> {}, view |-> NewState, seen |-> {}, tries |-> 0]
      BY DEF Idle
    <2>b. ASSUME NEW h, h = [op |-> op, arg |-> None, copy |-> {}, view |-> NewState, seen |-> {}, tries |-> 0]
          PROVE  [h EXCEPT !.arg = arg] = made
      BY <2>b
    <2>1. Made(op, arg) = made
      BY <2>a, <2>b DEF Made
    <2>2. QED
      BY <1>1, <2>1, NewStateType DEF Local
  <1>4. QED
    BY <1>2, <1>3

Places == {"idle", "lock", "read", "write", "unlock", "import", "approvals", "push"}
CallsTyped == my \in [Procs -> Local] /\ at \in [Procs -> Places] /\ \A q \in Procs : Placed(q)

LEMMA EndsTypes ==
  ASSUME CallsTyped, NEW p \in Procs, Ends(p) PROVE CallsTyped'
  BY FreshCall DEF CallsTyped, Places, Placed, Ends, Goto

LEMMA ThenTypes ==
  ASSUME CallsTyped, NEW p \in Procs, NEW op \in {"clear", "import", "mark"}, NEW arg \in Projects \cup {None},
         op # "mark" => arg \in Projects, Then(p, op, arg)
  PROVE  CallsTyped'
  <1>1. op \in Ops /\ arg \in Projects \cup Approvals \cup {None}
    BY DEF Ops
  <1>2. my' = [my EXCEPT ![p] = Made(op, arg)]
    BY DEF Then, Made
  <1>3. QED
    BY <1>1, <1>2, FreshCall DEF CallsTyped, Places, Placed, Then, Goto

LEMMA InitTypes == Init => Types
  <1> SUFFICES ASSUME Init PROVE Types
    OBVIOUS
  <1>1. my \in [Procs -> Local] /\ used \in [Wallets -> Projects \cup {None}]
    BY FreshCall DEF Init
  <1>2. lock \in [Files -> BOOLEAN] /\ state \in State
    BY NewStateType DEF Init
  <1>3. QED
    <2>a. /\ at \in [Procs -> {"idle", "lock", "read", "write", "unlock", "import", "approvals", "push"}]
          /\ keys \in (SUBSET Projects) \cup {None} /\ approvals \subseteq Approvals
      BY DEF Init
    <2>b. calls \in 0 .. MaxCalls /\ crashes \in 0 .. MaxCrashes
      BY StoresAssumption DEF StoresAssumption, Init
    <2>c. saved \subseteq Projects /\ raced \in BOOLEAN /\ granted \subseteq Approvals /\ overlapped \in BOOLEAN
      BY DEF Init
    <2>1. TypeOK
      BY <1>1, <1>2, <2>a, <2>b, <2>c DEF TypeOK
    <2>2. \A p \in Procs : Placed(p)
      BY DEF Init, Placed
    <2>3. QED
      BY <2>1, <2>2 DEF Types

LEMMA TypesKept ==
  ASSUME Types, [Next]_vars PROVE Types'
  <1> USE StoresAssumption DEF StoresAssumption
  <1> USE DEF history
  <1>0. CallsTyped
    BY DEF CallsTyped, Places, Types, TypeOK
  <1>f. ASSUME CallsTyped', UNCHANGED <<keys, state, approvals, lock, calls, crashes, history>>
        PROVE  Types'
    BY <1>f DEF CallsTyped, Places, Types, TypeOK
  <1>1. CASE UNCHANGED vars
    BY <1>1 DEF vars, Types, TypeOK, Placed
  <1>2. ASSUME NEW p \in Procs, Begin(p) PROVE Types'
    <2>1. PICK c \in Calls :
            /\ my' = [my EXCEPT ![p] = Made(c.op, c.arg)]
            /\ at' = [at EXCEPT ![p] = CASE c.op = "load"    -> "import"
                                         [] c.op = "approve" -> "approvals"
                                         [] c.op = "logout"  -> "push"
                                         [] OTHER            -> "lock"]
      BY <1>2 DEF Begin, Goto, Made
    <2>2. /\ c.op \in {"save", "remove", "use", "approve", "load", "logout"}
          /\ c.op \in {"save", "remove", "use"} => c.arg \in Projects
          /\ c.op = "approve" => c.arg \in Approvals
          /\ c.op \in {"load", "logout"} => c.arg = None
      OBVIOUS
    <2>3. c.op \in Ops /\ c.arg \in Projects \cup Approvals \cup {None}
      BY <2>2 DEF Ops
    <2>4. Made(c.op, c.arg) \in Local /\ Made(c.op, c.arg).op = c.op /\ Made(c.op, c.arg).arg = c.arg
      BY <2>3, FreshCall
    <2>5. my' \in [Procs -> Local]
      BY <1>0, <2>1, <2>4 DEF CallsTyped
    <2>6. my'[p].op = c.op /\ my'[p].arg = c.arg
      BY <1>0, <2>1, <2>4 DEF CallsTyped
    <2>7. at' \in [Procs -> Places]
      BY <1>0, <2>1, <2>2 DEF CallsTyped, Places
    <2>8. \A q \in Procs : Placed(q)'
      BY <1>0, <2>1, <2>2, <2>6 DEF CallsTyped, Placed
    <2>9. calls' \in 0 .. MaxCalls
      BY <1>2 DEF Begin, Types, TypeOK
    <2>10. QED
      BY <1>2, <2>5, <2>7, <2>8, <2>9 DEF Begin, Types, TypeOK, Places
  <1>3. ASSUME NEW p \in Procs, Lock(p) PROVE Types'
    BY <1>3 DEF Lock, Goto, Files, FileOf, Types, TypeOK, Placed
  <1>4. ASSUME NEW p \in Procs, Wait(p) PROVE Types'
    <2>1. CASE my[p].tries + 1 < Retries
      <3>1. my' = [my EXCEPT ![p].tries = @ + 1] /\ UNCHANGED at
        BY <1>4, <2>1 DEF Wait
      <3>2. my[p].tries + 1 \in 0 .. Retries - 1
        BY <1>0, <2>1 DEF CallsTyped, Local
      <3>3. CallsTyped'
        BY <1>0, <3>1, <3>2 DEF CallsTyped, Local, Placed
      <3>4. QED
        BY <1>f, <1>4, <3>3 DEF Wait
    <2>2. CASE ~(my[p].tries + 1 < Retries)
      BY <1>0, <1>f, <1>4, <2>2, EndsTypes DEF Wait
    <2>3. QED
      BY <2>1, <2>2
  <1>5. ASSUME NEW p \in Procs, Read(p) PROVE Types'
    <2>1. my' = [my EXCEPT ![p].copy = IF keys = None THEN {} ELSE keys] \/ my' = [my EXCEPT ![p].view = state]
      BY <1>5 DEF Read
    <2>a. keys \in SUBSET Projects \/ keys = None
      BY DEF Types, TypeOK
    <2>b. state \in State
      BY DEF Types, TypeOK
    <2>2. (IF keys = None THEN {} ELSE keys) \in SUBSET Projects /\ state \in State
      BY <2>a, <2>b
    <2>3. my' \in [Procs -> Local] /\ \A q \in Procs : my'[q].op = my[q].op /\ my'[q].arg = my[q].arg
      BY <1>0, <2>1, <2>2 DEF CallsTyped, Local
    <2>4. at' = [at EXCEPT ![p] = "write"] /\ at[p] = "read"
      BY <1>5 DEF Read, Goto
    <2>5. CallsTyped'
      BY <1>0, <2>3, <2>4 DEF CallsTyped, Places, Placed
    <2>6. QED
      BY <1>f, <1>5, <2>5 DEF Read
  <1>6. ASSUME NEW p \in Procs, WriteKeys(p) PROVE Types'
    <2>1. my[p].copy \subseteq Projects /\ my[p].arg \in Projects
      BY <1>0, <1>6 DEF WriteKeys, CallsTyped, Local, Placed, FileOf
    <2>2. keys' \in (SUBSET Projects) \cup {None} /\ saved' \subseteq Projects
      BY <1>6, <2>1 DEF WriteKeys, Types, TypeOK
    <2>3. QED
      BY <1>6, <2>2 DEF WriteKeys, Goto, Types, TypeOK, Placed
  <1>7. ASSUME NEW p \in Procs, WriteState(p) PROVE Types'
    <2> DEFINE w == WalletOf[p]
    <2>1. w \in Wallets /\ my[p].view \in State
      BY <1>0 DEF Wallets, CallsTyped, Local
    <2>2. my[p].op \in {"clear", "use", "import"} => my[p].arg \in Projects
      BY <1>0, <1>7 DEF WriteState, CallsTyped, Placed
    <2>3. state' \in State
      BY <1>7, <2>1, <2>2, UsedType, ClearedType DEF WriteState
    <2>4. used' \in [Wallets -> Projects \cup {None}]
      BY <1>7, <2>1, <2>2 DEF WriteState, Types, TypeOK
    <2>5. QED
      BY <1>7, <2>3, <2>4 DEF WriteState, Goto, Types, TypeOK, Placed
  <1>8. ASSUME NEW p \in Procs, Unlock(p) PROVE Types'
    <2>1. lock' \in [Files -> BOOLEAN]
      BY <1>8 DEF Unlock, Types, TypeOK
    <2>2. CallsTyped'
      <3>1. CASE my[p].op = "remove"
        BY <1>0, <1>8, <3>1, ThenTypes DEF Unlock, CallsTyped, Placed
      <3>2. CASE my[p].op = "import"
        BY <1>0, <1>8, <3>2, ThenTypes DEF Unlock
      <3>3. CASE my[p].op \notin {"remove", "import"}
        BY <1>0, <1>8, <3>3, EndsTypes DEF Unlock
      <3>4. QED
        BY <3>1, <3>2, <3>3
    <2>3. QED
      BY <1>8, <2>1, <2>2 DEF Unlock, CallsTyped, Places, Types, TypeOK
  <1>9. ASSUME NEW p \in Procs, Import(p) PROVE Types'
    <2>1. CASE keys = None /\ Legacy # {}
      <3>1. my' = [my EXCEPT ![p].op = "import"] /\ UNCHANGED at /\ at[p] = "import"
        BY <1>9, <2>1 DEF Import
      <3>2. CallsTyped'
        BY <1>0, <3>1 DEF CallsTyped, Local, Ops, Placed
      <3>3. QED
        BY <1>f, <1>9, <3>2 DEF Import
    <2>2. CASE ~(keys = None /\ Legacy # {})
      BY <1>0, <1>f, <1>9, <2>2, EndsTypes DEF Import
    <2>3. QED
      BY <2>1, <2>2
  <1>10. ASSUME NEW p \in Procs, ImportWrite(p) PROVE Types'
    <2>1. PICK x \in Legacy : Then(p, "import", x)
      BY <1>10 DEF ImportWrite
    <2>2. CallsTyped'
      BY <1>0, <2>1, ThenTypes
    <2>3. keys' = Legacy /\ raced' \in BOOLEAN
      BY <1>10 DEF ImportWrite
    <2>4. QED
      BY <1>10, <2>2, <2>3 DEF ImportWrite, CallsTyped, Places, Types, TypeOK
  <1>11. ASSUME NEW p \in Procs, ReadApprovals(p) PROVE Types'
    <2>1. my' = [my EXCEPT ![p].seen = approvals] /\ at' = [at EXCEPT ![p] = "push"] /\ at[p] = "approvals"
      BY <1>11 DEF ReadApprovals, Goto
    <2>2. CallsTyped'
      BY <1>0, <2>1 DEF CallsTyped, Local, Places, Placed, Types, TypeOK
    <2>3. QED
      BY <1>11, <2>2 DEF ReadApprovals, CallsTyped, Places, Types, TypeOK
  <1>12. ASSUME NEW p \in Procs, PushApproval(p) PROVE Types'
    <2>1. CallsTyped'
      BY <1>0, <1>12, EndsTypes DEF PushApproval
    <2>2. my[p].arg \in Approvals /\ my[p].seen \subseteq Approvals
      BY <1>0, <1>12 DEF PushApproval, CallsTyped, Local, Placed
    <2>3. QED
      BY <1>12, <2>1, <2>2 DEF PushApproval, CallsTyped, Places, Types, TypeOK
  <1>13. ASSUME NEW p \in Procs, Logout(p) PROVE Types'
    <2>1. CallsTyped'
      BY <1>0, <1>13, EndsTypes DEF Logout
    <2>2. QED
      BY <1>13, <2>1 DEF Logout, CallsTyped, Places, Types, TypeOK
  <1>14. ASSUME NEW p \in Procs, Crash(p) PROVE Types'
    <2>1. CallsTyped'
      BY <1>0, <1>14, EndsTypes DEF Crash
    <2>2. QED
      BY <1>14, <2>1 DEF Crash, CallsTyped, Places, Types, TypeOK
  <1>15. QED
    BY <1>1, <1>2, <1>3, <1>4, <1>5, <1>6, <1>7, <1>8, <1>9, <1>10, <1>11, <1>12, <1>13, <1>14
    DEF Next, Step
-----------------------------------------------------------------------------
(* Which updates survive.                                                  *)

\* A step of a process leaves the others where they are.
LEMMA Elsewhere ==
  ASSUME CallsTyped, NEW p \in Procs, Begin(p) \/ Step(p) \/ Crash(p)
  PROVE  \A q \in Procs \ {p} : at'[q] = at[q] /\ my'[q] = my[q]
  <1>1. CASE Begin(p)
    BY <1>1 DEF Begin, Goto, CallsTyped
  <1>2. CASE Lock(p) \/ Wait(p) \/ Read(p) \/ WriteKeys(p) \/ WriteState(p)
    BY <1>2 DEF Lock, Wait, Read, WriteKeys, WriteState, Goto, Ends, CallsTyped
  <1>3. CASE Unlock(p)
    BY <1>3 DEF Unlock, Then, Ends, Goto, CallsTyped
  <1>4. CASE Import(p) \/ ImportWrite(p)
    BY <1>4 DEF Import, ImportWrite, Then, Ends, Goto, CallsTyped
  <1>5. CASE ReadApprovals(p) \/ PushApproval(p) \/ Logout(p) \/ Crash(p)
    BY <1>5 DEF ReadApprovals, PushApproval, Logout, Crash, Ends, Goto, CallsTyped
  <1>6. QED
    BY <1>1, <1>2, <1>3, <1>4, <1>5 DEF Step

\* Where a step takes its process: it holds a lock only if it held it or just took it.
LEMMA Moves ==
  ASSUME CallsTyped, NEW p \in Procs, Begin(p) \/ Step(p) \/ Crash(p)
  PROVE  /\ \A f \in Files : Holding(p, f)' =>
              (Holding(p, f) /\ lock' = lock) \/ (Lock(p) /\ f = FileOf(my[p].op))
         /\ at'[p] = "write" => (Read(p) /\ my'[p].op = my[p].op)
         /\ (at'[p] = "push" /\ my'[p].op = "approve") => ReadApprovals(p)
  <1>1. CASE Begin(p)
    <2>1. PICK c \in Calls :
            /\ my' = [my EXCEPT ![p] = Made(c.op, c.arg)]
            /\ at' = [at EXCEPT ![p] = CASE c.op = "load"    -> "import"
                                         [] c.op = "approve" -> "approvals"
                                         [] c.op = "logout"  -> "push"
                                         [] OTHER            -> "lock"]
      BY <1>1 DEF Begin, Goto, Made
    <2>2. c.op \in Ops /\ c.arg \in Projects \cup Approvals \cup {None}
      BY StoresAssumption DEF StoresAssumption, Ops
    <2>3. Made(c.op, c.arg).op = c.op
      BY <2>2, FreshCall
    <2>4. my'[p].op = c.op /\ at'[p] \in {"import", "approvals", "push", "lock"} /\ (at'[p] = "push" => c.op = "logout")
      BY <2>1, <2>3 DEF CallsTyped
    <2>5. QED
      BY <2>4 DEF Holding
  <1>2. CASE Lock(p) \/ Wait(p)
    BY <1>2 DEF Lock, Wait, Goto, Ends, CallsTyped, Holding
  <1>3. CASE Read(p)
    BY <1>3 DEF Read, Goto, CallsTyped, Local, Holding
  <1>4. CASE WriteKeys(p) \/ WriteState(p)
    BY <1>4 DEF WriteKeys, WriteState, Goto, CallsTyped, Holding
  <1>5. CASE Unlock(p)
    BY <1>5 DEF Unlock, Then, Ends, Goto, CallsTyped, Holding
  <1>6. CASE Import(p) \/ ImportWrite(p)
    BY <1>6 DEF Import, ImportWrite, Then, Ends, Goto, CallsTyped, Holding
  <1>7. CASE ReadApprovals(p)
    BY <1>7 DEF ReadApprovals, Goto, CallsTyped, Holding
  <1>8. CASE PushApproval(p) \/ Logout(p) \/ Crash(p)
    BY <1>8 DEF PushApproval, Logout, Crash, Ends, Goto, CallsTyped, Holding
  <1>9. QED
    BY <1>1, <1>2, <1>3, <1>4, <1>5, <1>6, <1>7, <1>8 DEF Step

LEMMA LockedKept ==
  ASSUME CallsTyped, lock \in [Files -> BOOLEAN], Locked, NEW p \in Procs, Begin(p) \/ Step(p) \/ Crash(p)
  PROVE  Locked'
  <1> SUFFICES ASSUME NEW f \in Files, NEW q \in Procs, Holding(q, f)'
               PROVE  lock'[f] /\ \A r \in Procs : Holding(r, f)' => q = r
    BY DEF Locked
  <1>0. \A r \in Procs \ {p} : Holding(r, f)' <=> Holding(r, f)
    BY Elsewhere DEF Holding
  <1>1. CASE Lock(p) /\ f = FileOf(my[p].op)
    <2>1. lock'[f]
      BY <1>1 DEF Lock
    <2>2. \A r \in Procs : ~Holding(r, f)
      BY <1>1 DEF Lock, Locked
    <2>3. QED
      BY <1>0, <2>1, <2>2
  <1>2. CASE ~(Lock(p) /\ f = FileOf(my[p].op))
    <2>1. \A r \in Procs : Holding(r, f)' => Holding(r, f)
      BY <1>0, <1>2, Moves
    <2>2. lock[f] /\ \A r \in Procs : Holding(r, f)' => q = r
      BY <2>1 DEF Locked
    <2>3. lock'[f]
      <3>1. CASE p = q
        BY <1>2, <2>2, <3>1, Moves
      <3>2. CASE p # q
        <4>1. CASE UNCHANGED lock
          BY <2>2, <4>1
        <4>2. CASE Lock(p)
          BY <2>2, <4>2, <1>2 DEF Lock
        <4>3. CASE Unlock(p)
          <5>1. Holding(p, FileOf(my[p].op)) /\ FileOf(my[p].op) \in Files
            BY <4>3 DEF Unlock, Holding, FileOf, Files
          <5>2. FileOf(my[p].op) # f
            BY <5>1, <3>2, <2>1 DEF Locked
          <5>3. QED
            BY <4>3, <5>2, <2>2 DEF Unlock
        <4>4. QED
          BY <4>1, <4>2, <4>3 DEF Step, Begin, Wait, Read, WriteKeys, WriteState, Import, ImportWrite,
             ReadApprovals, PushApproval, Logout, Crash
      <3>3. QED
        BY <3>1, <3>2
    <2>4. QED
      BY <2>2, <2>3
  <1>3. QED
    BY <1>1, <1>2

LEMMA KeysStayKept ==
  ASSUME Types, Locked, KeysKept, NEW p \in Procs, Begin(p) \/ Step(p) \/ Crash(p)
  PROVE  KeysKept'
  <1> DEFINE Writing(q) == at[q] = "write" /\ FileOf(my[q].op) = "keys"
  <1>0. CallsTyped
    BY DEF CallsTyped, Places, Types, TypeOK
  <1>a. \A q \in Procs \ {p} : at'[q] = at[q] /\ my'[q] = my[q]
    BY <1>0, Elsewhere
  <1>b. Writing(p)' => Read(p)
    BY <1>0, Moves
  <1>1. CASE WriteKeys(p)
    <2>1. my[p].copy \in SUBSET Projects /\ my[p].arg \in Projects
      BY <1>0, <1>1 DEF WriteKeys, CallsTyped, Local, Placed, FileOf
    <2>2. keys' \in SUBSET Projects
      BY <1>1, <2>1 DEF WriteKeys
    <2>3. keys' # None
      BY <2>2, StoresAssumption DEF StoresAssumption
    <2>4. ~raced => saved' \subseteq keys'
      BY <1>1 DEF WriteKeys, KeysKept
    <2>5. \A q \in Procs \ {p} : ~Writing(q)
      BY <1>1 DEF WriteKeys, Locked, Holding, FileOf, Files
    <2>6. at'[p] = "unlock"
      BY <1>0, <1>1 DEF WriteKeys, Goto, CallsTyped
    <2>7. QED
      BY <1>1, <1>a, <2>3, <2>4, <2>5, <2>6 DEF WriteKeys, KeysKept
  <1>2. CASE ImportWrite(p)
    <2>1. keys' \in SUBSET Projects
      BY <1>2, StoresAssumption DEF ImportWrite, StoresAssumption
    <2>2. keys' # None
      BY <2>1, StoresAssumption DEF StoresAssumption
    <2>3. ~raced' => saved' = {}
      BY <1>2 DEF ImportWrite, KeysKept
    <2>4. QED
      BY <1>2, <2>2, <2>3 DEF KeysKept
  <1>3. CASE Read(p)
    <2>1. UNCHANGED <<keys, saved, raced>> /\ my'[p].op = my[p].op
      BY <1>3, <1>0, Moves DEF Read, history, CallsTyped, Local
    <2>2. Writing(p)' /\ ~raced => saved \subseteq my'[p].copy
      <3>1. SUFFICES ASSUME FileOf(my[p].op) = "keys", ~raced PROVE saved \subseteq my'[p].copy
        BY <2>1
      <3>2. my'[p].copy = IF keys = None THEN {} ELSE keys
        BY <1>0, <1>3, <3>1 DEF Read, CallsTyped, Local
      <3>3. QED
        BY <3>1, <3>2 DEF KeysKept
    <2>3. QED
      BY <1>a, <2>1, <2>2 DEF KeysKept
  <1>4. CASE UNCHANGED <<keys, saved, raced>> /\ ~Read(p)
    BY <1>4, <1>a, <1>b DEF KeysKept
  <1>5. QED
    BY <1>1, <1>2, <1>3, <1>4 DEF Step, Begin, Lock, Wait, WriteState, Unlock, Import, ReadApprovals,
       PushApproval, Logout, Crash, history, vars

LEMMA ChoiceStaysKept ==
  ASSUME Types, Locked, ChoiceKept, NEW p \in Procs, Begin(p) \/ Step(p) \/ Crash(p)
  PROVE  ChoiceKept'
  <1> DEFINE Writing(q) == at[q] = "write" /\ FileOf(my[q].op) = "state"
  <1>0. CallsTyped
    BY DEF CallsTyped, Places, Types, TypeOK
  <1>a. \A q \in Procs \ {p} : at'[q] = at[q] /\ my'[q] = my[q]
    BY <1>0, Elsewhere
  <1>b. Writing(p)' => Read(p)
    BY <1>0, Moves
  <1>1. CASE WriteState(p)
    <2> DEFINE w == WalletOf[p]
               x == my[p].arg
    <2>1. w \in Wallets /\ my[p].view = state /\ state \in State
      BY <1>1 DEF Wallets, WriteState, ChoiceKept, Types, TypeOK
    <2>2. used \in [Wallets -> Projects \cup {None}]
      BY DEF Types, TypeOK
    <2>3. my[p].op \in {"clear", "use", "import"} => x \in Projects
      BY <1>0, <1>1 DEF WriteState, CallsTyped, Placed
    <2>4. ASSUME NEW u \in Wallets, used'[u] # None PROVE state'.scoped[u].cur = used'[u]
      <3>1. CASE my[p].op \in {"use", "import"}
        <4>1. state' = Used(state, w, x) /\ used' = [used EXCEPT ![w] = x] /\ x \in Projects
          BY <1>1, <2>1, <2>3, <3>1 DEF WriteState
        <4>2. CASE u = w
          BY <2>1, <2>2, <4>1, <4>2, UsedType
        <4>3. CASE u # w
          <5>1. used'[u] = used[u] /\ state'.scoped[u] = state.scoped[u]
            BY <2>1, <2>2, <4>1, <4>3, UsedType
          <5>2. QED
            BY <2>4, <5>1 DEF ChoiceKept
        <4>4. QED
          BY <4>2, <4>3
      <3>2. CASE my[p].op = "clear"
        <4>1. /\ state' = Cleared(state, w, x) /\ x \in Projects
              /\ used' = [used EXCEPT ![w] = IF @ = x THEN None ELSE @]
          BY <1>1, <2>1, <2>3, <3>2 DEF WriteState
        <4>2. used'[u] = used[u] /\ (u = w => used[u] # x)
          BY <2>2, <2>4, <4>1
        <4>3. state.scoped[u].cur = used[u]
          BY <2>4, <4>2 DEF ChoiceKept
        <4>4. state'.scoped[u] = state.scoped[u]
          <5>1. CASE u = w
            BY <2>1, <4>1, <4>2, <4>3, <5>1, ClearedType
          <5>2. CASE u # w
            BY <2>1, <4>1, <5>2, ClearedType
          <5>3. QED
            BY <5>1, <5>2
        <4>5. QED
          BY <4>2, <4>3, <4>4
      <3>3. CASE my[p].op \notin {"use", "import", "clear"}
        <4>1. state' = state /\ used' = used
          BY <1>1, <2>1, <3>3 DEF WriteState
        <4>2. QED
          BY <2>4, <4>1 DEF ChoiceKept
      <3>4. QED
        BY <3>1, <3>2, <3>3
    <2>5. \A q \in Procs \ {p} : ~Writing(q)
      BY <1>1 DEF WriteState, Locked, Holding, Files
    <2>6. at'[p] = "unlock"
      BY <1>0, <1>1 DEF WriteState, Goto, CallsTyped
    <2>7. QED
      BY <1>a, <2>4, <2>5, <2>6 DEF ChoiceKept
  <1>2. CASE Read(p)
    <2>1. UNCHANGED <<state, used>> /\ my'[p].op = my[p].op
      BY <1>2, <1>0 DEF Read, history, CallsTyped, Local
    <2>2. FileOf(my[p].op) = "state" => my'[p].view = state
      BY <1>0, <1>2 DEF Read, CallsTyped, Local
    <2>3. QED
      BY <1>a, <2>1, <2>2 DEF ChoiceKept
  <1>3. CASE UNCHANGED <<state, used>> /\ ~Read(p)
    BY <1>3, <1>a, <1>b DEF ChoiceKept
  <1>4. QED
    BY <1>1, <1>2, <1>3 DEF Step, Begin, Lock, Wait, WriteKeys, Unlock, Import, ImportWrite, ReadApprovals,
       PushApproval, Logout, Crash, history, vars

LEMMA ApprovalsStayKept ==
  ASSUME Types, ApprovalsKept, NEW p \in Procs, Begin(p) \/ Step(p) \/ Crash(p)
  PROVE  ApprovalsKept'
  <1> DEFINE Pushing(q) == at[q] = "push" /\ my[q].op = "approve"
  <1>0. CallsTyped
    BY DEF CallsTyped, Places, Types, TypeOK
  <1>a. \A q \in Procs \ {p} : at'[q] = at[q] /\ my'[q] = my[q]
    BY <1>0, Elsewhere
  <1>b. Pushing(p)' => ReadApprovals(p)
    BY <1>0, Moves
  <1>1. CASE ReadApprovals(p)
    <2>1. my'[p].seen = approvals
      BY <1>0, <1>1 DEF ReadApprovals, CallsTyped, Local
    <2>2. ~overlapped' => ~overlapped /\ \A q \in Procs \ {p} : ~Pushing(q)
      BY <1>1 DEF ReadApprovals
    <2>3. QED
      BY <1>1, <1>a, <2>1, <2>2 DEF ReadApprovals, ApprovalsKept
  <1>2. CASE PushApproval(p)
    <2>1. ~Pushing(p)'
      BY <1>b, <1>2 DEF PushApproval, ReadApprovals
    <2>2. ~overlapped => \A q \in Procs \ {p} : ~Pushing(q)
      BY <1>2 DEF PushApproval, ApprovalsKept
    <2>3. ~overlapped => granted' \subseteq approvals'
      BY <1>2 DEF PushApproval, ApprovalsKept
    <2>4. QED
      BY <1>2, <1>a, <2>1, <2>2, <2>3 DEF PushApproval, ApprovalsKept
  <1>3. CASE Logout(p)
    <2>1. ~Pushing(p)'
      BY <1>b, <1>3 DEF Logout, ReadApprovals
    <2>2. granted' = {} /\ UNCHANGED overlapped
      BY <1>3 DEF Logout
    <2>3. QED
      BY <1>a, <2>1, <2>2 DEF ApprovalsKept
  <1>4. CASE UNCHANGED <<approvals, granted, overlapped>> /\ ~ReadApprovals(p)
    BY <1>4, <1>a, <1>b DEF ApprovalsKept
  <1>5. QED
    BY <1>1, <1>2, <1>3, <1>4 DEF Step, Begin, Lock, Wait, Read, WriteKeys, WriteState, Unlock, Import,
       ImportWrite, Crash, history, vars
-----------------------------------------------------------------------------
(* The theorems.                                                           *)

LEMMA InitInv == Init => IInv
  <1> SUFFICES ASSUME Init PROVE IInv
    OBVIOUS
  <1>1. Types
    BY InitTypes
  <1>2. \A w \in Wallets : used[w] = None
    BY DEF Init
  <1>3. QED
    BY <1>1, <1>2 DEF Init, IInv, Locked, Holding, KeysKept, ChoiceKept, ApprovalsKept

LEMMA IInvKept == IInv /\ [Next]_vars => IInv'
  <1> SUFFICES ASSUME IInv, [Next]_vars PROVE IInv'
    OBVIOUS
  <1>1. Types'
    BY TypesKept DEF IInv
  <1>2. CASE UNCHANGED vars
    BY <1>1, <1>2 DEF vars, history, IInv, Locked, Holding, KeysKept, ChoiceKept, ApprovalsKept
  <1>3. ASSUME NEW p \in Procs, Begin(p) \/ Step(p) \/ Crash(p) PROVE IInv'
    <2>1. CallsTyped /\ lock \in [Files -> BOOLEAN]
      BY DEF IInv, CallsTyped, Places, Types, TypeOK
    <2>2. QED
      BY <1>1, <1>3, <2>1, LockedKept, KeysStayKept, ChoiceStaysKept, ApprovalsStayKept DEF IInv
  <1>4. QED
    BY <1>2, <1>3 DEF Next

\* Every variable stays in its type, and so does the call of each process.
THEOREM TypeCorrect == Spec => []TypeOK
  <1>1. IInv => TypeOK
    BY DEF IInv, Types
  <1>2. QED
    BY InitInv, IInvKept, <1>1, PTL DEF Spec

\* saveProject and removeProject keep every saved key, whoever else updates the file
\* or dies, as long as no import wrote over it.
THEOREM KeysSurvive == Spec => []OnlyImportLosesKeys
  <1>1. IInv => OnlyImportLosesKeys
    BY DEF IInv, KeysKept, OnlyImportLosesKeys
  <1>2. QED
    BY InitInv, IInvKept, <1>1, PTL DEF Spec

\* getActiveProjectId returns what the wallet chose last.
THEOREM ChoiceReadBack == Spec => []ReadsOwnChoice
  <1>1. IInv => ReadsOwnChoice
    BY DEF IInv, ChoiceKept, ReadsOwnChoice, ActiveProject
  <1>2. QED
    BY InitInv, IInvKept, <1>1, PTL DEF Spec

\* saveApproval keeps the other entries, unless two calls overlapped.
THEOREM ApprovalsSurvive == Spec => []OnlyOverlapLosesApprovals
  <1>1. IInv => OnlyOverlapLosesApprovals
    BY DEF IInv, ApprovalsKept, OnlyOverlapLosesApprovals
  <1>2. QED
    BY InitInv, IInvKept, <1>1, PTL DEF Spec
==============================================================================
