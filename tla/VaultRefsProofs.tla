--------------------------- MODULE VaultRefsProofs ---------------------------
(***************************************************************************)
(* Proofs about VaultRefs: every generation can be restored, dropped tips  *)
(* are retained as long as nothing is repaired or one principal does all   *)
(* the writing, and no push moves a ref its caller had not read.  IInv is  *)
(* inductive: Types, Days and Dated are the shape of the chain, Sound says *)
(* what a publication in progress knows of it, Packed and Kept are the two *)
(* promises, Kept in terms of roots; Covered is the one of a sole writer.  *)
(***************************************************************************)
EXTENDS VaultRefs, TLAPS

Heads ==
  [writer : Writers, refs : RefMaps, roots : SUBSET RootEntries, checkpoint : BOOLEAN,
   pack : SUBSET Commits, day : Nat]
Transactions == UNION {[R -> Updates] : R \in SUBSET Refs}
Publications ==
  [kind : {"none", "push", "checkpoint", "repair"}, base : Nat, tx : Transactions, target : Nat,
   cutoff : Nat \cup {None}, resolved : SUBSET Nat, conflicts : Nat]

Types ==
  /\ chain \in Seq(Heads)
  /\ have \in [Writers -> SUBSET Commits]
  /\ my \in [Writers -> Publications]
  /\ today \in Nat /\ repairs \in Nat

\* A publication packs what its store has, and its ticket is not from the future.
SoundIn(m, store) ==
  /\ m.base <= Newest
  /\ \A r \in DOMAIN m.tx : m.tx[r].new \in store \cup {None}
  /\ m.cutoff # None => m.cutoff <= today
  /\ m.kind = "repair" => repairs > 0 /\ m.target \in 1 .. m.base
Sound(p) == SoundIn(my[p], have[p])

\* Admission follows the days, and a root is dated by a drop that was admitted.
Days == \A g \in 1 .. Newest : chain[g].day <= today /\ \A k \in g .. Newest : chain[g].day <= chain[k].day
Dated == \A g \in 1 .. Newest : \A t \in chain[g].roots : t.dropped \in 1 .. g

Packed == \A g \in 0 .. Newest : Reach(CoverageTips(RefsAt(g), RootsAt(g))) \subseteq Stored(g)

\* A tip that is dropped after generation g gets a root that is renewed, never
\* backdated, and stays as long as it must.
Lost(g) == RefTips(RefsAt(g)) \ Reach(RefTips(RefsAt(g + 1)))
Rooted(t, g, k) == \E root \in RootsAt(k) : root.oid = t /\ root.dropped > g
Kept ==
  repairs = 0 =>
    \A g \in 0 .. Newest - 1 : \A t \in Lost(g) : \A k \in g + 1 .. Newest :
      chain[k].day <= chain[g + 1].day + Retention => Rooted(t, g, k)

Shape == Types /\ Days /\ Dated /\ \A p \in Writers : Sound(p)
IInv == Shape /\ Packed /\ Kept
-----------------------------------------------------------------------------
(* Packs.                                                                  *)

LEMMA ReachGrows ==
  ASSUME NEW S, NEW T, S \subseteq T PROVE Reach(S) \subseteq Reach(T)
  BY DEF Reach

LEMMA ReachJoins ==
  ASSUME NEW S, NEW T PROVE Reach(S \cup T) = Reach(S) \cup Reach(T)
  BY DEF Reach

LEMMA ReachHasTips ==
  ASSUME NEW S \in SUBSET Commits PROVE S \subseteq Reach(S)
  BY RefsAssumption DEF Reach

\* A pack over a covered base holds what the base lacks, if every tip that is
\* not in the store is covered by the base.
LEMMA PackSuffices ==
  ASSUME NEW p \in Writers, NEW tips, NEW base, tips \subseteq have[p] \cup base
  PROVE  Reach(tips) \subseteq WalPack(p, tips, base) \cup Reach(base)
  <1>1. Reach(tips) \subseteq Reach(tips \cap have[p]) \cup Reach(base)
    BY DEF Reach
  <1>2. Reach(base \cap have[p]) \subseteq Reach(base)
    BY DEF Reach
  <1> QED
    BY <1>1, <1>2 DEF WalPack

LEMMA PacksAreCommits ==
  ASSUME NEW p \in Writers, NEW tips \in SUBSET Commits, NEW base
  PROVE  WalPack(p, tips, base) \subseteq Commits /\ CheckpointPack(p, tips, base) \subseteq Commits
  BY RefsAssumption DEF WalPack, CheckpointPack, Reach

-----------------------------------------------------------------------------
(* The chain grows by a head.                                              *)

LEMMA Appended ==
  ASSUME chain \in Seq(Heads), NEW h \in Heads, chain' = Append(chain, h)
  PROVE  /\ chain' \in Seq(Heads) /\ Len(chain) \in Nat /\ Len(chain') = Len(chain) + 1
         /\ \A g \in 1 .. Len(chain) : chain'[g] = chain[g] /\ chain[g] \in Heads
         /\ chain'[Len(chain) + 1] = h
  OBVIOUS

LEMMA EarlierKept ==
  ASSUME chain \in Seq(Heads), NEW h \in Heads, chain' = Append(chain, h), NEW g \in 0 .. Newest
  PROVE  RefsAt(g)' = RefsAt(g) /\ RootsAt(g)' = RootsAt(g) /\ Stored(g)' = Stored(g)
  <1>1. g \in Nat /\ \A k \in 1 .. g : chain'[k] = chain[k]
    BY Appended DEF Newest
  <1>2. Stored(g)' = Stored(g)
    <2>1. ASSUME NEW k \in 1 .. g
          PROVE  (\A j \in k + 1 .. g : ~chain'[j].checkpoint) <=> (\A j \in k + 1 .. g : ~chain[j].checkpoint)
      <3>1. \A j \in k + 1 .. g : j \in 1 .. g
        BY <1>1
      <3> QED
        BY <1>1, <3>1
    <2> QED
      BY <1>1, <2>1 DEF Stored
  <1>3. RefsAt(g)' = RefsAt(g) /\ RootsAt(g)' = RootsAt(g)
    BY <1>1 DEF RefsAt, RootsAt, Newest
  <1> QED
    BY <1>2, <1>3

\* A checkpoint is restored alone, another head with what is below it.
LEMMA StoredGrows ==
  ASSUME chain \in Seq(Heads), NEW h \in Heads, chain' = Append(chain, h), NEW n, n = Newest
  PROVE  /\ h.pack \subseteq Stored(n + 1)'
         /\ ~h.checkpoint => Stored(n) \subseteq Stored(n + 1)'
  <1>1. /\ n \in Nat /\ chain'[n + 1] = h /\ \A g \in 1 .. n : chain'[g] = chain[g]
    BY Appended DEF Newest
  <1> DEFINE last(S, g) == {k \in 1 .. g : \A j \in k + 1 .. g : ~S[j].checkpoint}
  <1>2. h.pack \subseteq Stored(n + 1)'
    <2>1. n + 1 \in last(chain', n + 1)
      BY <1>1
    <2>2. Stored(n + 1)' = UNION {chain'[k].pack : k \in last(chain', n + 1)}
      BY DEF Stored
    <2> HIDE DEF last
    <2> QED
      BY <1>1, <2>1, <2>2
  <1>3. ASSUME ~h.checkpoint PROVE Stored(n) \subseteq Stored(n + 1)'
    <2>1. ASSUME NEW k \in 1 .. n, \A j \in k + 1 .. n : ~chain[j].checkpoint
          PROVE  k \in 1 .. n + 1 /\ \A j \in k + 1 .. n + 1 : ~chain'[j].checkpoint
      <3>1. k \in Nat /\ k \in 1 .. n + 1
        BY <1>1
      <3>2. ASSUME NEW j \in k + 1 .. n + 1 PROVE ~chain'[j].checkpoint
        <4>1. CASE j = n + 1
          BY <1>1, <1>3, <4>1
        <4>2. CASE j # n + 1
          <5>1. j \in 1 .. n /\ j \in k + 1 .. n
            BY <1>1, <3>1, <4>2
          <5> QED
            BY <1>1, <2>1, <5>1
        <4> QED
          BY <4>1, <4>2
      <3> QED
        BY <3>1, <3>2
    <2> QED
      BY <1>1, <2>1 DEF Stored
  <1> QED
    BY <1>2, <1>3

-----------------------------------------------------------------------------
(* Values keep their types.                                                *)

LEMMA IdleTyped == Idle \in Publications /\ ~\E r \in DOMAIN Idle.tx : TRUE
  <1>1. NoTx \in [{} -> Updates] /\ DOMAIN NoTx = {}
    BY DEF NoTx
  <1>2. NoTx \in Transactions
    BY <1>1 DEF Transactions
  <1> QED
    BY <1>1, <1>2 DEF Idle, Publications

LEMMA TipsAreCommits ==
  ASSUME NEW refs \in RefMaps, NEW roots \in SUBSET RootEntries
  PROVE  CoverageTips(refs, roots) \in SUBSET Commits /\ RefTips(refs) \subseteq CoverageTips(refs, roots)
  BY DEF CoverageTips, RefTips, RefMaps, RootEntries

LEMMA StoreTyped ==
  ASSUME Types, NEW g \in 0 .. Newest
  PROVE  /\ RefsAt(g) \in RefMaps /\ RootsAt(g) \in SUBSET RootEntries /\ Stored(g) \subseteq Commits
         /\ Newest \in Nat
  <1>1. Newest \in Nat /\ \A k \in 1 .. Newest : chain[k] \in Heads
    BY DEF Types, Newest
  <1>2. NoRefs \in RefMaps
    BY DEF NoRefs, RefMaps
  <1>3. RefsAt(g) \in RefMaps /\ RootsAt(g) \in SUBSET RootEntries
    BY <1>1, <1>2 DEF RefsAt, RootsAt, Heads
  <1>4. \A k \in 1 .. g : chain[k].pack \subseteq Commits
    BY <1>1 DEF Heads
  <1>5. Stored(g) \subseteq Commits
    BY <1>4 DEF Stored
  <1> QED
    BY <1>1, <1>3, <1>5

\* What one writer does to its own publication leaves the others sound.
LEMMA LocalSound ==
  ASSUME Types, \A q \in Writers : Sound(q), NEW p \in Writers, NEW m \in Publications, Local(p, m),
         Newest' \in Nat, Newest <= Newest', today' \in Nat, today <= today', repairs' \in Nat, repairs <= repairs',
         \A q \in Writers : have[q] \subseteq have'[q],
         SoundIn(m, have[p])'
  PROVE  my' \in [Writers -> Publications] /\ \A q \in Writers : Sound(q)'
  <1>1. my' \in [Writers -> Publications] /\ my'[p] = m /\ \A q \in Writers \ {p} : my'[q] = my[q]
    BY DEF Local, Types
  <1>2. ASSUME NEW q \in Writers \ {p} PROVE Sound(q)'
    <2>1. my[q] \in Publications /\ my'[q] = my[q] /\ have[q] \subseteq have'[q]
      BY <1>1 DEF Types
    <2>2. Newest \in Nat /\ today \in Nat /\ repairs \in Nat
      BY DEF Types, Newest
    <2>3. my[q].base \in Nat /\ my[q].cutoff \in Nat \cup {None}
      BY <2>1 DEF Publications
    <2>4. SoundIn(my[q], have[q])
      BY DEF Sound
    <2> QED
      BY <2>1, <2>2, <2>3, <2>4 DEF Sound, SoundIn
  <1>3. Sound(p)'
    BY <1>1 DEF Sound, SoundIn
  <1> QED
    BY <1>1, <1>2, <1>3

LEMMA IdleSound == ASSUME NEW p \in Writers, Newest' \in Nat PROVE SoundIn(Idle, have[p])'
  BY IdleTyped DEF SoundIn, Idle

\* A step that admits nothing.
LEMMA QuietStep ==
  ASSUME IInv, UNCHANGED chain, Types', \A q \in Writers : Sound(q)',
         today <= today', repairs <= repairs'
  PROVE  IInv'
  <1>0. Newest \in Nat /\ today \in Nat /\ today' \in Nat /\ repairs \in Nat /\ repairs' \in Nat
    BY DEF IInv, Shape, Types, Newest
  <1>1. Newest' = Newest /\ \A g \in 0 .. Newest : chain'[g] = chain[g] /\ RefsAt(g)' = RefsAt(g) /\ RootsAt(g)' = RootsAt(g) /\ Stored(g)' = Stored(g)
    BY DEF Newest, RefsAt, RootsAt, Stored
  <1>2. Days'
    <2>0. \A g \in 1 .. Newest : chain[g] \in Heads
      BY DEF IInv, Shape, Types, Newest
    <2>1. \A g \in 1 .. Newest : chain[g].day \in Nat
      BY <2>0 DEF Heads
    <2> QED
      BY <1>0, <1>1, <2>1 DEF IInv, Shape, Days
  <1>3. Dated'
    BY <1>1 DEF IInv, Shape, Dated
  <1>4. Packed'
    BY <1>1 DEF IInv, Packed
  <1>5. Kept'
    <2>1. repairs' = 0 => repairs = 0
      BY <1>0
    <2>2. SUFFICES ASSUME repairs' = 0, NEW g \in 0 .. Newest - 1, NEW t \in Lost(g)', NEW k \in g + 1 .. Newest,
                          chain[k].day <= chain[g + 1].day + Retention
                   PROVE  Rooted(t, g, k)
      BY <1>1 DEF Kept, Rooted
    <2>3. t \in Lost(g)
      BY <1>0, <1>1 DEF Lost
    <2> QED
      BY <2>1, <2>2, <2>3 DEF IInv, Kept
  <1> QED
    BY <1>2, <1>3, <1>4, <1>5 DEF IInv, Shape

-----------------------------------------------------------------------------
(* An admitted head.                                                       *)

\* What the new head keeps of the roots below it and of the tips it drops.
RootsCarry(refs, roots) ==
  /\ \A t \in RefTips(RefsAt(Newest)) \ Reach(RefTips(refs)) :
       \E root \in roots : root.oid = t /\ root.dropped > Newest
  /\ \A root \in RootsAt(Newest) :
       \/ \E renewed \in roots : renewed.oid = root.oid /\ renewed.dropped >= root.dropped
       \/ chain[root.dropped].day + Retention < today

LEMMA AdmitStep ==
  ASSUME IInv, NEW p \in Writers, NEW h \in Heads, chain' = Append(chain, h), UNCHANGED <<today, repairs>>,
         h.day = today,
         have' \in [Writers -> SUBSET Commits], \A q \in Writers : have[q] \subseteq have'[q], Local(p, Idle),
         Reach(CoverageTips(h.refs, h.roots)) \subseteq h.pack \cup (IF h.checkpoint THEN {} ELSE Stored(Newest)),
         \A t \in h.roots : t.dropped \in 1 .. Newest + 1,
         repairs = 0 => RootsCarry(h.refs, h.roots)
  PROVE  IInv'
  <1> PICK n : n = Newest
    OBVIOUS
  <1>1. /\ chain \in Seq(Heads) /\ chain' \in Seq(Heads) /\ n \in Nat /\ Newest' = n + 1
        /\ \A g \in 1 .. n : chain'[g] = chain[g] /\ chain[g] \in Heads
        /\ chain'[n + 1] = h
    BY Appended DEF IInv, Shape, Types, Newest
  <1>2. \A g \in 0 .. n : RefsAt(g)' = RefsAt(g) /\ RootsAt(g)' = RootsAt(g) /\ Stored(g)' = Stored(g)
    BY <1>1, EarlierKept
  <1>3. RefsAt(n + 1)' = h.refs /\ RootsAt(n + 1)' = h.roots
    BY <1>1 DEF RefsAt, RootsAt
  <1>4. today \in Nat /\ repairs \in Nat /\ Types /\ \A q \in Writers : Sound(q)
    BY DEF IInv, Shape, Types
  <1>d. /\ \A g \in 1 .. n + 1 : chain'[g].day \in Nat
        /\ \A g \in 1 .. n : chain'[g].day <= today /\ \A k \in g .. n : chain'[g].day <= chain'[k].day
    <2>0. \A g \in 1 .. n + 1 : g \in 1 .. n \/ g = n + 1
      BY <1>1
    <2>1. \A g \in 1 .. n + 1 : chain'[g] \in Heads
      BY <1>1, <2>0
    <2>2. \A g \in 1 .. n : chain[g].day <= today /\ \A k \in g .. n : chain[g].day <= chain[k].day
      BY DEF IInv, Shape, Days
    <2>3. \A g \in 1 .. n : \A k \in g .. n : k \in 1 .. n
      BY <1>1
    <2> QED
      BY <1>1, <2>1, <2>2, <2>3 DEF Heads
  <1>5. my' \in [Writers -> Publications] /\ \A q \in Writers : Sound(q)'
    <2>1. Newest' \in Nat /\ Newest <= Newest'
      BY <1>1
    <2> QED
      BY <1>4, <2>1, IdleTyped, IdleSound, LocalSound
  <1>6. Types'
    BY <1>1, <1>4, <1>5 DEF Types
  <1>7. Days'
    <2>1. ASSUME NEW g \in 1 .. n + 1 PROVE chain'[g].day <= today
      <3>1. g \in 1 .. n \/ g = n + 1
        BY <1>1
      <3>2. CASE g \in 1 .. n
        BY <1>d, <3>2
      <3>3. CASE g = n + 1
        <4>1. chain'[g].day = today
          BY <1>1, <3>3
        <4> DEFINE d == chain'[g].day
        <4>2. d = today /\ today \in Nat
          BY <1>4, <4>1
        <4> HIDE DEF d
        <4>3. d <= today
          BY <4>2
        <4> QED
          BY <4>3 DEF d
      <3> QED
        BY <3>1, <3>2, <3>3
    <2>2. ASSUME NEW g \in 1 .. n + 1, NEW k \in g .. n + 1 PROVE chain'[g].day <= chain'[k].day
      <3>1. (g \in 1 .. n /\ k \in g .. n) \/ k = n + 1
        BY <1>1
      <3>2. chain'[n + 1].day = today
        BY <1>1
      <3> QED
        BY <1>d, <2>1, <3>1, <3>2
    <2> QED
      BY <1>1, <2>1, <2>2 DEF Days
  <1>8. Dated'
    <2>1. ASSUME NEW g \in 1 .. n + 1 PROVE \A t \in chain'[g].roots : t.dropped \in 1 .. g
      <3>1. g \in 1 .. n \/ g = n + 1
        BY <1>1
      <3>2. \A f \in 1 .. n : \A t \in chain[f].roots : t.dropped \in 1 .. f
        BY DEF IInv, Shape, Dated
      <3> QED
        BY <1>1, <3>1, <3>2
    <2> QED
      BY <1>1, <2>1 DEF Dated
  <1>9. Packed'
    <2>1. Reach(CoverageTips(h.refs, h.roots)) \subseteq Stored(n + 1)'
      BY <1>1, StoredGrows
    <2>2. ASSUME NEW g \in 0 .. n + 1 PROVE (Reach(CoverageTips(RefsAt(g), RootsAt(g))) \subseteq Stored(g))'
      <3>1. CASE g = n + 1
        BY <1>3, <2>1, <3>1
      <3>2. CASE g \in 0 .. n
        BY <1>2, <3>2 DEF IInv, Packed
      <3> QED
        BY <1>1, <3>1, <3>2
    <2> QED
      BY <1>1, <2>2 DEF Packed
  <1>10. Kept'
    <2> SUFFICES ASSUME repairs = 0, NEW g \in 0 .. n, NEW t \in Lost(g)', NEW k \in g + 1 .. n + 1,
                        chain'[k].day <= chain'[g + 1].day + Retention
                 PROVE  Rooted(t, g, k)'
      <3>1. n + 1 - 1 = n /\ 0 .. Newest' - 1 = 0 .. n /\ repairs' = repairs
        BY <1>1
      <3> QED
        BY <1>1, <3>1 DEF Kept
    <2>0. g \in Nat /\ k \in Nat /\ Retention \in Nat /\ RootsCarry(h.refs, h.roots)
      BY <1>1, RefsAssumption
    <2>1. ASSUME g < n
          PROVE  /\ t \in Lost(g) /\ chain'[g + 1] = chain[g + 1]
                 /\ \A f \in g + 1 .. n : chain'[f].day <= chain'[g + 1].day + Retention => Rooted(t, g, f)
      <3>1. g \in 0 .. n /\ g + 1 \in 0 .. n /\ g \in 0 .. n - 1 /\ g + 1 \in 1 .. n
        BY <1>1, <2>0, <2>1
      <3>2. t \in Lost(g) /\ chain'[g + 1] = chain[g + 1]
        BY <1>1, <1>2, <3>1 DEF Lost
      <3>3. \A f \in g + 1 .. n : f \in 1 .. n
        BY <1>1, <2>0
      <3>4. \A f \in g + 1 .. n : chain[f].day <= chain[g + 1].day + Retention => Rooted(t, g, f)
        BY <3>1, <3>2 DEF IInv, Kept
      <3> QED
        BY <1>1, <3>2, <3>3, <3>4
    <2>2. CASE k <= n
      <3>1. g < n /\ k \in 0 .. n /\ k \in g + 1 .. n
        BY <1>1, <2>0, <2>2
      <3>2. Rooted(t, g, k)
        BY <2>1, <3>1
      <3> QED
        BY <1>2, <3>1, <3>2 DEF Rooted
    <2>3. CASE k = n + 1 /\ g = n
      <3>1. t \in RefTips(RefsAt(n)) \ Reach(RefTips(h.refs))
        BY <1>1, <1>2, <1>3, <2>3 DEF Lost
      <3> QED
        BY <1>3, <2>0, <2>3, <3>1 DEF Rooted, RootsCarry
    <2>4. CASE k = n + 1 /\ g < n
      <3>1. n \in g + 1 .. n /\ n \in 1 .. n /\ n \in 1 .. n + 1 /\ g + 1 \in 1 .. n /\ g + 1 \in 1 .. n + 1
        BY <1>1, <2>0, <2>4
      <3>a. chain'[k].day = today
        BY <1>1, <2>4
      <3>2. chain'[n].day <= chain'[g + 1].day + Retention
        <4>1. chain'[n].day <= today /\ chain'[n].day \in Nat /\ chain'[g + 1].day \in Nat
          BY <1>d, <3>1
        <4>2. today <= chain'[g + 1].day + Retention
          BY <3>a
        <4> DEFINE d1 == chain'[n].day  d2 == chain'[g + 1].day
        <4>3. d1 \in Nat /\ d2 \in Nat /\ d1 <= today /\ today <= d2 + Retention /\ today \in Nat /\ Retention \in Nat
          BY <1>4, <2>0, <4>1, <4>2
        <4> HIDE DEF d1, d2
        <4>4. d1 <= d2 + Retention
          BY <4>3
        <4> QED
          BY <4>4 DEF d1, d2
      <3>3. Rooted(t, g, n)
        BY <2>1, <2>4, <3>1, <3>2
      <3>4. PICK root \in RootsAt(n) : root.oid = t /\ root.dropped > g
        BY <3>3 DEF Rooted
      <3>5. root.dropped \in g + 1 .. n /\ root.dropped \in 1 .. n
        <4>1. root \in chain[n].roots
          BY <2>0, <2>4, <3>4 DEF RootsAt
        <4>2. root.dropped \in 1 .. n
          BY <3>1, <4>1 DEF IInv, Shape, Dated
        <4> QED
          BY <1>1, <2>0, <3>4, <4>2
      <3>6. chain'[g + 1].day <= chain'[root.dropped].day /\ chain'[root.dropped].day \in Nat /\ chain'[g + 1].day \in Nat
        <4>1. root.dropped \in 1 .. n + 1
          BY <1>1, <3>5
        <4> QED
          BY <1>d, <3>1, <3>5, <4>1
      <3>7. ~(chain[root.dropped].day + Retention < today)
        <4>1. today <= chain'[g + 1].day + Retention
          BY <3>a
        <4> DEFINE d1 == chain'[g + 1].day  d2 == chain'[root.dropped].day
        <4>2. ~(d2 + Retention < today)
          <5>1. d1 \in Nat /\ d2 \in Nat /\ d1 <= d2 /\ today <= d1 + Retention /\ today \in Nat /\ Retention \in Nat
            BY <1>4, <2>0, <3>6, <4>1
          <5> HIDE DEF d1, d2
          <5> QED
            BY <5>1
        <4> QED
          BY <1>1, <3>5, <4>2
      <3>8. PICK renewed \in h.roots : renewed.oid = root.oid /\ renewed.dropped >= root.dropped
        BY <2>0, <3>4, <3>7 DEF RootsCarry
      <3>9. renewed.dropped > g
        BY <1>1, <2>0, <3>5, <3>8
      <3> QED
        BY <1>3, <2>4, <3>4, <3>8, <3>9 DEF Rooted
    <2> QED
      BY <1>1, <2>0, <2>2, <2>3, <2>4
  <1> QED
    BY <1>5, <1>6, <1>7, <1>8, <1>9, <1>10 DEF IInv, Shape

\* evolveRetentionRoots renews or keeps every root that has not expired.
LEMMA Evolved ==
  ASSUME NEW roots \in SUBSET RootEntries, NEW gen \in Nat, NEW dropped \in SUBSET [ref : Refs, oid : Commits],
         NEW cutoff, NEW resolved, NEW new, new = Evolve(roots, gen, dropped, cutoff, resolved)
  PROVE  /\ new \in SUBSET RootEntries
         /\ \A t \in new : t \in roots \/ (t.dropped = gen /\ \E d \in dropped : t.oid = d.oid)
         /\ \A d \in dropped : \E t \in new : t.oid = d.oid /\ t.dropped = gen
         /\ \A t \in roots : \/ t \in new \/ Expired(t, cutoff, resolved)
                             \/ \E u \in new : u.oid = t.oid /\ u.dropped = gen
  <1> DEFINE root(d) == [ref |-> d.ref, oid |-> d.oid, dropped |-> gen]
  <1>1. \A d \in dropped : d.ref \in Refs /\ d.oid \in Commits
    OBVIOUS
  <1>2. \A d \in dropped : root(d) \in RootEntries /\ root(d).oid = d.oid /\ root(d).dropped = gen
    BY <1>1 DEF RootEntries
  <1>3. \A t \in new : t \in roots \/ \E d \in dropped : t = root(d)
    BY DEF Evolve
  <1>4. \A d \in dropped : root(d) \in new
    BY DEF Evolve
  <1>5. \A t \in roots : t \in new \/ Expired(t, cutoff, resolved) \/ \E d \in dropped : t.oid = d.oid
    BY DEF Evolve
  <1> HIDE DEF root
  <1> QED
    BY <1>2, <1>3, <1>4, <1>5

\* Nothing is changed by a publication that is refused or has lost too often.
LEMMA ToIdle ==
  ASSUME IInv, NEW p \in Writers, Local(p, Idle), UNCHANGED <<chain, today, repairs>>,
         have' \in [Writers -> SUBSET Commits], \A q \in Writers : have[q] \subseteq have'[q]
  PROVE  IInv'
  <1>1. /\ Newest' = Newest /\ Newest \in Nat /\ today \in Nat /\ repairs \in Nat /\ Types
        /\ \A q \in Writers : Sound(q)
    BY DEF IInv, Shape, Types, Newest
  <1>2. my' \in [Writers -> Publications] /\ \A q \in Writers : Sound(q)'
    BY <1>1, IdleTyped, IdleSound, LocalSound
  <1>3. Types'
    BY <1>1, <1>2 DEF Types
  <1> QED
    BY <1>1, <1>2, <1>3, QuietStep

\* A publication in progress that reads the chain anew.
LEMMA ToPublication ==
  ASSUME IInv, NEW p \in Writers, NEW m \in Publications, Local(p, m), UNCHANGED <<chain, have, today>>,
         repairs' \in Nat, repairs <= repairs', SoundIn(m, have[p])'
  PROVE  IInv'
  <1>1. /\ Newest' = Newest /\ Newest \in Nat /\ today \in Nat /\ repairs \in Nat /\ Types
        /\ \A q \in Writers : Sound(q)
    BY DEF IInv, Shape, Types, Newest
  <1>2. my' \in [Writers -> Publications] /\ \A q \in Writers : Sound(q)'
    BY <1>1, LocalSound
  <1>3. Types'
    BY <1>1, <1>2 DEF Types
  <1> QED
    BY <1>1, <1>2, <1>3, QuietStep

LEMMA ConflictStep ==
  ASSUME IInv, NEW p \in Writers, my[p].kind \in {"push", "checkpoint"}, Conflict(p), UNCHANGED <<chain, today, repairs>>,
         have' \in [Writers -> SUBSET Commits], \A q \in Writers : have[q] \subseteq have'[q]
  PROVE  IInv'
  <1>1. CASE Local(p, Idle)
    BY <1>1, ToIdle
  <1>2. CASE ~Local(p, Idle)
    <2> PICK m : m = my[p]
      OBVIOUS
    <2> PICK c : c = IF m.cutoff = None THEN None ELSE today
      OBVIOUS
    <2> PICK n : n = [m EXCEPT !.base = Newest, !.conflicts = @ + 1, !.cutoff = c]
      OBVIOUS
    <2>1. /\ Newest' = Newest /\ Newest \in Nat /\ today \in Nat /\ repairs \in Nat /\ Types
          /\ \A q \in Writers : Sound(q)
      BY DEF IInv, Shape, Types, Newest
    <2>2. m \in Publications
      BY <2>1 DEF Types
    <2>3. n \in Publications /\ n.base = Newest /\ n.tx = m.tx /\ n.kind = m.kind /\ n.cutoff = c
      <3>1. /\ m.kind \in {"none", "push", "checkpoint", "repair"} /\ m.tx \in Transactions /\ m.target \in Nat
            /\ m.resolved \in SUBSET Nat /\ m.conflicts + 1 \in Nat /\ c \in Nat \cup {None}
        BY <2>1, <2>2 DEF Publications
      <3>2. n = [kind |-> m.kind, base |-> Newest, tx |-> m.tx, target |-> m.target, cutoff |-> c,
                 resolved |-> m.resolved, conflicts |-> m.conflicts + 1]
        BY <2>2 DEF Publications
      <3> QED
        BY <2>1, <3>1, <3>2 DEF Publications
    <2>4. Local(p, n)
      BY <1>2, <2>2 DEF Conflict, Local, Publications
    <2>5. SoundIn(n, have[p])'
      <3>1. \A r \in DOMAIN m.tx : m.tx[r].new \in have[p] \cup {None}
        BY <2>1 DEF Sound, SoundIn
      <3>2. have[p] \subseteq have'[p] /\ today' = today /\ c \in {None, today} /\ today <= today
        BY <2>1
      <3>3. n.kind # "repair" /\ Newest <= Newest
        BY <2>1, <2>3
      <3> QED
        BY <2>1, <2>3, <3>1, <3>2, <3>3 DEF SoundIn
    <2>6. my' \in [Writers -> Publications] /\ \A q \in Writers : Sound(q)'
      BY <2>1, <2>3, <2>4, <2>5, LocalSound
    <2>7. Types'
      BY <2>1, <2>6 DEF Types
    <2> QED
      BY <2>1, <2>6, <2>7, QuietStep
  <1> QED
    BY <1>1, <1>2

LEMMA PublishStep ==
  ASSUME IInv, NEW p \in Writers, my[p].kind # "none",
         NEW refs \in RefMaps, NEW roots \in SUBSET RootEntries, NEW checkpoint \in BOOLEAN,
         Publish(p, refs, roots, checkpoint), UNCHANGED <<today, repairs>>,
         ~checkpoint => CoverageTips(refs, roots) \subseteq have[p] \cup CoverageTips(RefsAt(my[p].base), RootsAt(my[p].base)),
         my[p].base = Newest => \A t \in roots : t.dropped \in 1 .. Newest + 1,
         my[p].base = Newest /\ repairs = 0 => RootsCarry(refs, roots)
  PROVE  IInv'
  <1> PICK n : n = Newest
    OBVIOUS
  <1> PICK b : b = my[p].base
    OBVIOUS
  <1> PICK tips : tips = CoverageTips(refs, roots)
    OBVIOUS
  <1> PICK covered : covered = CoverageTips(RefsAt(b), RootsAt(b))
    OBVIOUS
  <1> PICK store : store = IF checkpoint THEN AfterRestore(p, tips) ELSE have[p]
    OBVIOUS
  <1> PICK pack : pack = IF checkpoint THEN CheckpointPack(p, tips, covered) ELSE WalPack(p, tips, covered)
    OBVIOUS
  <1> PICK h : h = [writer |-> p, refs |-> refs, roots |-> roots, checkpoint |-> checkpoint, pack |-> pack, day |-> today]
    OBVIOUS
  <1>1. Types /\ n \in Nat /\ today \in Nat /\ have \in [Writers -> SUBSET Commits] /\ my[p] \in Publications
    BY DEF IInv, Shape, Types, Newest
  <1>2. tips \in SUBSET Commits
    BY TipsAreCommits
  <1>3. have[p] \subseteq store /\ store \subseteq Commits
    BY <1>1, StoreTyped DEF AfterRestore
  <1>4. /\ have' = [have EXCEPT ![p] = store]
        /\ \/ Local(p, Idle) /\ UNCHANGED chain
           \/ b = n /\ chain' = Append(chain, h) /\ Local(p, Idle)
           \/ my[p].kind # "repair" /\ Conflict(p) /\ UNCHANGED chain
    BY DEF Publish
  <1>5. have' \in [Writers -> SUBSET Commits] /\ \A q \in Writers : have[q] \subseteq have'[q]
    BY <1>1, <1>3, <1>4
  <1>6. CASE Local(p, Idle) /\ UNCHANGED chain
    BY <1>5, <1>6, ToIdle
  <1>7. CASE my[p].kind # "repair" /\ Conflict(p) /\ UNCHANGED chain
    <2>1. my[p].kind \in {"push", "checkpoint"}
      BY <1>1, <1>7 DEF Publications
    <2> QED
      BY <1>5, <1>7, <2>1, ConflictStep
  <1>8. CASE b = n /\ chain' = Append(chain, h) /\ Local(p, Idle)
    <2>1. pack \subseteq Commits
      BY <1>2, PacksAreCommits
    <2>2. h \in Heads /\ h.day = today /\ h.refs = refs /\ h.roots = roots /\ h.pack = pack /\ h.checkpoint = checkpoint
      BY <1>1, <2>1 DEF Heads
    <2>3. Reach(tips) \subseteq pack \cup (IF checkpoint THEN {} ELSE Stored(n))
      <3>1. CASE checkpoint
        BY <3>1 DEF CheckpointPack
      <3>2. CASE ~checkpoint
        <4>1. Reach(tips) \subseteq WalPack(p, tips, covered) \cup Reach(covered)
          BY <3>2, PackSuffices
        <4>2. Reach(covered) \subseteq Stored(n)
          BY <1>1, <1>8 DEF IInv, Packed
        <4> QED
          BY <3>2, <4>1, <4>2
      <3> QED
        BY <3>1, <3>2
    <2>4. (\A t \in h.roots : t.dropped \in 1 .. Newest + 1) /\ (repairs = 0 => RootsCarry(h.refs, h.roots))
      BY <1>8, <2>2
    <2> QED
      BY <1>5, <1>8, <2>2, <2>3, <2>4, AdmitStep
  <1> QED
    BY <1>4, <1>6, <1>7, <1>8

-----------------------------------------------------------------------------
(* The actions.                                                            *)

\* A store that grows, and time that passes.
LEMMA GrowStep ==
  ASSUME IInv, UNCHANGED <<chain, my, repairs>>, have' \in [Writers -> SUBSET Commits],
         \A q \in Writers : have[q] \subseteq have'[q], today' \in Nat, today <= today'
  PROVE  IInv'
  <1>1. Newest' = Newest /\ repairs \in Nat /\ today \in Nat /\ Types /\ \A q \in Writers : Sound(q)
    BY DEF IInv, Shape, Types, Newest
  <1>2. ASSUME NEW q \in Writers PROVE Sound(q)'
    <2>1. my[q] \in Publications /\ my'[q] = my[q] /\ Sound(q) /\ have[q] \subseteq have'[q]
      BY <1>1 DEF Types
    <2>2. my[q].cutoff \in Nat \cup {None}
      BY <2>1 DEF Publications
    <2>3. my[q].cutoff # None => my[q].cutoff <= today'
      BY <1>1, <2>1, <2>2 DEF Sound, SoundIn
    <2> QED
      BY <1>1, <2>1, <2>3 DEF Sound, SoundIn
  <1>3. Types'
    BY <1>1 DEF Types
  <1> QED
    BY <1>1, <1>2, <1>3, QuietStep

LEMMA CommitStep == ASSUME IInv, NEW p \in Writers, plan.commits \subseteq Commits, Commit(p) PROVE IInv'
  <1>1. have \in [Writers -> SUBSET Commits] /\ today \in Nat /\ today <= today
    BY DEF IInv, Shape, Types
  <1>2. have' \in [Writers -> SUBSET Commits] /\ \A q \in Writers : have[q] \subseteq have'[q]
    BY <1>1 DEF Commit
  <1> QED
    BY <1>1, <1>2, GrowStep DEF Commit

LEMMA FetchStep == ASSUME IInv, NEW p \in Writers, Fetch(p) PROVE IInv'
  <1>1. Types /\ have \in [Writers -> SUBSET Commits] /\ today \in Nat /\ today <= today
    BY DEF IInv, Shape, Types
  <1>2. Stored(Newest) \subseteq Commits
    BY <1>1, StoreTyped DEF Types, Newest
  <1>3. have' \in [Writers -> SUBSET Commits] /\ \A q \in Writers : have[q] \subseteq have'[q]
    BY <1>1, <1>2 DEF Fetch
  <1> QED
    BY <1>1, <1>3, GrowStep DEF Fetch

LEMMA TomorrowStep == ASSUME IInv, Tomorrow PROVE IInv'
  <1>1. have \in [Writers -> SUBSET Commits] /\ today \in Nat
    BY DEF IInv, Shape, Types
  <1> QED
    BY <1>1, GrowStep DEF Tomorrow

LEMMA BeginPushStep == ASSUME IInv, NEW p \in Writers, plan.refs \subseteq Refs, BeginPush(p) PROVE IInv'
  <1> PICK n : n = Newest
    OBVIOUS
  <1>1. /\ Types /\ n \in Nat /\ n <= n /\ repairs \in Nat /\ repairs <= repairs
        /\ have[p] \subseteq Commits
    BY DEF IInv, Shape, Types, Newest
  <1>2. PICK R \in {R \in SUBSET plan.refs \ {{}} : Cardinality(R) <= plan.updates} :
          \E new \in [R -> have[p] \cup {None}], force \in [R -> BOOLEAN] :
            LET cur == RefsAt(Newest) IN
            /\ \A r \in R : new[r] # cur[r]
            /\ Local(p, [Idle EXCEPT !.kind = "push", !.base = Newest,
                                     !.tx = [r \in R |-> [old |-> cur[r], new |-> new[r], force |-> force[r]]]])
    BY Zenon DEF BeginPush
  <1>3. PICK new \in [R -> have[p] \cup {None}], force \in [R -> BOOLEAN] :
          Local(p, [Idle EXCEPT !.kind = "push", !.base = n,
                                !.tx = [r \in R |-> [old |-> RefsAt(n)[r], new |-> new[r], force |-> force[r]]]])
    BY <1>2
  <1> PICK tx : tx = [r \in R |-> [old |-> RefsAt(n)[r], new |-> new[r], force |-> force[r]]]
    OBVIOUS
  <1> PICK m : m = [kind |-> "push", base |-> n, tx |-> tx, target |-> 0, cutoff |-> None, resolved |-> {}, conflicts |-> 0]
    OBVIOUS
  <1>4. RefsAt(n) \in RefMaps /\ R \subseteq Refs
    BY <1>1, StoreTyped
  <1>5. tx \in [R -> Updates]
    BY <1>1, <1>4 DEF Updates, RefMaps
  <1>6. tx \in Transactions
    BY <1>4, <1>5 DEF Transactions
  <1>7. Local(p, m)
    <2> PICK e : e = [Idle EXCEPT !.kind = "push", !.base = n, !.tx = tx]
      OBVIOUS
    <2>1. e = [kind |-> "push", base |-> n, tx |-> tx, target |-> 0, cutoff |-> None, resolved |-> {}, conflicts |-> 0]
      BY DEF Idle
    <2> QED
      BY <1>3, <2>1
  <1>8. m \in Publications
    <2>1. /\ n \in Nat /\ None \in Nat \cup {None} /\ {} \in SUBSET Nat /\ 0 \in Nat
          /\ "push" \in {"none", "push", "checkpoint", "repair"}
      BY <1>1
    <2> QED
      BY <1>6, <2>1 DEF Publications
  <1>f. m.kind = "push" /\ m.base = n /\ m.tx = tx /\ m.cutoff = None
    OBVIOUS
  <1>9. SoundIn(m, have[p])'
    <2>1. \A r \in DOMAIN tx : tx[r].new \in have[p] \cup {None}
      OBVIOUS
    <2>2. Newest' = n /\ have'[p] = have[p]
      BY DEF BeginPush, Newest
    <2> QED
      BY <1>1, <1>f, <2>1, <2>2 DEF SoundIn
  <1> QED
    BY <1>1, <1>7, <1>8, <1>9, ToPublication DEF BeginPush

LEMMA BeginCheckpointStep == ASSUME IInv, NEW p \in Writers, BeginCheckpoint(p) PROVE IInv'
  <1> PICK n : n = Newest
    OBVIOUS
  <1>1. Types /\ n \in Nat /\ n <= n /\ repairs \in Nat /\ repairs <= repairs /\ today \in Nat /\ today <= today
    BY DEF IInv, Shape, Types, Newest
  <1>2. PICK c \in {None, today}, known \in SUBSET (1 .. n) :
          Local(p, [Idle EXCEPT !.kind = "checkpoint", !.base = n, !.cutoff = c, !.resolved = known])
    BY DEF BeginCheckpoint
  <1> PICK m : m = [kind |-> "checkpoint", base |-> n, tx |-> NoTx, target |-> 0, cutoff |-> c, resolved |-> known, conflicts |-> 0]
    OBVIOUS
  <1>3. Local(p, m)
    <2> PICK e : e = [Idle EXCEPT !.kind = "checkpoint", !.base = n, !.cutoff = c, !.resolved = known]
      OBVIOUS
    <2>1. e = [kind |-> "checkpoint", base |-> n, tx |-> NoTx, target |-> 0, cutoff |-> c, resolved |-> known, conflicts |-> 0]
      BY DEF Idle
    <2> QED
      BY <1>2, <2>1
  <1>4. NoTx \in Transactions /\ ~\E r \in DOMAIN NoTx : TRUE
    BY IdleTyped DEF Idle, Publications
  <1>5. known \in SUBSET Nat
    BY <1>1
  <1>6. m \in Publications
    BY <1>1, <1>2, <1>4, <1>5 DEF Publications
  <1>f. m.kind = "checkpoint" /\ m.base = n /\ m.tx = NoTx /\ m.cutoff = c
    OBVIOUS
  <1>7. SoundIn(m, have[p])'
    <2>1. Newest' = n /\ today' = today
      BY DEF BeginCheckpoint, Newest
    <2>2. \A r \in DOMAIN m.tx : m.tx[r].new \in have'[p] \cup {None}
      BY <1>4, <1>f
    <2>3. m.kind # "repair" /\ (m.cutoff # None => m.cutoff <= today)
      BY <1>1, <1>2, <1>f
    <2> QED
      BY <1>1, <1>f, <2>1, <2>2, <2>3 DEF SoundIn
  <1> QED
    BY <1>1, <1>3, <1>6, <1>7, ToPublication DEF BeginCheckpoint

LEMMA BeginRepairStep == ASSUME IInv, NEW p \in Writers, BeginRepair(p) PROVE IInv'
  <1> PICK n : n = Newest
    OBVIOUS
  <1>1. Types /\ n \in Nat /\ n <= n /\ repairs \in Nat
    BY DEF IInv, Shape, Types, Newest
  <1>2. PICK b \in 1 .. n - 1 : Local(p, [Idle EXCEPT !.kind = "repair", !.base = n, !.target = b])
    BY DEF BeginRepair
  <1> PICK m : m = [kind |-> "repair", base |-> n, tx |-> NoTx, target |-> b, cutoff |-> None, resolved |-> {}, conflicts |-> 0]
    OBVIOUS
  <1>3. Local(p, m)
    <2> PICK e : e = [Idle EXCEPT !.kind = "repair", !.base = n, !.target = b]
      OBVIOUS
    <2>1. e = [kind |-> "repair", base |-> n, tx |-> NoTx, target |-> b, cutoff |-> None, resolved |-> {}, conflicts |-> 0]
      BY DEF Idle
    <2> QED
      BY <1>2, <2>1
  <1>4. NoTx \in Transactions /\ ~\E r \in DOMAIN NoTx : TRUE
    BY IdleTyped DEF Idle, Publications
  <1>5. m \in Publications /\ b \in 1 .. n
    BY <1>1, <1>4 DEF Publications
  <1>6. repairs' = repairs + 1 /\ repairs' \in Nat /\ repairs <= repairs' /\ repairs' > 0
    BY <1>1 DEF BeginRepair
  <1>f. m.kind = "repair" /\ m.base = n /\ m.tx = NoTx /\ m.cutoff = None /\ m.target = b
    OBVIOUS
  <1>7. SoundIn(m, have[p])'
    <2>1. Newest' = n
      BY DEF BeginRepair, Newest
    <2>2. \A r \in DOMAIN m.tx : m.tx[r].new \in have'[p] \cup {None}
      BY <1>4, <1>f
    <2> QED
      BY <1>1, <1>5, <1>6, <1>f, <2>1, <2>2 DEF SoundIn
  <1> QED
    BY <1>1, <1>3, <1>5, <1>6, <1>7, ToPublication DEF BeginRepair

\* The updates a push asks for.
LEMMA TxTyped ==
  ASSUME Types, NEW p \in Writers
  PROVE  DOMAIN my[p].tx \subseteq Refs /\ \A r \in DOMAIN my[p].tx : my[p].tx[r] \in Updates
  <1>1. my[p].tx \in Transactions
    BY DEF Types, Publications
  <1> QED
    BY <1>1 DEF Transactions

\* The refs and the roots a push publishes.
LEMMA Pushed ==
  ASSUME Types, NEW p \in Writers, Sound(p), NEW b \in 0 .. Newest, NEW cur, cur = RefsAt(b), NEW tx, tx = my[p].tx,
         NEW refs, refs = Evaluated(cur, tx), NEW gone, gone = Dropped(p, cur, tx),
         NEW roots, roots = Evolve(RootsAt(b), b + 1, gone, None, {})
  PROVE  /\ refs \in RefMaps /\ \A r \in Refs : refs[r] = IF r \in DOMAIN tx THEN tx[r].new ELSE cur[r]
         /\ \A d \in gone : d \in [ref : Refs, oid : Commits] /\ d.oid \in RefTips(cur)
         /\ roots \in SUBSET RootEntries
         /\ \A t \in roots : t \in RootsAt(b) \/ (t.dropped = b + 1 /\ \E d \in gone : t.oid = d.oid)
         /\ \A d \in gone : \E t \in roots : t.oid = d.oid /\ t.dropped = b + 1
         /\ \A t \in RootsAt(b) : t \in roots \/ \E u \in roots : u.oid = t.oid /\ u.dropped = b + 1
  <1>1. b \in Nat /\ b + 1 \in Nat /\ have \in [Writers -> SUBSET Commits]
    BY DEF Types, Newest
  <1>2. DOMAIN tx \subseteq Refs /\ \A r \in DOMAIN tx : tx[r].new \in Commits \cup {None}
    BY <1>1, TxTyped DEF Updates
  <1>3. cur \in RefMaps /\ RootsAt(b) \in SUBSET RootEntries
    BY <1>1, StoreTyped
  <1>4. refs \in RefMaps /\ \A r \in Refs : refs[r] = IF r \in DOMAIN tx THEN tx[r].new ELSE cur[r]
    BY <1>2, <1>3 DEF Evaluated, RefMaps
  <1>5. \A d \in gone : d \in [ref : Refs, oid : Commits] /\ d.oid \in RefTips(cur)
    <2>1. ASSUME NEW r \in DOMAIN tx, cur[r] # None
          PROVE  cur[r] \in Commits /\ cur[r] \in RefTips(cur) /\ r \in Refs
      BY <1>2, <1>3, <2>1 DEF RefMaps, RefTips
    <2>2. \A d \in gone : \E r \in DOMAIN tx : cur[r] # None /\ d = [ref |-> r, oid |-> cur[r]]
      BY DEF Dropped
    <2> QED
      BY <2>1, <2>2
  <1>6. /\ roots \in SUBSET RootEntries
        /\ \A t \in roots : t \in RootsAt(b) \/ (t.dropped = b + 1 /\ \E d \in gone : t.oid = d.oid)
        /\ \A d \in gone : \E t \in roots : t.oid = d.oid /\ t.dropped = b + 1
        /\ \A t \in RootsAt(b) : t \in roots \/ \E u \in roots : u.oid = t.oid /\ u.dropped = b + 1
    <2>1. \A t \in RootsAt(b) : ~Expired(t, None, {})
      BY DEF Expired
    <2>2. gone \in SUBSET [ref : Refs, oid : Commits]
      BY <1>5
    <2>3. /\ roots \in SUBSET RootEntries
          /\ \A t \in roots : t \in RootsAt(b) \/ (t.dropped = b + 1 /\ \E d \in gone : t.oid = d.oid)
          /\ \A d \in gone : \E t \in roots : t.oid = d.oid /\ t.dropped = b + 1
          /\ \A t \in RootsAt(b) : \/ t \in roots \/ Expired(t, None, {})
                                   \/ \E u \in roots : u.oid = t.oid /\ u.dropped = b + 1
      BY <1>1, <1>3, <2>2, Evolved
    <2> QED
      BY <2>1, <2>3
  <1> QED
    BY <1>4, <1>5, <1>6

\* A push puts a root under every tip it drops and keeps or renews the others.
LEMMA PushCarries ==
  ASSUME IInv, NEW p \in Writers, NEW b, b = Newest, NEW cur, cur = RefsAt(b), NEW tx, tx = my[p].tx,
         NEW refs, refs = Evaluated(cur, tx), NEW roots, roots = Evolve(RootsAt(b), b + 1, Dropped(p, cur, tx), None, {})
  PROVE  RootsCarry(refs, roots)
  <1> PICK gone : gone = Dropped(p, cur, tx)
    OBVIOUS
  <1>1. Types /\ Sound(p) /\ b \in Nat /\ b \in 0 .. Newest
    BY DEF IInv, Shape, Types, Newest
  <1>2. cur \in RefMaps
    BY <1>1, StoreTyped
  <1>3. /\ refs \in RefMaps /\ \A r \in Refs : refs[r] = IF r \in DOMAIN tx THEN tx[r].new ELSE cur[r]
        /\ \A d \in gone : \E t \in roots : t.oid = d.oid /\ t.dropped = b + 1
        /\ \A t \in RootsAt(b) : t \in roots \/ \E u \in roots : u.oid = t.oid /\ u.dropped = b + 1
    BY <1>1, Pushed
  <1>4. ASSUME NEW t \in RefTips(cur) \ Reach(RefTips(refs)) PROVE \E root \in roots : root.oid = t /\ root.dropped > Newest
    <2>1. PICK r \in Refs : cur[r] = t /\ t # None /\ t \in Commits
      BY <1>2 DEF RefTips, RefMaps
    <2>2. t \notin RefTips(refs) /\ t \in History[t]
      BY <1>3, <2>1, RefsAssumption, ReachHasTips DEF RefTips, RefMaps
    <2>3. r \in DOMAIN tx /\ cur[r] # tx[r].new
      BY <1>3, <2>1, <2>2 DEF RefTips
    <2>4. tx[r].new = None \/ ~FastForward(p, cur[r], tx[r].new)
      <3>1. ASSUME tx[r].new # None PROVE t \notin History[tx[r].new]
        <4>1. tx[r].new \in RefTips(refs)
          BY <1>3, <2>1, <2>3, <3>1 DEF RefTips
        <4> QED
          BY <4>1 DEF Reach
      <3> QED
        BY <2>1, <3>1 DEF FastForward
    <2>5. [ref |-> r, oid |-> t] \in gone
      BY <2>1, <2>3, <2>4 DEF Dropped
    <2>6. PICK root \in roots : root.oid = t /\ root.dropped = b + 1
      BY <1>3, <2>5
    <2> QED
      BY <1>1, <2>6
  <1>5. ASSUME NEW root \in RootsAt(b)
        PROVE  \E renewed \in roots : renewed.oid = root.oid /\ renewed.dropped >= root.dropped
    <2>1. root.dropped \in 1 .. b
      BY <1>1 DEF IInv, Shape, Dated, RootsAt
    <2> QED
      BY <1>1, <1>3, <2>1
  <1> QED
    BY <1>4, <1>5 DEF RootsCarry

LEMMA PushStep == ASSUME IInv, NEW p \in Writers, Push(p) PROVE IInv'
  <1> PICK b : b = my[p].base
    OBVIOUS
  <1> PICK cur : cur = RefsAt(b)
    OBVIOUS
  <1> PICK tx : tx = my[p].tx
    OBVIOUS
  <1> PICK refs : refs = Evaluated(cur, tx)
    OBVIOUS
  <1> PICK gone : gone = Dropped(p, cur, tx)
    OBVIOUS
  <1> PICK roots : roots = Evolve(RootsAt(b), b + 1, gone, None, {})
    OBVIOUS
  <1>1. /\ Types /\ Sound(p) /\ b \in 0 .. Newest /\ b \in Nat /\ b + 1 \in Nat
        /\ have \in [Writers -> SUBSET Commits]
    BY DEF IInv, Shape, Sound, SoundIn, Types, Publications, Newest
  <1>2. DOMAIN tx \subseteq Refs /\ \A r \in DOMAIN tx : tx[r].new \in Commits \cup {None} /\ tx[r].new \in have[p] \cup {None}
    BY <1>1, TxTyped DEF Updates, Sound, SoundIn
  <1>3. cur \in RefMaps /\ RootsAt(b) \in SUBSET RootEntries
    BY <1>1, StoreTyped
  <1>4. CASE Local(p, Idle) /\ UNCHANGED <<chain, have, today, repairs>>
    BY <1>1, <1>4, ToIdle
  <1>5. CASE /\ my[p].kind = "push" /\ Publish(p, refs, roots, FALSE) /\ UNCHANGED <<today, repairs>>
    <2>1. /\ refs \in RefMaps /\ \A r \in Refs : refs[r] = IF r \in DOMAIN tx THEN tx[r].new ELSE cur[r]
          /\ \A d \in gone : d.oid \in RefTips(cur)
      BY <1>1, Pushed
    <2>2. /\ roots \in SUBSET RootEntries
          /\ \A t \in roots : t \in RootsAt(b) \/ (t.dropped = b + 1 /\ \E d \in gone : t.oid = d.oid)
      BY <1>1, Pushed
    <2>3. CoverageTips(refs, roots) \subseteq have[p] \cup CoverageTips(cur, RootsAt(b))
      <3>1. ASSUME NEW t \in RefTips(refs) PROVE t \in have[p] \cup RefTips(cur)
        BY <1>2, <2>1 DEF RefTips
      <3>2. ASSUME NEW t \in roots PROVE t.oid \in CoverageTips(cur, RootsAt(b))
        BY <2>1, <2>2 DEF CoverageTips
      <3> QED
        BY <3>1, <3>2 DEF CoverageTips
    <2>4. ASSUME b = Newest PROVE \A t \in roots : t.dropped \in 1 .. Newest + 1
      <3>1. \A t \in RootsAt(b) : t.dropped \in 1 .. Newest
        BY <1>1, <2>4 DEF IInv, Shape, Dated, RootsAt
      <3> QED
        BY <1>1, <2>2, <2>4, <3>1
    <2>5. ASSUME b = Newest PROVE RootsCarry(refs, roots)
      BY <2>5, PushCarries
    <2> QED
      BY <1>5, <2>1, <2>2, <2>3, <2>4, <2>5, PublishStep
  <1> QED
    BY <1>4, <1>5 DEF Push

\* A checkpoint keeps every root but those its ticket lets go.
LEMMA CheckpointCarries ==
  ASSUME IInv, NEW p \in Writers, NEW b, b = Newest, NEW c, c = my[p].cutoff, NEW known,
         NEW roots, roots = Evolve(RootsAt(b), b + 1, {}, c, known)
  PROVE  RootsCarry(RefsAt(b), roots)
  <1>1. Types /\ b \in Nat /\ b \in 0 .. Newest /\ c \in Nat \cup {None} /\ (c # None => c <= today)
    BY DEF IInv, Shape, Sound, SoundIn, Types, Publications, Newest
  <1>2. RefsAt(b) \in RefMaps /\ RootsAt(b) \in SUBSET RootEntries
    BY <1>1, StoreTyped
  <1>3. \A t \in RootsAt(b) : t \in roots \/ Expired(t, c, known)
    BY <1>2 DEF Evolve
  <1>4. RefTips(RefsAt(b)) \subseteq Reach(RefTips(RefsAt(b)))
    BY <1>2, ReachHasTips DEF RefTips, RefMaps
  <1>5. ASSUME NEW root \in RootsAt(b), Expired(root, c, known) PROVE chain[root.dropped].day + Retention < today
    <2>1. root.dropped \in 1 .. Newest
      BY <1>1 DEF IInv, Shape, Dated, RootsAt
    <2> DEFINE d == chain[root.dropped].day
    <2>2. d \in Nat /\ Retention \in Nat /\ today \in Nat /\ d + Retention < c /\ c \in Nat /\ c <= today
      <3>1. chain[root.dropped] \in Heads /\ today \in Nat
        BY <1>1, <2>1 DEF Types, Newest
      <3> QED
        BY <1>1, <1>5, <3>1, RefsAssumption DEF Expired, Heads
    <2> HIDE DEF d
    <2>3. d + Retention < today
      BY <2>2
    <2> QED
      BY <2>3 DEF d
  <1>6. ASSUME NEW root \in RootsAt(b), root \in roots
        PROVE  \E renewed \in roots : renewed.oid = root.oid /\ renewed.dropped >= root.dropped
    <2>1. root.dropped \in 1 .. b
      BY <1>1 DEF IInv, Shape, Dated, RootsAt
    <2>2. root.dropped >= root.dropped
      BY <1>1, <2>1
    <2> QED
      BY <1>6, <2>2
  <1> QED
    BY <1>3, <1>4, <1>5, <1>6 DEF RootsCarry

LEMMA PublishCheckpointStep == ASSUME IInv, NEW p \in Writers, PublishCheckpoint(p) PROVE IInv'
  <1> PICK b : b = my[p].base
    OBVIOUS
  <1> PICK c : c = my[p].cutoff
    OBVIOUS
  <1> PICK known : known = my[p].resolved
    OBVIOUS
  <1> PICK roots : roots = Evolve(RootsAt(b), b + 1, {}, c, known)
    OBVIOUS
  <1>1. /\ Types /\ Sound(p) /\ b \in 0 .. Newest /\ b \in Nat /\ b + 1 \in Nat /\ c \in Nat \cup {None}
        /\ c # None => c <= today
    BY DEF IInv, Shape, Sound, SoundIn, Types, Publications, Newest
  <1>2. RefsAt(b) \in RefMaps /\ RootsAt(b) \in SUBSET RootEntries
    BY <1>1, StoreTyped
  <1>3. /\ roots \in SUBSET RootEntries
        /\ \A t \in roots : t \in RootsAt(b)
        /\ \A t \in RootsAt(b) : t \in roots \/ Expired(t, c, known)
    BY <1>2 DEF Evolve
  <1>4. my[p].kind = "checkpoint" /\ Publish(p, RefsAt(b), roots, TRUE) /\ UNCHANGED <<today, repairs>>
    BY DEF PublishCheckpoint
  <1>5. ASSUME b = Newest PROVE \A t \in roots : t.dropped \in 1 .. Newest + 1
    <2>1. \A t \in RootsAt(b) : t.dropped \in 1 .. Newest
      BY <1>1, <1>5 DEF IInv, Shape, Dated, RootsAt
    <2> QED
      BY <1>1, <1>3, <1>5, <2>1
  <1>6. ASSUME b = Newest PROVE RootsCarry(RefsAt(b), roots)
    BY <1>6, CheckpointCarries
  <1> QED
    BY <1>2, <1>3, <1>4, <1>5, <1>6, PublishStep

\* What Evolve makes of roots without a cutoff: each added tip has one, each old
\* root is kept or renewed.
Renews(old, added, gen, roots) ==
  /\ \A d \in added : \E t \in roots : t.oid = d.oid /\ t.dropped = gen
  /\ \A t \in old : t \in roots \/ \E u \in roots : u.oid = t.oid /\ u.dropped = gen

\* The roots a repair publishes.
LEMMA Repaired ==
  ASSUME Types, NEW top \in 0 .. Newest, NEW b \in 1 .. top, NEW added, added \subseteq Superseded(b, top),
         NEW roots, roots = Evolve(RootsAt(b), top + 1, added, None, {})
  PROVE  /\ RefsAt(b) \in RefMaps /\ RootsAt(b) \in SUBSET RootEntries /\ roots \in SUBSET RootEntries
         /\ \A t \in roots : t \in RootsAt(b) \/ t.dropped = top + 1
         /\ Renews(RootsAt(b), added, top + 1, roots)
  <1>1. Newest \in Nat /\ top \in Nat /\ top + 1 \in Nat /\ b \in 0 .. Newest
    BY DEF Types, Newest
  <1>2. RefsAt(b) \in RefMaps /\ RootsAt(b) \in SUBSET RootEntries
    BY <1>1, StoreTyped
  <1>3. added \in SUBSET [ref : Refs, oid : Commits]
    <2>1. ASSUME NEW g \in b + 1 .. top, NEW r \in Refs, chain[g].refs[r] # None
          PROVE  [ref |-> r, oid |-> chain[g].refs[r]] \in [ref : Refs, oid : Commits]
      <3>1. chain[g] \in Heads
        BY <1>1 DEF Types, Newest
      <3>2. chain[g].refs[r] \in Commits
        BY <2>1, <3>1 DEF Heads, RefMaps
      <3> QED
        BY <3>2
    <2> QED
      BY <2>1 DEF Superseded
  <1>4. \A t \in RootsAt(b) : ~Expired(t, None, {})
    BY DEF Expired
  <1>5. /\ roots \in SUBSET RootEntries
        /\ \A t \in roots : t \in RootsAt(b) \/ (t.dropped = top + 1 /\ \E d \in added : t.oid = d.oid)
        /\ \A d \in added : \E t \in roots : t.oid = d.oid /\ t.dropped = top + 1
        /\ \A t \in RootsAt(b) : \/ t \in roots \/ Expired(t, None, {})
                                 \/ \E u \in roots : u.oid = t.oid /\ u.dropped = top + 1
    BY <1>1, <1>2, <1>3, Evolved
  <1> QED
    BY <1>2, <1>4, <1>5 DEF Renews

LEMMA RepairStep == ASSUME IInv, NEW p \in Writers, Repair(p) PROVE IInv'
  <1> PICK b : b = my[p].target
    OBVIOUS
  <1> PICK top : top = my[p].base
    OBVIOUS
  <1> PICK added : added = {d \in Superseded(b, top) : \A t \in RefTips(RefsAt(b)) : ~(FastForward(p, d.oid, t) /\ t \in have[p])}
    OBVIOUS
  <1> PICK roots : roots = Evolve(RootsAt(b), top + 1, added, None, {})
    OBVIOUS
  <1>1. Types /\ Sound(p) /\ my[p].kind = "repair" /\ have \in [Writers -> SUBSET Commits] /\ Newest \in Nat
    BY DEF IInv, Shape, Repair, Types, Newest
  <1>2. repairs > 0 /\ repairs \in Nat /\ b \in 1 .. top /\ top \in 0 .. Newest /\ top \in Nat /\ top + 1 \in Nat
    BY <1>1 DEF Sound, SoundIn, Types, Publications
  <1>3. b \in 0 .. Newest /\ b \in 1 .. Newest
    BY <1>1, <1>2
  <1>4. RefsAt(b) \in RefMaps /\ RootsAt(b) \in SUBSET RootEntries
    BY <1>1, <1>3, StoreTyped
  <1>5. CASE Local(p, Idle) /\ UNCHANGED <<chain, have, today, repairs>>
    BY <1>1, <1>5, ToIdle
  <1>6. CASE Publish(p, RefsAt(b), roots, TRUE) /\ UNCHANGED <<today, repairs>>
    <2>1. /\ roots \in SUBSET RootEntries
          /\ \A t \in roots : t \in RootsAt(b) \/ t.dropped = top + 1
      <3>1. added \subseteq Superseded(b, top)
        OBVIOUS
      <3> QED
        BY <1>1, <1>2, <3>1, Repaired
    <2>2. ASSUME top = Newest PROVE \A t \in roots : t.dropped \in 1 .. Newest + 1
      <3>1. \A t \in RootsAt(b) : t.dropped \in 1 .. b
        BY <1>2, <1>3 DEF IInv, Shape, Dated, RootsAt
      <3> QED
        BY <1>1, <1>2, <2>1, <2>2, <3>1
    <2>3. repairs # 0
      BY <1>2
    <2> QED
      BY <1>1, <1>4, <1>6, <2>1, <2>2, <2>3, PublishStep
  <1> QED
    BY <1>5, <1>6 DEF Repair

-----------------------------------------------------------------------------
(* The theorems.                                                           *)

Planned == plan \in PlanSet

LEMMA InitInv == Init => Planned /\ IInv
  <1> SUFFICES ASSUME Init PROVE Planned /\ IInv
    OBVIOUS
  <1>1. Planned /\ chain = <<>> /\ Newest = 0 /\ chain \in Seq(Heads) /\ today = 0 /\ repairs = 0
    BY RefsAssumption DEF Init, Planned, Newest
  <1>2. have \in [Writers -> SUBSET Commits] /\ my \in [Writers -> Publications]
    BY IdleTyped DEF Init
  <1>3. Types /\ Days /\ Dated
    BY <1>1, <1>2 DEF Types, Days, Dated
  <1>4. ASSUME NEW p \in Writers PROVE Sound(p)
    <2>1. my[p] = Idle
      BY DEF Init
    <2>2. Idle.base = 0 /\ Idle.kind = "none" /\ Idle.cutoff = None
      BY DEF Idle
    <2> QED
      BY <1>1, <2>1, <2>2, IdleTyped DEF Sound, SoundIn
  <1>5. Packed
    <2>1. CoverageTips(RefsAt(0), RootsAt(0)) = {}
      BY DEF CoverageTips, RefTips, RefsAt, RootsAt, NoRefs
    <2> QED
      BY <1>1, <2>1 DEF Packed, Reach
  <1>6. Kept
    BY <1>1 DEF Kept
  <1> QED
    BY <1>1, <1>3, <1>4, <1>5, <1>6 DEF IInv, Shape

LEMMA NextInv == Planned /\ IInv /\ [Next]_vars => (Planned /\ IInv)'
  <1> SUFFICES ASSUME Planned, IInv, [Next]_vars PROVE Planned' /\ IInv'
    OBVIOUS
  <1>1. Planned' /\ plan.commits \subseteq Commits /\ plan.refs \subseteq Refs /\ plan.writers \subseteq Writers
    BY DEF Next, vars, Planned, PlanSet
  <1>2. CASE UNCHANGED vars
    <2>1. have' \in [Writers -> SUBSET Commits] /\ today \in Nat /\ today <= today' /\ \A q \in Writers : have[q] \subseteq have'[q]
      BY <1>2 DEF IInv, Shape, Types, vars
    <2> QED
      BY <1>1, <1>2, <2>1, GrowStep DEF vars
  <1>3. CASE Tomorrow
    BY <1>1, <1>3, TomorrowStep
  <1>4. ASSUME NEW p \in plan.writers,
               \/ Commit(p) \/ Fetch(p) \/ BeginPush(p) \/ BeginCheckpoint(p) \/ BeginRepair(p)
               \/ Push(p) \/ PublishCheckpoint(p) \/ Repair(p)
        PROVE  IInv'
    <2>1. p \in Writers
      BY <1>1
    <2> QED
      BY <1>1, <1>4, <2>1, CommitStep, FetchStep, BeginPushStep, BeginCheckpointStep, BeginRepairStep,
         PushStep, PublishCheckpointStep, RepairStep
  <1> QED
    BY <1>1, <1>2, <1>3, <1>4 DEF Next

\* The inductive invariant holds in every reachable state of every workload.
THEOREM Invariance == Spec => [](Planned /\ IInv)
  <1> QED
    BY InitInv, NextInv, PTL DEF Spec

\* Every generation that was admitted can be restored from the packs, whichever
\* writers packed it, whatever their stores lacked and however often they raced:
\* what buildPacks leaves out is covered by the base.
THEOREM GenerationsRestore == Spec => []Restorable
  <1>1. IInv => Restorable
    BY DEF IInv, Shape, Types, Newest, Packed, Restorable
  <1> QED
    BY <1>1, Invariance, PTL

\* As long as nothing is repaired, a deleted or displaced tip stays covered by
\* every generation admitted within the retention days of its drop, for any
\* number of writers, pushes, checkpoints and tickets.
THEOREM TipsAreRetained == Spec => []PushedTipsRetained
  <1>1. IInv => PushedTipsRetained
    <2> SUFFICES ASSUME IInv, repairs = 0, NEW g \in 1 .. Newest - 1, NEW t \in Lost(g), NEW k \in g + 1 .. Newest,
                        chain[k].day <= chain[g + 1].day + Retention
                 PROVE  t \in Reach(CoverageTips(RefsAt(k), RootsAt(k)))
      BY DEF PushedTipsRetained, DroppedTipsRetained, Retained, Lost
    <2>1. Types /\ Newest \in Nat /\ g \in 0 .. Newest - 1 /\ k \in 0 .. Newest
      BY DEF IInv, Shape, Types, Newest
    <2>2. PICK root \in RootsAt(k) : root.oid = t
      BY <2>1 DEF IInv, Kept, Rooted
    <2>3. RefsAt(k) \in RefMaps /\ RootsAt(k) \in SUBSET RootEntries
      BY <2>1, StoreTyped
    <2>4. t \in CoverageTips(RefsAt(k), RootsAt(k)) /\ CoverageTips(RefsAt(k), RootsAt(k)) \in SUBSET Commits
      BY <2>2, <2>3, TipsAreCommits DEF CoverageTips
    <2> QED
      BY <2>4, ReachHasTips
  <1> QED
    BY <1>1, Invariance, PTL

\* A push moves a ref only from the value its caller expected, forced or
\* not, first try or retried over a winner.
THEOREM PushesDoNotClobber == Spec => NoClobber
  <1>1. Planned /\ IInv /\ [Next]_vars =>
          [\A p \in Writers : my[p].kind = "push" /\ Len(chain') > Newest /\ chain'[Newest + 1].writer = p =>
             \A r \in Refs : chain'[Newest + 1].refs[r] # RefsAt(Newest)[r]
                               => r \in DOMAIN my[p].tx /\ my[p].tx[r].old = RefsAt(Newest)[r]]_vars
    <2> SUFFICES ASSUME Planned, IInv, Next,
                        NEW p \in Writers, my[p].kind = "push", Len(chain') > Newest, chain'[Newest + 1].writer = p,
                        NEW r \in Refs, chain'[Newest + 1].refs[r] # RefsAt(Newest)[r]
                 PROVE  r \in DOMAIN my[p].tx /\ my[p].tx[r].old = RefsAt(Newest)[r]
      OBVIOUS
    <2>1. chain \in Seq(Heads) /\ Newest \in Nat /\ ~(UNCHANGED chain)
      <3>1. chain \in Seq(Heads) /\ Newest \in Nat
        BY DEF IInv, Shape, Types, Newest
      <3>2. UNCHANGED chain => Len(chain') = Newest
        BY DEF Newest
      <3>3. ~(Newest > Newest)
        BY <3>1
      <3> QED
        BY <3>1, <3>2, <3>3
    <2>2. ASSUME NEW q \in Writers, NEW refs, NEW roots, NEW checkpoint, Publish(q, refs, roots, checkpoint)
          PROVE  my[q].base = Newest /\ chain'[Newest + 1].writer = q /\ chain'[Newest + 1].refs = refs
      BY <2>1, <2>2 DEF Publish, Newest
    <2>3. PICK q \in plan.writers : Push(q) \/ PublishCheckpoint(q) \/ Repair(q)
      <3>1. ~Tomorrow /\ \A q \in plan.writers : ~(Commit(q) \/ Fetch(q) \/ BeginPush(q) \/ BeginCheckpoint(q) \/ BeginRepair(q))
        BY <2>1 DEF Commit, Fetch, BeginPush, BeginCheckpoint, BeginRepair, Tomorrow
      <3> QED
        BY <3>1 DEF Next
    <2>q. q \in Writers
      BY DEF Planned, PlanSet
    <2>4. CASE PublishCheckpoint(q)
      <3>1. my[q].kind = "checkpoint" /\ \E refs, roots : Publish(q, refs, roots, TRUE)
        BY <2>4 DEF PublishCheckpoint
      <3>2. q = p
        BY <2>2, <2>q, <3>1
      <3> QED
        BY <3>1, <3>2
    <2>5. CASE Repair(q)
      <3>1. my[q].kind = "repair" /\ \E refs, roots : Publish(q, refs, roots, TRUE)
        BY <2>1, <2>5 DEF Repair
      <3>2. q = p
        BY <2>2, <2>q, <3>1
      <3> QED
        BY <3>1, <3>2
    <2>6. CASE Push(q)
      <3>1. /\ \A s \in DOMAIN my[q].tx : ~Refused(q, RefsAt(my[q].base), s, my[q].tx[s])
            /\ \E roots : Publish(q, Evaluated(RefsAt(my[q].base), my[q].tx), roots, FALSE)
        BY <2>1, <2>6 DEF Push
      <3>2. q = p /\ my[p].base = Newest /\ chain'[Newest + 1].refs = Evaluated(RefsAt(Newest), my[p].tx)
        BY <2>2, <2>q, <3>1
      <3> QED
        BY <3>1, <3>2 DEF Evaluated, Refused
    <2> QED
      BY <2>3, <2>4, <2>5, <2>6
  <1> QED
    BY <1>1, Invariance, PTL DEF NoClobber, Spec

-----------------------------------------------------------------------------
(* A vault that one principal writes.                                      *)

\* Every tip of generation g is still reached, or reached from a root put there
\* later, by every generation admitted in time, repaired or not.  A lost tip
\* may be covered through the root of another tip, so roots count by what they
\* reach, and every tip counts, not only the lost ones, as any may be lost next.
OneWriter == \A g, k \in 1 .. Newest : chain[g].writer = chain[k].writer
Held(t, g, refs, roots) ==
  t \in Reach(RefTips(refs)) \/ \E root \in roots : t \in History[root.oid] /\ root.dropped > g
Covered ==
  OneWriter =>
    \A g \in 1 .. Newest : \A t \in RefTips(RefsAt(g)) : \A k \in g + 1 .. Newest :
      chain[k].day <= chain[g + 1].day + Retention => Held(t, g, RefsAt(k), RootsAt(k))

\* What a head over the newest one must hold of the tips of all generations.
Holds(refs, roots) ==
  \A g \in 1 .. Newest : \A t \in RefTips(RefsAt(g)) :
    Held(t, g, refs, roots) \/ (g < Newest /\ chain[g + 1].day + Retention < today)

\* The writers of a chain that was extended by a head.
LEMMA WritersStay ==
  ASSUME chain \in Seq(Heads), NEW h \in Heads, chain' = Append(chain, h), OneWriter'
  PROVE  OneWriter
  <1>1. \A g \in 1 .. Newest : chain'[g] = chain[g] /\ g \in 1 .. Newest'
    BY Appended DEF Newest
  <1> QED
    BY <1>1 DEF OneWriter

LEMMA Covers ==
  ASSUME IInv, Covered, NEW h \in Heads, chain' = Append(chain, h), h.day = today,
         OneWriter => Holds(h.refs, h.roots)
  PROVE  Covered'
  <1> PICK n : n = Newest
    OBVIOUS
  <1>1. /\ chain \in Seq(Heads) /\ n \in Nat /\ Newest' = n + 1
        /\ \A g \in 1 .. n : chain'[g] = chain[g] /\ chain[g] \in Heads
        /\ chain'[n + 1] = h
    BY Appended DEF IInv, Shape, Types, Newest
  <1>2. \A g \in 0 .. n : RefsAt(g)' = RefsAt(g) /\ RootsAt(g)' = RootsAt(g)
    BY <1>1, EarlierKept
  <1>3. RefsAt(n + 1)' = h.refs /\ RootsAt(n + 1)' = h.roots
    BY <1>1 DEF RefsAt, RootsAt
  <1> SUFFICES ASSUME OneWriter', NEW g \in 1 .. n + 1, NEW t \in RefTips(RefsAt(g)'), NEW k \in g + 1 .. n + 1,
                      chain'[k].day <= chain'[g + 1].day + Retention
               PROVE  Held(t, g, RefsAt(k)', RootsAt(k)')
    BY <1>1 DEF Covered, Held, RefTips
  <1>4. g \in 1 .. n /\ g \in 0 .. n /\ OneWriter
    BY <1>1, WritersStay
  <1>5. t \in RefTips(RefsAt(g))
    BY <1>2, <1>4
  <1>6. CASE k \in 1 .. n
    <2>1. k \in g + 1 .. n /\ g + 1 \in 1 .. n /\ k \in 0 .. n
      BY <1>1, <1>4, <1>6
    <2>2. Held(t, g, RefsAt(k), RootsAt(k))
      BY <1>1, <1>4, <1>5, <1>6, <2>1 DEF Covered
    <2> QED
      BY <1>2, <2>1, <2>2
  <1>7. CASE k = n + 1
    <2>1. Held(t, g, h.refs, h.roots) \/ (g < n /\ chain[g + 1].day + Retention < today)
      BY <1>4, <1>5 DEF Holds
    <2>2. ASSUME g < n PROVE ~(chain[g + 1].day + Retention < today)
      <3>1. g + 1 \in 1 .. n
        BY <1>1, <1>4, <2>2
      <3>2. chain'[g + 1].day = chain[g + 1].day /\ chain[g + 1].day \in Nat /\ chain'[k].day = today
        BY <1>1, <1>7, <3>1 DEF Heads
      <3>3. today \in Nat /\ Retention \in Nat
        BY RefsAssumption DEF IInv, Shape, Types
      <3> QED
        BY <3>2, <3>3
    <2> QED
      BY <1>3, <1>7, <2>1, <2>2
  <1> QED
    BY <1>1, <1>4, <1>6, <1>7

\* A push or a checkpoint carries the tips on: what reached them is reached
\* itself, or gets a root, and a root is renewed, kept or old enough to go.
LEMMA Carried ==
  ASSUME IInv, Covered, OneWriter, NEW refs \in RefMaps, NEW roots \in SUBSET RootEntries, RootsCarry(refs, roots)
  PROVE  Holds(refs, roots)
  <1> PICK n : n = Newest
    OBVIOUS
  <1> SUFFICES ASSUME NEW g \in 1 .. n, NEW t \in RefTips(RefsAt(g))
               PROVE  Held(t, g, refs, roots) \/ (g < n /\ chain[g + 1].day + Retention < today)
    BY DEF Holds
  <1>1. /\ n \in Nat /\ n \in 0 .. Newest /\ n \in 1 .. Newest /\ g \in 0 .. Newest /\ Types
        /\ today \in Nat /\ Retention \in Nat /\ \A k \in 1 .. n : chain[k] \in Heads /\ chain[k].day \in Nat
    <2>1. Types /\ n \in Nat /\ \A k \in 1 .. n : chain[k] \in Heads
      BY DEF IInv, Shape, Types, Newest
    <2>2. \A k \in 1 .. n : chain[k].day \in Nat
      BY <2>1 DEF Heads
    <2> QED
      BY <2>1, <2>2, RefsAssumption DEF Types
  <1>2. RefsAt(n) \in RefMaps /\ RootsAt(n) \in SUBSET RootEntries /\ RefsAt(g) \in RefMaps
    BY <1>1, StoreTyped
  <1>3. ASSUME NEW s \in RefTips(RefsAt(n)), t \in History[s] PROVE Held(t, g, refs, roots)
    <2>1. s \in Commits
      BY <1>2 DEF RefTips, RefMaps
    <2>2. CASE s \in Reach(RefTips(refs))
      <3>1. PICK u \in RefTips(refs) : s \in History[u]
        BY <2>2 DEF Reach
      <3>2. u \in Commits
        BY DEF RefTips, RefMaps
      <3>3. t \in History[u]
        BY <1>3, <3>1, <3>2, RefsAssumption
      <3> QED
        BY <3>3 DEF Held, Reach
    <2>3. CASE s \notin Reach(RefTips(refs))
      <3>1. PICK root \in roots : root.oid = s /\ root.dropped > n
        BY <2>3 DEF RootsCarry
      <3>2. root.dropped > g
        BY <1>1, <3>1 DEF RootEntries
      <3> QED
        BY <1>3, <3>1, <3>2 DEF Held
    <2> QED
      BY <2>2, <2>3
  <1>4. CASE g = n
    <2>1. t \in RefTips(RefsAt(n)) /\ t \in Commits
      BY <1>2, <1>4 DEF RefTips, RefMaps
    <2>2. t \in History[t]
      BY <2>1, RefsAssumption
    <2> QED
      BY <1>3, <2>1, <2>2
  <1>5. CASE g # n
    <2>1. g < n /\ g + 1 \in 1 .. n /\ n \in g + 1 .. n
      BY <1>1, <1>5
    <2>2. chain[n].day <= today /\ chain[n].day \in Nat /\ chain[g + 1].day \in Nat
      BY <1>1, <2>1 DEF IInv, Shape, Days
    <2>3. CASE chain[g + 1].day + Retention < chain[n].day
      BY <1>1, <2>1, <2>2, <2>3
    <2>4. CASE Held(t, g, RefsAt(n), RootsAt(n))
      <3>1. CASE t \in Reach(RefTips(RefsAt(n)))
        BY <1>3, <3>1 DEF Reach
      <3>2. ASSUME NEW root \in RootsAt(n), t \in History[root.oid], root.dropped > g
            PROVE  Held(t, g, refs, roots) \/ chain[g + 1].day + Retention < today
        <4>1. root.dropped \in 1 .. n /\ root.dropped \in g + 1 .. n
          <5>1. root.dropped \in 1 .. n
            BY <1>1 DEF IInv, Shape, Dated, RootsAt
          <5> QED
            BY <1>1, <3>2, <5>1
        <4>2. ASSUME NEW renewed \in roots, renewed.oid = root.oid, renewed.dropped >= root.dropped
              PROVE  Held(t, g, refs, roots)
          <5>1. renewed.dropped > g
            BY <1>1, <4>1, <4>2 DEF RootEntries
          <5> QED
            BY <3>2, <4>2, <5>1 DEF Held
        <4>3. ASSUME chain[root.dropped].day + Retention < today PROVE chain[g + 1].day + Retention < today
          <5>1. chain[g + 1].day <= chain[root.dropped].day /\ chain[root.dropped].day \in Nat
            BY <1>1, <2>1, <4>1 DEF IInv, Shape, Days
          <5> QED
            BY <1>1, <2>2, <4>3, <5>1
        <4> QED
          BY <4>2, <4>3 DEF RootsCarry
      <3> QED
        BY <2>1, <2>4, <3>1, <3>2 DEF Held
    <2> QED
      BY <1>1, <2>1, <2>2, <2>3, <2>4 DEF Covered
  <1> QED
    BY <1>4, <1>5

\* A repair of generation b in a vault of one writer: every superseded tip opens,
\* so it gets a root unless the repaired refs reach it, and what b held it holds.
LEMMA RepairHolds ==
  ASSUME IInv, Covered, OneWriter, NEW p \in Writers, NEW n, n = Newest, NEW b \in 1 .. n, NEW added,
         added = {d \in Superseded(b, n) : \A t \in RefTips(RefsAt(b)) : ~(FastForward(p, d.oid, t) /\ t \in have[p])},
         NEW roots, roots = Evolve(RootsAt(b), n + 1, added, None, {})
  PROVE  Holds(RefsAt(b), roots)
  <1> SUFFICES ASSUME NEW g \in 1 .. n, NEW t \in RefTips(RefsAt(g))
               PROVE  Held(t, g, RefsAt(b), roots) \/ (g < n /\ chain[g + 1].day + Retention < today)
    BY DEF Holds
  <1>1. /\ n \in Nat /\ n \in 0 .. Newest /\ g \in 0 .. Newest /\ b \in 0 .. Newest /\ b \in 1 .. n /\ Types
        /\ today \in Nat /\ Retention \in Nat /\ \A k \in 1 .. n : chain[k] \in Heads /\ chain[k].day \in Nat
    <2>1. Types /\ n \in Nat /\ \A k \in 1 .. n : chain[k] \in Heads
      BY DEF IInv, Shape, Types, Newest
    <2>2. \A k \in 1 .. n : chain[k].day \in Nat
      BY <2>1 DEF Heads
    <2> QED
      BY <2>1, <2>2, RefsAssumption DEF Types
  <1>2. /\ RefsAt(b) \in RefMaps /\ RootsAt(b) \in SUBSET RootEntries /\ roots \in SUBSET RootEntries
        /\ \A d \in added : \E u \in roots : u.oid = d.oid /\ u.dropped = n + 1
        /\ \A u \in RootsAt(b) : u \in roots \/ \E v \in roots : v.oid = u.oid /\ v.dropped = n + 1
    <2>1. added \subseteq Superseded(b, n) /\ n \in 0 .. Newest /\ b \in 1 .. n /\ Types
      BY <1>1
    <2>2. /\ RefsAt(b) \in RefMaps /\ RootsAt(b) \in SUBSET RootEntries /\ roots \in SUBSET RootEntries
          /\ Renews(RootsAt(b), added, n + 1, roots)
      BY <2>1, Repaired
    <2> QED
      BY Zenon, <2>2 DEF Renews
  <1>3. RefsAt(g) \in RefMaps /\ t \in Commits /\ t \in History[t]
    <2>1. RefsAt(g) \in RefMaps
      BY <1>1, StoreTyped
    <2> QED
      BY <2>1, RefsAssumption DEF RefTips, RefMaps
  <1>4. CASE g = b
    BY <1>3, <1>4 DEF Held, Reach
  <1>5. CASE g > b
    <2>1. PICK r \in Refs : t = chain[g].refs[r] /\ t # None
      BY <1>1, <1>3 DEF RefTips, RefsAt
    <2> PICK d : d = [ref |-> r, oid |-> t]
      OBVIOUS
    <2>2. d \in Superseded(b, n)
      <3>1. chain[g].writer = chain[b].writer /\ g \in b + 1 .. n
        BY <1>1, <1>5 DEF OneWriter
      <3>2. <<g, r>> \in (b + 1 .. n) \X Refs /\ <<g, r>>[1] = g /\ <<g, r>>[2] = r
        BY <3>1
      <3> QED
        BY <2>1, <3>1, <3>2 DEF Superseded
    <2>3. CASE d \in added
      <3>1. PICK u \in roots : u.oid = t /\ u.dropped = n + 1
        BY <1>2, <2>3
      <3>2. u.dropped > g
        BY <1>1, <3>1
      <3> QED
        BY <1>3, <3>1, <3>2 DEF Held
    <2>4. CASE d \notin added
      <3>1. PICK u \in RefTips(RefsAt(b)) : FastForward(p, t, u)
        BY <2>2, <2>4
      <3> QED
        BY <3>1 DEF FastForward, Held, Reach
    <2> QED
      BY <2>3, <2>4
  <1>6. CASE g < b
    <2>1. g < n /\ g + 1 \in 1 .. n /\ b \in g + 1 .. n
      BY <1>1, <1>6
    <2>2. chain[b].day <= today /\ chain[b].day \in Nat /\ chain[g + 1].day \in Nat
      BY <1>1, <2>1 DEF IInv, Shape, Days
    <2>3. CASE chain[g + 1].day + Retention < chain[b].day
      BY <1>1, <2>1, <2>2, <2>3
    <2>4. CASE Held(t, g, RefsAt(b), RootsAt(b))
      <3>1. ASSUME NEW root \in RootsAt(b), t \in History[root.oid], root.dropped > g
            PROVE  Held(t, g, RefsAt(b), roots)
        <4>1. CASE root \in roots
          BY <3>1, <4>1 DEF Held
        <4>2. ASSUME NEW v \in roots, v.oid = root.oid, v.dropped = n + 1 PROVE Held(t, g, RefsAt(b), roots)
          <5>1. v.dropped > g
            BY <1>1, <4>2
          <5> QED
            BY <3>1, <4>2, <5>1 DEF Held
        <4> QED
          BY <1>2, <4>1, <4>2
      <3> QED
        BY <2>4, <3>1 DEF Held
    <2> QED
      BY <1>1, <2>1, <2>2, <2>3, <2>4 DEF Covered
  <1> QED
    BY <1>1, <1>4, <1>5, <1>6

\* Publishing leaves the chain alone or adds one head over the newest.
LEMMA Admits ==
  ASSUME Types, NEW p \in Writers, NEW refs \in RefMaps, NEW roots \in SUBSET RootEntries, NEW checkpoint \in BOOLEAN,
         Publish(p, refs, roots, checkpoint)
  PROVE  \/ UNCHANGED chain
         \/ /\ my[p].base = Newest
            /\ \E h \in Heads : chain' = Append(chain, h) /\ h.refs = refs /\ h.roots = roots /\ h.day = today
  <1> PICK tips : tips = CoverageTips(refs, roots)
    OBVIOUS
  <1> PICK covered : covered = CoverageTips(RefsAt(my[p].base), RootsAt(my[p].base))
    OBVIOUS
  <1> PICK pack : pack = IF checkpoint THEN CheckpointPack(p, tips, covered) ELSE WalPack(p, tips, covered)
    OBVIOUS
  <1> PICK h : h = [writer |-> p, refs |-> refs, roots |-> roots, checkpoint |-> checkpoint, pack |-> pack, day |-> today]
    OBVIOUS
  <1>1. UNCHANGED chain \/ (my[p].base = Newest /\ chain' = Append(chain, h))
    BY DEF Publish
  <1>2. pack \subseteq Commits
    <2>1. tips \in SUBSET Commits
      BY TipsAreCommits
    <2> QED
      BY <2>1, PacksAreCommits DEF Types
  <1>3. h \in Heads /\ h.refs = refs /\ h.roots = roots /\ h.day = today
    BY <1>2 DEF Heads, Types
  <1> QED
    BY <1>1, <1>3

LEMMA CoversStay == ASSUME Covered, UNCHANGED chain PROVE Covered'
  <1>1. OneWriter' = OneWriter /\ Newest' = Newest
    BY DEF OneWriter, Newest
  <1>2. \A g : RefsAt(g)' = RefsAt(g) /\ RootsAt(g)' = RootsAt(g)
    BY DEF RefsAt, RootsAt
  <1>3. \A g, t, k : Held(t, g, RefsAt(k), RootsAt(k))' <=> Held(t, g, RefsAt(k), RootsAt(k))
    BY <1>2 DEF Held, Reach, RefTips
  <1>4. \A g : RefTips(RefsAt(g))' = RefTips(RefsAt(g))
    BY <1>2 DEF RefTips
  <1> QED
    BY <1>1, <1>3, <1>4 DEF Covered

LEMMA PublishCovers ==
  ASSUME IInv, Covered, NEW p \in Writers, NEW refs \in RefMaps, NEW roots \in SUBSET RootEntries, NEW checkpoint \in BOOLEAN,
         Publish(p, refs, roots, checkpoint), my[p].base = Newest /\ OneWriter => Holds(refs, roots)
  PROVE  Covered'
  <1>1. CASE UNCHANGED chain
    BY <1>1, CoversStay
  <1>2. CASE ~UNCHANGED chain
    <2>1. Types
      BY DEF IInv, Shape
    <2>2. /\ my[p].base = Newest
          /\ \E h \in Heads : chain' = Append(chain, h) /\ h.refs = refs /\ h.roots = roots /\ h.day = today
      <3>1. UNCHANGED chain \/ (/\ my[p].base = Newest
                              /\ \E h \in Heads : chain' = Append(chain, h) /\ h.refs = refs /\ h.roots = roots /\ h.day = today)
        BY <2>1, Admits
      <3> QED
        BY Zenon, <1>2, <3>1
    <2> QED
      BY <2>2, Covers
  <1> QED
    BY <1>1, <1>2

LEMMA NextCovers ==
  ASSUME Planned, IInv, Covered, [Next]_vars PROVE Covered'
  <1>1. CASE UNCHANGED chain
    BY <1>1, CoversStay
  <1>2. plan.writers \subseteq Writers /\ Types /\ Newest \in Nat /\ \A p \in Writers : Sound(p)
    BY DEF Planned, PlanSet, IInv, Shape, Types, Newest
  <1>3. ASSUME NEW p \in Writers, Push(p), ~UNCHANGED chain PROVE Covered'
    <2> PICK b : b = my[p].base
      OBVIOUS
    <2> PICK cur : cur = RefsAt(b)
      OBVIOUS
    <2> PICK tx : tx = my[p].tx
      OBVIOUS
    <2> PICK refs : refs = Evaluated(cur, tx)
      OBVIOUS
    <2> PICK roots : roots = Evolve(RootsAt(b), b + 1, Dropped(p, cur, tx), None, {})
      OBVIOUS
    <2>1. Publish(p, refs, roots, FALSE)
      BY <1>3 DEF Push
    <2>2. b \in 0 .. Newest
      BY <1>2 DEF Sound, SoundIn, Types, Publications
    <2>3. refs \in RefMaps /\ roots \in SUBSET RootEntries
      BY <1>2, <2>2, Pushed
    <2>4. ASSUME b = Newest, OneWriter PROVE Holds(refs, roots)
      BY <2>3, <2>4, PushCarries, Carried
    <2> QED
      BY <2>1, <2>3, <2>4, PublishCovers
  <1>4. ASSUME NEW p \in Writers, PublishCheckpoint(p) PROVE Covered'
    <2> PICK b : b = my[p].base
      OBVIOUS
    <2> PICK roots : roots = Evolve(RootsAt(b), b + 1, {}, my[p].cutoff, my[p].resolved)
      OBVIOUS
    <2>1. Publish(p, RefsAt(b), roots, TRUE)
      BY <1>4 DEF PublishCheckpoint
    <2>2. b \in 0 .. Newest
      BY <1>2 DEF Sound, SoundIn, Types, Publications
    <2>3. RefsAt(b) \in RefMaps /\ roots \in SUBSET RootEntries
      <3>1. RefsAt(b) \in RefMaps /\ RootsAt(b) \in SUBSET RootEntries
        BY <1>2, <2>2, StoreTyped
      <3> QED
        BY <3>1 DEF Evolve
    <2>4. ASSUME b = Newest, OneWriter PROVE Holds(RefsAt(b), roots)
      BY <2>3, <2>4, CheckpointCarries, Carried
    <2> QED
      BY <2>1, <2>3, <2>4, PublishCovers
  <1>5. ASSUME NEW p \in Writers, Repair(p), ~UNCHANGED chain PROVE Covered'
    <2> PICK b : b = my[p].target
      OBVIOUS
    <2> PICK top : top = my[p].base
      OBVIOUS
    <2> PICK added : added = {d \in Superseded(b, top) : \A t \in RefTips(RefsAt(b)) : ~(FastForward(p, d.oid, t) /\ t \in have[p])}
      OBVIOUS
    <2> PICK roots : roots = Evolve(RootsAt(b), top + 1, added, None, {})
      OBVIOUS
    <2>1. Publish(p, RefsAt(b), roots, TRUE) /\ my[p].kind = "repair"
      BY <1>5 DEF Repair
    <2>2. top \in 0 .. Newest /\ b \in 1 .. top
      BY <1>2, <2>1 DEF Sound, SoundIn, Types, Publications
    <2>3. RefsAt(b) \in RefMaps /\ roots \in SUBSET RootEntries
      <3>1. added \subseteq Superseded(b, top)
        OBVIOUS
      <3> QED
        BY <1>2, <2>2, <3>1, Repaired
    <2>4. ASSUME top = Newest, OneWriter PROVE Holds(RefsAt(b), roots)
      BY <2>2, <2>4, RepairHolds
    <2> QED
      BY <2>1, <2>3, <2>4, PublishCovers
  <1>6. CASE ~UNCHANGED chain
    <2>1. PICK p \in plan.writers : Push(p) \/ PublishCheckpoint(p) \/ Repair(p)
      BY <1>6 DEF Next, vars, Commit, Fetch, BeginPush, BeginCheckpoint, BeginRepair, Tomorrow
    <2> QED
      BY <1>2, <1>3, <1>4, <1>5, <1>6, <2>1
  <1> QED
    BY <1>1, <1>6

LEMMA Coverage == Spec => []Covered
  <1>1. Init => Covered
    BY DEF Init, Covered, Newest
  <1>2. Planned /\ IInv /\ Covered /\ [Next]_vars => Covered'
    BY NextCovers
  <1> QED
    BY <1>1, <1>2, Invariance, PTL DEF Spec

\* In a vault that one principal writes, every tip that was once on a ref stays
\* covered for the retention days, whatever is pushed, checkpointed or repaired.
THEOREM SoleWriterRetains == Spec => []SoleWriterKeepsTips
  <1>1. Covered /\ IInv => SoleWriterKeepsTips
    <2> SUFFICES ASSUME Covered, IInv, OneWriter, NEW g \in 1 .. Newest - 1, NEW t \in RefTips(RefsAt(g)), NEW k \in g + 1 .. Newest,
                        chain[k].day <= chain[g + 1].day + Retention
                 PROVE  t \in Reach(CoverageTips(RefsAt(k), RootsAt(k)))
      BY DEF SoleWriterKeepsTips, DroppedTipsRetained, Retained, OneWriter
    <2>1. g \in 1 .. Newest
      BY DEF IInv, Shape, Types, Newest
    <2>2. Held(t, g, RefsAt(k), RootsAt(k))
      BY <2>1 DEF Covered
    <2> QED
      BY <2>2 DEF Held, Reach, CoverageTips
  <1> QED
    BY <1>1, Coverage, Invariance, PTL
=============================================================================
