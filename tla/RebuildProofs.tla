---------------------------- MODULE RebuildProofs ----------------------------
(***************************************************************************)
(* Proofs about Rebuild: whatever the history, whichever discs are at hand *)
(* and however many of them are damaged, for rebuilds into a new catalog.  *)
(***************************************************************************)
EXTENDS Rebuild, TLAPS

\* The initial state satisfies the inductive invariant.
LEMMA RebuildInit == Init => RebuildInv
<1> SUFFICES ASSUME Init PROVE RebuildInv
  OBVIOUS
<1>1. NoCatalog \in Catalogs
  BY DEF NoCatalog, Catalogs, Statuses
<1>2. TypeOK
  BY <1>1 DEF Init, TypeOK, Conditions
<1>3. CatalogInv(NoCatalog) /\ \A v \in Volumes : ~Has(NoCatalog, v)
  BY DEF CatalogInv, NoCatalog, Has
<1>4. CatalogInv(cat) /\ CatalogInv(out) /\ \A v \in Volumes : CatalogInv(image[v])
  BY <1>3 DEF Init
<1>5. ClockInv
  BY DEF Init, ClockInv
<1>6. out.known = {} /\ \A v \in Volumes : ~Has(out, v)
  BY <1>3 DEF Init, NoCatalog
<1>7. MergeInv
  BY <1>6 DEF Init, MergeInv
<1>8. FreshestWins /\ NewestSplit /\ PrunedAsFreshest /\ LeftOutBehindTorn
  BY DEF Init, FreshestWins, NewestSplit, PrunedAsFreshest, LeftOutBehindTorn
<1> QED
  BY <1>2, <1>4, <1>5, <1>7, <1>8 DEF RebuildInv

\* While no rebuild runs, what the invariant says of rebuilds holds for want
\* of discs, so the steps of the history keep it.
LEMMA IdleStep ==
    ASSUME RebuildInv, pc = "idle", UNCHANGED running
    PROVE  /\ MergeInv' /\ CatalogInv(out)'
           /\ (FreshestWins /\ NewestSplit /\ PrunedAsFreshest /\ LeftOutBehindTorn)'
<1>1. chosen = {} /\ todo = {} /\ merged = {} /\ ~wedged /\ into = "fresh"
  BY DEF RebuildInv, MergeInv, TypeOK
<1>2. /\ \A v \in Volumes : ~Has(out, v)
      /\ out.known = {}
  BY <1>1 DEF RebuildInv, MergeInv
<1>3. /\ pc' = pc /\ chosen' = {} /\ todo' = {} /\ merged' = {} /\ wedged' = wedged
      /\ into' = into /\ out' = out
  BY <1>1 DEF running
<1>4. MergeInv'
  BY <1>1, <1>2, <1>3 DEF MergeInv, Has
<1>5. CatalogInv(out)'
  BY <1>2, <1>3 DEF CatalogInv, Has, RebuildInv
<1>6. (FreshestWins /\ NewestSplit /\ PrunedAsFreshest /\ LeftOutBehindTorn)'
  BY <1>3 DEF FreshestWins, NewestSplit, PrunedAsFreshest, LeftOutBehindTorn
<1> QED
  BY <1>4, <1>5, <1>6

\* A history step that leaves labels, times and images alone and changes the
\* master catalog to a sound one keeps the invariant.
LEMMA HistoryStep ==
    ASSUME RebuildInv, pc = "idle", UNCHANGED <<label, created, image, running>>,
           cat' \in Catalogs, CatalogInv(cat)',
           now' \in Nat, now' >= now,
           burned \subseteq burned', burned' \in SUBSET Volumes, \A v \in burned' : label[v] # 0
    PROVE  RebuildInv'
<1>1. TypeOK'
  BY DEF RebuildInv, TypeOK, running
<1>2. ClockInv'
  BY DEF RebuildInv, ClockInv, TypeOK
<1>3. \A v \in Volumes : CatalogInv(image[v])'
  BY DEF RebuildInv, CatalogInv, Has
<1> QED
  BY <1>1, <1>2, <1>3, IdleStep DEF RebuildInv

\* A younger disc has the fresher catalog, with its file time or without.
LEMMA YoungerIsFresher ==
    ASSUME TypeOK, ClockInv, NEW d \in Volumes, NEW e \in Volumes, d > e,
           label[d] # 0, mtime[d] \in {0, created[d] + 1}, mtime[e] \in {0, created[e] + 1}
    PROVE  source_freshness(d) > source_freshness(e)
<1>1. created[e] + 1 < created[d] /\ created[d] \in Nat /\ created[e] \in Nat
  BY DEF ClockInv, TypeOK, Volumes
<1>2. source_freshness(e) <= created[e] + 1 /\ source_freshness(e) \in Nat
  BY <1>1 DEF source_freshness
<1>3. source_freshness(d) >= created[d] /\ source_freshness(d) \in Nat
  BY <1>1 DEF source_freshness
<1> QED
  BY <1>1, <1>2, <1>3

\* Staging keeps the invariant: the new volume is the youngest, and no other
\* catalog mentions it.
LEMMA StageKeeps ==
    ASSUME RebuildInv, NEW v \in Volumes, NEW n \in 1..MaxVolumes, Stage(v, n)
    PROVE  RebuildInv'
<1>1. /\ pc = "idle" /\ label[v] = 0 /\ \A w \in Volumes : w < v => label[w] # 0
      /\ label' = [label EXCEPT ![v] = n] /\ created' = [created EXCEPT ![v] = now + 1]
      /\ image' = [image EXCEPT ![v] = cat'] /\ now' = now + 2 /\ burned' = burned
      /\ UNCHANGED running
  BY DEF Stage
<1>2. /\ cat \in Catalogs /\ image \in [Volumes -> Catalogs] /\ n \in Nat /\ n # 0
      /\ now \in Nat /\ label \in [Volumes -> Nat] /\ created \in [Volumes -> Nat]
  BY RebuildAssumption DEF RebuildInv, TypeOK
<1>3. Unarchived \in SUBSET Packs
  BY <1>2 DEF Unarchived, Catalogs
<1>4. cat' = [cat EXCEPT !.status = [cat.status EXCEPT ![v] = "STAGING"],
                         !.links = [cat.links EXCEPT ![v] = Unarchived]]
  BY <1>2 DEF Stage, Catalogs
<1>5. /\ cat'.status = [cat.status EXCEPT ![v] = "STAGING"]
      /\ cat'.links = [cat.links EXCEPT ![v] = Unarchived]
      /\ cat'.copy = cat.copy /\ cat'.known = cat.known /\ cat'.pruned = cat.pruned
      /\ cat' \in Catalogs
  BY <1>2, <1>3, <1>4 DEF Catalogs, Statuses
<1>6. /\ label'[v] = n /\ image'[v] = cat' /\ created'[v] = now + 1
      /\ \A w \in Volumes \ {v} :
            label'[w] = label[w] /\ image'[w] = image[w] /\ created'[w] = created[w]
      /\ image' \in [Volumes -> Catalogs]
  BY <1>1, <1>2, <1>5
<1>7. TypeOK'
  BY <1>1, <1>2, <1>5, <1>6 DEF TypeOK, RebuildInv, running
<1>8. ClockInv'
  <2>1. \A w \in Volumes : v < w => label[w] = 0
    BY <1>1 DEF RebuildInv, ClockInv
  <2>2. \A w \in Volumes : w < v => created[w] + 1 <= now
    BY <1>1 DEF RebuildInv, ClockInv
  <2>3. \A w \in Volumes : label'[w] # 0 => created'[w] + 1 <= now'
    BY <1>1, <1>2, <1>6 DEF RebuildInv, ClockInv
  <2>4. ASSUME NEW u \in Volumes, NEW w \in Volumes, u < w, label'[w] # 0
        PROVE  label'[u] # 0 /\ created'[u] + 1 < created'[w]
    <3>1. CASE w = v
      BY <1>1, <1>2, <1>6, <2>2, <2>4, <3>1 DEF Volumes
    <3>2. CASE w # v
      BY <1>2, <1>6, <2>1, <2>4, <3>2 DEF RebuildInv, ClockInv
    <3> QED
      BY <3>1, <3>2
  <2>5. \A w \in burned' : label'[w] # 0
    BY <1>1, <1>2, <1>6 DEF RebuildInv, ClockInv, TypeOK
  <2> QED
    BY <2>3, <2>4, <2>5 DEF ClockInv
<1>9. CatalogInv(cat)'
  <2>1. /\ cat'.status[v] = "STAGING" /\ cat'.links[v] = image'[v].links[v]
        /\ \A w \in Volumes \ {v} : cat'.status[w] = cat.status[w] /\ cat'.links[w] = cat.links[w]
    BY <1>2, <1>5, <1>6 DEF Catalogs
  <2> QED
    BY <1>1, <1>2, <1>5, <1>6, <2>1 DEF RebuildInv, CatalogInv, Has
<1>10. \A w \in Volumes : CatalogInv(image[w])'
  <2> SUFFICES ASSUME NEW w \in Volumes, w # v PROVE CatalogInv(image[w])'
    BY <1>6, <1>9 DEF CatalogInv, Has
  <2>1. \A u \in Volumes : Has(image[w], u) => u # v
    BY <1>1 DEF RebuildInv, CatalogInv
  <2> QED
    BY <1>1, <1>2, <1>6, <2>1 DEF RebuildInv, CatalogInv, Has
<1> QED
  BY <1>1, <1>7, <1>8, <1>9, <1>10, IdleStep DEF RebuildInv

\* Every other step of the history keeps the invariant.
LEMMA HistoryKeeps ==
    ASSUME RebuildInv,
           \/ \E p \in Packs : Scan(p) \/ Prune(p)
           \/ \E v \in Volumes : Burn(v) \/ Abort(v) \/ Lose(v)
           \/ Split
    PROVE  RebuildInv'
<1>1. /\ cat \in Catalogs /\ CatalogInv(cat) /\ now \in Nat
      /\ burned \in SUBSET Volumes /\ \A v \in burned : label[v] # 0
  BY DEF RebuildInv, TypeOK, ClockInv
<1>2. ASSUME NEW p \in Packs, Scan(p) PROVE RebuildInv'
  <2>1. cat' \in Catalogs /\ CatalogInv(cat)' /\ UNCHANGED <<world, running>> /\ pc = "idle"
    BY <1>1, <1>2 DEF Scan, Catalogs, CatalogInv, Has, world
  <2> QED
    BY <1>1, <2>1, HistoryStep DEF world
<1>3. ASSUME NEW p \in Packs, Prune(p) PROVE RebuildInv'
  <2>1. cat' \in Catalogs /\ CatalogInv(cat)' /\ UNCHANGED <<world, running>> /\ pc = "idle"
    BY <1>1, <1>3 DEF Prune, Catalogs, CatalogInv, Has, world
  <2> QED
    BY <1>1, <2>1, HistoryStep DEF world
<1>4. ASSUME NEW v \in Volumes, Burn(v) PROVE RebuildInv'
  <2>1. /\ pc = "idle" /\ cat.status[v] = "STAGING" /\ burned' = burned \cup {v}
        /\ UNCHANGED <<now, label, created, image, running>>
    BY <1>4 DEF Burn
  <2>2. cat' = [cat EXCEPT !.status = [cat.status EXCEPT ![v] = "VERIFIED"],
                           !.copy = [cat.copy EXCEPT ![v] = "ACTIVE"]]
    BY <1>1, <1>4 DEF Burn, Catalogs
  <2>3. cat' \in Catalogs
    BY <1>1, <2>2 DEF Catalogs, Statuses
  <2>4. CatalogInv(cat)'
    BY <1>1, <2>1, <2>2 DEF CatalogInv, Has, Catalogs
  <2>5. label[v] # 0
    BY <1>1, <2>1 DEF CatalogInv, Has
  <2> QED
    BY <1>1, <2>1, <2>3, <2>4, <2>5, HistoryStep
<1>5. ASSUME NEW v \in Volumes, Abort(v) PROVE RebuildInv'
  <2>1. pc = "idle" /\ cat.copy[v] = "none" /\ UNCHANGED <<world, running>>
    BY <1>5 DEF Abort
  <2>2. cat' = [cat EXCEPT !.status = [cat.status EXCEPT ![v] = "absent"],
                           !.links = [cat.links EXCEPT ![v] = {}]]
    BY <1>1, <1>5 DEF Abort, Catalogs
  <2>3. cat' \in Catalogs
    BY <1>1, <2>2 DEF Catalogs, Statuses
  <2>4. CatalogInv(cat)'
    BY <1>1, <2>1, <2>2 DEF CatalogInv, Has, Catalogs, world
  <2> QED
    BY <1>1, <2>1, <2>3, <2>4, HistoryStep DEF world
<1>6. ASSUME NEW v \in Volumes, Lose(v) PROVE RebuildInv'
  <2>1. pc = "idle" /\ cat.copy[v] = "ACTIVE" /\ UNCHANGED <<world, running>>
    BY <1>6 DEF Lose
  <2>2. cat' = [cat EXCEPT !.status = [cat.status EXCEPT ![v] = "DEPRECATED"],
                           !.copy = [cat.copy EXCEPT ![v] = "DESTROYED"]]
    BY <1>1, <1>6 DEF Lose, Catalogs
  <2>3. cat' \in Catalogs
    BY <1>1, <2>2 DEF Catalogs, Statuses
  <2>4. CatalogInv(cat)'
    BY <1>1, <2>1, <2>2 DEF CatalogInv, Has, Catalogs, world
  <2> QED
    BY <1>1, <2>1, <2>3, <2>4, HistoryStep DEF world
<1>7. ASSUME Split PROVE RebuildInv'
  <2>1. pc = "idle" /\ now' = now + 1 /\ UNCHANGED <<label, created, image, burned, running>>
    BY <1>7 DEF Split
  <2>2. cat' \in Catalogs /\ CatalogInv(cat)'
    BY <1>1, <1>7 DEF Split, Catalogs, CatalogInv, Has
  <2> QED
    BY <1>1, <2>1, <2>2, HistoryStep
<1> QED
  BY <1>2, <1>3, <1>4, <1>5, <1>6, <1>7

\* A rebuild into a new catalog starts from nothing.
LEMMA BeginKeeps ==
    ASSUME RebuildInv, NEW discs \in SUBSET burned,
           NEW state \in [discs -> Conditions], NEW time \in [discs -> FileTimes],
           RebuildBegin("fresh", discs, state, time)
    PROVE  RebuildInv'
<1>1. /\ pc' = "merge" /\ into' = "fresh" /\ out' = NoCatalog
      /\ chosen' = discs /\ todo' = discs /\ merged' = {} /\ wedged' = FALSE
      /\ rebuilds' = rebuilds + 1 /\ UNCHANGED <<world, cat>>
  BY DEF RebuildBegin
<1>2. /\ NoCatalog \in Catalogs /\ CatalogInv(NoCatalog)'
      /\ NoCatalog.known = {} /\ \A v \in Volumes : ~Has(NoCatalog, v)
  BY DEF NoCatalog, Catalogs, Statuses, CatalogInv, Has
<1>3. fresh' = [v \in Volumes |-> 0]
  BY <1>1, <1>2 DEF RebuildBegin
<1>4. condition' \in [Volumes -> Conditions]
  BY DEF RebuildBegin, Conditions
<1>5. mtime' = [d \in Volumes |-> IF d \notin discs \/ time[d] = "lost" THEN 0
                                  ELSE IF time[d] = "copied" THEN now + 1 ELSE created[d] + 1]
  BY DEF RebuildBegin
<1>6. /\ mtime' \in [Volumes -> Nat]
      /\ \A d \in discs : mtime'[d] \in {0, created[d] + 1, now + 1}
  BY <1>5 DEF RebuildInv, TypeOK
<1>7. TypeOK'
  <2>1. /\ discs \in SUBSET Volumes /\ fresh' \in [Volumes -> Nat] /\ rebuilds' \in Nat
        /\ out' \in Catalogs
    BY <1>1, <1>2, <1>3 DEF RebuildInv, TypeOK
  <2>2. /\ now' = now /\ label' = label /\ created' = created /\ image' = image
        /\ burned' = burned /\ cat' = cat
    BY <1>1 DEF world
  <2> QED
    BY <1>1, <1>4, <1>6, <2>1, <2>2 DEF RebuildInv, TypeOK
<1>8. ClockInv'
  BY <1>1 DEF RebuildInv, ClockInv, world
<1>9. CatalogInv(cat)' /\ CatalogInv(out)' /\ \A v \in Volumes : CatalogInv(image[v])'
  BY <1>1, <1>2 DEF RebuildInv, CatalogInv, Has, world
<1>10. MergeInv'
  <2>1. rebuilds' # 0
    BY <1>1 DEF RebuildInv, TypeOK
  <2> QED
    BY <1>1, <1>2, <1>6, <2>1 DEF MergeInv, Has, world
<1>11. (FreshestWins /\ NewestSplit /\ PrunedAsFreshest /\ LeftOutBehindTorn)'
  BY <1>1 DEF FreshestWins, NewestSplit, PrunedAsFreshest, LeftOutBehindTorn
<1> QED
  BY <1>7, <1>8, <1>9, <1>10, <1>11 DEF RebuildInv

\* A catalog copied lately passes for the freshest.
LEMMA CopiedIsFreshest ==
    ASSUME RebuildInv, NEW d \in chosen, NEW e \in chosen, Copied(d)
    PROVE  /\ source_freshness(d) >= source_freshness(e)
           /\ ~Copied(e) => source_freshness(d) > source_freshness(e)
<1>1. /\ d \in Volumes /\ e \in Volumes /\ now \in Nat
      /\ created[d] \in Nat /\ created[e] \in Nat /\ mtime[d] \in Nat /\ mtime[e] \in Nat
      /\ created[d] + 1 <= now /\ created[e] + 1 <= now
      /\ mtime[d] \in {0, created[d] + 1, now + 1} /\ mtime[e] \in {0, created[e] + 1, now + 1}
  BY DEF RebuildInv, MergeInv, ClockInv, TypeOK
<1>2. source_freshness(d) = now + 1
  BY <1>1 DEF source_freshness, Copied
<1>3. source_freshness(e) <= now + 1 /\ (~Copied(e) => source_freshness(e) <= now)
  BY <1>1 DEF source_freshness, Copied
<1> QED
  BY <1>1, <1>2, <1>3 DEF source_freshness

\* The disc merged next is younger than those left and older than those done,
\* as far as no time of a copying tells otherwise.
LEMMA NextIsFreshest ==
    ASSUME RebuildInv, NEW d \in todo, \A e \in todo : Fresher(d, e)
    PROVE  /\ \A e \in todo \ {d} : Copied(d) \/ (d > e /\ ~Copied(e))
           /\ \A e \in chosen \ todo : /\ Copied(e) \/ (e > d /\ ~Copied(d))
                                      /\ source_freshness(e) >= source_freshness(d)
<1>1. /\ todo \subseteq Volumes /\ chosen \subseteq Volumes /\ todo \subseteq chosen
      /\ \A e \in chosen : /\ label[e] # 0 /\ mtime[e] \in {0, created[e] + 1, now + 1}
                           /\ created[e] + 1 <= now /\ created[e] \in Nat /\ now \in Nat
                           /\ source_freshness(e) \in Nat
  BY DEF RebuildInv, MergeInv, ClockInv, TypeOK, source_freshness
<1>2. \A e \in chosen : ~Copied(e) => mtime[e] \in {0, created[e] + 1}
  BY <1>1 DEF Copied
<1>3. ASSUME NEW e \in todo \ {d}, ~Copied(d) PROVE d > e /\ ~Copied(e)
  <2>1. ~Copied(e)
    BY <1>1, <1>3, CopiedIsFreshest DEF Fresher
  <2>2. d > e
    <3> SUFFICES ASSUME ~(d > e) PROVE FALSE
      OBVIOUS
    <3>1. e > d
      BY <1>1 DEF Volumes
    <3>2. source_freshness(e) > source_freshness(d)
      BY <1>1, <1>2, <1>3, <2>1, <3>1, YoungerIsFresher DEF RebuildInv
    <3> QED
      BY <1>1, <3>2 DEF Fresher
  <2> QED
    BY <2>1, <2>2
<1>4. ASSUME NEW e \in chosen \ todo
      PROVE  /\ Copied(e) \/ (e > d /\ ~Copied(d))
             /\ source_freshness(e) >= source_freshness(d)
  <2>1. Copied(e) \/ (e > d /\ ~Copied(d))
    BY DEF RebuildInv, MergeInv
  <2>2. CASE Copied(e)
    BY <1>1, <2>1, <2>2, CopiedIsFreshest
  <2>3. CASE ~Copied(e)
    <3>1. source_freshness(e) > source_freshness(d)
      BY <1>1, <1>2, <2>1, <2>3, YoungerIsFresher DEF RebuildInv
    <3> QED
      BY <1>1, <2>1, <3>1
  <2> QED
    BY <2>2, <2>3
<1> QED
  BY <1>3, <1>4

\* A disc that cannot be merged is left out.
LEMMA SkipKeeps ==
    ASSUME RebuildInv, NEW d \in Volumes, MergeSkip(d)
    PROVE  RebuildInv'
<1>1. /\ d \in todo /\ \A e \in todo : Fresher(d, e)
      /\ condition[d] # "fine" \/ wedged
      /\ todo' = todo \ {d} /\ wedged' = (wedged \/ condition[d] = "torn")
      /\ UNCHANGED <<world, cat, pc, into, out, fresh, chosen, condition, mtime, merged, rebuilds>>
  BY DEF MergeSkip
<1>2. TypeOK'
  BY <1>1 DEF RebuildInv, TypeOK, world
<1>3. ClockInv'
  BY <1>1 DEF RebuildInv, ClockInv, world
<1>4. CatalogInv(cat)' /\ CatalogInv(out)' /\ \A v \in Volumes : CatalogInv(image[v])'
  BY <1>1 DEF RebuildInv, CatalogInv, Has, world
<1>5. MergeInv'
  <2>1. \A x \in chosen \ todo', e \in todo' : Copied(x) \/ (x > e /\ ~Copied(e))
    BY <1>1, NextIsFreshest DEF RebuildInv, MergeInv
  <2>2. wedged' => \E e \in chosen \ todo' : condition[e] = "torn"
    BY <1>1 DEF RebuildInv, MergeInv
  <2>3. todo' \subseteq chosen /\ merged \subseteq chosen \ todo'
    BY <1>1 DEF RebuildInv, MergeInv
  <2>4. \A v \in Volumes : source_freshness(v)' = source_freshness(v) /\ (Copied(v)' <=> Copied(v))
    BY <1>1 DEF source_freshness, Copied, world
  <2>5. \A x \in chosen \ todo', e \in todo' : Copied(x)' \/ (x > e /\ ~Copied(e)')
    BY <1>1, <2>1 DEF Copied, world
  <2> QED
    BY <1>1, <2>2, <2>3, <2>4, <2>5 DEF RebuildInv, MergeInv, Has, world, TypeOK
<1>6. LeftOutBehindTorn'
  <2>1. condition[d] = "fine" => \E e \in chosen : condition[e] = "torn" /\ (e > d \/ Copied(e))
    BY <1>1, NextIsFreshest DEF RebuildInv, MergeInv
  <2> QED
    BY <1>1, <2>1 DEF RebuildInv, LeftOutBehindTorn, Copied, world
<1>7. (FreshestWins /\ NewestSplit /\ PrunedAsFreshest)'
  BY <1>1 DEF RebuildInv, FreshestWins, NewestSplit, PrunedAsFreshest, Has, Copied, world
<1> QED
  BY <1>2, <1>3, <1>4, <1>5, <1>6, <1>7 DEF RebuildInv

\* The finished catalog becomes the master catalog.
LEMMA EndKeeps ==
    ASSUME RebuildInv, RebuildEnd
    PROVE  RebuildInv'
<1>1. /\ cat' = out /\ pc' = "idle" /\ into' = "fresh" /\ out' = NoCatalog
      /\ fresh' = [v \in Volumes |-> 0] /\ mtime' = [v \in Volumes |-> 0]
      /\ condition' = [v \in Volumes |-> "fine"] /\ chosen' = {} /\ merged' = {} /\ todo' = {}
      /\ wedged' = FALSE /\ UNCHANGED <<world, rebuilds>>
  BY DEF RebuildEnd
<1>2. /\ NoCatalog \in Catalogs /\ CatalogInv(NoCatalog)'
      /\ NoCatalog.known = {} /\ \A v \in Volumes : ~Has(NoCatalog, v)
  BY DEF NoCatalog, Catalogs, Statuses, CatalogInv, Has
<1>3. TypeOK'
  BY <1>1, <1>2 DEF RebuildInv, TypeOK, world, Conditions
<1>4. ClockInv'
  BY <1>1 DEF RebuildInv, ClockInv, world
<1>5. CatalogInv(cat)' /\ CatalogInv(out)' /\ \A v \in Volumes : CatalogInv(image[v])'
  BY <1>1, <1>2 DEF RebuildInv, CatalogInv, Has, world
<1>6. MergeInv'
  BY <1>1, <1>2 DEF MergeInv, Has
<1>7. (FreshestWins /\ NewestSplit /\ PrunedAsFreshest /\ LeftOutBehindTorn)'
  BY <1>1 DEF FreshestWins, NewestSplit, PrunedAsFreshest, LeftOutBehindTorn
<1> QED
  BY <1>3, <1>4, <1>5, <1>6, <1>7 DEF RebuildInv

\* Merging an older catalog changes no row that is there: it adds the rows,
\* links and packs that no younger catalog has.
LEMMA MergeFacts ==
    ASSUME RebuildInv, NEW d \in Volumes, MergeDisc(d)
    PROVE  /\ out' \in Catalogs /\ fresh' \in [Volumes -> Nat]
           /\ out'.known = out.known \cup image[d].known
           /\ out'.pruned = out.pruned \cup (image[d].pruned \ out.known)
           /\ out'.split >= out.split /\ out'.split >= image[d].split
           /\ \A v \in Volumes :
                 IF v \in NewRows(out, image[d])
                 THEN /\ out'.status[v] = image[d].status[v] /\ out'.copy[v] = image[d].copy[v]
                      /\ out'.links[v] = image[d].links[v]
                      /\ fresh'[v] = source_freshness(d)
                 ELSE /\ out'.status[v] = out.status[v] /\ out'.links[v] = out.links[v]
                      /\ out'.copy[v] # out.copy[v] => Has(out, v) /\ out.copy[v] = "none"
                      /\ Has(out, v) => fresh'[v] = fresh[v]
<1> DEFINE s == image[d]
           f == source_freshness(d)
           new == NewRows(out, s)
           rows == {v \in Volumes : Has(s, v) /\ (Has(out, v) \/ v \in new)}
<1>1. /\ d \in todo /\ \A e \in todo : Fresher(d, e)
      /\ out' = merge_one_disc(out, s, f) /\ fresh' = FreshAfter(out, s, f)
  BY DEF MergeDisc
<1>2. out \in Catalogs /\ s \in Catalogs /\ fresh \in [Volumes -> Nat] /\ f \in Nat
  BY DEF RebuildInv, TypeOK, source_freshness
<1>3. \A v \in Volumes : Has(out, v) => ~(f > fresh[v])
  <2> SUFFICES ASSUME NEW v \in Volumes, Has(out, v) PROVE ~(f > fresh[v])
    OBVIOUS
  <2>1. PICK e \in merged : fresh[v] >= source_freshness(e)
    BY DEF RebuildInv, MergeInv
  <2>2. e \in Volumes /\ e \in chosen \ todo
    BY DEF RebuildInv, MergeInv, TypeOK
  <2>3. source_freshness(e) >= f /\ source_freshness(e) \in Nat
    BY <1>1, <2>2, NextIsFreshest DEF RebuildInv, TypeOK, source_freshness
  <2> QED
    BY <1>2, <2>1, <2>3
<1>4. StatusWins(out, s, f) = {}
  BY <1>3 DEF StatusWins
<1>5. /\ out'.status = [v \in Volumes |-> IF v \in new THEN s.status[v] ELSE out.status[v]]
      /\ out'.copy = [v \in Volumes |->
            IF v \in rows /\ out.copy[v] = "none" THEN s.copy[v] ELSE out.copy[v]]
      /\ out'.links = [v \in Volumes |->
            IF v \in rows THEN out.links[v] \cup s.links[v] ELSE out.links[v]]
      /\ out'.known = out.known \cup s.known
      /\ out'.pruned = PrunedAfter(out, s) /\ out'.split = SplitAfter(out, s)
  BY <1>1, <1>4 DEF merge_one_disc
<1>6. out' \in Catalogs
  <2>1. /\ [v \in Volumes |-> IF v \in new THEN s.status[v] ELSE out.status[v]] \in [Volumes -> Statuses]
        /\ [v \in Volumes |-> IF v \in rows /\ out.copy[v] = "none" THEN s.copy[v] ELSE out.copy[v]]
              \in [Volumes -> {"none", "ACTIVE", "DESTROYED"}]
        /\ [v \in Volumes |-> IF v \in rows THEN out.links[v] \cup s.links[v] ELSE out.links[v]]
              \in [Volumes -> SUBSET Packs]
    BY <1>2 DEF Catalogs
  <2>2. /\ out.known \cup s.known \in SUBSET Packs /\ PrunedAfter(out, s) \in SUBSET Packs
        /\ SplitAfter(out, s) \in Nat
    BY <1>2 DEF Catalogs, PrunedAfter, SplitAfter
  <2> QED
    BY <1>1, <1>4, <2>1, <2>2 DEF merge_one_disc, Catalogs
<1>7. fresh' \in [Volumes -> Nat]
  BY <1>1, <1>2 DEF FreshAfter
<1>8. out'.split >= out.split /\ out'.split >= s.split
  BY <1>2, <1>5 DEF SplitAfter, Catalogs
<1>9. ASSUME NEW v \in Volumes, v \in new
      PROVE  /\ out'.status[v] = s.status[v] /\ out'.copy[v] = s.copy[v]
             /\ out'.links[v] = s.links[v] /\ fresh'[v] = f
  <2>1. Has(s, v) /\ ~Has(out, v) /\ v \in rows
    BY <1>9 DEF NewRows
  <2>2. out.copy[v] = "none" /\ out.links[v] = {}
    BY <2>1 DEF RebuildInv, CatalogInv
  <2> QED
    BY <1>1, <1>5, <1>9, <2>1, <2>2 DEF FreshAfter
<1>10. ASSUME NEW v \in Volumes, v \notin new
       PROVE  /\ out'.status[v] = out.status[v] /\ out'.links[v] = out.links[v]
              /\ out'.copy[v] # out.copy[v] => Has(out, v) /\ out.copy[v] = "none"
              /\ Has(out, v) => fresh'[v] = fresh[v]
  <2>1. v \in rows => Has(out, v) /\ out.links[v] = s.links[v]
    BY <1>10 DEF RebuildInv, CatalogInv
  <2>2. Has(out, v) => fresh'[v] = fresh[v]
    BY <1>1, <1>3 DEF FreshAfter
  <2>3. out'.links[v] = out.links[v]
    <3>1. v \in rows => out.links[v] \cup s.links[v] = out.links[v]
      BY <2>1, Zenon
    <3> QED
      BY <1>5, <3>1
  <2>4. out'.status[v] = out.status[v]
    BY <1>5, <1>10
  <2>5. out'.copy[v] # out.copy[v] => v \in rows /\ out.copy[v] = "none"
    BY <1>5
  <2> QED
    BY <2>1, <2>2, <2>3, <2>4, <2>5
<1> QED
  BY <1>5, <1>6, <1>7, <1>8, <1>9, <1>10 DEF PrunedAfter

\* A merge keeps the invariant.
LEMMA MergeKeeps ==
    ASSUME RebuildInv, NEW d \in Volumes, MergeDisc(d)
    PROVE  RebuildInv'
<1> DEFINE s == image[d]
           new == NewRows(out, s)
<1>1. /\ d \in todo /\ \A e \in todo : Fresher(d, e)
      /\ todo' = todo \ {d} /\ merged' = merged \cup {d}
      /\ UNCHANGED <<world, cat, pc, into, chosen, condition, mtime, wedged, rebuilds>>
  BY DEF MergeDisc
<1>2. /\ now' = now /\ label' = label /\ created' = created /\ image' = image /\ burned' = burned
  BY <1>1 DEF world
<1>3. /\ \A e \in todo \ {d} : Copied(d) \/ (d > e /\ ~Copied(e))
      /\ \A e \in merged : (Copied(e) \/ e > d) /\ e \in Volumes /\ e # d
      /\ d \in Volumes
  BY <1>1, NextIsFreshest DEF RebuildInv, MergeInv, TypeOK, Volumes
<1>4. /\ \A v \in Volumes : Has(out', v) <=> Has(out, v) \/ v \in new
      /\ \A v \in new : v \in Volumes /\ Has(s, v) /\ ~Has(out, v)
                        /\ \A w \in Volumes : Has(out, w) => label[w] # label[v]
      /\ CatalogInv(out) /\ CatalogInv(s)
  BY MergeFacts DEF NewRows, Has, RebuildInv
<1>5. TypeOK'
  BY <1>1, <1>2, MergeFacts DEF RebuildInv, TypeOK
<1>6. ClockInv'
  BY <1>2 DEF RebuildInv, ClockInv
<1>7. CatalogInv(cat)' /\ \A v \in Volumes : CatalogInv(image[v])'
  BY <1>1, <1>2 DEF RebuildInv, CatalogInv, Has
<1>8. CatalogInv(out)'
  <2>1. out'.pruned \subseteq out'.known
    BY <1>4, MergeFacts DEF CatalogInv
  <2>2. ASSUME NEW v \in Volumes
        PROVE  /\ Has(out', v) => label[v] # 0 /\ out'.links[v] = image[v].links[v]
               /\ ~Has(out', v) => out'.copy[v] = "none" /\ out'.links[v] = {}
               /\ out'.status[v] = "VERIFIED" => out'.copy[v] = "ACTIVE" /\ v \in burned
    <3>1. CASE v \in new
      BY <1>4, <3>1, MergeFacts DEF CatalogInv
    <3>2. CASE v \notin new
      <4>1. /\ out'.status[v] = out.status[v] /\ out'.links[v] = out.links[v]
            /\ out'.copy[v] # out.copy[v] => Has(out, v) /\ out.copy[v] = "none"
        BY <3>2, MergeFacts
      <4> QED
        BY <1>4, <3>2, <4>1 DEF CatalogInv
    <3> QED
      BY <3>1, <3>2
  <2> QED
    BY <1>2, <2>1, <2>2 DEF CatalogInv, Has
<1>9. MergeInv'
  <2>1. \A v \in Volumes : source_freshness(v)' = source_freshness(v)
    BY <1>1, <1>2 DEF source_freshness
  <2>2. \A x \in chosen \ todo', e \in todo' : (Copied(x) \/ (x > e /\ ~Copied(e)))'
    <3>1. \A x \in chosen \ todo', e \in todo' : Copied(x) \/ (x > e /\ ~Copied(e))
      BY <1>1, <1>3 DEF RebuildInv, MergeInv
    <3> QED
      BY <1>1, <1>2, <3>1 DEF Copied
  <2>3. /\ todo' \subseteq chosen /\ merged' \subseteq chosen \ todo' /\ chosen \subseteq burned
        /\ wedged => \E e \in chosen \ todo' : condition[e] = "torn"
        /\ (pc = "idle" => chosen = {}) /\ (pc = "merge" => rebuilds # 0)
        /\ into = "fresh" /\ \A e \in chosen : mtime[e] \in {0, created[e] + 1, now + 1}
    BY <1>1, <1>3 DEF RebuildInv, MergeInv
  <2>4. ASSUME NEW v \in Volumes, Has(out', v)
        PROVE  \E e \in merged' : Has(image[e], v) /\ fresh'[v] >= source_freshness(e)
    <3>1. CASE v \in new
      <4>1. fresh'[v] = source_freshness(d) /\ source_freshness(d) \in Nat
        BY <3>1, MergeFacts DEF source_freshness, RebuildInv, TypeOK
      <4> QED
        BY <1>1, <1>4, <3>1, <4>1
    <3>2. CASE v \notin new
      BY <1>1, <1>4, <2>4, <3>2, MergeFacts DEF RebuildInv, MergeInv
    <3> QED
      BY <3>1, <3>2
  <2>5. ASSUME NEW e \in merged', NEW v \in Volumes, Has(image[e], v)
        PROVE  \E w \in Volumes : Has(out', w) /\ label[w] = label[v]
    <3>1. CASE e \in merged
      BY <1>4, <2>5, <3>1 DEF RebuildInv, MergeInv
    <3>2. CASE e = d
      BY <1>4, <2>5, <3>2 DEF NewRows
    <3> QED
      BY <1>1, <3>1, <3>2
  <2>6. /\ \A p \in out'.known : \E e \in merged' : p \in image[e].known
        /\ \A e \in merged' : image[e].known \subseteq out'.known
    BY <1>1, MergeFacts DEF RebuildInv, MergeInv
  <2>7. merged' \subseteq Volumes
    BY <1>1, <1>3
  <2> QED
    BY <1>1, <1>2, <2>1, <2>2, <2>3, <2>4, <2>5, <2>6, <2>7 DEF MergeInv, Has
<1>10. FreshestWins'
  <2> SUFFICES ASSUME NEW v \in Volumes, NEW x \in merged', Has(out', v), Has(image[x], v),
                      \A e \in merged' \ {x} : Has(image[e], v) => e < x /\ ~Copied(e)
               PROVE  out'.status[v] = image[x].status[v]
    BY <1>1, <1>2 DEF FreshestWins, Has, Copied
  <2>1. CASE v \in new
    <3>1. x = d
      BY <1>1, <1>4, <2>1 DEF RebuildInv, MergeInv
    <3> QED
      BY <2>1, <3>1, MergeFacts
  <2>2. CASE v \notin new
    <3>1. Has(out, v) /\ out'.status[v] = out.status[v]
      BY <1>4, <2>2, MergeFacts
    <3>2. PICK e \in merged : Has(image[e], v)
      BY <3>1 DEF RebuildInv, MergeInv
    <3>3. x \in merged
      <4> SUFFICES ASSUME x = d PROVE FALSE
        BY <1>1
      <4>1. e \in merged' \ {x} /\ e \in Volumes
        BY <1>1, <1>3
      <4>2. e < d /\ ~Copied(e)
        BY <3>2, <4>1
      <4> QED
        BY <1>3, <4>1, <4>2 DEF Volumes
    <3>4. \A w \in merged \ {x} : Has(image[w], v) => w < x /\ ~Copied(w)
      BY <1>1
    <3> QED
      BY <3>1, <3>3, <3>4 DEF RebuildInv, FreshestWins
  <2> QED
    BY <2>1, <2>2
<1>11. NewestSplit'
  <2>1. out \in Catalogs /\ out' \in Catalogs /\ \A e \in Volumes : image[e] \in Catalogs
    BY MergeFacts DEF RebuildInv, TypeOK
  <2>2. out.split \in Nat /\ out'.split \in Nat /\ \A e \in Volumes : image[e].split \in Nat
    BY <2>1 DEF Catalogs
  <2>3. \A e \in merged : image[e].split <= out'.split
    BY <1>3, <2>2, MergeFacts DEF RebuildInv, NewestSplit
  <2>4. image[d].split <= out'.split
    BY <2>2, MergeFacts
  <2> QED
    BY <1>1, <1>2, <2>3, <2>4 DEF NewestSplit
<1>12. PrunedAsFreshest'
  <2> SUFFICES ASSUME NEW p \in Packs, NEW x \in merged', p \in image[x].known,
                      \A e \in merged' \ {x} : p \in image[e].known => e < x /\ ~Copied(e)
               PROVE  p \in out'.pruned <=> p \in image[x].pruned
    BY <1>1, <1>2 DEF PrunedAsFreshest, Copied
  <2>1. out'.pruned = out.pruned \cup (s.pruned \ out.known)
    BY MergeFacts
  <2>2. CASE p \in out.known
    <3>1. PICK e \in merged : p \in image[e].known
      BY <2>2 DEF RebuildInv, MergeInv
    <3>2. x \in merged
      <4> SUFFICES ASSUME x = d PROVE FALSE
        BY <1>1
      <4>1. e \in merged' \ {x} /\ e \in Volumes
        BY <1>1, <1>3
      <4>2. e < d /\ ~Copied(e)
        BY <3>1, <4>1
      <4> QED
        BY <1>3, <4>1, <4>2 DEF Volumes
    <3>3. \A w \in merged \ {x} : p \in image[w].known => w < x /\ ~Copied(w)
      BY <1>1
    <3> QED
      BY <2>1, <2>2, <3>2, <3>3 DEF RebuildInv, PrunedAsFreshest
  <2>3. CASE p \notin out.known
    <3>1. x = d
      BY <1>1, <2>3 DEF RebuildInv, MergeInv
    <3>2. p \notin out.pruned
      BY <1>4, <2>3 DEF CatalogInv
    <3> QED
      BY <2>1, <2>3, <3>1, <3>2
  <2> QED
    BY <2>2, <2>3
<1>13. LeftOutBehindTorn'
  BY <1>1, <1>2 DEF RebuildInv, LeftOutBehindTorn, Copied
<1> QED
  BY <1>5, <1>6, <1>7, <1>8, <1>9, <1>10, <1>11, <1>12, <1>13 DEF RebuildInv

\* Every step keeps the inductive invariant, if rebuilds write a new catalog.
LEMMA RebuildStep ==
    ASSUME Targets = {"fresh"}, RebuildInv, [Next]_vars
    PROVE  RebuildInv'
<1>1. CASE UNCHANGED vars
  <2>1. UNCHANGED <<now, label, created, image, burned, cat, pc, into, out, fresh, chosen,
                    condition, mtime, todo, merged, wedged, rebuilds>>
    BY <1>1 DEF vars, world, running
  <2> QED
    BY <2>1 DEF RebuildInv, TypeOK, ClockInv, CatalogInv, MergeInv, FreshestWins, NewestSplit,
       PrunedAsFreshest, LeftOutBehindTorn, Has, source_freshness, Copied
<1>2. ASSUME NEW target \in Targets, NEW discs \in (SUBSET burned) \ {{}},
             NEW state \in [discs -> Conditions], NEW time \in [discs -> FileTimes],
             RebuildBegin(target, discs, state, time)
      PROVE  RebuildInv'
  BY <1>2, BeginKeeps
<1>3. ASSUME NEW d \in Volumes, MergeSkip(d) \/ MergeDisc(d) PROVE RebuildInv'
  BY <1>3, SkipKeeps, MergeKeeps
<1> QED
  BY <1>1, <1>2, <1>3, StageKeeps, HistoryKeeps, EndKeeps DEF Next

\* The inductive invariant holds in every history of rebuilds into a new
\* catalog, for any number of volumes, packs, rebuilds and damaged discs.
THEOREM RebuildInvariance ==
    ASSUME Targets = {"fresh"}
    PROVE  Spec => []RebuildInv
<1>1. RebuildInv /\ [Next]_vars => RebuildInv'
  BY RebuildStep
<1> QED
  BY <1>1, RebuildInit, PTL DEF Spec

\* Every volume gets the status that the youngest merged catalog with that
\* volume has, as long as no older one bears the time of a later copying;
\* the youngest may, and any may have lost its time.
THEOREM FreshestCatalogWins ==
    ASSUME Targets = {"fresh"}
    PROVE  Spec => []FreshestWins
<1>1. RebuildInv => FreshestWins
  BY DEF RebuildInv
<1> QED
  BY <1>1, RebuildInvariance, PTL

\* A VERIFIED volume has a disc in service, in the catalog and in the world,
\* and exactly the packs that were mastered onto it, after any rebuilds.
THEOREM ArchivedStaysOnDisc ==
    ASSUME Targets = {"fresh"}
    PROVE  Spec => []ArchivedIsOnDisc
<1>1. RebuildInv => ArchivedIsOnDisc
  BY DEF RebuildInv, ArchivedIsOnDisc, CatalogInv, Has
<1> QED
  BY <1>1, RebuildInvariance, PTL

\* The rebuilt catalog knows the latest split that any merged disc knows.
THEOREM LatestSplitKept ==
    ASSUME Targets = {"fresh"}
    PROVE  Spec => []NewestSplit
<1>1. RebuildInv => NewestSplit
  BY DEF RebuildInv
<1> QED
  BY <1>1, RebuildInvariance, PTL

\* A pack is pruned as the youngest merged catalog that knows it says, as long
\* as no older one that knows it bears the time of a later copying.
THEOREM PrunedFollowsFreshest ==
    ASSUME Targets = {"fresh"}
    PROVE  Spec => []PrunedAsFreshest
<1>1. RebuildInv => PrunedAsFreshest
  BY DEF RebuildInv
<1> QED
  BY <1>1, RebuildInvariance, PTL

\* A readable disc is left out only behind a torn disc that is younger or bears
\* the time of a later copying.
THEOREM OnlyTornDiscsBlock ==
    ASSUME Targets = {"fresh"}
    PROVE  Spec => []LeftOutBehindTorn
<1>1. RebuildInv => LeftOutBehindTorn
  BY DEF RebuildInv
<1> QED
  BY <1>1, RebuildInvariance, PTL

\* Every step keeps the order of the labels.
LEMMA LabelStep ==
    ASSUME RebuildInv, LabelInv, [Next]_vars
    PROVE  LabelInv'
<1> DEFINE before == rebuilds = 0 \/ (rebuilds = 1 /\ pc = "merge")
<1>1. /\ cat \in Catalogs /\ CatalogInv(cat) /\ rebuilds \in Nat /\ pc \in {"idle", "merge"}
      /\ image \in [Volumes -> Catalogs] /\ label \in [Volumes -> Nat]
  BY DEF RebuildInv, TypeOK
<1>2. ASSUME UNCHANGED <<label, image, burned>>, before' => before,
             before => \A v \in Volumes : /\ Has(cat', v) => Has(cat, v)
                                          /\ v \in burned => cat'.copy[v] # "none"
      PROVE  LabelInv'
  BY <1>1, <1>2 DEF LabelInv, Has, RebuildInv, TypeOK
<1>3. ASSUME NEW v \in Volumes, NEW n \in 1..MaxVolumes, Stage(v, n) PROVE LabelInv'
  <2> SUFFICES ASSUME before PROVE LabelInv'
    BY <1>3 DEF Stage, running, LabelInv
  <2>1. /\ label[v] = 0 /\ label' = [label EXCEPT ![v] = n]
        /\ image' = [image EXCEPT ![v] = cat'] /\ burned' = burned
        /\ \A w \in Volumes : Has(cat, w) => label[w] < n
    BY <1>3 DEF Stage, next_seq_num
  <2>2. cat' = [cat EXCEPT !.status = [cat.status EXCEPT ![v] = "STAGING"],
                           !.links = [cat.links EXCEPT ![v] = Unarchived]]
    BY <1>1, <1>3 DEF Stage, Catalogs
  <2>3. /\ cat'.copy = cat.copy
        /\ \A w \in Volumes : Has(cat', w) <=> w = v \/ Has(cat, w)
    BY <1>1, <2>2 DEF Catalogs, Has
  <2>4. /\ label'[v] = n /\ image'[v] = cat' /\ n \in Nat
        /\ \A w \in Volumes \ {v} : label'[w] = label[w] /\ image'[w] = image[w]
    BY <1>1, <2>1, RebuildAssumption
  <2>5. ASSUME NEW w \in Volumes, Has(cat, w) PROVE w # v /\ w < v
    <3>1. label[w] # 0
      BY <1>1, <2>5 DEF CatalogInv
    <3> QED
      BY <2>1, <3>1 DEF RebuildInv, ClockInv, Volumes
  <2>6. ASSUME NEW u \in Volumes, NEW w \in Volumes, Has(cat', u), Has(cat', w), u < w
        PROVE  label'[u] < label'[w] /\ Has(image'[w], u)
    <3>1. u # v /\ Has(cat, u)
      BY <2>3, <2>5, <2>6 DEF Volumes
    <3>2. CASE w = v
      BY <2>1, <2>4, <2>6, <3>1, <3>2
    <3>3. CASE w # v
      BY <2>3, <2>4, <2>6, <3>1, <3>3 DEF LabelInv
    <3> QED
      BY <3>2, <3>3
  <2>7. ASSUME NEW e \in Volumes, Has(cat', e)
        PROVE  /\ Has(image'[e], e)
               /\ \A u \in Volumes : Has(image'[e], u) => label'[u] <= label'[e]
               /\ \A u, w \in Volumes : Has(image'[e], u) /\ Has(image'[e], w) /\ u # w =>
                     label'[u] # label'[w]
    <3>1. CASE e = v
      <4>1. image'[e] = cat'
        BY <2>4, <3>1
      <4>2. \A u, w \in Volumes : u < w /\ Has(cat', u) /\ Has(cat', w) => label'[u] # label'[w]
        BY <1>1, <2>1, <2>6
      <4>3. \A u \in Volumes : Has(cat', u) => label'[u] <= n
        <5> SUFFICES ASSUME NEW u \in Volumes, Has(cat', u), u # v PROVE label'[u] <= n
          BY <2>4
        <5>1. label[u] < n /\ label[u] \in Nat /\ label'[u] = label[u]
          BY <1>1, <2>1, <2>3, <2>4
        <5> QED
          BY <2>4, <5>1
      <4> QED
        BY <2>4, <2>7, <3>1, <4>1, <4>2, <4>3 DEF Volumes
    <3>2. CASE e # v
      <4>1. image'[e] = image[e] /\ Has(cat, e)
        BY <2>3, <2>4, <2>7, <3>2
      <4>2. \A u \in Volumes : Has(image[e], u) => u # v
        BY <2>1 DEF RebuildInv, CatalogInv
      <4> QED
        BY <2>4, <4>1, <4>2 DEF LabelInv
    <3> QED
      BY <3>1, <3>2
  <2> QED
    BY <2>1, <2>3, <2>6, <2>7 DEF LabelInv, Has
<1>4. ASSUME NEW p \in Packs, Scan(p) \/ Prune(p) PROVE LabelInv'
  BY <1>1, <1>2, <1>4 DEF Scan, Prune, Has, Catalogs, world, running, LabelInv
<1>5. ASSUME NEW v \in Volumes, Burn(v) PROVE LabelInv'
  <2>1. /\ cat'.copy = [cat.copy EXCEPT ![v] = "ACTIVE"]
        /\ cat'.status = [cat.status EXCEPT ![v] = "VERIFIED"] /\ cat.status[v] = "STAGING"
        /\ burned' = burned \cup {v} /\ UNCHANGED <<label, image, rebuilds, pc>>
    BY <1>1, <1>5 DEF Burn, Catalogs, running
  <2>2. \A w \in Volumes : Has(cat', w) <=> Has(cat, w)
    BY <1>1, <2>1 DEF Has, Catalogs
  <2>3. before => \A w \in burned' : cat'.copy[w] # "none"
    BY <1>1, <2>1 DEF Catalogs, LabelInv, RebuildInv, TypeOK
  <2> QED
    BY <2>1, <2>2, <2>3 DEF LabelInv, Has
<1>6. ASSUME NEW v \in Volumes, Abort(v) PROVE LabelInv'
  <2>1. /\ cat'.copy = cat.copy /\ cat'.status = [cat.status EXCEPT ![v] = "absent"]
        /\ UNCHANGED <<label, image, burned, rebuilds, pc>>
    BY <1>1, <1>6 DEF Abort, Catalogs, running, world
  <2> QED
    BY <1>1, <1>2, <2>1 DEF Has, Catalogs, LabelInv
<1>7. ASSUME NEW v \in Volumes, Lose(v) PROVE LabelInv'
  <2>1. /\ cat.copy[v] = "ACTIVE" /\ cat'.copy = [cat.copy EXCEPT ![v] = "DESTROYED"]
        /\ cat'.status = [cat.status EXCEPT ![v] = "DEPRECATED"]
        /\ UNCHANGED <<label, image, burned, rebuilds, pc>>
    BY <1>1, <1>7 DEF Lose, Catalogs, running, world
  <2>2. Has(cat, v)
    BY <1>1, <2>1 DEF CatalogInv
  <2> QED
    BY <1>1, <1>2, <2>1, <2>2 DEF Has, Catalogs, LabelInv, RebuildInv, TypeOK
<1>8. ASSUME Split PROVE LabelInv'
  BY <1>1, <1>2, <1>8 DEF Split, Has, Catalogs, running, LabelInv
<1>9. ASSUME \/ \E target \in Targets, discs \in (SUBSET burned) \ {{}} :
                   \E state \in [discs -> Conditions], time \in [discs -> FileTimes] :
                      RebuildBegin(target, discs, state, time)
             \/ \E d \in Volumes : MergeSkip(d) \/ MergeDisc(d)
      PROVE  LabelInv'
  <2>1. UNCHANGED <<cat, label, image, burned>>
    BY <1>9 DEF RebuildBegin, MergeSkip, MergeDisc, world
  <2>2. (rebuilds' = rebuilds /\ pc' = pc) \/ rebuilds' = rebuilds + 1
    BY <1>9 DEF RebuildBegin, MergeSkip, MergeDisc
  <2>3. before' => before
    BY <1>1, <2>2
  <2> QED
    BY <1>2, <2>1, <2>3 DEF LabelInv
<1>10. ASSUME RebuildEnd PROVE LabelInv'
  <2>1. pc = "merge" /\ pc' = "idle" /\ rebuilds' = rebuilds
    BY <1>10 DEF RebuildEnd
  <2>2. rebuilds # 0
    BY <2>1 DEF RebuildInv, MergeInv
  <2> QED
    BY <1>1, <2>1, <2>2 DEF LabelInv
<1>11. CASE UNCHANGED vars
  BY <1>2, <1>11 DEF vars, world, running, LabelInv
<1> QED
  BY <1>3, <1>4, <1>5, <1>6, <1>7, <1>8, <1>9, <1>10, <1>11 DEF Next

\* A merge of the first rebuild adds the disc's own volume.
LEMMA RememberStep ==
    ASSUME Targets = {"fresh"}, RebuildInv, LabelInv, NoDiscForgotten, [Next]_vars
    PROVE  NoDiscForgotten'
<1>1. ASSUME NEW d \in Volumes, MergeDisc(d) PROVE NoDiscForgotten'
  <2> SUFFICES ASSUME rebuilds = 1 PROVE \A e \in merged' : Has(out', e)
    BY <1>1 DEF NoDiscForgotten, MergeDisc, Has
  <2>1. /\ pc = "merge" /\ d \in todo /\ \A e \in todo : Fresher(d, e)
        /\ merged' = merged \cup {d}
    BY <1>1 DEF MergeDisc
  <2>2. \A v \in Volumes : Has(out', v) <=> Has(out, v) \/ v \in NewRows(out, image[d])
    BY <1>1, MergeFacts DEF NewRows, Has
  <2>3. \A e \in chosen : e \in Volumes /\ Has(cat, e)
    BY <2>1 DEF RebuildInv, MergeInv, LabelInv, CatalogInv, TypeOK
  <2>4. d \in chosen /\ merged \subseteq chosen /\ \A e \in merged : e # d
    BY <2>1 DEF RebuildInv, MergeInv
  <2>5. Has(image[d], d)
    BY <2>1, <2>3, <2>4 DEF LabelInv
  <2>6. ~Has(out, d) => d \in NewRows(out, image[d])
    <3> SUFFICES ASSUME ~Has(out, d), NEW w \in Volumes, Has(out, w) PROVE label[w] # label[d]
      BY <2>5 DEF NewRows
    <3>1. PICK e \in merged : Has(image[e], w)
      BY DEF RebuildInv, MergeInv
    <3>2. e \in Volumes /\ Has(cat, e) /\ Has(cat, d) /\ (d < e \/ e < d)
      BY <2>3, <2>4 DEF Volumes
    <3>3. CASE d < e
      <4>1. Has(image[e], d)
        BY <2>1, <3>2, <3>3 DEF LabelInv
      <4> QED
        BY <2>1, <3>1, <3>2, <4>1 DEF LabelInv
    <3>4. CASE e < d
      <4>1. label[w] <= label[e] /\ label[e] < label[d]
        BY <2>1, <3>1, <3>2, <3>4 DEF LabelInv
      <4>2. label[w] \in Nat /\ label[e] \in Nat /\ label[d] \in Nat
        BY <3>2 DEF RebuildInv, TypeOK
      <4> QED
        BY <4>1, <4>2
    <3> QED
      BY <3>2, <3>3, <3>4
  <2>7. \A e \in merged : Has(out, e)
    BY DEF NoDiscForgotten
  <2> QED
    BY <2>1, <2>2, <2>3, <2>4, <2>6, <2>7
<1>2. CASE UNCHANGED <<rebuilds, merged, out>>
  BY <1>2 DEF NoDiscForgotten, Has
<1>3. CASE merged' = {}
  BY <1>3 DEF NoDiscForgotten
<1>4. ASSUME NEW target \in Targets, NEW discs \in (SUBSET burned) \ {{}},
             NEW state \in [discs -> Conditions], NEW time \in [discs -> FileTimes],
             RebuildBegin(target, discs, state, time)
      PROVE  merged' = {}
  BY <1>4 DEF RebuildBegin
<1>5. RebuildEnd => merged' = {}
  BY DEF RebuildEnd
<1>6. ASSUME NEW d \in Volumes, MergeSkip(d) PROVE UNCHANGED <<rebuilds, merged, out>>
  BY <1>6, SMTT(30) DEF MergeSkip
<1>7. ASSUME \/ \E p \in Packs : Scan(p) \/ Prune(p)
             \/ \E v \in Volumes, n \in 1..MaxVolumes : Stage(v, n)
             \/ \E v \in Volumes : Burn(v) \/ Abort(v) \/ Lose(v)
             \/ Split
             \/ UNCHANGED vars
      PROVE  UNCHANGED <<rebuilds, merged, out>>
  BY <1>7 DEF Scan, Prune, Stage, Burn, Abort, Lose, Split, running, vars
<1> QED
  BY <1>1, <1>2, <1>3, <1>4, <1>5, <1>6, <1>7 DEF Next

\* The first rebuild of an archive remembers every disc merged into it.
THEOREM FirstRebuildForgetsNoDisc ==
    ASSUME Targets = {"fresh"}
    PROVE  Spec => []NoDiscForgotten
<1>1. Init => LabelInv /\ NoDiscForgotten
  BY DEF Init, LabelInv, NoDiscForgotten, NoCatalog, Has
<1>2. RebuildInv /\ LabelInv /\ NoDiscForgotten /\ [Next]_vars => LabelInv' /\ NoDiscForgotten'
  BY LabelStep, RememberStep
<1> QED
  BY <1>1, <1>2, RebuildInvariance, PTL DEF Spec

=============================================================================
