---------------------------- MODULE RestoreProofs ----------------------------
(***************************************************************************)
(* Proofs about Restore: any number of packs, volumes and runs, any damage *)
(* and any discs at hand.                                                  *)
(***************************************************************************)
EXTENDS Restore, WellFoundedInduction, TLAPS

\* A set of natural numbers has a least element.
LEMMA LeastNat ==
    ASSUME NEW T \in SUBSET Nat, T # {}
    PROVE  \E n \in T : \A m \in T : n <= m
<1>1. \E n \in T : \A m \in T : ~(<<m, n>> \in OpToRel(<, Nat))
  BY WFMin, NatLessThanWellFounded
<1>2. \A m, n \in Nat : m < n => <<m, n>> \in OpToRel(<, Nat)
  BY DEF OpToRel
<1>3. PICK n \in T : \A m \in T : ~(<<m, n>> \in OpToRel(<, Nat))
  BY <1>1
<1>4. \A m \in T : ~(m < n)
  BY <1>2, <1>3
<1> QED
  BY <1>4

\* The ORDER BY of the pick list has a first row: the primary of a pack that is
\* on some volume in service is one of these volumes.
LEMMA FirstIsThere ==
    ASSUME NEW st \in [Volumes -> VolumeStatus], NEW vols \in SUBSET Volumes, vols # {}
    PROVE  FirstOf(st, vols) \in vols
<1> DEFINE Ranks == {Rank(st[v]) : v \in vols}
<1>1. \A v \in Volumes : Rank(st[v]) \in Nat
  BY DEF Rank
<1>2. PICK r \in Ranks : \A s \in Ranks : r <= s
  <2>1. Ranks \in SUBSET Nat /\ Ranks # {}
    BY <1>1
  <2> QED
    BY <2>1, LeastNat
<1> DEFINE Best == {v \in vols : Rank(st[v]) = r}
<1>3. PICK v \in Best : \A w \in Best : v <= w
  <2>1. Best \in SUBSET Nat /\ Best # {}
    BY DEF Volumes
  <2> HIDE DEF Best
  <2> QED
    BY <2>1, LeastNat
<1>4. \A w \in vols : Precedes(st, v, w)
  <2> SUFFICES ASSUME NEW w \in vols PROVE Precedes(st, v, w)
    OBVIOUS
  <2>1. r <= Rank(st[w]) /\ Rank(st[v]) = r /\ Rank(st[w]) \in Nat /\ r \in Nat
    BY <1>1, <1>2, <1>3
  <2>2. Rank(st[w]) = r => v <= w
    BY <1>3
  <2> QED
    BY <2>1, <2>2 DEF Precedes
<1>5. \E x \in vols : \A w \in vols : Precedes(st, x, w)
  BY <1>3, <1>4
<1> QED
  BY <1>5 DEF FirstOf

\* The archive does not change during a run, and with it the pick list.
LEMMA Frozen ==
    ASSUME status' = status, links' = links
    PROVE  /\ \A p : Candidates(p)' = Candidates(p)
           /\ \A p : Primary(p)' = Primary(p)
           /\ \A p : Alternates(p)' = Alternates(p)
           /\ \A v : PrimaryOn(v)' = PrimaryOn(v)
           /\ get_missing_packs' = get_missing_packs
<1>1. \A p : Candidates(p)' = Candidates(p)
  BY DEF Candidates
<1>2. \A p : Primary(p)' = Primary(p)
  BY <1>1 DEF Primary
<1> QED
  BY <1>1, <1>2 DEF Alternates, PrimaryOn, get_missing_packs

\* When no pack is missing, each has a primary among the volumes picked.
LEMMA PrimaryPicked ==
    ASSUME TypeOK, get_missing_packs = {}, NEW p \in Packs
    PROVE  /\ Primary(p) \in Candidates(p) /\ Primary(p) \in Volumes
           /\ p \in PrimaryOn(Primary(p)) /\ Primary(p) \in PickedLabels
<1>1. Candidates(p) \in SUBSET Volumes /\ Candidates(p) # {}
  BY DEF get_missing_packs, Candidates
<1>2. Primary(p) \in Candidates(p)
  BY <1>1, FirstIsThere DEF Primary, TypeOK
<1> QED
  BY <1>1, <1>2 DEF PrimaryOn, PickedLabels

\* Where packs are read from.
LEMMA SourceFacts == 0 \in Sources /\ \A v \in Volumes : v \in Sources
BY MaxVolumesAssumption DEF Sources, Volumes

\* What the start of a run leaves well typed.
LEMMA StartsFacts ==
    ASSUME TypeOK, NEW r \in Routes, NEW v \in BOOLEAN, Starts(r, v)
    PROVE  /\ route' \in {"exec", "standalone"} \X {"batch", "prompt"}
           /\ verify' \in BOOLEAN /\ clean' \in BOOLEAN /\ runs' \in 0..MaxRuns
           /\ UNCHANGED <<status, links, disc, atHand, badIso, ecc, cache>>
<1>1. clean' \in BOOLEAN
  BY DEF Starts
<1>2. verify' \in BOOLEAN
  BY DEF Starts
<1>3. route' \in {"exec", "standalone"} \X {"batch", "prompt"}
  BY RestoreAssumption DEF Starts
<1>4. runs' \in 0..MaxRuns
  BY RestoreAssumption DEF Starts, TypeOK
<1> QED
  BY <1>1, <1>2, <1>3, <1>4 DEF Starts, archive

\* What the end of a run leaves well typed.
LEMMA EndsFacts ==
    ASSUME NEW how \in Outcomes, Ends(how)
    PROVE  /\ pc' = "idle" /\ outcome' \in Outcomes /\ phase' = "initial"
           /\ todo' \in SUBSET Volumes /\ from' \in Sources
           /\ asked' \subseteq Packs /\ queue' \subseteq Packs
           /\ copied' \subseteq Packs /\ bad' \subseteq Packs /\ failed' \subseteq Packs
BY SourceFacts DEF Ends

\* Every step keeps the types.
LEMMA TypeStep == TypeOK /\ [Next]_vars => TypeOK'
<1> SUFFICES ASSUME TypeOK, [Next]_vars PROVE TypeOK'
  OBVIOUS
<1>1. ASSUME NEW r \in Routes, NEW v \in BOOLEAN, BeginMissing(r, v) PROVE TypeOK'
  <2>1. "missing" \in Outcomes
    BY DEF Outcomes
  <2> QED
    BY <1>1, <2>1, StartsFacts, EndsFacts DEF BeginMissing, TypeOK
<1>2. ASSUME NEW r \in Routes, NEW v \in BOOLEAN, BeginExec(r, v) PROVE TypeOK'
  BY <1>2, StartsFacts DEF BeginExec, PickedLabels, Outcomes, TypeOK
<1>3. ASSUME NEW r \in Routes, NEW v \in BOOLEAN, NEW d \in Volumes, BeginStandalone(r, d, v)
      PROVE TypeOK'
  BY <1>3, StartsFacts, SourceFacts DEF BeginStandalone, Outcomes, TypeOK
<1>4. ASSUME NEW r \in Routes, NEW v \in BOOLEAN, NEW d \in Volumes, BeginReader(r, d, v)
      PROVE TypeOK'
  BY <1>4, StartsFacts, SourceFacts DEF BeginReader, Outcomes, TypeOK
<1>5. ASSUME NewCache PROVE TypeOK'
  BY <1>5, SourceFacts DEF NewCache, EmptyCache, options, archive, TypeOK, Outcomes, Files,
     Alternates, Candidates, PickedLabels
<1>6. ASSUME NEW v \in Volumes, FindDisc(v) PROVE TypeOK'
  BY <1>6, SourceFacts DEF FindDisc, options, archive, TypeOK, Outcomes, Files, Alternates,
     Candidates, PickedLabels
<1>7. ASSUME IsoFails PROVE TypeOK'
  <2>1. "iso" \in Outcomes
    BY DEF Outcomes
  <2> QED
    BY <1>7, <2>1, EndsFacts DEF IsoFails, options, archive, TypeOK
<1>8. ASSUME NEW v \in Volumes, NEW w \in Sources, AskVolume(v, w) PROVE TypeOK'
  BY <1>8, SourceFacts DEF AskVolume, Ingest, options, archive, TypeOK, Outcomes, Files,
     Alternates, Candidates, PickedLabels
<1>9. ASSUME NEW v \in Volumes, SkipVolume(v) PROVE TypeOK'
  BY <1>9, SourceFacts DEF SkipVolume, options, archive, TypeOK, Outcomes, Files, Alternates,
     Candidates, PickedLabels
<1>10. ASSUME VolumesDone PROVE TypeOK'
  BY <1>10, SourceFacts DEF VolumesDone, options, verify_cache_completeness, archive, TypeOK,
     Outcomes, Files, Alternates, Candidates, PickedLabels
<1>11. ASSUME NEW v \in Volumes, NEW w \in Sources, AskAlternate(v, w) PROVE TypeOK'
  BY <1>11, SourceFacts DEF AskAlternate, Ingest, options, PacksOnAlternate, archive, TypeOK,
     Outcomes, Files, Alternates, Candidates, PickedLabels
<1>12. ASSUME NEW v \in Volumes, SkipAlternate(v) PROVE TypeOK'
  BY <1>12, SourceFacts DEF SkipAlternate, options, archive, TypeOK, Outcomes, Files, Alternates,
     Candidates, PickedLabels
<1>13. ASSUME Finish PROVE TypeOK'
  <2>1. {"failed", "incomplete", "restored"} \subseteq Outcomes
    BY DEF Outcomes
  <2>2. PICK how \in Outcomes : Ends(how)
    BY <1>13, <2>1 DEF Finish
  <2> QED
    BY <1>13, <2>2, EndsFacts DEF Finish, options, archive, TypeOK
<1>14. ASSUME NEW p \in Packs, IngestKeep(p) PROVE TypeOK'
  BY <1>14, SourceFacts DEF IngestKeep, Reading, options, Kept, archive, TypeOK, Outcomes, Files,
     Alternates, Candidates, PickedLabels
<1>15. ASSUME NEW p \in Packs, IngestUnlink(p) PROVE TypeOK'
  BY <1>15, SourceFacts DEF IngestUnlink, Reading, options, archive, TypeOK, Outcomes, Files,
     Alternates, Candidates, PickedLabels
<1>16. ASSUME NEW p \in Packs, IngestNotFound(p) PROVE TypeOK'
  BY <1>16, SourceFacts DEF IngestNotFound, Reading, options, archive, TypeOK, Outcomes, Files,
     Alternates, Candidates, PickedLabels
<1>17. ASSUME NEW p \in Packs, IngestCopy(p) PROVE TypeOK'
  BY <1>17, SourceFacts DEF IngestCopy, Reading, options, archive, TypeOK, Outcomes, Files,
     Alternates, Candidates, PickedLabels
<1>18. ASSUME NEW p \in Packs, IngestCheck(p) PROVE TypeOK'
  BY <1>18, SourceFacts DEF IngestCheck, options, archive, TypeOK, Outcomes, Files, Alternates,
     Candidates, PickedLabels
<1>19. ASSUME InitialDone PROVE TypeOK'
  BY <1>19, SourceFacts DEF InitialDone, Ingested, verify_cache_completeness, archive, TypeOK,
     Outcomes, Files, Alternates, Candidates, PickedLabels
<1>20. ASSUME VolumeDone PROVE TypeOK'
  BY <1>20, SourceFacts DEF VolumeDone, Ingested, options, archive, TypeOK, Outcomes, Files,
     Alternates, Candidates, PickedLabels
<1>21. ASSUME AlternateDone PROVE TypeOK'
  BY <1>21, SourceFacts DEF AlternateDone, Ingested, options, archive, TypeOK, Outcomes, Files,
     Alternates, Candidates, PickedLabels
<1>22. ASSUME Die PROVE TypeOK'
  <2>1. "died" \in Outcomes
    BY DEF Outcomes
  <2> QED
    BY <1>22, <2>1, EndsFacts DEF Die, options, archive, TypeOK
<1>23. ASSUME UNCHANGED vars PROVE TypeOK'
  BY <1>23, SourceFacts DEF vars, options, archive, TypeOK, Outcomes, Files, Alternates,
     Candidates, PickedLabels
<1> QED
  BY <1>1, <1>2, <1>3, <1>4, <1>5, <1>6, <1>7, <1>8, <1>9, <1>10, <1>11, <1>12, <1>13, <1>14,
     <1>15, <1>16, <1>17, <1>18, <1>19, <1>20, <1>21, <1>22, <1>23 DEF Next, Begin, Step

\* A restore only reads the archive; discs are found between runs.
LEMMA ArchiveFixed ==
    ASSUME [Next]_vars
    PROVE  /\ status' = status /\ links' = links /\ disc' = disc
           /\ pc # "idle" => atHand' = atHand
BY DEF Next, Begin, Step, BeginMissing, BeginExec, BeginStandalone, BeginReader, Starts,
   NewCache, FindDisc, Ingest, IsoFails, AskVolume, SkipVolume, VolumesDone, AskAlternate,
   SkipAlternate, Finish, IngestKeep, IngestUnlink, IngestNotFound, IngestCopy, IngestCheck,
   InitialDone, VolumeDone, AlternateDone, Die, archive, vars

\* Every step keeps the command's locals in order.
LEMMA LocalsStep == RestoreInv /\ [Next]_vars => LocalsInv'
<1> SUFFICES ASSUME RestoreInv, [Next]_vars PROVE LocalsInv'
  OBVIOUS
<1>0. get_missing_packs' = get_missing_packs /\ disc' = disc
  BY ArchiveFixed, Frozen
<1>1. ASSUME NEW r \in Routes, NEW v \in BOOLEAN, BeginMissing(r, v) PROVE LocalsInv'
  BY <1>1, <1>0 DEF BeginMissing, Starts, Ends, options, archive, RestoreInv, TypeOK, LocalsInv
<1>2. ASSUME NEW r \in Routes, NEW v \in BOOLEAN, BeginExec(r, v) PROVE LocalsInv'
  BY <1>2, <1>0 DEF BeginExec, Starts, archive, RestoreInv, TypeOK, LocalsInv
<1>3. ASSUME NEW r \in Routes, NEW v \in BOOLEAN, NEW d \in Volumes, BeginStandalone(r, d, v)
      PROVE LocalsInv'
  BY <1>3, <1>0 DEF BeginStandalone, Starts, archive, RestoreInv, TypeOK, LocalsInv
<1>4. ASSUME NEW r \in Routes, NEW v \in BOOLEAN, NEW d \in Volumes, BeginReader(r, d, v)
      PROVE LocalsInv'
  BY <1>4, <1>0 DEF BeginReader, Starts, archive, RestoreInv, TypeOK, LocalsInv
<1>5. ASSUME NewCache PROVE LocalsInv'
  BY <1>5, <1>0 DEF NewCache, EmptyCache, options, archive, RestoreInv, TypeOK, LocalsInv
<1>6. ASSUME NEW v \in Volumes, FindDisc(v) PROVE LocalsInv'
  BY <1>6, <1>0 DEF FindDisc, options, archive, RestoreInv, TypeOK, LocalsInv
<1>7. ASSUME IsoFails PROVE LocalsInv'
  BY <1>7, <1>0 DEF IsoFails, Ends, options, archive, RestoreInv, TypeOK, LocalsInv
<1>8. ASSUME NEW v \in Volumes, NEW w \in Sources, AskVolume(v, w) PROVE LocalsInv'
  BY <1>8, <1>0 DEF AskVolume, Ingest, options, archive, RestoreInv, TypeOK, LocalsInv
<1>9. ASSUME NEW v \in Volumes, SkipVolume(v) PROVE LocalsInv'
  BY <1>9, <1>0 DEF SkipVolume, options, archive, RestoreInv, TypeOK, LocalsInv
<1>10. ASSUME VolumesDone PROVE LocalsInv'
  BY <1>10, <1>0 DEF VolumesDone, options, verify_cache_completeness, archive, RestoreInv, TypeOK,
     LocalsInv
<1>11. ASSUME NEW v \in Volumes, NEW w \in Sources, AskAlternate(v, w) PROVE LocalsInv'
  BY <1>11, <1>0 DEF AskAlternate, Ingest, options, PacksOnAlternate, archive, RestoreInv, TypeOK,
     LocalsInv
<1>12. ASSUME NEW v \in Volumes, SkipAlternate(v) PROVE LocalsInv'
  BY <1>12, <1>0 DEF SkipAlternate, options, archive, RestoreInv, TypeOK, LocalsInv
<1>13. ASSUME Finish PROVE LocalsInv'
  BY <1>13, <1>0 DEF Finish, Ends, options, archive, RestoreInv, TypeOK, LocalsInv
<1>14. ASSUME NEW p \in Packs, IngestKeep(p) PROVE LocalsInv'
  BY <1>14, <1>0 DEF IngestKeep, Reading, options, Kept, archive, RestoreInv, TypeOK, LocalsInv
<1>15. ASSUME NEW p \in Packs, IngestUnlink(p) PROVE LocalsInv'
  BY <1>15, <1>0 DEF IngestUnlink, Reading, options, archive, RestoreInv, TypeOK, LocalsInv
<1>16. ASSUME NEW p \in Packs, IngestNotFound(p) PROVE LocalsInv'
  BY <1>16, <1>0 DEF IngestNotFound, Reading, options, archive, RestoreInv, TypeOK, LocalsInv
<1>17. ASSUME NEW p \in Packs, IngestCopy(p) PROVE LocalsInv'
  BY <1>17, <1>0 DEF IngestCopy, Reading, options, archive, RestoreInv, TypeOK, LocalsInv
<1>18. ASSUME NEW p \in Packs, IngestCheck(p) PROVE LocalsInv'
  BY <1>18, <1>0 DEF IngestCheck, options, archive, RestoreInv, TypeOK, LocalsInv
<1>19. ASSUME InitialDone PROVE LocalsInv'
  BY <1>19, <1>0 DEF InitialDone, Ingested, verify_cache_completeness, archive, RestoreInv,
     TypeOK, LocalsInv
<1>20. ASSUME VolumeDone PROVE LocalsInv'
  BY <1>20, <1>0 DEF VolumeDone, Ingested, options, archive, RestoreInv, TypeOK, LocalsInv
<1>21. ASSUME AlternateDone PROVE LocalsInv'
  BY <1>21, <1>0 DEF AlternateDone, Ingested, options, archive, RestoreInv, TypeOK, LocalsInv
<1>22. ASSUME Die PROVE LocalsInv'
  BY <1>22, <1>0 DEF Die, Ends, options, archive, RestoreInv, TypeOK, LocalsInv
<1>23. ASSUME UNCHANGED vars PROVE LocalsInv'
  BY <1>23, <1>0 DEF vars, options, archive, RestoreInv, TypeOK, LocalsInv
<1> QED
  BY <1>1, <1>2, <1>3, <1>4, <1>5, <1>6, <1>7, <1>8, <1>9, <1>10, <1>11, <1>12, <1>13, <1>14,
     <1>15, <1>16, <1>17, <1>18, <1>19, <1>20, <1>21, <1>22, <1>23 DEF Next, Begin, Step

\* Every step keeps unchecked packs out of the cache, but for one.
LEMMA CacheStep == RestoreInv /\ [Next]_vars => CacheInv'
<1> SUFFICES ASSUME RestoreInv, [Next]_vars PROVE CacheInv'
  OBVIOUS
<1>0. disc' = disc /\ \A v : PrimaryOn(v)' = PrimaryOn(v)
  BY ArchiveFixed, Frozen
<1>1. ASSUME NEW r \in Routes, NEW v \in BOOLEAN, BeginMissing(r, v) PROVE CacheInv'
  BY <1>1, <1>0 DEF BeginMissing, Starts, Ends, options, archive, RestoreInv, TypeOK, LocalsInv,
     CacheInv
<1>2. ASSUME NEW r \in Routes, NEW v \in BOOLEAN, BeginExec(r, v) PROVE CacheInv'
  <2>1. /\ verify' = v /\ route' = r /\ phase' = "volumes" /\ todo' = PickedLabels
        /\ cache' = cache /\ (clean' => \A p \in Packs : cache[p] \in {"none", "good"})
    BY <1>2 DEF BeginExec, Starts
  <2>2. r = <<"exec", "batch">> \/ r = <<"exec", "prompt">>
    BY <1>2, RestoreAssumption DEF BeginExec
  <2>3. \A p \in Packs : p \in PrimaryOn(Primary(p)) /\ Primary(p) \in PickedLabels
    BY <1>2, PrimaryPicked DEF BeginExec, RestoreInv
  <2> QED
    BY <2>1, <2>2, <2>3, <1>0 DEF CacheInv
<1>3. ASSUME NEW r \in Routes, NEW v \in BOOLEAN, NEW d \in Volumes, BeginStandalone(r, d, v)
      PROVE CacheInv'
  BY <1>3, <1>0 DEF BeginStandalone, Starts, archive, RestoreInv, TypeOK, LocalsInv, CacheInv
<1>4. ASSUME NEW r \in Routes, NEW v \in BOOLEAN, NEW d \in Volumes, BeginReader(r, d, v)
      PROVE CacheInv'
  BY <1>4, <1>0 DEF BeginReader, Starts, archive, RestoreInv, TypeOK, LocalsInv, CacheInv
<1>5. ASSUME NewCache PROVE CacheInv'
  BY <1>5, <1>0 DEF NewCache, EmptyCache, options, archive, RestoreInv, TypeOK, LocalsInv, CacheInv
<1>6. ASSUME NEW v \in Volumes, FindDisc(v) PROVE CacheInv'
  BY <1>6, <1>0 DEF FindDisc, options, archive, RestoreInv, TypeOK, LocalsInv, CacheInv
<1>7. ASSUME IsoFails PROVE CacheInv'
  BY <1>7, <1>0 DEF IsoFails, Ends, options, archive, RestoreInv, TypeOK, LocalsInv, CacheInv
<1>8. ASSUME NEW v \in Volumes, NEW w \in Sources, AskVolume(v, w) PROVE CacheInv'
  BY <1>8, <1>0 DEF AskVolume, Ingest, options, archive, RestoreInv, TypeOK, LocalsInv, CacheInv
<1>9. ASSUME NEW v \in Volumes, SkipVolume(v) PROVE CacheInv'
  BY <1>9, <1>0 DEF SkipVolume, options, archive, RestoreInv, TypeOK, LocalsInv, CacheInv
<1>10. ASSUME VolumesDone PROVE CacheInv'
  BY <1>10, <1>0 DEF VolumesDone, options, verify_cache_completeness, archive, RestoreInv, TypeOK,
     LocalsInv, CacheInv
<1>11. ASSUME NEW v \in Volumes, NEW w \in Sources, AskAlternate(v, w) PROVE CacheInv'
  BY <1>11, <1>0 DEF AskAlternate, Ingest, options, PacksOnAlternate, archive, RestoreInv, TypeOK,
     LocalsInv, CacheInv
<1>12. ASSUME NEW v \in Volumes, SkipAlternate(v) PROVE CacheInv'
  BY <1>12, <1>0 DEF SkipAlternate, options, archive, RestoreInv, TypeOK, LocalsInv, CacheInv
<1>13. ASSUME Finish PROVE CacheInv'
  BY <1>13, <1>0 DEF Finish, Ends, options, archive, RestoreInv, TypeOK, LocalsInv, CacheInv
<1>14. ASSUME NEW p \in Packs, IngestKeep(p) PROVE CacheInv'
  BY <1>14, <1>0 DEF IngestKeep, Reading, options, Kept, archive, RestoreInv, TypeOK, LocalsInv,
     CacheInv
<1>15. ASSUME NEW p \in Packs, IngestUnlink(p) PROVE CacheInv'
  BY <1>15, <1>0 DEF IngestUnlink, Reading, options, archive, RestoreInv, TypeOK, LocalsInv,
     CacheInv
<1>16. ASSUME NEW p \in Packs, IngestNotFound(p) PROVE CacheInv'
  BY <1>16, <1>0 DEF IngestNotFound, Reading, options, archive, RestoreInv, TypeOK, LocalsInv,
     CacheInv
<1>17. ASSUME NEW p \in Packs, IngestCopy(p) PROVE CacheInv'
  BY <1>17, <1>0 DEF IngestCopy, Reading, options, archive, RestoreInv, TypeOK, LocalsInv, CacheInv
<1>18. ASSUME NEW p \in Packs, IngestCheck(p) PROVE CacheInv'
  BY <1>18, <1>0 DEF IngestCheck, options, archive, RestoreInv, TypeOK, LocalsInv, CacheInv
<1>19. ASSUME InitialDone PROVE CacheInv'
  BY <1>19, <1>0 DEF InitialDone, Ingested, verify_cache_completeness, archive, RestoreInv,
     TypeOK, LocalsInv, CacheInv
<1>20. ASSUME VolumeDone PROVE CacheInv'
  BY <1>20, <1>0 DEF VolumeDone, Ingested, options, archive, RestoreInv, TypeOK, LocalsInv, CacheInv
<1>21. ASSUME AlternateDone PROVE CacheInv'
  BY <1>21, <1>0 DEF AlternateDone, Ingested, options, archive, RestoreInv, TypeOK, LocalsInv,
     CacheInv
<1>22. ASSUME Die PROVE CacheInv'
  BY <1>22, <1>0 DEF Die, Ends, options, archive, RestoreInv, TypeOK, LocalsInv, CacheInv
<1>23. ASSUME UNCHANGED vars PROVE CacheInv'
  BY <1>23, <1>0 DEF vars, options, archive, RestoreInv, TypeOK, LocalsInv, CacheInv
<1> QED
  BY <1>1, <1>2, <1>3, <1>4, <1>5, <1>6, <1>7, <1>8, <1>9, <1>10, <1>11, <1>12, <1>13, <1>14,
     <1>15, <1>16, <1>17, <1>18, <1>19, <1>20, <1>21, <1>22, <1>23 DEF Next, Begin, Step

\* Every step keeps account of the packs that are not in the cache.
LEMMA AccountStep == RestoreInv /\ [Next]_vars => AccountInv'
<1> SUFFICES ASSUME RestoreInv, [Next]_vars PROVE AccountInv'
  OBVIOUS
<1>0. \A v : PrimaryOn(v)' = PrimaryOn(v)
  BY ArchiveFixed, Frozen
<1>1. ASSUME NEW r \in Routes, NEW v \in BOOLEAN, BeginMissing(r, v) PROVE AccountInv'
  BY <1>1, <1>0 DEF BeginMissing, Starts, Ends, options, archive, RestoreInv, TypeOK, LocalsInv,
     AccountInv
<1>2. ASSUME NEW r \in Routes, NEW v \in BOOLEAN, BeginExec(r, v) PROVE AccountInv'
  <2>1. \A p \in Packs : Primary(p) \in PickedLabels /\ p \in PrimaryOn(Primary(p))
    BY <1>2, PrimaryPicked DEF BeginExec, RestoreInv
  <2>2. /\ todo' = PickedLabels /\ wanted' = Packs /\ phase' = "volumes" /\ pc' = "choose"
        /\ UNCHANGED <<asked, queue, bad, failed>>
    BY <1>2 DEF BeginExec
  <2> QED
    BY <1>0, <2>1, <2>2 DEF AccountInv, RestoreInv, LocalsInv
<1>3. ASSUME NEW r \in Routes, NEW v \in BOOLEAN, NEW d \in Volumes, BeginStandalone(r, d, v)
      PROVE AccountInv'
  BY <1>3, <1>0 DEF BeginStandalone, Starts, archive, RestoreInv, TypeOK, LocalsInv, AccountInv
<1>4. ASSUME NEW r \in Routes, NEW v \in BOOLEAN, NEW d \in Volumes, BeginReader(r, d, v)
      PROVE AccountInv'
  BY <1>4, <1>0 DEF BeginReader, Starts, archive, RestoreInv, TypeOK, LocalsInv, AccountInv
<1>5. ASSUME NewCache PROVE AccountInv'
  BY <1>5, <1>0 DEF NewCache, EmptyCache, options, archive, RestoreInv, TypeOK, LocalsInv,
     AccountInv
<1>6. ASSUME NEW v \in Volumes, FindDisc(v) PROVE AccountInv'
  BY <1>6, <1>0 DEF FindDisc, options, archive, RestoreInv, TypeOK, LocalsInv, AccountInv
<1>7. ASSUME IsoFails PROVE AccountInv'
  BY <1>7, <1>0 DEF IsoFails, Ends, options, archive, RestoreInv, TypeOK, LocalsInv, AccountInv
<1>8. ASSUME NEW v \in Volumes, NEW w \in Sources, AskVolume(v, w) PROVE AccountInv'
  BY <1>8, <1>0 DEF AskVolume, Ingest, options, archive, RestoreInv, TypeOK, LocalsInv, AccountInv
<1>9. ASSUME NEW v \in Volumes, SkipVolume(v) PROVE AccountInv'
  BY <1>9, <1>0 DEF SkipVolume, options, archive, RestoreInv, TypeOK, LocalsInv, AccountInv
<1>10. ASSUME VolumesDone PROVE AccountInv'
  BY <1>10, <1>0 DEF VolumesDone, options, verify_cache_completeness, archive, RestoreInv, TypeOK,
     LocalsInv, AccountInv
<1>11. ASSUME NEW v \in Volumes, NEW w \in Sources, AskAlternate(v, w) PROVE AccountInv'
  BY <1>11, <1>0 DEF AskAlternate, Ingest, options, PacksOnAlternate, archive, RestoreInv, TypeOK,
     LocalsInv, AccountInv
<1>12. ASSUME NEW v \in Volumes, SkipAlternate(v) PROVE AccountInv'
  BY <1>12, <1>0 DEF SkipAlternate, options, archive, RestoreInv, TypeOK, LocalsInv, AccountInv
<1>13. ASSUME Finish PROVE AccountInv'
  BY <1>13, <1>0 DEF Finish, Ends, options, archive, RestoreInv, TypeOK, LocalsInv, AccountInv
<1>14. ASSUME NEW p \in Packs, IngestKeep(p) PROVE AccountInv'
  BY <1>14, <1>0 DEF IngestKeep, Reading, options, Kept, archive, RestoreInv, TypeOK, LocalsInv,
     AccountInv
<1>15. ASSUME NEW p \in Packs, IngestUnlink(p) PROVE AccountInv'
  BY <1>15, <1>0 DEF IngestUnlink, Reading, options, archive, RestoreInv, TypeOK, LocalsInv,
     AccountInv
<1>16. ASSUME NEW p \in Packs, IngestNotFound(p) PROVE AccountInv'
  BY <1>16, <1>0 DEF IngestNotFound, Reading, options, archive, RestoreInv, TypeOK, LocalsInv,
     AccountInv
<1>17. ASSUME NEW p \in Packs, IngestCopy(p) PROVE AccountInv'
  BY <1>17, <1>0 DEF IngestCopy, Reading, options, archive, RestoreInv, TypeOK, LocalsInv,
     AccountInv
<1>18. ASSUME NEW p \in Packs, IngestCheck(p) PROVE AccountInv'
  BY <1>18, <1>0 DEF IngestCheck, options, archive, RestoreInv, TypeOK, LocalsInv, AccountInv
<1>19. ASSUME InitialDone PROVE AccountInv'
  BY <1>19, <1>0 DEF InitialDone, Ingested, verify_cache_completeness, archive, RestoreInv,
     TypeOK, LocalsInv, AccountInv
<1>20. ASSUME VolumeDone PROVE AccountInv'
  BY <1>20, <1>0 DEF VolumeDone, Ingested, options, archive, RestoreInv, TypeOK, LocalsInv,
     AccountInv
<1>21. ASSUME AlternateDone PROVE AccountInv'
  BY <1>21, <1>0 DEF AlternateDone, Ingested, options, archive, RestoreInv, TypeOK, LocalsInv,
     AccountInv
<1>22. ASSUME Die PROVE AccountInv'
  BY <1>22, <1>0 DEF Die, Ends, options, archive, RestoreInv, TypeOK, LocalsInv, AccountInv
<1>23. ASSUME UNCHANGED vars PROVE AccountInv'
  BY <1>23, <1>0 DEF vars, options, archive, RestoreInv, TypeOK, LocalsInv, AccountInv
<1> QED
  BY <1>1, <1>2, <1>3, <1>4, <1>5, <1>6, <1>7, <1>8, <1>9, <1>10, <1>11, <1>12, <1>13, <1>14,
     <1>15, <1>16, <1>17, <1>18, <1>19, <1>20, <1>21, <1>22, <1>23 DEF Next, Begin, Step

\* Every step keeps the reasons for which packs are given up.
LEMMA CauseStep == RestoreInv /\ [Next]_vars => CauseInv'
<1> SUFFICES ASSUME RestoreInv, [Next]_vars PROVE CauseInv'
  OBVIOUS
<1>0. /\ \A p : Primary(p)' = Primary(p) /\ Alternates(p)' = Alternates(p)
      /\ \A v : PrimaryOn(v)' = PrimaryOn(v)
      /\ disc' = disc /\ (pc # "idle" => atHand' = atHand)
  BY ArchiveFixed, Frozen
<1>1. ASSUME NEW r \in Routes, NEW v \in BOOLEAN, BeginMissing(r, v) PROVE CauseInv'
  BY <1>1, <1>0 DEF BeginMissing, Starts, Ends, options, archive, RestoreInv, TypeOK, LocalsInv,
     AccountInv, CauseInv, Tried, Paths
<1>2. ASSUME NEW r \in Routes, NEW v \in BOOLEAN, BeginExec(r, v) PROVE CauseInv'
  <2>1. \A p \in Packs : Primary(p) \in PickedLabels
    BY <1>2, PrimaryPicked DEF BeginExec, RestoreInv
  <2>2. todo' = PickedLabels /\ phase' = "volumes" /\ pc' = "choose" /\ asked' = asked /\ asked = {}
    BY <1>2 DEF BeginExec, Starts, RestoreInv, LocalsInv
  <2> QED
    BY <1>0, <2>1, <2>2 DEF CauseInv
<1>3. ASSUME NEW r \in Routes, NEW v \in BOOLEAN, NEW d \in Volumes, BeginStandalone(r, d, v)
      PROVE CauseInv'
  BY <1>3, <1>0 DEF BeginStandalone, Starts, archive, RestoreInv, TypeOK, LocalsInv, AccountInv,
     CauseInv, Tried, Paths
<1>4. ASSUME NEW r \in Routes, NEW v \in BOOLEAN, NEW d \in Volumes, BeginReader(r, d, v)
      PROVE CauseInv'
  BY <1>4, <1>0 DEF BeginReader, Starts, archive, RestoreInv, TypeOK, LocalsInv, AccountInv,
     CauseInv, Tried, Paths
<1>5. ASSUME NewCache PROVE CauseInv'
  BY <1>5, <1>0 DEF NewCache, EmptyCache, options, archive, RestoreInv, TypeOK, LocalsInv,
     AccountInv, CauseInv, Tried, Paths
<1>6. ASSUME NEW v \in Volumes, FindDisc(v) PROVE CauseInv'
  BY <1>6, <1>0 DEF FindDisc, options, archive, RestoreInv, TypeOK, LocalsInv, AccountInv,
     CauseInv, Tried, Paths
<1>7. ASSUME IsoFails PROVE CauseInv'
  BY <1>7, <1>0 DEF IsoFails, Ends, options, archive, RestoreInv, TypeOK, LocalsInv, AccountInv,
     CauseInv, Tried, Paths
<1>8. ASSUME NEW v \in Volumes, NEW w \in Sources, AskVolume(v, w) PROVE CauseInv'
  <2>1. \A p \in Packs : p \in PrimaryOn(v) <=> Primary(p) = v
    BY <1>8, PrimaryPicked DEF AskVolume, RestoreInv, LocalsInv, PrimaryOn
  <2> QED
    BY <1>8, <1>0, <2>1 DEF AskVolume, Ingest, options, archive, RestoreInv, TypeOK, LocalsInv,
       CauseInv, Tried, Paths
<1>9. ASSUME NEW v \in Volumes, SkipVolume(v) PROVE CauseInv'
  BY <1>9, <1>0 DEF SkipVolume, options, archive, RestoreInv, TypeOK, LocalsInv, AccountInv,
     CauseInv, Tried, Paths
<1>10. ASSUME VolumesDone PROVE CauseInv'
  BY <1>10, <1>0 DEF VolumesDone, options, verify_cache_completeness, archive, RestoreInv, TypeOK,
     LocalsInv, AccountInv, CauseInv, Tried, Paths
<1>11. ASSUME NEW v \in Volumes, NEW w \in Sources, AskAlternate(v, w) PROVE CauseInv'
  BY <1>11, <1>0 DEF AskAlternate, Ingest, options, PacksOnAlternate, archive, RestoreInv, TypeOK,
     LocalsInv, AccountInv, CauseInv, Tried, Paths
<1>12. ASSUME NEW v \in Volumes, SkipAlternate(v) PROVE CauseInv'
  BY <1>12, <1>0 DEF SkipAlternate, options, PacksOnAlternate, archive, RestoreInv, TypeOK,
     LocalsInv, AccountInv, CauseInv, Tried, Paths
<1>13. ASSUME Finish PROVE CauseInv'
  BY <1>13, <1>0 DEF Finish, Ends, options, archive, RestoreInv, TypeOK, LocalsInv, AccountInv,
     CauseInv, Tried, Paths
<1>14. ASSUME NEW p \in Packs, IngestKeep(p) PROVE CauseInv'
  BY <1>14, <1>0 DEF IngestKeep, Reading, options, Kept, archive, RestoreInv, TypeOK, LocalsInv,
     AccountInv, CauseInv, Tried, Paths
<1>15. ASSUME NEW p \in Packs, IngestUnlink(p) PROVE CauseInv'
  BY <1>15, <1>0 DEF IngestUnlink, Reading, options, archive, RestoreInv, TypeOK, LocalsInv,
     AccountInv, CauseInv, Tried, Paths
<1>16. ASSUME NEW p \in Packs, IngestNotFound(p) PROVE CauseInv'
  BY <1>16, <1>0 DEF IngestNotFound, Reading, options, archive, RestoreInv, TypeOK, LocalsInv,
     AccountInv, CauseInv, Tried, Paths
<1>17. ASSUME NEW p \in Packs, IngestCopy(p) PROVE CauseInv'
  BY <1>17, <1>0 DEF IngestCopy, Reading, options, archive, RestoreInv, TypeOK, LocalsInv,
     AccountInv, CauseInv, Tried, Paths
<1>18. ASSUME NEW p \in Packs, IngestCheck(p) PROVE CauseInv'
  BY <1>18, <1>0 DEF IngestCheck, options, archive, RestoreInv, TypeOK, LocalsInv, AccountInv,
     CauseInv, Tried, Paths
<1>19. ASSUME InitialDone PROVE CauseInv'
  <2>1. \A p \in Packs : Primary(p) \in PickedLabels /\ p \in PrimaryOn(Primary(p))
    BY <1>19, PrimaryPicked DEF InitialDone, Ingested, RestoreInv, LocalsInv
  <2>2. /\ phase' = "volumes" /\ asked' = {} /\ route' = route
        /\ wanted' = IF route[2] = "prompt" THEN verify_cache_completeness(Packs) ELSE Packs
        /\ todo' = {v \in PickedLabels : PrimaryOn(v) \cap wanted' # {}}
    BY <1>19 DEF InitialDone
  <2>3. route[2] = "batch" => \A p \in Packs : Primary(p) \in todo'
    BY <2>1, <2>2
  <2> QED
    BY <1>0, <2>2, <2>3 DEF CauseInv
<1>20. ASSUME VolumeDone PROVE CauseInv'
  BY <1>20, <1>0 DEF VolumeDone, Ingested, options, archive, RestoreInv, TypeOK, LocalsInv,
     AccountInv, CauseInv, Tried, Paths
<1>21. ASSUME AlternateDone PROVE CauseInv'
  BY <1>21, <1>0 DEF AlternateDone, Ingested, options, archive, RestoreInv, TypeOK, LocalsInv,
     AccountInv, CauseInv, Tried, Paths
<1>22. ASSUME Die PROVE CauseInv'
  BY <1>22, <1>0 DEF Die, Ends, options, archive, RestoreInv, TypeOK, LocalsInv, AccountInv,
     CauseInv, Tried, Paths
<1>23. ASSUME UNCHANGED vars PROVE CauseInv'
  BY <1>23, <1>0 DEF vars, options, archive, RestoreInv, TypeOK, LocalsInv, AccountInv, CauseInv,
     Ends, Tried, Paths
<1> QED
  BY <1>1, <1>2, <1>3, <1>4, <1>5, <1>6, <1>7, <1>8, <1>9, <1>10, <1>11, <1>12, <1>13, <1>14,
     <1>15, <1>16, <1>17, <1>18, <1>19, <1>20, <1>21, <1>22, <1>23 DEF Next, Begin, Step

\* The initial state satisfies the inductive invariant.
LEMMA RestoreInit == Init => RestoreInv
<1> SUFFICES ASSUME Init PROVE RestoreInv
  OBVIOUS
<1>1. PICK odd, gone, iso \in SUBSET Volumes, files \in SUBSET (Volumes \X Packs) :
         /\ \E as \in [odd -> Statuses \ {"VERIFIED"}] :
               status = [v \in Volumes |-> IF v \in odd THEN as[v] ELSE "VERIFIED"]
         /\ atHand = Volumes \ gone /\ badIso = iso
         /\ ecc \in {FALSE, iso # {}}
         /\ \E harm \in [files -> Files \ {"good"}], top \in {{}, IF gone = {} THEN {} ELSE Packs} :
               disc = Burned(harm, top)
  BY DEF Init
<1>2. status \in [Volumes -> VolumeStatus]
  BY <1>1, RestoreAssumption DEF VolumeStatus
<1>3. disc \in [Sources -> [Packs -> Files]]
  <2>1. PICK harm \in [files -> Files \ {"good"}], top \in {{}, IF gone = {} THEN {} ELSE Packs} :
           disc = Burned(harm, top)
    BY <1>1
  <2>2. \A v \in Sources, p \in Packs :
           (IF v = 0 THEN (IF p \in top THEN "good" ELSE "none")
            ELSE IF p \notin links[v] THEN "none"
            ELSE IF <<v, p>> \in DOMAIN harm THEN harm[<<v, p>>] ELSE "good") \in Files
    BY DEF Files
  <2> QED
    BY <2>1, <2>2 DEF Burned
<1>4. ecc \in BOOLEAN
  BY <1>1
<1>5. /\ links \in [Volumes -> SUBSET Packs] /\ cache = [p \in Packs |-> "none"]
      /\ pc = "idle" /\ phase = "initial" /\ route = <<"exec", "batch">>
      /\ verify = TRUE /\ clean = TRUE
      /\ wanted = {} /\ todo = {} /\ from = 0
      /\ asked = {} /\ queue = {} /\ copied = {} /\ bad = {} /\ failed = {}
      /\ outcome = "none" /\ runs = 0
  BY DEF Init
<1>6. cache \in [Packs -> Files]
  BY <1>5 DEF Files
<1>7. verify \in BOOLEAN /\ clean \in BOOLEAN
  BY <1>5
<1>8. atHand \in SUBSET Volumes /\ badIso \in SUBSET Volumes
  BY <1>1
<1>9. route \in {"exec", "standalone"} \X {"batch", "prompt"} /\ runs \in 0..MaxRuns
  BY <1>5, RestoreAssumption
<1>10. from \in Sources /\ outcome \in Outcomes
  BY <1>5, SourceFacts DEF Outcomes
<1>11. TypeOK
  BY <1>2, <1>3, <1>4, <1>5, <1>6, <1>7, <1>8, <1>9, <1>10 DEF TypeOK
<1> QED
  BY <1>5, <1>11 DEF RestoreInv, LocalsInv, CacheInv, AccountInv, CauseInv

\* The inductive invariant of restores: what the cache may hold, where every
\* missing pack is accounted for and where it was looked for in vain.
THEOREM RestoreInvariance == Spec => []RestoreInv
<1>1. RestoreInv /\ [Next]_vars => RestoreInv'
  BY TypeStep, LocalsStep, CacheStep, AccountStep, CauseStep DEF RestoreInv
<1> QED
  BY RestoreInit, <1>1, PTL DEF Spec

\* A run that goes on has no outcome, and what is done between runs resets it:
\* only Finish reports a restore, a failure or an incomplete cache.
LEMMA OnlyFinishReports ==
    ASSUME RestoreInv, [Next]_vars, outcome' \in {"restored", "failed", "incomplete"}
    PROVE  Finish \/ UNCHANGED vars
BY DEF RestoreInv, LocalsInv, Next, Begin, Step, BeginMissing, BeginExec, BeginStandalone,
   BeginReader, NewCache, FindDisc, Ends, Ingest, IsoFails, AskVolume, SkipVolume, VolumesDone,
   AskAlternate, SkipAlternate, IngestKeep, IngestUnlink, IngestNotFound, IngestCopy, IngestCheck,
   Reading, Ingested, InitialDone, VolumeDone, AlternateDone, Die

\* A restore that verifies gives rustic exactly the packs that were archived,
\* whatever an earlier run left in the cache; at the prompts of restore exec, if
\* it left no corrupt pack there.
THEOREM RestoredIsIntact == Spec => []IntactWhenVerified
<1>1. Init => IntactWhenVerified
  BY DEF Init, IntactWhenVerified
<1>2. RestoreInv /\ IntactWhenVerified /\ [Next]_vars => IntactWhenVerified'
  <2> SUFFICES ASSUME RestoreInv, IntactWhenVerified, [Next]_vars PROVE IntactWhenVerified'
    OBVIOUS
  <2>1. ASSUME Finish PROVE IntactWhenVerified'
    BY <2>1 DEF Finish, Ends, IntactWhenVerified, RestoreInv, TypeOK, LocalsInv, CacheInv,
       verify_cache_completeness, options
  <2>2. ASSUME UNCHANGED vars PROVE IntactWhenVerified'
    BY <2>2 DEF IntactWhenVerified, vars, options
  <2> QED
    BY <2>1, <2>2, OnlyFinishReports DEF IntactWhenVerified
<1> QED
  BY <1>1, <1>2, RestoreInvariance, PTL DEF Spec

\* No required pack reaches the completeness check unaccounted for.
THEOREM NoPackSlipsThrough == Spec => []NothingSlipsThrough
<1>1. Init => NothingSlipsThrough
  BY DEF Init, NothingSlipsThrough
<1>2. RestoreInv /\ NothingSlipsThrough /\ [Next]_vars => NothingSlipsThrough'
  <2> SUFFICES ASSUME RestoreInv, NothingSlipsThrough, [Next]_vars PROVE NothingSlipsThrough'
    OBVIOUS
  <2>1. ASSUME Finish PROVE NothingSlipsThrough'
    BY <2>1 DEF Finish, Ends, NothingSlipsThrough, RestoreInv, LocalsInv, AccountInv,
       verify_cache_completeness
  <2>2. ASSUME UNCHANGED vars PROVE NothingSlipsThrough'
    BY <2>2 DEF NothingSlipsThrough, vars
  <2> QED
    BY <2>1, <2>2, OnlyFinishReports DEF NothingSlipsThrough
<1> QED
  BY <1>1, <1>2, RestoreInvariance, PTL DEF Spec

\* With --volume-dir a restore fails only for a pack that no volume in service
\* has a good file of.
THEOREM FailureHasCause == Spec => []FailsForCause
<1>1. Init => FailsForCause
  BY DEF Init, FailsForCause
<1>2. RestoreInv /\ FailsForCause /\ [Next]_vars => FailsForCause'
  <2> SUFFICES ASSUME RestoreInv, FailsForCause, [Next]_vars PROVE FailsForCause'
    OBVIOUS
  <2>0. \A p : Candidates(p)' = Candidates(p)
    BY ArchiveFixed, Frozen
  <2>1. ASSUME Finish PROVE FailsForCause'
    <3> SUFFICES ASSUME outcome' = "failed", route'[2] = "batch"
                 PROVE  \E p \in Packs : /\ cache'[p] = "none"
                           /\ \A v \in Candidates(p) : \A w \in Paths(v)' : disc'[w][p] # "good"
      BY <2>0 DEF FailsForCause
    <3>1. /\ pc = "choose" /\ phase = "alternates" /\ todo = {} /\ route' = route
          /\ UNCHANGED <<cache, disc, atHand>> /\ queue = {}
      BY <2>1 DEF Finish, options, archive, RestoreInv, LocalsInv
    <3>2. PICK p \in Packs : cache[p] = "none"
      BY <2>1 DEF Finish, Ends, verify_cache_completeness, RestoreInv, TypeOK
    <3>3. \A v \in Candidates(p) : v = Primary(p) \/ v \in Alternates(p)
      BY DEF Alternates
    <3>4. \A v \in Candidates(p) : Tried(p, v)
      BY <3>1, <3>2, <3>3 DEF RestoreInv, CauseInv
    <3> QED
      BY <3>1, <3>2, <3>4 DEF Tried, Paths
  <2>2. ASSUME UNCHANGED vars PROVE FailsForCause'
    BY <2>0, <2>2 DEF FailsForCause, vars, archive, options, Paths
  <2> QED
    BY <2>1, <2>2, OnlyFinishReports DEF FailsForCause
<1> QED
  BY <1>1, <1>2, RestoreInvariance, PTL DEF Spec

\* No step of a run, and no crash, takes a good pack out of the cache.
THEOREM GoodPacksAreKept == Spec => GoodPacksStay
<1>1. RestoreInv /\ [Next]_vars =>
         [pc # "idle" => \A p \in Packs : cache[p] = "good" => cache'[p] = "good"]_vars
  BY ZenonT(60) DEF RestoreInv, TypeOK, LocalsInv, Next, Begin, Step, BeginMissing, BeginExec, BeginStandalone,
     BeginReader, Starts, NewCache, FindDisc, Ends, Ingest, IsoFails, AskVolume, SkipVolume,
     VolumesDone, AskAlternate, SkipAlternate, Finish, IngestKeep, IngestUnlink, IngestNotFound,
     IngestCopy, IngestCheck, Reading, Kept, Ingested, InitialDone, VolumeDone, AlternateDone, Die
<1> QED
  BY <1>1, RestoreInvariance, PTL DEF Spec, GoodPacksStay

=============================================================================
