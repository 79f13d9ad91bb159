---------------------------- MODULE ArchiveProofs ----------------------------
(***************************************************************************)
(* Proofs about the archive pipeline for any number of packs, locations,   *)
(* volumes, sessions and crashes: first IInv and what it gives about discs *)
(* and statuses, then TrackInv, inductive relative to IInv, about          *)
(* sessions, images and the audit trail.                                   *)
(***************************************************************************)
EXTENDS Archive, TLAPS

(* The packs a stage starts from are packs of the catalog. *)
LEMMA GatherType ==
    ASSUME TypeOK, NEW t
    PROVE  gather_packs(t) \in SUBSET Packs
  BY DEF TypeOK, gather_packs, get_unarchived_packs,
         get_unarchived_or_missing_at_location

(* Every step keeps the types; the volume in op is what the running command
   says it is (StageInv, BurnInv). *)
LEMMA TypeStep ==
    ASSUME TypeOK, StageInv, BurnInv, [Next]_vars
    PROVE  TypeOK'
<1> USE DEF TypeOK, Operation, PCs, Idle, Exit, Enter, Step, catalog, packTable,
        volTables, ghosts, VolumeStatus, CopyStatus, SessionStatus
<1>1. ASSUME NEW p \in Packs, MirrorWrite(p)
      PROVE  TypeOK'
  BY <1>1 DEF MirrorWrite
<1>2. ASSUME NEW p \in Packs, NEW to \in {"none", "empty"}, MirrorLose(p, to)
      PROVE  TypeOK'
  BY <1>2 DEF MirrorLose
<1>3. ASSUME NEW p \in Packs, PackUnprune(p)
      PROVE  TypeOK'
  BY <1>3 DEF PackUnprune
<1>4. ASSUME NEW sync \in BOOLEAN, NEW yes \in BOOLEAN, ScanRegister(sync, yes)
      PROVE  TypeOK'
  <2>1. detect_pruned(known \cup op.packs, pruned, op.packs) \in SUBSET Packs
    BY DEF detect_pruned
  <2>2. op' \in Operation
    <3>1. PICK q \in SUBSET Packs : op' = [Idle EXCEPT !.pc = "scan", !.packs = q]
      BY <1>4, <2>1 DEF ScanRegister
    <3>2. QED
      BY <3>1
  <2>3. known' \in SUBSET Packs
    BY <1>4 DEF ScanRegister
  <2>4. UNCHANGED <<mirror, iso, pruned, volTables, session, ghosts>>
    BY <1>4 DEF ScanRegister
  <2>5. QED
    BY <2>2, <2>3, <2>4
<1>5. ASSUME ScanPrune
      PROVE  TypeOK'
  BY <1>5 DEF ScanPrune
<1>5b. ASSUME NEW data \in {"listed", "missing", "denied"}, ScanBegin(data)
      PROVE  TypeOK'
  <2>1. op' \in Operation
    <3>1. PICK q \in {Packs, {}}, b \in BOOLEAN :
             op' = [Idle EXCEPT !.pc = "scan.list", !.left = q, !.failed = b]
      BY <1>5b DEF ScanBegin
    <3>2. QED
      BY <3>1
  <2>2. missed' \in SUBSET Packs /\ UNCHANGED <<mirror, iso, catalog, disc, attested, crashes>>
    BY <1>5b DEF ScanBegin
  <2>3. QED
    BY <2>1, <2>2
<1>5c. ASSUME NEW p \in Packs, NEW readable \in BOOLEAN, ScanDir(p, readable)
      PROVE  TypeOK'
  <2>1. op' \in Operation
    <3>1. PICK q \in SUBSET Packs, r \in SUBSET Packs, b \in BOOLEAN :
             op' = [op EXCEPT !.left = q, !.packs = r, !.failed = b]
      <4>1. /\ op.left \ {p} \in SUBSET Packs
            /\ (IF readable /\ mirror[p] = "whole" THEN op.packs \cup {p} ELSE op.packs) \in SUBSET Packs
            /\ (op.failed \/ ~readable) \in BOOLEAN
        OBVIOUS
      <4>2. QED
        BY <1>5c, <4>1 DEF ScanDir
    <3>2. QED
      BY <3>1
  <2>2. UNCHANGED <<mirror, iso, catalog, ghosts>>
    BY <1>5c DEF ScanDir
  <2>3. QED
    BY <2>1, <2>2
<1>5d. ASSUME NEW gone \in SUBSET Packs, NEW force \in BOOLEAN, RepoRemoveBegin(gone, force)
      PROVE  TypeOK'
  BY <1>5d DEF RepoRemoveBegin
<1>5e. ASSUME RepoRemove
      PROVE  TypeOK'
  BY <1>5e DEF RepoRemove
<1>6. ASSUME NEW s \in Sessions, NEW t \in {"none"} \cup Locations, StageBegin(s, t)
      PROVE  TypeOK'
  BY <1>6, GatherType DEF StageBegin, create_session, Staging
<1>7. ASSUME NEW v \in Volumes, NEW bin \in SUBSET Packs, StageVolume(v, bin)
      PROVE  TypeOK'
  <2>1. op' \in Operation
    BY <1>7 DEF StageVolume
  <2>2. /\ status' \in [Volumes -> VolumeStatus \cup {"absent", "deleted"}]
        /\ packsOn' \in [Volumes -> SUBSET Packs]
        /\ svols' \in [Sessions -> SUBSET Volumes]
    BY <1>7 DEF StageVolume
  <2>3. UNCHANGED <<mirror, iso, packTable, copies, hashed, noted, session, ghosts>>
    BY <1>7 DEF StageVolume
  <2>4. QED
    BY <2>1, <2>2, <2>3
<1>8. ASSUME StageRefused
      PROVE  TypeOK'
  BY <1>8 DEF StageRefused, abort_consolidation
<1>9. ASSUME StageIso
      PROVE  TypeOK'
  BY <1>9 DEF StageIso
<1>10. ASSUME StageEcc
      PROVE  TypeOK'
  BY <1>10 DEF StageEcc
<1>11. ASSUME StageFail
      PROVE  TypeOK'
  BY <1>11 DEF StageFail, abort_consolidation, delete_volume
<1>12. ASSUME StageHash
      PROVE  TypeOK'
  BY <1>12 DEF StageHash, StageInv, StagePCs
<1>13. ASSUME StageHashFail
      PROVE  TypeOK'
  BY <1>13 DEF StageHashFail, abort_consolidation
<1>14. ASSUME StageEnd
      PROVE  TypeOK'
  BY <1>14 DEF StageEnd
<1>15. ASSUME NEW s \in Sessions, NEW l \in Locations, BurnBegin(s, l)
      PROVE  TypeOK'
  BY <1>15 DEF BurnBegin
<1>16. ASSUME NEW v \in Volumes, BurnLoad(v)
      PROVE  TypeOK'
  <2>1. status' \in [Volumes -> VolumeStatus \cup {"absent", "deleted"}]
    BY <1>16 DEF BurnLoad
  <2>2. op' \in Operation
    <3>1. PICK b \in BOOLEAN : op' = [op EXCEPT !.pc = "burn.write", !.vol = v, !.reburn = b]
      BY <1>16 DEF BurnLoad
    <3>2. QED
      BY <3>1
  <2>3. UNCHANGED <<mirror, iso, packTable, packsOn, copies, hashed, svols, noted, session, ghosts>>
    BY <1>16 DEF BurnLoad
  <2>4. QED
    BY <2>1, <2>2, <2>3
<1>17. ASSUME NEW v \in Volumes, BurnBadTransition(v)
      PROVE  TypeOK'
  BY <1>17 DEF BurnBadTransition
<1>18. ASSUME NEW kind \in DiscKinds, BurnWrite(kind)
      PROVE  TypeOK'
  BY <1>18 DEF BurnWrite, BurnInv, DiscKinds
<1>19. ASSUME BurnRefused
      PROVE  TypeOK'
  BY <1>19 DEF BurnRefused
<1>20. ASSUME BurnCommit
      PROVE  TypeOK'
  <2>1. status' \in [Volumes -> VolumeStatus \cup {"absent", "deleted"}]
    BY <1>20 DEF BurnCommit
  <2>2. copies' \in [Volumes -> [Locations -> CopyStatus \cup {"none"}]]
    BY <1>20 DEF BurnCommit
  <2>3. op' \in Operation
    <3>1. PICK b \in BOOLEAN :
             op' = [op EXCEPT !.pc = "burn.receipt", !.any = TRUE, !.failed = b, !.burnt = "none"]
      BY <1>20 DEF BurnCommit
    <3>2. QED
      BY <3>1
  <2>4. UNCHANGED <<mirror, iso, packTable, packsOn, hashed, svols, noted, session, ghosts>>
    BY <1>20 DEF BurnCommit
  <2>5. QED
    BY <2>1, <2>2, <2>3, <2>4
<1>21. ASSUME BurnException
      PROVE  TypeOK'
  BY <1>21 DEF BurnException
<1>22. ASSUME BurnReceipt
      PROVE  TypeOK'
  BY <1>22 DEF BurnReceipt
<1>23. ASSUME BurnReceiptFail
      PROVE  TypeOK'
  BY <1>23 DEF BurnReceiptFail
<1>24. ASSUME BurnEnd
      PROVE  TypeOK'
  BY <1>24 DEF BurnEnd
<1>25. ASSUME NEW s \in Sessions, NEW force \in BOOLEAN, CleanBegin(s, force)
      PROVE  TypeOK'
  BY <1>25 DEF CleanBegin, strandable_session_volumes
<1>26. ASSUME NEW v \in Volumes, CleanDelete(v)
      PROVE  TypeOK'
  BY <1>26 DEF CleanDelete, delete_volume
<1>27. ASSUME NEW v \in Volumes, AbortVolume(v)
      PROVE  TypeOK'
  BY <1>27 DEF AbortVolume, delete_volume
<1>28. ASSUME NEW v \in Volumes, ReconcileDelete(v)
      PROVE  TypeOK'
  <2>1. CASE op.todo = {v}
    BY <1>28, <2>1 DEF ReconcileDelete, delete_volume
  <2>2. CASE op.todo # {v}
    BY <1>28, <2>2 DEF ReconcileDelete, delete_volume
  <2>3. QED
    BY <2>1, <2>2
<1>29. ASSUME CleanFiles
      PROVE  TypeOK'
  BY <1>29 DEF CleanFiles
<1>30. ASSUME CleanMark
      PROVE  TypeOK'
  BY <1>30 DEF CleanMark
<1>31. ASSUME NEW old \in SUBSET Volumes, ReconcileBegin(old)
      PROVE  TypeOK'
  BY <1>31 DEF ReconcileBegin, get_ghost_volumes
<1>32. ASSUME NEW v \in Volumes, NEW l \in Locations, NEW verdict \in {"true", "false", "null", "missing"}, ImportReceipt(v, l, verdict)
      PROVE  TypeOK'
  BY <1>32 DEF ImportReceipt
<1>33. ASSUME NEW v \in Volumes, MarkVerified(v)
      PROVE  TypeOK'
  BY <1>33 DEF MarkVerified
<1>34. ASSUME NEW v \in Volumes, VerifyPass(v)
      PROVE  TypeOK'
  BY <1>34 DEF VerifyPass
<1>35. ASSUME NEW v \in Volumes, NEW l \in Locations, CopyDeprecate(v, l)
      PROVE  TypeOK'
  BY <1>35 DEF CopyDeprecate, SetCopy, Demote
<1>36. ASSUME NEW v \in Volumes, NEW l \in Locations, CopyDestroy(v, l)
      PROVE  TypeOK'
  BY <1>36 DEF CopyDestroy, SetCopy, Demote
<1>37. ASSUME NEW v \in Volumes, NEW from \in Locations, NEW to \in Locations, CopyMove(v, from, to)
      PROVE  TypeOK'
  BY <1>37 DEF CopyMove
<1>38. ASSUME NEW src \in SUBSET Volumes, DeprecateBegin(src)
      PROVE  TypeOK'
  BY <1>38 DEF DeprecateBegin
<1>39. ASSUME NEW src \in SUBSET Volumes, ConsolidateBegin(src)
      PROVE  TypeOK'
  <2>1. (UNION {packsOn[v] : v \in src}) \ pruned \in SUBSET Packs
    OBVIOUS
  <2>2. QED
    BY <1>39, <2>1 DEF ConsolidateBegin
<1>40. ASSUME NEW v \in Volumes, DeprecateSource(v)
      PROVE  TypeOK'
  BY <1>40 DEF DeprecateSource
<1>41. ASSUME NEW v \in Volumes, DeprecateRefused(v)
      PROVE  TypeOK'
  BY <1>41 DEF DeprecateRefused
<1>42. ASSUME DeprecateCommit
      PROVE  TypeOK'
  BY <1>42 DEF DeprecateCommit, View
<1>43. ASSUME NEW s \in Sessions, ConsolidateStage(s)
      PROVE  TypeOK'
  <2> DEFINE pool == gather_packs("none") \cap op.packs
  <2>1. CASE pool = {}
    BY <1>43, <2>1 DEF ConsolidateStage, abort_consolidation
  <2>2. CASE pool # {}
    BY <1>43, <2>2, GatherType DEF ConsolidateStage, create_session, Staging
  <2>3. QED
    BY <2>1, <2>2
<1>44. ASSUME Crash
      PROVE  TypeOK'
  BY <1>44, ArchiveBounds DEF Crash
<1>45. CASE UNCHANGED vars
  BY <1>45 DEF vars
<1> HIDE DEF TypeOK, Operation, PCs, Idle, Exit, Enter, Step, catalog, packTable,
        volTables, ghosts, VolumeStatus, CopyStatus, SessionStatus
<1>46. QED
  BY <1>1, <1>2, <1>3, <1>4, <1>5, <1>5b, <1>5c, <1>5d, <1>5e, <1>6, <1>7, <1>8, <1>9, <1>10, <1>11,
     <1>12, <1>13, <1>14, <1>15, <1>16, <1>17, <1>18, <1>19, <1>20, <1>21,
     <1>22, <1>23, <1>24, <1>25, <1>26, <1>27, <1>28, <1>29, <1>30, <1>31,
     <1>32, <1>33, <1>34, <1>35, <1>36, <1>37, <1>38, <1>39, <1>40, <1>41,
     <1>42, <1>43, <1>44, <1>45 DEF Next

(* What a running command relies on between its steps. *)
LEMMA ControlStep ==
    ASSUME TypeOK, StageInv, BurnInv, PurgeInv, SourceInv, RowsInv, [Next]_vars
    PROVE  StageInv' /\ BurnInv' /\ PurgeInv' /\ SourceInv'
<1> USE DEF TypeOK, Operation, Idle, Exit, Enter, Step, catalog, packTable,
        volTables, ghosts, StagePCs, BurnPCs,
        StageInv, BurnInv, PurgeInv, SourceInv, HasRows
<1>1. ASSUME NEW p \in Packs, MirrorWrite(p)
      PROVE  StageInv' /\ BurnInv' /\ PurgeInv' /\ SourceInv'
  BY <1>1 DEF MirrorWrite
<1>2. ASSUME NEW p \in Packs, NEW to \in {"none", "empty"}, MirrorLose(p, to)
      PROVE  StageInv' /\ BurnInv' /\ PurgeInv' /\ SourceInv'
  BY <1>2 DEF MirrorLose
<1>3. ASSUME NEW p \in Packs, PackUnprune(p)
      PROVE  StageInv' /\ BurnInv' /\ PurgeInv' /\ SourceInv'
  BY <1>3 DEF PackUnprune
<1>4. ASSUME NEW sync \in BOOLEAN, NEW yes \in BOOLEAN, ScanRegister(sync, yes)
      PROVE  StageInv' /\ BurnInv' /\ PurgeInv' /\ SourceInv'
  BY <1>4 DEF ScanRegister
<1>5. ASSUME ScanPrune
      PROVE  StageInv' /\ BurnInv' /\ PurgeInv' /\ SourceInv'
  BY <1>5 DEF ScanPrune
<1>5b. ASSUME NEW data \in {"listed", "missing", "denied"}, ScanBegin(data)
      PROVE  StageInv' /\ BurnInv' /\ PurgeInv' /\ SourceInv'
  BY <1>5b DEF ScanBegin
<1>5c. ASSUME NEW p \in Packs, NEW readable \in BOOLEAN, ScanDir(p, readable)
      PROVE  StageInv' /\ BurnInv' /\ PurgeInv' /\ SourceInv'
  BY <1>5c DEF ScanDir
<1>5d. ASSUME NEW gone \in SUBSET Packs, NEW force \in BOOLEAN, RepoRemoveBegin(gone, force)
      PROVE  StageInv' /\ BurnInv' /\ PurgeInv' /\ SourceInv'
  BY <1>5d DEF RepoRemoveBegin
<1>5e. ASSUME RepoRemove
      PROVE  StageInv' /\ BurnInv' /\ PurgeInv' /\ SourceInv'
  BY <1>5e DEF RepoRemove
<1>6. ASSUME NEW s \in Sessions, NEW t \in {"none"} \cup Locations, StageBegin(s, t)
      PROVE  StageInv' /\ BurnInv' /\ PurgeInv' /\ SourceInv'
  BY <1>6 DEF StageBegin, create_session, Staging
<1>7. ASSUME NEW v \in Volumes, NEW bin \in SUBSET Packs, StageVolume(v, bin)
      PROVE  StageInv' /\ BurnInv' /\ PurgeInv' /\ SourceInv'
  <2>1. /\ op'.pc = "stage.master" /\ op'.vol = v /\ op'.sess = op.sess /\ op'.src = op.src
        /\ op.pc = "stage.next" /\ status[v] = "absent"
        /\ status' = [status EXCEPT ![v] = "STAGING"] /\ copies' = copies
    BY <1>7 DEF StageVolume, FreshVolume
  <2>2. ~HasRows(copies, v) /\ v \notin op.src
    BY <2>1 DEF RowsInv, Exists, VolumeStatus
  <2>3. QED
    BY <2>1, <2>2
<1>8. ASSUME StageRefused
      PROVE  StageInv' /\ BurnInv' /\ PurgeInv' /\ SourceInv'
  BY <1>8 DEF StageRefused, abort_consolidation
<1>9. ASSUME StageIso
      PROVE  StageInv' /\ BurnInv' /\ PurgeInv' /\ SourceInv'
  BY <1>9 DEF StageIso
<1>10. ASSUME StageEcc
      PROVE  StageInv' /\ BurnInv' /\ PurgeInv' /\ SourceInv'
  BY <1>10 DEF StageEcc
<1>11. ASSUME StageFail
      PROVE  StageInv' /\ BurnInv' /\ PurgeInv' /\ SourceInv'
  BY <1>11 DEF StageFail, abort_consolidation, delete_volume
<1>12. ASSUME StageHash
      PROVE  StageInv' /\ BurnInv' /\ PurgeInv' /\ SourceInv'
  BY <1>12 DEF StageHash
<1>13. ASSUME StageHashFail
      PROVE  StageInv' /\ BurnInv' /\ PurgeInv' /\ SourceInv'
  BY <1>13 DEF StageHashFail, abort_consolidation
<1>14. ASSUME StageEnd
      PROVE  StageInv' /\ BurnInv' /\ PurgeInv' /\ SourceInv'
  BY <1>14 DEF StageEnd
<1>15. ASSUME NEW s \in Sessions, NEW l \in Locations, BurnBegin(s, l)
      PROVE  StageInv' /\ BurnInv' /\ PurgeInv' /\ SourceInv'
  BY <1>15 DEF BurnBegin
<1>16. ASSUME NEW v \in Volumes, BurnLoad(v)
      PROVE  StageInv' /\ BurnInv' /\ PurgeInv' /\ SourceInv'
  <2>1. CASE status[v] = "VERIFIED"
    <3>1. op'.reburn = TRUE /\ op'.pc = "burn.write" /\ op'.vol = v /\ op'.sess = op.sess /\ op'.loc = op.loc
      BY <1>16, <2>1 DEF BurnLoad
    <3>2. QED
      BY <1>16, <2>1, <3>1 DEF BurnLoad
  <2>2. CASE status[v] # "VERIFIED"
    <3>1. op'.reburn = FALSE /\ op'.pc = "burn.write" /\ op'.vol = v /\ op'.sess = op.sess /\ op'.loc = op.loc
      BY <1>16, <2>2 DEF BurnLoad
    <3>2. QED
      BY <1>16, <2>2, <3>1 DEF BurnLoad
  <2>3. QED
    BY <2>1, <2>2
<1>17. ASSUME NEW v \in Volumes, BurnBadTransition(v)
      PROVE  StageInv' /\ BurnInv' /\ PurgeInv' /\ SourceInv'
  BY <1>17 DEF BurnBadTransition
<1>18. ASSUME NEW kind \in DiscKinds, BurnWrite(kind)
      PROVE  StageInv' /\ BurnInv' /\ PurgeInv' /\ SourceInv'
  BY <1>18 DEF BurnWrite, BurnInv, DiscKinds
<1>19. ASSUME BurnRefused
      PROVE  StageInv' /\ BurnInv' /\ PurgeInv' /\ SourceInv'
  BY <1>19 DEF BurnRefused
<1>20. ASSUME BurnCommit
      PROVE  StageInv' /\ BurnInv' /\ PurgeInv' /\ SourceInv'
  BY <1>20 DEF BurnCommit
<1>21. ASSUME BurnException
      PROVE  StageInv' /\ BurnInv' /\ PurgeInv' /\ SourceInv'
  BY <1>21 DEF BurnException
<1>22. ASSUME BurnReceipt
      PROVE  StageInv' /\ BurnInv' /\ PurgeInv' /\ SourceInv'
  BY <1>22 DEF BurnReceipt
<1>23. ASSUME BurnReceiptFail
      PROVE  StageInv' /\ BurnInv' /\ PurgeInv' /\ SourceInv'
  BY <1>23 DEF BurnReceiptFail
<1>24. ASSUME BurnEnd
      PROVE  StageInv' /\ BurnInv' /\ PurgeInv' /\ SourceInv'
  BY <1>24 DEF BurnEnd
<1>25. ASSUME NEW s \in Sessions, NEW force \in BOOLEAN, CleanBegin(s, force)
      PROVE  StageInv' /\ BurnInv' /\ PurgeInv' /\ SourceInv'
  BY <1>25 DEF CleanBegin, strandable_session_volumes
<1>26. ASSUME NEW v \in Volumes, CleanDelete(v)
      PROVE  StageInv' /\ BurnInv' /\ PurgeInv' /\ SourceInv'
  BY <1>26 DEF CleanDelete, delete_volume
<1>27. ASSUME NEW v \in Volumes, AbortVolume(v)
      PROVE  StageInv' /\ BurnInv' /\ PurgeInv' /\ SourceInv'
  BY <1>27 DEF AbortVolume, delete_volume
<1>28. ASSUME NEW v \in Volumes, ReconcileDelete(v)
      PROVE  StageInv' /\ BurnInv' /\ PurgeInv' /\ SourceInv'
  BY <1>28 DEF ReconcileDelete, delete_volume
<1>29. ASSUME CleanFiles
      PROVE  StageInv' /\ BurnInv' /\ PurgeInv' /\ SourceInv'
  BY <1>29 DEF CleanFiles
<1>30. ASSUME CleanMark
      PROVE  StageInv' /\ BurnInv' /\ PurgeInv' /\ SourceInv'
  BY <1>30 DEF CleanMark
<1>31. ASSUME NEW old \in SUBSET Volumes, ReconcileBegin(old)
      PROVE  StageInv' /\ BurnInv' /\ PurgeInv' /\ SourceInv'
  BY <1>31 DEF ReconcileBegin, get_ghost_volumes
<1>32. ASSUME NEW v \in Volumes, NEW l \in Locations, NEW verdict \in {"true", "false", "null", "missing"}, ImportReceipt(v, l, verdict)
      PROVE  StageInv' /\ BurnInv' /\ PurgeInv' /\ SourceInv'
  BY <1>32 DEF ImportReceipt
<1>33. ASSUME NEW v \in Volumes, MarkVerified(v)
      PROVE  StageInv' /\ BurnInv' /\ PurgeInv' /\ SourceInv'
  BY <1>33 DEF MarkVerified
<1>34. ASSUME NEW v \in Volumes, VerifyPass(v)
      PROVE  StageInv' /\ BurnInv' /\ PurgeInv' /\ SourceInv'
  BY <1>34 DEF VerifyPass
<1>35. ASSUME NEW v \in Volumes, NEW l \in Locations, CopyDeprecate(v, l)
      PROVE  StageInv' /\ BurnInv' /\ PurgeInv' /\ SourceInv'
  BY <1>35 DEF CopyDeprecate, SetCopy, Demote
<1>36. ASSUME NEW v \in Volumes, NEW l \in Locations, CopyDestroy(v, l)
      PROVE  StageInv' /\ BurnInv' /\ PurgeInv' /\ SourceInv'
  BY <1>36 DEF CopyDestroy, SetCopy, Demote
<1>37. ASSUME NEW v \in Volumes, NEW from \in Locations, NEW to \in Locations, CopyMove(v, from, to)
      PROVE  StageInv' /\ BurnInv' /\ PurgeInv' /\ SourceInv'
  BY <1>37 DEF CopyMove
<1>38. ASSUME NEW src \in SUBSET Volumes, DeprecateBegin(src)
      PROVE  StageInv' /\ BurnInv' /\ PurgeInv' /\ SourceInv'
  BY <1>38 DEF DeprecateBegin
<1>39. ASSUME NEW src \in SUBSET Volumes, ConsolidateBegin(src)
      PROVE  StageInv' /\ BurnInv' /\ PurgeInv' /\ SourceInv'
  BY <1>39 DEF ConsolidateBegin
<1>40. ASSUME NEW v \in Volumes, DeprecateSource(v)
      PROVE  StageInv' /\ BurnInv' /\ PurgeInv' /\ SourceInv'
  BY <1>40 DEF DeprecateSource
<1>41. ASSUME NEW v \in Volumes, DeprecateRefused(v)
      PROVE  StageInv' /\ BurnInv' /\ PurgeInv' /\ SourceInv'
  BY <1>41 DEF DeprecateRefused
<1>42. ASSUME DeprecateCommit
      PROVE  StageInv' /\ BurnInv' /\ PurgeInv' /\ SourceInv'
  BY <1>42 DEF DeprecateCommit, View
<1>43. ASSUME NEW s \in Sessions, ConsolidateStage(s)
      PROVE  StageInv' /\ BurnInv' /\ PurgeInv' /\ SourceInv'
  BY <1>43 DEF ConsolidateStage, create_session, Staging, abort_consolidation
<1>44. ASSUME Crash
      PROVE  StageInv' /\ BurnInv' /\ PurgeInv' /\ SourceInv'
  BY <1>44 DEF Crash
<1>45. CASE UNCHANGED vars
  BY <1>45 DEF vars
<1> HIDE DEF TypeOK, Operation, Idle, Exit, Enter, Step, catalog, packTable,
        volTables, ghosts, StagePCs, BurnPCs,
        StageInv, BurnInv, PurgeInv, SourceInv, HasRows
<1>46. QED
  BY <1>1, <1>2, <1>3, <1>4, <1>5, <1>5b, <1>5c, <1>5d, <1>5e, <1>6, <1>7, <1>8, <1>9, <1>10, <1>11,
     <1>12, <1>13, <1>14, <1>15, <1>16, <1>17, <1>18, <1>19, <1>20, <1>21,
     <1>22, <1>23, <1>24, <1>25, <1>26, <1>27, <1>28, <1>29, <1>30, <1>31,
     <1>32, <1>33, <1>34, <1>35, <1>36, <1>37, <1>38, <1>39, <1>40, <1>41,
     <1>42, <1>43, <1>44, <1>45 DEF Next

(* Disc rows, volume status and the discs themselves stay in step: no step
   records a disc that was not written and read back or vouched for, and none
   makes or leaves a volume durable without one. *)
LEMMA CustodyStep ==
    ASSUME TypeOK, BurnInv, SourceInv, DeprecateInv,
           RowsInv, DurableBacked, RecordedDiscIsReal, [Next]_vars
    PROVE  RowsInv' /\ DurableBacked' /\ RecordedDiscIsReal'
<1> USE DEF TypeOK, Operation, Idle, Exit, Enter, Step, catalog, packTable,
        volTables, ghosts, HasRows, HasActive, Exists, VolumeStatus, CopyStatus,
        DURABLE_VOLUME_STATUSES, RowsInv, DurableBacked, RecordedDiscIsReal
<1>1. ASSUME NEW p \in Packs, MirrorWrite(p)
      PROVE  RowsInv' /\ DurableBacked' /\ RecordedDiscIsReal'
  BY <1>1 DEF MirrorWrite
<1>2. ASSUME NEW p \in Packs, NEW to \in {"none", "empty"}, MirrorLose(p, to)
      PROVE  RowsInv' /\ DurableBacked' /\ RecordedDiscIsReal'
  BY <1>2 DEF MirrorLose
<1>3. ASSUME NEW p \in Packs, PackUnprune(p)
      PROVE  RowsInv' /\ DurableBacked' /\ RecordedDiscIsReal'
  BY <1>3 DEF PackUnprune
<1>4. ASSUME NEW sync \in BOOLEAN, NEW yes \in BOOLEAN, ScanRegister(sync, yes)
      PROVE  RowsInv' /\ DurableBacked' /\ RecordedDiscIsReal'
  BY <1>4 DEF ScanRegister
<1>5. ASSUME ScanPrune
      PROVE  RowsInv' /\ DurableBacked' /\ RecordedDiscIsReal'
  BY <1>5 DEF ScanPrune
<1>5b. ASSUME NEW data \in {"listed", "missing", "denied"}, ScanBegin(data)
      PROVE  RowsInv' /\ DurableBacked' /\ RecordedDiscIsReal'
  BY <1>5b DEF ScanBegin
<1>5c. ASSUME NEW p \in Packs, NEW readable \in BOOLEAN, ScanDir(p, readable)
      PROVE  RowsInv' /\ DurableBacked' /\ RecordedDiscIsReal'
  BY <1>5c DEF ScanDir
<1>5d. ASSUME NEW gone \in SUBSET Packs, NEW force \in BOOLEAN, RepoRemoveBegin(gone, force)
      PROVE  RowsInv' /\ DurableBacked' /\ RecordedDiscIsReal'
  BY <1>5d DEF RepoRemoveBegin
<1>5e. ASSUME RepoRemove
      PROVE  RowsInv' /\ DurableBacked' /\ RecordedDiscIsReal'
  BY <1>5e DEF RepoRemove
<1>6. ASSUME NEW s \in Sessions, NEW t \in {"none"} \cup Locations, StageBegin(s, t)
      PROVE  RowsInv' /\ DurableBacked' /\ RecordedDiscIsReal'
  BY <1>6 DEF StageBegin
<1>7. ASSUME NEW v \in Volumes, NEW bin \in SUBSET Packs, StageVolume(v, bin)
      PROVE  RowsInv' /\ DurableBacked' /\ RecordedDiscIsReal'
  <2>1. RowsInv'
    BY <1>7 DEF StageVolume, FreshVolume
  <2>2. DurableBacked'
    BY <1>7 DEF StageVolume, FreshVolume
  <2>3. RecordedDiscIsReal'
    BY <1>7 DEF StageVolume, FreshVolume
  <2>4. QED
    BY <2>1, <2>2, <2>3
<1>8. ASSUME StageRefused
      PROVE  RowsInv' /\ DurableBacked' /\ RecordedDiscIsReal'
  BY <1>8 DEF StageRefused, abort_consolidation, SourceInv, StagePCs
<1>9. ASSUME StageIso
      PROVE  RowsInv' /\ DurableBacked' /\ RecordedDiscIsReal'
  BY <1>9 DEF StageIso
<1>10. ASSUME StageEcc
      PROVE  RowsInv' /\ DurableBacked' /\ RecordedDiscIsReal'
  BY <1>10 DEF StageEcc
<1>11. ASSUME StageFail
      PROVE  RowsInv' /\ DurableBacked' /\ RecordedDiscIsReal'
  <2>1. RowsInv'
    BY <1>11 DEF StageFail, abort_consolidation, delete_volume, SourceInv, StagePCs
  <2>2. DurableBacked'
    BY <1>11 DEF StageFail, abort_consolidation, delete_volume, SourceInv, StagePCs
  <2>3. RecordedDiscIsReal'
    BY <1>11 DEF StageFail, abort_consolidation, delete_volume, SourceInv, StagePCs
  <2>4. QED
    BY <2>1, <2>2, <2>3
<1>12. ASSUME StageHash
      PROVE  RowsInv' /\ DurableBacked' /\ RecordedDiscIsReal'
  BY <1>12 DEF StageHash
<1>13. ASSUME StageHashFail
      PROVE  RowsInv' /\ DurableBacked' /\ RecordedDiscIsReal'
  BY <1>13 DEF StageHashFail, abort_consolidation, SourceInv, StagePCs
<1>14. ASSUME StageEnd
      PROVE  RowsInv' /\ DurableBacked' /\ RecordedDiscIsReal'
  BY <1>14 DEF StageEnd
<1>15. ASSUME NEW s \in Sessions, NEW l \in Locations, BurnBegin(s, l)
      PROVE  RowsInv' /\ DurableBacked' /\ RecordedDiscIsReal'
  BY <1>15 DEF BurnBegin
<1>16. ASSUME NEW v \in Volumes, BurnLoad(v)
      PROVE  RowsInv' /\ DurableBacked' /\ RecordedDiscIsReal'
  <2>1. RowsInv'
    BY <1>16 DEF BurnLoad, CanMove, VALID_TRANSITIONS
  <2>2. DurableBacked'
    BY <1>16 DEF BurnLoad, CanMove, VALID_TRANSITIONS
  <2>3. RecordedDiscIsReal'
    BY <1>16 DEF BurnLoad, CanMove, VALID_TRANSITIONS
  <2>4. QED
    BY <2>1, <2>2, <2>3
<1>17. ASSUME NEW v \in Volumes, BurnBadTransition(v)
      PROVE  RowsInv' /\ DurableBacked' /\ RecordedDiscIsReal'
  BY <1>17 DEF BurnBadTransition
<1>18. ASSUME NEW kind \in DiscKinds, BurnWrite(kind)
      PROVE  RowsInv' /\ DurableBacked' /\ RecordedDiscIsReal'
  BY <1>18 DEF BurnWrite
<1>19. ASSUME BurnRefused
      PROVE  RowsInv' /\ DurableBacked' /\ RecordedDiscIsReal'
  BY <1>19 DEF BurnRefused
<1>20. ASSUME BurnCommit
      PROVE  RowsInv' /\ DurableBacked' /\ RecordedDiscIsReal'
  <2>1. RowsInv'
    BY <1>20 DEF BurnCommit, BurnInv, BurnPCs, verify_burned_disc
  <2>2. DurableBacked'
    BY <1>20 DEF BurnCommit, BurnInv, BurnPCs, verify_burned_disc
  <2>3. RecordedDiscIsReal'
    BY <1>20 DEF BurnCommit, BurnInv, BurnPCs, verify_burned_disc
  <2>4. QED
    BY <2>1, <2>2, <2>3
<1>21. ASSUME BurnException
      PROVE  RowsInv' /\ DurableBacked' /\ RecordedDiscIsReal'
  <2>1. RowsInv'
    BY <1>21 DEF BurnException, BurnInv, BurnPCs
  <2>2. DurableBacked'
    BY <1>21 DEF BurnException, BurnInv, BurnPCs
  <2>3. RecordedDiscIsReal'
    BY <1>21 DEF BurnException, BurnInv, BurnPCs
  <2>4. QED
    BY <2>1, <2>2, <2>3
<1>22. ASSUME BurnReceipt
      PROVE  RowsInv' /\ DurableBacked' /\ RecordedDiscIsReal'
  BY <1>22 DEF BurnReceipt
<1>23. ASSUME BurnReceiptFail
      PROVE  RowsInv' /\ DurableBacked' /\ RecordedDiscIsReal'
  BY <1>23 DEF BurnReceiptFail
<1>24. ASSUME BurnEnd
      PROVE  RowsInv' /\ DurableBacked' /\ RecordedDiscIsReal'
  BY <1>24 DEF BurnEnd
<1>25. ASSUME NEW s \in Sessions, NEW force \in BOOLEAN, CleanBegin(s, force)
      PROVE  RowsInv' /\ DurableBacked' /\ RecordedDiscIsReal'
  BY <1>25 DEF CleanBegin
<1>26. ASSUME NEW v \in Volumes, CleanDelete(v)
      PROVE  RowsInv' /\ DurableBacked' /\ RecordedDiscIsReal'
  <2>1. /\ \A u \in Volumes \ {v} : status'[u] = status[u] /\ copies'[u] = copies[u]
        /\ status'[v] = "deleted"
        /\ \A l \in Locations : copies'[v][l] = "none"
        /\ UNCHANGED <<disc, attested>>
    BY <1>26 DEF CleanDelete, delete_volume
  <2>2. RowsInv'
    BY <2>1
  <2>3. DurableBacked'
    BY <2>1
  <2>4. RecordedDiscIsReal'
    BY <2>1
  <2>5. QED
    BY <2>2, <2>3, <2>4
<1>27. ASSUME NEW v \in Volumes, AbortVolume(v)
      PROVE  RowsInv' /\ DurableBacked' /\ RecordedDiscIsReal'
  <2>1. /\ \A u \in Volumes \ {v} : status'[u] = status[u] /\ copies'[u] = copies[u]
        /\ status'[v] = "deleted"
        /\ \A l \in Locations : copies'[v][l] = "none"
        /\ UNCHANGED <<disc, attested>>
    BY <1>27 DEF AbortVolume, delete_volume
  <2>2. RowsInv'
    BY <2>1
  <2>3. DurableBacked'
    BY <2>1
  <2>4. RecordedDiscIsReal'
    BY <2>1
  <2>5. QED
    BY <2>2, <2>3, <2>4
<1>28. ASSUME NEW v \in Volumes, ReconcileDelete(v)
      PROVE  RowsInv' /\ DurableBacked' /\ RecordedDiscIsReal'
  <2>1. /\ \A u \in Volumes \ {v} : status'[u] = status[u] /\ copies'[u] = copies[u]
        /\ status'[v] = "deleted"
        /\ \A l \in Locations : copies'[v][l] = "none"
        /\ UNCHANGED <<disc, attested>>
    BY <1>28 DEF ReconcileDelete, delete_volume
  <2>2. RowsInv'
    BY <2>1
  <2>3. DurableBacked'
    BY <2>1
  <2>4. RecordedDiscIsReal'
    BY <2>1
  <2>5. QED
    BY <2>2, <2>3, <2>4
<1>29. ASSUME CleanFiles
      PROVE  RowsInv' /\ DurableBacked' /\ RecordedDiscIsReal'
  BY <1>29 DEF CleanFiles
<1>30. ASSUME CleanMark
      PROVE  RowsInv' /\ DurableBacked' /\ RecordedDiscIsReal'
  BY <1>30 DEF CleanMark
<1>31. ASSUME NEW old \in SUBSET Volumes, ReconcileBegin(old)
      PROVE  RowsInv' /\ DurableBacked' /\ RecordedDiscIsReal'
  BY <1>31 DEF ReconcileBegin
<1>32. ASSUME NEW v \in Volumes, NEW l \in Locations, NEW verdict \in {"true", "false", "null", "missing"}, ImportReceipt(v, l, verdict)
      PROVE  RowsInv' /\ DurableBacked' /\ RecordedDiscIsReal'
  <2>1. RowsInv'
    BY <1>32 DEF ImportReceipt
  <2>2. DurableBacked'
    BY <1>32 DEF ImportReceipt
  <2>3. RecordedDiscIsReal'
    BY <1>32 DEF ImportReceipt
  <2>4. QED
    BY <2>1, <2>2, <2>3
<1>33. ASSUME NEW v \in Volumes, MarkVerified(v)
      PROVE  RowsInv' /\ DurableBacked' /\ RecordedDiscIsReal'
  <2>1. /\ \A u \in Volumes \ {v} : status'[u] = status[u]
        /\ status[v] \in {"BURNED", "STAGING"} /\ status'[v] = "VERIFIED"
        /\ attested' = attested \cup {v} /\ UNCHANGED <<copies, disc>>
    BY <1>33 DEF MarkVerified
  <2>2. RowsInv'
    BY <2>1
  <2>3. DurableBacked'
    BY <2>1
  <2>4. RecordedDiscIsReal'
    BY <2>1
  <2>5. QED
    BY <2>2, <2>3, <2>4
<1>34. ASSUME NEW v \in Volumes, VerifyPass(v)
      PROVE  RowsInv' /\ DurableBacked' /\ RecordedDiscIsReal'
  <2>1. RowsInv'
    BY <1>34 DEF VerifyPass
  <2>2. DurableBacked'
    BY <1>34 DEF VerifyPass
  <2>3. RecordedDiscIsReal'
    BY <1>34 DEF VerifyPass
  <2>4. QED
    BY <2>1, <2>2, <2>3
<1>35. ASSUME NEW v \in Volumes, NEW l \in Locations, CopyDeprecate(v, l)
      PROVE  RowsInv' /\ DurableBacked' /\ RecordedDiscIsReal'
  <2>1. RowsInv'
    BY <1>35 DEF CopyDeprecate, SetCopy, Demote
  <2>2. DurableBacked'
    BY <1>35 DEF CopyDeprecate, SetCopy, Demote
  <2>3. RecordedDiscIsReal'
    BY <1>35 DEF CopyDeprecate, SetCopy, Demote
  <2>4. QED
    BY <2>1, <2>2, <2>3
<1>36. ASSUME NEW v \in Volumes, NEW l \in Locations, CopyDestroy(v, l)
      PROVE  RowsInv' /\ DurableBacked' /\ RecordedDiscIsReal'
  <2>1. RowsInv'
    BY <1>36 DEF CopyDestroy, SetCopy, Demote
  <2>2. DurableBacked'
    BY <1>36 DEF CopyDestroy, SetCopy, Demote
  <2>3. RecordedDiscIsReal'
    BY <1>36 DEF CopyDestroy, SetCopy, Demote
  <2>4. QED
    BY <2>1, <2>2, <2>3
<1>37. ASSUME NEW v \in Volumes, NEW from \in Locations, NEW to \in Locations, CopyMove(v, from, to)
      PROVE  RowsInv' /\ DurableBacked' /\ RecordedDiscIsReal'
  <2>1. RowsInv'
    BY <1>37 DEF CopyMove
  <2>2. DurableBacked'
    BY <1>37 DEF CopyMove
  <2>3. RecordedDiscIsReal'
    BY <1>37 DEF CopyMove
  <2>4. QED
    BY <2>1, <2>2, <2>3
<1>38. ASSUME NEW src \in SUBSET Volumes, DeprecateBegin(src)
      PROVE  RowsInv' /\ DurableBacked' /\ RecordedDiscIsReal'
  BY <1>38 DEF DeprecateBegin
<1>39. ASSUME NEW src \in SUBSET Volumes, ConsolidateBegin(src)
      PROVE  RowsInv' /\ DurableBacked' /\ RecordedDiscIsReal'
  BY <1>39 DEF ConsolidateBegin, CanMove, VALID_TRANSITIONS
<1>40. ASSUME NEW v \in Volumes, DeprecateSource(v)
      PROVE  RowsInv' /\ DurableBacked' /\ RecordedDiscIsReal'
  BY <1>40 DEF DeprecateSource, DeprecationAllowed, View, VALID_TRANSITIONS
<1>41. ASSUME NEW v \in Volumes, DeprecateRefused(v)
      PROVE  RowsInv' /\ DurableBacked' /\ RecordedDiscIsReal'
  BY <1>41 DEF DeprecateRefused
<1>42. ASSUME DeprecateCommit
      PROVE  RowsInv' /\ DurableBacked' /\ RecordedDiscIsReal'
  BY <1>42 DEF DeprecateCommit, View, DeprecateInv
<1>43. ASSUME NEW s \in Sessions, ConsolidateStage(s)
      PROVE  RowsInv' /\ DurableBacked' /\ RecordedDiscIsReal'
  BY <1>43 DEF ConsolidateStage, create_session, abort_consolidation, SourceInv, StagePCs
<1>44. ASSUME Crash
      PROVE  RowsInv' /\ DurableBacked' /\ RecordedDiscIsReal'
  BY <1>44 DEF Crash
<1>45. CASE UNCHANGED vars
  BY <1>45 DEF vars
<1> HIDE DEF TypeOK, Operation, Idle, Exit, Enter, Step, catalog, packTable,
        volTables, ghosts, HasRows, HasActive, Exists, VolumeStatus, CopyStatus,
        DURABLE_VOLUME_STATUSES, RowsInv, DurableBacked, RecordedDiscIsReal
<1>46. QED
  BY <1>1, <1>2, <1>3, <1>4, <1>5, <1>5b, <1>5c, <1>5d, <1>5e, <1>6, <1>7, <1>8, <1>9, <1>10, <1>11,
     <1>12, <1>13, <1>14, <1>15, <1>16, <1>17, <1>18, <1>19, <1>20, <1>21,
     <1>22, <1>23, <1>24, <1>25, <1>26, <1>27, <1>28, <1>29, <1>30, <1>31,
     <1>32, <1>33, <1>34, <1>35, <1>36, <1>37, <1>38, <1>39, <1>40, <1>41,
     <1>42, <1>43, <1>44, <1>45 DEF Next

(* A deprecation that passes the guard leaves every archived pack on another
   volume that is durable and not itself about to be deprecated. *)
LEMMA OtherReplica ==
    ASSUME TypeOK, DeprecateInv, op.pc = "deprecate",
           NEW v \in Volumes, DeprecationAllowed(v),
           NEW p \in known \ pruned, Archived(status, p)
    PROVE  \E w \in Volumes \ {v} : /\ p \in packsOn[w] /\ w \notin op.dep
                                    /\ status[w] \in DURABLE_VOLUME_STATUSES
<1>1. PICK u \in Volumes : p \in packsOn[u] /\ View[u] \in DURABLE_VOLUME_STATUSES
  BY DEF DeprecateInv, Archived, HasDurableLink
<1>2. u \notin op.dep /\ View[u] = status[u]
  BY <1>1 DEF View, DURABLE_VOLUME_STATUSES
<1>3. CASE u = v
  <2>1. PICK w \in Volumes \ {v} : p \in packsOn[w] /\ View[w] \in {"BURNED", "VERIFIED"}
    BY <1>1, <1>3 DEF DeprecationAllowed, get_at_risk_packs_for_volume
  <2>2. w \notin op.dep /\ View[w] = status[w]
    BY <2>1 DEF View
  <2>3. QED
    BY <2>1, <2>2 DEF DURABLE_VOLUME_STATUSES
<1>4. QED
  BY <1>1, <1>2, <1>3

(* Uncommitted deprecations stay legal and harmless. *)
LEMMA DeprecateStep ==
    ASSUME TypeOK, DeprecateInv, [Next]_vars
    PROVE  DeprecateInv'
<1> USE DEF TypeOK, Operation, Idle, Exit, Enter, Step, catalog, packTable,
        volTables, ghosts, DeprecateInv
<1>1. ASSUME NEW p \in Packs, MirrorWrite(p)
      PROVE  DeprecateInv'
  BY <1>1 DEF MirrorWrite, View, Archived
<1>2. ASSUME NEW p \in Packs, NEW to \in {"none", "empty"}, MirrorLose(p, to)
      PROVE  DeprecateInv'
  BY <1>2 DEF MirrorLose, View, Archived
<1>3. ASSUME NEW p \in Packs, PackUnprune(p)
      PROVE  DeprecateInv'
  BY <1>3 DEF PackUnprune
<1>4. ASSUME NEW sync \in BOOLEAN, NEW yes \in BOOLEAN, ScanRegister(sync, yes)
      PROVE  DeprecateInv'
  BY <1>4 DEF ScanRegister
<1>5. ASSUME ScanPrune
      PROVE  DeprecateInv'
  BY <1>5 DEF ScanPrune
<1>5b. ASSUME NEW data \in {"listed", "missing", "denied"}, ScanBegin(data)
      PROVE  DeprecateInv'
  BY <1>5b DEF ScanBegin
<1>5c. ASSUME NEW p \in Packs, NEW readable \in BOOLEAN, ScanDir(p, readable)
      PROVE  DeprecateInv'
  BY <1>5c DEF ScanDir
<1>5d. ASSUME NEW gone \in SUBSET Packs, NEW force \in BOOLEAN, RepoRemoveBegin(gone, force)
      PROVE  DeprecateInv'
  BY <1>5d DEF RepoRemoveBegin
<1>5e. ASSUME RepoRemove
      PROVE  DeprecateInv'
  BY <1>5e DEF RepoRemove
<1>6. ASSUME NEW s \in Sessions, NEW t \in {"none"} \cup Locations, StageBegin(s, t)
      PROVE  DeprecateInv'
  BY <1>6 DEF StageBegin, Staging
<1>7. ASSUME NEW v \in Volumes, NEW bin \in SUBSET Packs, StageVolume(v, bin)
      PROVE  DeprecateInv'
  BY <1>7 DEF StageVolume
<1>8. ASSUME StageRefused
      PROVE  DeprecateInv'
  BY <1>8 DEF StageRefused
<1>9. ASSUME StageIso
      PROVE  DeprecateInv'
  BY <1>9 DEF StageIso
<1>10. ASSUME StageEcc
      PROVE  DeprecateInv'
  BY <1>10 DEF StageEcc
<1>11. ASSUME StageFail
      PROVE  DeprecateInv'
  BY <1>11 DEF StageFail
<1>12. ASSUME StageHash
      PROVE  DeprecateInv'
  BY <1>12 DEF StageHash
<1>13. ASSUME StageHashFail
      PROVE  DeprecateInv'
  BY <1>13 DEF StageHashFail
<1>14. ASSUME StageEnd
      PROVE  DeprecateInv'
  BY <1>14 DEF StageEnd
<1>15. ASSUME NEW s \in Sessions, NEW l \in Locations, BurnBegin(s, l)
      PROVE  DeprecateInv'
  BY <1>15 DEF BurnBegin
<1>16. ASSUME NEW v \in Volumes, BurnLoad(v)
      PROVE  DeprecateInv'
  BY <1>16 DEF BurnLoad
<1>17. ASSUME NEW v \in Volumes, BurnBadTransition(v)
      PROVE  DeprecateInv'
  BY <1>17 DEF BurnBadTransition
<1>18. ASSUME NEW kind \in DiscKinds, BurnWrite(kind)
      PROVE  DeprecateInv'
  BY <1>18 DEF BurnWrite
<1>19. ASSUME BurnRefused
      PROVE  DeprecateInv'
  BY <1>19 DEF BurnRefused
<1>20. ASSUME BurnCommit
      PROVE  DeprecateInv'
  BY <1>20 DEF BurnCommit
<1>21. ASSUME BurnException
      PROVE  DeprecateInv'
  BY <1>21 DEF BurnException
<1>22. ASSUME BurnReceipt
      PROVE  DeprecateInv'
  BY <1>22 DEF BurnReceipt
<1>23. ASSUME BurnReceiptFail
      PROVE  DeprecateInv'
  BY <1>23 DEF BurnReceiptFail
<1>24. ASSUME BurnEnd
      PROVE  DeprecateInv'
  BY <1>24 DEF BurnEnd
<1>25. ASSUME NEW s \in Sessions, NEW force \in BOOLEAN, CleanBegin(s, force)
      PROVE  DeprecateInv'
  BY <1>25 DEF CleanBegin
<1>26. ASSUME NEW v \in Volumes, CleanDelete(v)
      PROVE  DeprecateInv'
  BY <1>26 DEF CleanDelete
<1>27. ASSUME NEW v \in Volumes, AbortVolume(v)
      PROVE  DeprecateInv'
  BY <1>27 DEF AbortVolume
<1>28. ASSUME NEW v \in Volumes, ReconcileDelete(v)
      PROVE  DeprecateInv'
  BY <1>28 DEF ReconcileDelete
<1>29. ASSUME CleanFiles
      PROVE  DeprecateInv'
  BY <1>29 DEF CleanFiles
<1>30. ASSUME CleanMark
      PROVE  DeprecateInv'
  BY <1>30 DEF CleanMark
<1>31. ASSUME NEW old \in SUBSET Volumes, ReconcileBegin(old)
      PROVE  DeprecateInv'
  BY <1>31 DEF ReconcileBegin
<1>32. ASSUME NEW v \in Volumes, NEW l \in Locations, NEW verdict \in {"true", "false", "null", "missing"}, ImportReceipt(v, l, verdict)
      PROVE  DeprecateInv'
  BY <1>32 DEF ImportReceipt
<1>33. ASSUME NEW v \in Volumes, MarkVerified(v)
      PROVE  DeprecateInv'
  BY <1>33 DEF MarkVerified
<1>34. ASSUME NEW v \in Volumes, VerifyPass(v)
      PROVE  DeprecateInv'
  BY <1>34 DEF VerifyPass
<1>35. ASSUME NEW v \in Volumes, NEW l \in Locations, CopyDeprecate(v, l)
      PROVE  DeprecateInv'
  BY <1>35 DEF CopyDeprecate, SetCopy
<1>36. ASSUME NEW v \in Volumes, NEW l \in Locations, CopyDestroy(v, l)
      PROVE  DeprecateInv'
  BY <1>36 DEF CopyDestroy, SetCopy
<1>37. ASSUME NEW v \in Volumes, NEW from \in Locations, NEW to \in Locations, CopyMove(v, from, to)
      PROVE  DeprecateInv'
  BY <1>37 DEF CopyMove
<1>38. ASSUME NEW src \in SUBSET Volumes, DeprecateBegin(src)
      PROVE  DeprecateInv'
  <2>1. op'.dep = {} /\ op'.any = FALSE /\ UNCHANGED <<status, known, pruned, packsOn>>
    BY <1>38 DEF DeprecateBegin
  <2>2. \A u \in Volumes : View'[u] = status'[u]
    BY <2>1 DEF View
  <2>3. QED
    BY <2>1, <2>2 DEF Archived, HasDurableLink
<1>39. ASSUME NEW src \in SUBSET Volumes, ConsolidateBegin(src)
      PROVE  DeprecateInv'
  BY <1>39 DEF ConsolidateBegin
<1>40. ASSUME NEW v \in Volumes, DeprecateSource(v)
      PROVE  DeprecateInv'
  <2>1. op'.any = TRUE /\ op'.dep = op.dep \cup {v}
    BY <1>40 DEF DeprecateSource
  <2>2. \A u \in op'.dep :
            status'[u] \in {"STAGING", "VERIFIED", "CONSOLIDATING", "DEPRECATED"}
    BY <1>40, <2>1 DEF DeprecateSource, DeprecationAllowed, View, VALID_TRANSITIONS
  <2>3. ASSUME NEW p \in (known \ pruned)', Archived(status, p)'
        PROVE  Archived(View, p)'
    <3>1. p \in known \ pruned /\ Archived(status, p)
      BY <1>40, <2>3 DEF DeprecateSource, Archived, HasDurableLink, DURABLE_VOLUME_STATUSES
    <3>2. PICK w \in Volumes \ {v} : /\ p \in packsOn[w] /\ w \notin op.dep
                                    /\ status[w] \in DURABLE_VOLUME_STATUSES
      BY <1>40, <3>1, OtherReplica DEF DeprecateSource
    <3>3. View'[w] = status[w] /\ packsOn'[w] = packsOn[w]
      BY <1>40, <2>1, <3>2 DEF DeprecateSource, View
    <3>4. QED
      BY <2>3, <3>2, <3>3 DEF Archived, HasDurableLink
  <2>4. QED
    BY <2>1, <2>2, <2>3
<1>41. ASSUME NEW v \in Volumes, DeprecateRefused(v)
      PROVE  DeprecateInv'
  BY <1>41 DEF DeprecateRefused
<1>42. ASSUME DeprecateCommit
      PROVE  DeprecateInv'
  BY <1>42 DEF DeprecateCommit
<1>43. ASSUME NEW s \in Sessions, ConsolidateStage(s)
      PROVE  DeprecateInv'
  BY <1>43 DEF ConsolidateStage, Staging
<1>44. ASSUME Crash
      PROVE  DeprecateInv'
  BY <1>44 DEF Crash
<1>45. CASE UNCHANGED vars
  BY <1>45 DEF vars, View, Archived
<1> HIDE DEF TypeOK, Operation, Idle, Exit, Enter, Step, catalog, packTable,
        volTables, ghosts, DeprecateInv
<1>46. QED
  BY <1>1, <1>2, <1>3, <1>4, <1>5, <1>5b, <1>5c, <1>5d, <1>5e, <1>6, <1>7, <1>8, <1>9, <1>10, <1>11,
     <1>12, <1>13, <1>14, <1>15, <1>16, <1>17, <1>18, <1>19, <1>20, <1>21,
     <1>22, <1>23, <1>24, <1>25, <1>26, <1>27, <1>28, <1>29, <1>30, <1>31,
     <1>32, <1>33, <1>34, <1>35, <1>36, <1>37, <1>38, <1>39, <1>40, <1>41,
     <1>42, <1>43, <1>44, <1>45 DEF Next

(* The status of a volume moves along the table or by one of the known
   exceptions, a recorded volume is never deleted, and a deprecation leaves
   every archived pack archived. *)
LEMMA MoveStep ==
    ASSUME TypeOK, StageInv, BurnInv, PurgeInv, SourceInv, DeprecateInv, RowsInv, [Next]_vars
    PROVE  StatusMove /\ VolumeKept /\ ArchiveKept
<1> USE DEF TypeOK, Operation, Idle, Exit, Enter, Step, catalog, packTable,
        volTables, ghosts, StatusMove, VolumeKept, ArchiveKept
<1>a. \A u \in Volumes : HasRows(copies, u) => status[u] # "deleted"
  BY DEF RowsInv, Exists, VolumeStatus
<1>1. ASSUME NEW p \in Packs, MirrorWrite(p)
      PROVE  StatusMove /\ VolumeKept /\ ArchiveKept
  BY <1>a, <1>1 DEF MirrorWrite, Archived, HasDurableLink
<1>2. ASSUME NEW p \in Packs, NEW to \in {"none", "empty"}, MirrorLose(p, to)
      PROVE  StatusMove /\ VolumeKept /\ ArchiveKept
  BY <1>a, <1>2 DEF MirrorLose, Archived, HasDurableLink
<1>3. ASSUME NEW p \in Packs, PackUnprune(p)
      PROVE  StatusMove /\ VolumeKept /\ ArchiveKept
  BY <1>a, <1>3 DEF PackUnprune
<1>4. ASSUME NEW sync \in BOOLEAN, NEW yes \in BOOLEAN, ScanRegister(sync, yes)
      PROVE  StatusMove /\ VolumeKept /\ ArchiveKept
  BY <1>a, <1>4 DEF ScanRegister
<1>5. ASSUME ScanPrune
      PROVE  StatusMove /\ VolumeKept /\ ArchiveKept
  BY <1>a, <1>5 DEF ScanPrune
<1>5b. ASSUME NEW data \in {"listed", "missing", "denied"}, ScanBegin(data)
      PROVE  StatusMove /\ VolumeKept /\ ArchiveKept
  BY <1>a, <1>5b DEF ScanBegin
<1>5c. ASSUME NEW p \in Packs, NEW readable \in BOOLEAN, ScanDir(p, readable)
      PROVE  StatusMove /\ VolumeKept /\ ArchiveKept
  BY <1>a, <1>5c DEF ScanDir
<1>5d. ASSUME NEW gone \in SUBSET Packs, NEW force \in BOOLEAN, RepoRemoveBegin(gone, force)
      PROVE  StatusMove /\ VolumeKept /\ ArchiveKept
  BY <1>a, <1>5d DEF RepoRemoveBegin
<1>5e. ASSUME RepoRemove
      PROVE  StatusMove /\ VolumeKept /\ ArchiveKept
  BY <1>a, <1>5e DEF RepoRemove
<1>6. ASSUME NEW s \in Sessions, NEW t \in {"none"} \cup Locations, StageBegin(s, t)
      PROVE  StatusMove /\ VolumeKept /\ ArchiveKept
  BY <1>a, <1>6 DEF StageBegin
<1>7. ASSUME NEW v \in Volumes, NEW bin \in SUBSET Packs, StageVolume(v, bin)
      PROVE  StatusMove /\ VolumeKept /\ ArchiveKept
  <2>1. /\ \A u \in Volumes \ {v} : status'[u] = status[u]
        /\ status[v] = "absent" /\ status'[v] = "STAGING"
        /\ op.pc # "deprecate"
    BY <1>a, <1>7 DEF StageVolume, FreshVolume
  <2>2. QED
    BY <1>a, <2>1
<1>8. ASSUME StageRefused
      PROVE  StatusMove /\ VolumeKept /\ ArchiveKept
  BY <1>a, <1>8 DEF StageRefused, abort_consolidation, SourceInv, StagePCs, VALID_TRANSITIONS
<1>9. ASSUME StageIso
      PROVE  StatusMove /\ VolumeKept /\ ArchiveKept
  BY <1>a, <1>9 DEF StageIso
<1>10. ASSUME StageEcc
      PROVE  StatusMove /\ VolumeKept /\ ArchiveKept
  BY <1>a, <1>10 DEF StageEcc
<1>11. ASSUME StageFail
      PROVE  StatusMove /\ VolumeKept /\ ArchiveKept
  <2>1. ASSUME NEW u \in Volumes
        PROVE  \/ u = op.vol /\ status'[u] = "deleted" /\ ~HasRows(copies, u)
               \/ status[u] = "CONSOLIDATING" /\ status'[u] = "VERIFIED"
               \/ status'[u] = status[u]
    BY <1>a, <1>11 DEF StageFail, abort_consolidation, delete_volume, SourceInv, StageInv, StagePCs
  <2>2. op.pc # "deprecate"
    BY <1>a, <1>11 DEF StageFail
  <2>3. QED
    BY <1>a, <2>1, <2>2 DEF VALID_TRANSITIONS
<1>12. ASSUME StageHash
      PROVE  StatusMove /\ VolumeKept /\ ArchiveKept
  BY <1>a, <1>12 DEF StageHash
<1>13. ASSUME StageHashFail
      PROVE  StatusMove /\ VolumeKept /\ ArchiveKept
  BY <1>a, <1>13 DEF StageHashFail, abort_consolidation, SourceInv, StagePCs, VALID_TRANSITIONS
<1>14. ASSUME StageEnd
      PROVE  StatusMove /\ VolumeKept /\ ArchiveKept
  BY <1>a, <1>14 DEF StageEnd
<1>15. ASSUME NEW s \in Sessions, NEW l \in Locations, BurnBegin(s, l)
      PROVE  StatusMove /\ VolumeKept /\ ArchiveKept
  BY <1>a, <1>15 DEF BurnBegin
<1>16. ASSUME NEW v \in Volumes, BurnLoad(v)
      PROVE  StatusMove /\ VolumeKept /\ ArchiveKept
  BY <1>a, <1>16 DEF BurnLoad, CanMove
<1>17. ASSUME NEW v \in Volumes, BurnBadTransition(v)
      PROVE  StatusMove /\ VolumeKept /\ ArchiveKept
  BY <1>a, <1>17 DEF BurnBadTransition
<1>18. ASSUME NEW kind \in DiscKinds, BurnWrite(kind)
      PROVE  StatusMove /\ VolumeKept /\ ArchiveKept
  BY <1>a, <1>18 DEF BurnWrite
<1>19. ASSUME BurnRefused
      PROVE  StatusMove /\ VolumeKept /\ ArchiveKept
  BY <1>a, <1>19 DEF BurnRefused
<1>20. ASSUME BurnCommit
      PROVE  StatusMove /\ VolumeKept /\ ArchiveKept
  <2>1. op.vol \in Volumes /\ (~op.reburn => status[op.vol] = "BURNING")
    BY <1>a, <1>20 DEF BurnCommit, BurnInv, BurnPCs
  <2>2. CASE op.reburn
    BY <1>a, <1>20, <2>2 DEF BurnCommit
  <2>3. CASE ~op.reburn
    <3>1. status'[op.vol] \in {"VERIFIED", "STAGING"} /\ op.pc # "deprecate"
      BY <1>a, <1>20, <2>1, <2>3 DEF BurnCommit
    <3>2. \A u \in Volumes \ {op.vol} : status'[u] = status[u]
      BY <1>a, <1>20, <2>3 DEF BurnCommit
    <3>3. QED
      BY <1>a, <2>1, <2>3, <3>1, <3>2 DEF VALID_TRANSITIONS
  <2>4. QED
    BY <2>2, <2>3
<1>21. ASSUME BurnException
      PROVE  StatusMove /\ VolumeKept /\ ArchiveKept
  <2>1. op.vol \in Volumes /\ (~op.reburn => status[op.vol] = "BURNING")
    BY <1>a, <1>21 DEF BurnException, BurnInv, BurnPCs
  <2>2. CASE op.reburn
    BY <1>a, <1>21, <2>2 DEF BurnException
  <2>3. CASE ~op.reburn
    <3>1. status'[op.vol] \in {"VERIFIED", "STAGING"} /\ op.pc # "deprecate"
      BY <1>a, <1>21, <2>1, <2>3 DEF BurnException
    <3>2. \A u \in Volumes \ {op.vol} : status'[u] = status[u]
      BY <1>a, <1>21, <2>3 DEF BurnException
    <3>3. QED
      BY <1>a, <2>1, <2>3, <3>1, <3>2 DEF VALID_TRANSITIONS
  <2>4. QED
    BY <2>2, <2>3
<1>22. ASSUME BurnReceipt
      PROVE  StatusMove /\ VolumeKept /\ ArchiveKept
  BY <1>a, <1>22 DEF BurnReceipt
<1>23. ASSUME BurnReceiptFail
      PROVE  StatusMove /\ VolumeKept /\ ArchiveKept
  BY <1>a, <1>23 DEF BurnReceiptFail
<1>24. ASSUME BurnEnd
      PROVE  StatusMove /\ VolumeKept /\ ArchiveKept
  BY <1>a, <1>24 DEF BurnEnd
<1>25. ASSUME NEW s \in Sessions, NEW force \in BOOLEAN, CleanBegin(s, force)
      PROVE  StatusMove /\ VolumeKept /\ ArchiveKept
  BY <1>a, <1>25 DEF CleanBegin
<1>26. ASSUME NEW v \in Volumes, CleanDelete(v)
      PROVE  StatusMove /\ VolumeKept /\ ArchiveKept
  <2>1. /\ \A u \in Volumes \ {v} : status'[u] = status[u]
        /\ status'[v] = "deleted"
        /\ op.pc # "deprecate"
    BY <1>26 DEF CleanDelete, delete_volume
  <2>2. ~HasRows(copies, v)
    BY <1>26 DEF CleanDelete, PurgeInv
  <2>3. QED
    BY <1>a, <2>1, <2>2
<1>27. ASSUME NEW v \in Volumes, AbortVolume(v)
      PROVE  StatusMove /\ VolumeKept /\ ArchiveKept
  <2>1. /\ \A u \in Volumes \ {v} : status'[u] = status[u]
        /\ status'[v] = "deleted"
        /\ op.pc # "deprecate"
    BY <1>27 DEF AbortVolume, delete_volume
  <2>2. ~HasRows(copies, v)
    BY <1>27 DEF AbortVolume
  <2>3. QED
    BY <1>a, <2>1, <2>2
<1>28. ASSUME NEW v \in Volumes, ReconcileDelete(v)
      PROVE  StatusMove /\ VolumeKept /\ ArchiveKept
  <2>1. /\ \A u \in Volumes \ {v} : status'[u] = status[u]
        /\ status'[v] = "deleted"
        /\ op.pc # "deprecate"
    BY <1>28 DEF ReconcileDelete, delete_volume
  <2>2. ~HasRows(copies, v)
    BY <1>28 DEF ReconcileDelete, PurgeInv
  <2>3. QED
    BY <1>a, <2>1, <2>2
<1>29. ASSUME CleanFiles
      PROVE  StatusMove /\ VolumeKept /\ ArchiveKept
  BY <1>a, <1>29 DEF CleanFiles
<1>30. ASSUME CleanMark
      PROVE  StatusMove /\ VolumeKept /\ ArchiveKept
  BY <1>a, <1>30 DEF CleanMark
<1>31. ASSUME NEW old \in SUBSET Volumes, ReconcileBegin(old)
      PROVE  StatusMove /\ VolumeKept /\ ArchiveKept
  BY <1>a, <1>31 DEF ReconcileBegin
<1>32. ASSUME NEW v \in Volumes, NEW l \in Locations, NEW verdict \in {"true", "false", "null", "missing"}, ImportReceipt(v, l, verdict)
      PROVE  StatusMove /\ VolumeKept /\ ArchiveKept
  <2>1. CASE status[v] = "STAGING" /\ verdict # "false"
    <3>1. status'[v] \in {"BURNED", "VERIFIED"} /\ v \in attested'
      BY <1>a, <1>32, <2>1 DEF ImportReceipt
    <3>2. \A u \in Volumes \ {v} : status'[u] = status[u]
      BY <1>a, <1>32 DEF ImportReceipt
    <3>3. QED
      BY <1>a, <1>32, <2>1, <3>1, <3>2 DEF ImportReceipt
  <2>2. CASE ~(status[v] = "STAGING" /\ verdict # "false")
    <3>1. \A u \in Volumes : status'[u] = status[u]
      BY <1>a, <1>32, <2>2 DEF ImportReceipt
    <3>2. QED
      BY <1>a, <1>32, <3>1 DEF ImportReceipt
  <2>3. QED
    BY <1>a, <2>1, <2>2
<1>33. ASSUME NEW v \in Volumes, MarkVerified(v)
      PROVE  StatusMove /\ VolumeKept /\ ArchiveKept
  <2>1. /\ \A u \in Volumes \ {v} : status'[u] = status[u]
        /\ status[v] \in {"BURNED", "STAGING"} /\ status'[v] = "VERIFIED"
        /\ v \in attested' /\ op.pc # "deprecate"
    BY <1>33 DEF MarkVerified
  <2>2. CASE status[v] = "BURNED"
    BY <1>a, <2>1, <2>2 DEF VALID_TRANSITIONS
  <2>3. CASE status[v] = "STAGING"
    BY <1>a, <2>1, <2>3
  <2>4. QED
    BY <2>1, <2>2, <2>3
<1>34. ASSUME NEW v \in Volumes, VerifyPass(v)
      PROVE  StatusMove /\ VolumeKept /\ ArchiveKept
  <2>1. /\ \A u \in Volumes \ {v} : status'[u] = status[u]
        /\ status[v] = "BURNED" /\ status'[v] = "VERIFIED"
        /\ op.pc # "deprecate"
    BY <1>a, <1>34 DEF VerifyPass
  <2>2. QED
    BY <1>a, <2>1 DEF VALID_TRANSITIONS
<1>35. ASSUME NEW v \in Volumes, NEW l \in Locations, CopyDeprecate(v, l)
      PROVE  StatusMove /\ VolumeKept /\ ArchiveKept
  <2>1. \A u \in Volumes :
           \/ status'[u] = status[u]
           \/ status'[u] = "DEPRECATED" /\ HasRows(copies', u) /\ ~HasActive(copies', u)
    BY <1>a, <1>35 DEF CopyDeprecate, SetCopy, Demote
  <2>2. op.pc # "deprecate"
    BY <1>a, <1>35 DEF CopyDeprecate
  <2>3. QED
    BY <1>a, <2>1, <2>2
<1>36. ASSUME NEW v \in Volumes, NEW l \in Locations, CopyDestroy(v, l)
      PROVE  StatusMove /\ VolumeKept /\ ArchiveKept
  <2>1. \A u \in Volumes :
           \/ status'[u] = status[u]
           \/ status'[u] = "DEPRECATED" /\ HasRows(copies', u) /\ ~HasActive(copies', u)
    BY <1>a, <1>36 DEF CopyDestroy, SetCopy, Demote
  <2>2. op.pc # "deprecate"
    BY <1>a, <1>36 DEF CopyDestroy
  <2>3. QED
    BY <1>a, <2>1, <2>2
<1>37. ASSUME NEW v \in Volumes, NEW from \in Locations, NEW to \in Locations, CopyMove(v, from, to)
      PROVE  StatusMove /\ VolumeKept /\ ArchiveKept
  BY <1>a, <1>37 DEF CopyMove
<1>38. ASSUME NEW src \in SUBSET Volumes, DeprecateBegin(src)
      PROVE  StatusMove /\ VolumeKept /\ ArchiveKept
  BY <1>a, <1>38 DEF DeprecateBegin
<1>39. ASSUME NEW src \in SUBSET Volumes, ConsolidateBegin(src)
      PROVE  StatusMove /\ VolumeKept /\ ArchiveKept
  BY <1>a, <1>39 DEF ConsolidateBegin, CanMove
<1>40. ASSUME NEW v \in Volumes, DeprecateSource(v)
      PROVE  StatusMove /\ VolumeKept /\ ArchiveKept
  <2>1. StatusMove /\ VolumeKept
    BY <1>a, <1>40 DEF DeprecateSource, DeprecationAllowed, View, VALID_TRANSITIONS
  <2>2. ASSUME NEW p \in known \ pruned, Archived(status, p)
        PROVE  Archived(status', p)
    <3>1. PICK w \in Volumes \ {v} : p \in packsOn[w] /\ status[w] \in DURABLE_VOLUME_STATUSES
      BY <1>a, <1>40, <2>2, OtherReplica DEF DeprecateSource
    <3>2. status'[w] = status[w]
      BY <1>a, <1>40, <3>1 DEF DeprecateSource
    <3>3. QED
      BY <3>1, <3>2 DEF Archived, HasDurableLink
  <2>3. QED
    BY <1>a, <2>1, <2>2
<1>41. ASSUME NEW v \in Volumes, DeprecateRefused(v)
      PROVE  StatusMove /\ VolumeKept /\ ArchiveKept
  BY <1>a, <1>41 DEF DeprecateRefused, Archived, HasDurableLink
<1>42. ASSUME DeprecateCommit
      PROVE  StatusMove /\ VolumeKept /\ ArchiveKept
  <2>1. StatusMove /\ VolumeKept
    BY <1>a, <1>42 DEF DeprecateCommit, DeprecateInv, View, VALID_TRANSITIONS
  <2>2. ArchiveKept
    BY <1>a, <1>42 DEF DeprecateCommit, DeprecateInv
  <2>3. QED
    BY <1>a, <2>1, <2>2
<1>43. ASSUME NEW s \in Sessions, ConsolidateStage(s)
      PROVE  StatusMove /\ VolumeKept /\ ArchiveKept
  BY <1>a, <1>43 DEF ConsolidateStage, abort_consolidation, SourceInv, StagePCs, VALID_TRANSITIONS
<1>44. ASSUME Crash
      PROVE  StatusMove /\ VolumeKept /\ ArchiveKept
  BY <1>a, <1>44 DEF Crash, Archived, HasDurableLink
<1>45. CASE UNCHANGED vars
  BY <1>a, <1>45 DEF vars
<1> HIDE DEF TypeOK, Operation, Idle, Exit, Enter, Step, catalog, packTable,
        volTables, ghosts, StatusMove, VolumeKept, ArchiveKept
<1>46. QED
  BY <1>1, <1>2, <1>3, <1>4, <1>5, <1>5b, <1>5c, <1>5d, <1>5e, <1>6, <1>7, <1>8, <1>9, <1>10, <1>11,
     <1>12, <1>13, <1>14, <1>15, <1>16, <1>17, <1>18, <1>19, <1>20, <1>21,
     <1>22, <1>23, <1>24, <1>25, <1>26, <1>27, <1>28, <1>29, <1>30, <1>31,
     <1>32, <1>33, <1>34, <1>35, <1>36, <1>37, <1>38, <1>39, <1>40, <1>41,
     <1>42, <1>43, <1>44, <1>45 DEF Next

LEMMA InitInv == Init => IInv
<1> SUFFICES ASSUME Init PROVE IInv
  OBVIOUS
<1>1. TypeOK
  BY ArchiveBounds
     DEF Init, TypeOK, Operation, PCs, Idle
<1>2. StageInv /\ BurnInv /\ PurgeInv /\ SourceInv /\ DeprecateInv
  BY DEF Init, Idle, StageInv, BurnInv, PurgeInv, SourceInv, DeprecateInv, StagePCs, BurnPCs
<1>3. RowsInv /\ DurableBacked /\ RecordedDiscIsReal
  BY DEF Init, RowsInv, DurableBacked, RecordedDiscIsReal, HasRows, DURABLE_VOLUME_STATUSES
<1>4. QED
  BY <1>1, <1>2, <1>3 DEF IInv

LEMMA StepInv == IInv /\ [Next]_vars => IInv'
  BY TypeStep, ControlStep, DeprecateStep, CustodyStep DEF IInv

(* IInv is an inductive invariant of the pipeline, for every number of packs,
   locations, volumes, sessions and crashes. *)
THEOREM Invariance == Spec => []IInv
<1>1. Init => IInv
  BY InitInv
<1>2. IInv /\ [Next]_vars => IInv'
  BY StepInv
<1>3. QED
  BY <1>1, <1>2, PTL DEF Spec

(* Type correctness: in particular a status column never holds a value the
   schema's CHECK constraint would reject. *)
THEOREM TypeCorrect == Spec => []TypeOK
<1>1. IInv => TypeOK
  BY DEF IInv
<1>2. QED
  BY <1>1, Invariance, PTL

(* A durable volume has a disc in service, or never had a disc row and was
   vouched for: get_unarchived_packs never withholds a pack that is on no disc
   this catalog can name.  Every command, every crash point. *)
THEOREM DurableIsBacked == Spec => []DurableBacked
<1>1. IInv => DurableBacked
  BY DEF IInv
<1>2. QED
  BY <1>1, Invariance, PTL

(* A disc row stands for a disc that was written and read back by
   burn_session, or that a receipt or the owner vouched for. *)
THEOREM RecordedIsReal == Spec => []RecordedDiscIsReal
<1>1. IInv => RecordedDiscIsReal
  BY DEF IInv
<1>2. QED
  BY <1>1, Invariance, PTL

(* No clean, abort, reconcile or failing stage deletes a volume with a disc. *)
THEOREM RecordedIsKept == Spec => RecordedVolumeKept
<1>1. IInv /\ [Next]_vars => [VolumeKept]_vars
  BY MoveStep DEF IInv
<1>2. QED
  BY <1>1, Invariance, PTL DEF Spec, RecordedVolumeKept

(* Volume statuses move along VALID_TRANSITIONS but for the listed exceptions. *)
THEOREM MovesAreLegal == Spec => StatusMoves
<1>1. IInv /\ [Next]_vars => [StatusMove]_vars
  BY MoveStep DEF IInv
<1>2. QED
  BY <1>1, Invariance, PTL DEF Spec, StatusMoves

(* consolidate --deprecate, for any number of sources in any order and with a
   crash at any point, leaves every archived pack archived. *)
THEOREM DeprecationIsSafe == Spec => DeprecationKeepsArchive
<1>1. IInv /\ [Next]_vars => [ArchiveKept]_vars
  BY MoveStep DEF IInv
<1>2. QED
  BY <1>1, Invariance, PTL DEF Spec, DeprecationKeepsArchive

-----------------------------------------------------------------------------
(***************************************************************************)
(* Sessions, images and notes.  The invariant behind PendingInSession,     *)
(* NoImageNoWaiting, CompleteHasDiscs and NotesAreTrue: what the tables    *)
(* say of each other, and what a stage, a burn, a clean and a reconcile    *)
(* carry from one commit to the next.                                      *)
(***************************************************************************)

\* Every volume in the catalog has packs, which the catalog knows, unless a
\* repository is removed, and a session; a volume that is not created yet has no image.
LinkedInv ==
    /\ \A v \in Volumes : Exists(v) =>
          /\ \E s \in Sessions : v \in svols[s]
          /\ packsOn[v] \subseteq known
          /\ packsOn[v] # {} \/ "remove" \in Commands
    /\ \A v \in Volumes : status[v] = "absent" => iso[v] = "none"

TablesInv == LinkedInv /\ NoImageNoWaiting /\ CompleteHasDiscs /\ NotesAreTrue

\* A stage takes known packs to a session no burn has finished.
PoolInv ==
    op.pc \in StagePCs => op.packs \subseteq known /\ session[op.sess] = "STAGED"

\* A burn without a failure has a disc row for every volume it is done with.
LoopInv ==
    op.pc \in BurnPCs /\ ~op.failed =>
        /\ \A v \in svols[op.sess] : v \in op.todo \/ HasRows(copies, v)
        /\ op.pc = "burn.receipt" => HasRows(copies, op.vol)

\* What clean and reconcile delete was never burned, and clean will have
\* deleted whatever its removal of the images would strand; a removal is one the
\* owner asked for.
SweepInv ==
    /\ op.pc \in {"clean.delete", "purge"} =>
          \A v \in op.todo : status[v] \in {"STAGING", "BURNING", "BURNED"}
    /\ op.pc = "clean.delete" =>
          strandable_session_volumes(status, copies, op.members) \subseteq op.todo
    /\ op.pc = "remove" => "remove" \in Commands

TrackInv == TablesInv /\ PoolInv /\ LoopInv /\ SweepInv

\* What a status may become without a new row anywhere: not from DEPRECATED,
\* and not to a waiting one when the image is gone and there is no disc row.
Moved(v) ==
    \/ status'[v] = status[v]
    \/ /\ status[v] \in VolumeStatus \ {"DEPRECATED"}
       /\ status'[v] \in VolumeStatus
       /\ \/ status'[v] \in {"VERIFIED", "CONSOLIDATING", "DEPRECATED"}
          \/ iso[v] # "gone" \/ HasRows(copies', v)

\* A step that moves statuses so, loses no disc row, completes no session and
\* notes only deprecations keeps the tables.
LEMMA TablesMove ==
    ASSUME TypeOK, TablesInv, \A v \in Volumes : Moved(v),
           \A v \in Volumes : HasRows(copies, v) => HasRows(copies', v),
           \A s \in Sessions : session'[s] = "COMPLETE" => session[s] = "COMPLETE",
           \A v \in noted' : v \in noted \/ status'[v] = "DEPRECATED",
           UNCHANGED <<iso, packsOn, svols>>, known \subseteq known'
    PROVE  TablesInv'
<1> USE DEF Moved
<1>1. LinkedInv'
  <2>1. \A v \in Volumes : Exists(v)' => Exists(v)
    BY DEF Exists
  <2>2. \A v \in Volumes : status'[v] = "absent" => status[v] = "absent"
    BY DEF VolumeStatus
  <2>3. QED
    BY <2>1, <2>2 DEF TablesInv, LinkedInv
<1>2. NoImageNoWaiting'
  BY DEF TablesInv, NoImageNoWaiting, strandable_session_volumes
<1>3. CompleteHasDiscs'
  BY DEF TablesInv, CompleteHasDiscs, TypeOK
<1>4. NotesAreTrue'
  BY DEF TablesInv, NotesAreTrue, TypeOK
<1>5. QED
  BY <1>1, <1>2, <1>3, <1>4 DEF TablesInv

\* delete_volume of a volume that has no note takes every row of it.
LEMMA TablesDelete ==
    ASSUME TypeOK, TablesInv, NEW v \in Volumes, v \notin noted,
           NEW st \in [Volumes -> VolumeStatus \cup {"absent", "deleted"}], delete_volume(v, st),
           \A u \in Volumes : st[u] = status[u] \/ (status[u] = "CONSOLIDATING" /\ st[u] = "VERIFIED"),
           UNCHANGED <<iso, known, session, noted>>
    PROVE  TablesInv'
<1>1. /\ status'[v] = "deleted"
      /\ \A u \in Volumes \ {v} :
            /\ status'[u] = st[u] /\ packsOn'[u] = packsOn[u] /\ copies'[u] = copies[u]
            /\ \A s \in Sessions : u \in svols[s] <=> u \in svols'[s]
  BY DEF delete_volume, TypeOK
<1>2. \A s \in Sessions : svols'[s] = svols[s] \ {v}
  BY DEF delete_volume
<1>3. LinkedInv'
  <2> SUFFICES ASSUME NEW u \in Volumes
               PROVE  /\ Exists(u)' => /\ \E s \in Sessions : u \in svols'[s]
                                       /\ packsOn'[u] \subseteq known
                                       /\ packsOn'[u] # {} \/ "remove" \in Commands
                      /\ status'[u] = "absent" => iso[u] = "none"
    BY DEF LinkedInv
  <2>1. CASE u = v
    BY <1>1, <2>1 DEF Exists, VolumeStatus
  <2>2. CASE u # v
    <3>1. (Exists(u)' => Exists(u)) /\ (status'[u] = "absent" => status[u] = "absent")
      BY <1>1, <2>2 DEF Exists, VolumeStatus
    <3>2. QED
      BY <1>1, <2>2, <3>1 DEF TablesInv, LinkedInv
  <2>3. QED
    BY <2>1, <2>2
<1>4. NoImageNoWaiting'
  <2> SUFFICES ASSUME NEW u \in Volumes, iso[u] = "gone"
               PROVE  status'[u] \in {"STAGING", "BURNING", "BURNED"} => HasRows(copies', u)
    BY DEF NoImageNoWaiting, strandable_session_volumes
  <2>1. CASE u = v
    BY <1>1, <2>1
  <2>2. CASE u # v
    BY <1>1, <2>2 DEF TablesInv, NoImageNoWaiting, strandable_session_volumes, HasRows
  <2>3. QED
    BY <2>1, <2>2
<1>5. CompleteHasDiscs'
  BY <1>1, <1>2 DEF TablesInv, CompleteHasDiscs, HasRows, TypeOK
<1>6. NotesAreTrue'
  <2>1. \A u \in noted : u \in Volumes \ {v} /\ status[u] = "DEPRECATED"
    BY DEF TablesInv, NotesAreTrue, TypeOK
  <2>2. QED
    BY <1>1, <2>1 DEF NotesAreTrue
<1>7. QED
  BY <1>3, <1>4, <1>5, <1>6 DEF TablesInv

\* No step breaks what the tables say of each other.
LEMMA TablesStep ==
    ASSUME IInv, TrackInv, [Next]_vars
    PROVE  TablesInv'
<1>a. /\ TypeOK /\ StageInv /\ BurnInv /\ PurgeInv /\ SourceInv /\ DeprecateInv /\ RowsInv
      /\ TablesInv /\ PoolInv /\ LoopInv /\ SweepInv
  BY DEF IInv, TrackInv
<1> USE <1>a DEF TypeOK, Operation, Idle, Exit, Enter, Step, catalog, packTable, volTables, ghosts
<1>1. ASSUME UNCHANGED <<iso, known, status, packsOn, copies, session, svols, noted>>
      PROVE  TablesInv'
  BY <1>1, TablesMove DEF Moved
<1>2. CASE \/ \E p \in Packs : MirrorWrite(p) \/ PackUnprune(p)
           \/ \E p \in Packs, to \in {"none", "empty"} : MirrorLose(p, to)
           \/ \E data \in {"listed", "missing", "denied"} : ScanBegin(data)
           \/ \E p \in Packs, readable \in BOOLEAN : ScanDir(p, readable)
           \/ \E gone \in SUBSET Packs, force \in BOOLEAN : RepoRemoveBegin(gone, force)
           \/ ScanPrune \/ StageHash \/ StageEnd
           \/ \E s \in Sessions, l \in Locations : BurnBegin(s, l)
           \/ \E v \in Volumes : BurnBadTransition(v) \/ DeprecateRefused(v)
           \/ \E kind \in DiscKinds : BurnWrite(kind)
           \/ BurnRefused \/ BurnReceipt \/ Crash
           \/ \E s \in Sessions, force \in BOOLEAN : CleanBegin(s, force)
           \/ \E old \in SUBSET Volumes : ReconcileBegin(old) \/ DeprecateBegin(old)
           \/ UNCHANGED vars
  BY <1>1, <1>2 DEF MirrorWrite, MirrorLose, PackUnprune, ScanBegin, ScanDir, RepoRemoveBegin, ScanPrune,
     StageHash, StageEnd, BurnBegin,
     BurnBadTransition, DeprecateRefused, BurnWrite, BurnRefused, BurnReceipt, Crash, CleanBegin,
     ReconcileBegin, DeprecateBegin, vars
<1>3. ASSUME NEW sync \in BOOLEAN, NEW yes \in BOOLEAN, ScanRegister(sync, yes)
      PROVE  TablesInv'
  <2>1. \A u \in Volumes : Moved(u)
    BY <1>3 DEF ScanRegister, Moved, VolumeStatus
  <2>2. /\ \A u \in Volumes : HasRows(copies, u) => HasRows(copies', u)
        /\ \A q \in Sessions : session'[q] = "COMPLETE" => session[q] = "COMPLETE"
        /\ \A u \in noted' : u \in noted \/ status'[u] = "DEPRECATED"
        /\ UNCHANGED <<iso, packsOn, svols>> /\ known \subseteq known'
    BY <1>3 DEF ScanRegister, HasRows
  <2>3. QED
    BY <2>1, <2>2, TablesMove
<1>3b. ASSUME RepoRemove
      PROVE  TablesInv'
  <2>1. /\ \A v \in Volumes : packsOn'[v] = packsOn[v] \ op.packs
        /\ known' = known \ op.packs
        /\ UNCHANGED <<iso, status, copies, svols, noted, session>>
    BY <1>3b DEF RepoRemove
  <2>2. "remove" \in Commands
    BY <1>3b DEF RepoRemove, SweepInv
  <2>3. LinkedInv'
    BY <2>1, <2>2 DEF TablesInv, LinkedInv, Exists
  <2>4. NoImageNoWaiting' /\ CompleteHasDiscs' /\ NotesAreTrue'
    BY <2>1 DEF TablesInv, NoImageNoWaiting, CompleteHasDiscs, NotesAreTrue, strandable_session_volumes
  <2>5. QED
    BY <2>3, <2>4 DEF TablesInv
<1>4. ASSUME NEW s \in Sessions, NEW t \in {"none"} \cup Locations, StageBegin(s, t)
      PROVE  TablesInv'
  <2>1. \A u \in Volumes : Moved(u)
    BY <1>4 DEF StageBegin, create_session, Moved, VolumeStatus
  <2>2. /\ \A u \in Volumes : HasRows(copies, u) => HasRows(copies', u)
        /\ \A q \in Sessions : session'[q] = "COMPLETE" => session[q] = "COMPLETE"
        /\ \A u \in noted' : u \in noted \/ status'[u] = "DEPRECATED"
        /\ UNCHANGED <<iso, packsOn, svols>> /\ known \subseteq known'
    BY <1>4 DEF StageBegin, create_session, HasRows
  <2>3. QED
    BY <2>1, <2>2, TablesMove
<1>5. ASSUME NEW v \in Volumes, NEW bin \in SUBSET Packs, StageVolume(v, bin)
      PROVE  TablesInv'
  <2>1. /\ status[v] = "absent" /\ status' = [status EXCEPT ![v] = "STAGING"]
        /\ packsOn' = [packsOn EXCEPT ![v] = bin] /\ bin # {} /\ bin \subseteq op.packs
        /\ svols' = [svols EXCEPT ![op.sess] = svols[op.sess] \cup {v}] /\ op.pc = "stage.next"
        /\ UNCHANGED <<iso, known, copies, session, noted>>
    BY <1>5 DEF StageVolume, FreshVolume
  <2>2. op.sess \in Sessions /\ op.packs \subseteq known /\ session[op.sess] = "STAGED"
    BY <2>1 DEF StageInv, PoolInv, StagePCs
  <2>3. iso[v] = "none" /\ \A u \in noted : u # v
    BY <2>1 DEF TablesInv, LinkedInv, NotesAreTrue
  <2>4. \A s \in Sessions : svols[s] \subseteq svols'[s]
    BY <2>1, <2>2
  <2>5. LinkedInv'
    <3> SUFFICES ASSUME NEW u \in Volumes
                 PROVE  /\ Exists(u)' => /\ \E s \in Sessions : u \in svols'[s]
                                         /\ packsOn'[u] \subseteq known
                                         /\ packsOn'[u] # {} \/ "remove" \in Commands
                        /\ status'[u] = "absent" => iso[u] = "none"
      BY <2>1 DEF LinkedInv
    <3>1. CASE u = v
      BY <2>1, <2>2, <2>3, <3>1
    <3>2. CASE u # v
      BY <2>1, <2>4, <3>2 DEF TablesInv, LinkedInv, Exists
    <3>3. QED
      BY <3>1, <3>2
  <2>6. NoImageNoWaiting'
    BY <2>1, <2>3 DEF TablesInv, NoImageNoWaiting, strandable_session_volumes
  <2>7. CompleteHasDiscs'
    BY <2>1, <2>2 DEF TablesInv, CompleteHasDiscs
  <2>8. NotesAreTrue'
    BY <2>1, <2>3 DEF TablesInv, NotesAreTrue
  <2>9. QED
    BY <2>5, <2>6, <2>7, <2>8 DEF TablesInv
<1>6. ASSUME StageRefused \/ StageHashFail
      PROVE  TablesInv'
  <2>1. \A u \in Volumes : Moved(u)
    BY <1>6 DEF StageRefused, StageHashFail, abort_consolidation, SourceInv, StagePCs, Moved, VolumeStatus
  <2>2. /\ \A u \in Volumes : HasRows(copies, u) => HasRows(copies', u)
        /\ \A q \in Sessions : session'[q] = "COMPLETE" => session[q] = "COMPLETE"
        /\ \A u \in noted' : u \in noted \/ status'[u] = "DEPRECATED"
        /\ UNCHANGED <<iso, packsOn, svols>> /\ known \subseteq known'
    BY <1>6 DEF StageRefused, StageHashFail, abort_consolidation, SourceInv, StagePCs, HasRows
  <2>3. QED
    BY <2>1, <2>2, TablesMove
<1>7. ASSUME StageIso \/ StageEcc
      PROVE  TablesInv'
  <2>1. /\ op.vol \in Volumes /\ status[op.vol] = "STAGING"
        /\ \E i \in {"plain", "ecc"} : iso' = [iso EXCEPT ![op.vol] = i]
        /\ UNCHANGED <<known, status, packsOn, copies, session, svols, noted>>
    BY <1>7 DEF StageIso, StageEcc, StageInv, StagePCs
  <2>2. QED
    BY <2>1 DEF TablesInv, LinkedInv, NoImageNoWaiting, CompleteHasDiscs, NotesAreTrue, Exists
<1>8. ASSUME StageFail
      PROVE  TablesInv'
  <2> DEFINE st == abort_consolidation(status)
  <2>1. /\ op.vol \in Volumes /\ status[op.vol] = "STAGING" /\ delete_volume(op.vol, st)
        /\ UNCHANGED <<iso, known, session, noted>>
    BY <1>8 DEF StageFail, StageInv, StagePCs
  <2>2. /\ st \in [Volumes -> VolumeStatus \cup {"absent", "deleted"}]
        /\ \A u \in Volumes : st[u] = status[u] \/ (status[u] = "CONSOLIDATING" /\ st[u] = "VERIFIED")
    BY <1>8 DEF StageFail, abort_consolidation, SourceInv, StagePCs, VolumeStatus
  <2>3. op.vol \notin noted
    BY <2>1 DEF TablesInv, NotesAreTrue
  <2> HIDE DEF st
  <2>4. QED
    BY <2>1, <2>2, <2>3, TablesDelete
<1>9. ASSUME NEW v \in Volumes, BurnLoad(v)
      PROVE  TablesInv'
  <2>1. \A u \in Volumes : Moved(u)
    BY <1>9 DEF BurnLoad, CanMove, VALID_TRANSITIONS, Moved, VolumeStatus
  <2>2. /\ \A u \in Volumes : HasRows(copies, u) => HasRows(copies', u)
        /\ \A q \in Sessions : session'[q] = "COMPLETE" => session[q] = "COMPLETE"
        /\ \A u \in noted' : u \in noted \/ status'[u] = "DEPRECATED"
        /\ UNCHANGED <<iso, packsOn, svols>> /\ known \subseteq known'
    BY <1>9 DEF BurnLoad, CanMove, VALID_TRANSITIONS, HasRows
  <2>3. QED
    BY <2>1, <2>2, TablesMove
<1>10. ASSUME BurnCommit
      PROVE  TablesInv'
  <2> DEFINE ok == verify_burned_disc(op.vol, op.burnt)
  <2>1. /\ op.vol \in Volumes /\ op.loc \in Locations /\ iso[op.vol] # "gone"
        /\ ~op.reburn => status[op.vol] = "BURNING"
    BY <1>10 DEF BurnCommit, BurnInv, BurnPCs
  <2>2. /\ status' = IF op.reburn THEN status
                     ELSE [status EXCEPT ![op.vol] = IF ok THEN "VERIFIED" ELSE "STAGING"]
        /\ copies' = IF ok THEN [copies EXCEPT ![op.vol][op.loc] = "ACTIVE"] ELSE copies
        /\ UNCHANGED <<iso, known, packsOn, session, svols, noted>>
    BY <1>10 DEF BurnCommit
  <2> HIDE DEF ok
  <2>3. \A u \in Volumes : Moved(u)
    BY <2>1, <2>2 DEF Moved, VolumeStatus
  <2>4. \A u \in Volumes : HasRows(copies, u) => HasRows(copies', u)
    BY <2>1, <2>2 DEF HasRows
  <2>5. QED
    BY <2>2, <2>3, <2>4, TablesMove
<1>11. ASSUME BurnException
      PROVE  TablesInv'
  <2>1. op.vol \in Volumes /\ iso[op.vol] # "gone" /\ (~op.reburn => status[op.vol] = "BURNING")
    BY <1>11 DEF BurnException, BurnInv, BurnPCs
  <2>2. op.sess \in Sessions
    BY <1>11 DEF BurnException, BurnInv, BurnPCs
  <2>3. \A u \in Volumes : Moved(u)
    BY <1>11, <2>1, <2>2 DEF BurnException, Moved, VolumeStatus
  <2>4. /\ \A u \in Volumes : HasRows(copies, u) => HasRows(copies', u)
        /\ \A q \in Sessions : session'[q] = "COMPLETE" => session[q] = "COMPLETE"
        /\ \A u \in noted' : u \in noted \/ status'[u] = "DEPRECATED"
        /\ UNCHANGED <<iso, packsOn, svols>> /\ known \subseteq known'
    BY <1>11, <2>1, <2>2 DEF BurnException, HasRows
  <2>5. QED
    BY <2>3, <2>4, TablesMove
<1>12. ASSUME BurnReceiptFail
      PROVE  TablesInv'
  <2>1. op.sess \in Sessions
    BY <1>12 DEF BurnReceiptFail, BurnInv, BurnPCs
  <2>2. QED
    BY <1>12, <2>1, TablesMove DEF BurnReceiptFail, Moved
<1>13. ASSUME BurnEnd
      PROVE  TablesInv'
  <2>1. op.sess \in Sessions /\ op.pc = "burn.next" /\ op.todo = {}
    BY <1>13 DEF BurnEnd, BurnInv, BurnPCs
  <2>2. /\ session' = [session EXCEPT ![op.sess] = IF op.failed THEN "PARTIAL" ELSE "COMPLETE"]
        /\ UNCHANGED <<iso, known, status, packsOn, copies, svols, noted>>
    BY <1>13 DEF BurnEnd
  <2>3. ~op.failed => \A v \in svols[op.sess] : HasRows(copies, v)
    BY <2>1 DEF LoopInv, BurnPCs
  <2>4. CompleteHasDiscs'
    BY <2>1, <2>2, <2>3 DEF TablesInv, CompleteHasDiscs
  <2>5. QED
    BY <2>2, <2>4 DEF TablesInv, LinkedInv, NoImageNoWaiting, NotesAreTrue, Exists
<1>14. ASSUME NEW v \in Volumes, CleanDelete(v) \/ AbortVolume(v) \/ ReconcileDelete(v)
      PROVE  TablesInv'
  <2>1. delete_volume(v, status) /\ UNCHANGED <<iso, known, session, noted>>
    BY <1>14 DEF CleanDelete, AbortVolume, ReconcileDelete
  <2>2. status[v] \in {"STAGING", "BURNING", "BURNED"}
    BY <1>14 DEF CleanDelete, AbortVolume, ReconcileDelete, SweepInv
  <2>3. v \notin noted
    BY <2>2 DEF TablesInv, NotesAreTrue
  <2>4. QED
    BY <2>1, <2>3, TablesDelete
<1>15. ASSUME CleanFiles
      PROVE  TablesInv'
  <2>1. /\ op.pc = "clean.delete" /\ op.todo = {}
        /\ iso' = [v \in Volumes |-> IF v \in op.members /\ iso[v] # "none" THEN "gone" ELSE iso[v]]
        /\ UNCHANGED <<known, status, packsOn, copies, session, svols, noted>>
    BY <1>15 DEF CleanFiles
  <2>2. \A v \in op.members : status[v] \in {"STAGING", "BURNING", "BURNED"} => HasRows(copies, v)
    BY <2>1 DEF SweepInv, strandable_session_volumes
  <2>3. NoImageNoWaiting'
    BY <2>1, <2>2 DEF TablesInv, NoImageNoWaiting, strandable_session_volumes
  <2>4. LinkedInv'
    BY <2>1 DEF TablesInv, LinkedInv, Exists
  <2>5. QED
    BY <2>1, <2>3, <2>4 DEF TablesInv, CompleteHasDiscs, NotesAreTrue
<1>16. ASSUME CleanMark
      PROVE  TablesInv'
  <2>1. op.sess \in Sessions
    BY <1>16 DEF CleanMark, PurgeInv
  <2>2. QED
    BY <1>16, <2>1, TablesMove DEF CleanMark, Moved
<1>17. ASSUME NEW v \in Volumes, NEW l \in Locations, NEW verdict \in {"true", "false", "null", "missing"},
             ImportReceipt(v, l, verdict)
      PROVE  TablesInv'
  <2>1. \A u \in Volumes : Moved(u)
    BY <1>17 DEF ImportReceipt, HasRows, Moved, VolumeStatus
  <2>2. /\ \A u \in Volumes : HasRows(copies, u) => HasRows(copies', u)
        /\ \A q \in Sessions : session'[q] = "COMPLETE" => session[q] = "COMPLETE"
        /\ \A u \in noted' : u \in noted \/ status'[u] = "DEPRECATED"
        /\ UNCHANGED <<iso, packsOn, svols>> /\ known \subseteq known'
    BY <1>17 DEF ImportReceipt, HasRows, HasRows
  <2>3. QED
    BY <2>1, <2>2, TablesMove
<1>18. ASSUME NEW v \in Volumes, MarkVerified(v) \/ VerifyPass(v)
      PROVE  TablesInv'
  <2>1. \A u \in Volumes : Moved(u)
    BY <1>18 DEF MarkVerified, VerifyPass, Moved, VolumeStatus
  <2>2. /\ \A u \in Volumes : HasRows(copies, u) => HasRows(copies', u)
        /\ \A q \in Sessions : session'[q] = "COMPLETE" => session[q] = "COMPLETE"
        /\ \A u \in noted' : u \in noted \/ status'[u] = "DEPRECATED"
        /\ UNCHANGED <<iso, packsOn, svols>> /\ known \subseteq known'
    BY <1>18 DEF MarkVerified, VerifyPass, HasRows
  <2>3. QED
    BY <2>1, <2>2, TablesMove
<1>19. ASSUME NEW v \in Volumes, NEW l \in Locations, CopyDeprecate(v, l) \/ CopyDestroy(v, l)
      PROVE  TablesInv'
  <2>1. \E to \in {"DEPRECATED", "DESTROYED"} : copies' = [copies EXCEPT ![v][l] = to]
    BY <1>19 DEF CopyDeprecate, CopyDestroy, SetCopy
  <2>2. \A u \in Volumes : HasRows(copies, u) => HasRows(copies', u)
    BY <2>1 DEF HasRows
  <2>3. Demote(v, copies') /\ UNCHANGED <<iso, known, packsOn, session, svols>>
    BY <1>19 DEF CopyDeprecate, CopyDestroy, SetCopy
  <2>4. HasRows(copies', v)
    BY <2>1 DEF HasRows
  <2>5. \A u \in Volumes : Moved(u)
    <3>1. HasRows(copies, v) => status[v] \in VolumeStatus
      BY DEF RowsInv, Exists
    <3>2. HasRows(copies, v)
      BY <1>19 DEF CopyDeprecate, CopyDestroy, HasRows
    <3>3. QED
      BY <2>3, <3>1, <3>2 DEF Demote, Moved, VolumeStatus
  <2>6. \A u \in noted' : u \in noted \/ status'[u] = "DEPRECATED"
    BY <2>3 DEF Demote
  <2>7. QED
    BY <2>2, <2>3, <2>5, <2>6, TablesMove
<1>20. ASSUME NEW v \in Volumes, NEW from \in Locations, NEW to \in Locations, CopyMove(v, from, to)
      PROVE  TablesInv'
  <2>1. \A u \in Volumes : Moved(u)
    BY <1>20 DEF CopyMove, Moved, VolumeStatus
  <2>2. /\ \A u \in Volumes : HasRows(copies, u) => HasRows(copies', u)
        /\ \A q \in Sessions : session'[q] = "COMPLETE" => session[q] = "COMPLETE"
        /\ \A u \in noted' : u \in noted \/ status'[u] = "DEPRECATED"
        /\ UNCHANGED <<iso, packsOn, svols>> /\ known \subseteq known'
    BY <1>20 DEF CopyMove, HasRows
  <2>3. QED
    BY <2>1, <2>2, TablesMove
<1>21. ASSUME NEW src \in SUBSET Volumes, ConsolidateBegin(src)
      PROVE  TablesInv'
  <2>1. \A u \in Volumes : Moved(u)
    BY <1>21 DEF ConsolidateBegin, CanMove, VALID_TRANSITIONS, Exists, Moved, VolumeStatus
  <2>2. /\ \A u \in Volumes : HasRows(copies, u) => HasRows(copies', u)
        /\ \A q \in Sessions : session'[q] = "COMPLETE" => session[q] = "COMPLETE"
        /\ \A u \in noted' : u \in noted \/ status'[u] = "DEPRECATED"
        /\ UNCHANGED <<iso, packsOn, svols>> /\ known \subseteq known'
    BY <1>21 DEF ConsolidateBegin, CanMove, VALID_TRANSITIONS, Exists, HasRows
  <2>3. QED
    BY <2>1, <2>2, TablesMove
<1>22. ASSUME NEW v \in Volumes, DeprecateSource(v)
      PROVE  TablesInv'
  <2>1. \A u \in Volumes : Moved(u)
    BY <1>22 DEF DeprecateSource, DeprecationAllowed, View, VALID_TRANSITIONS, DeprecateInv, Moved, VolumeStatus
  <2>2. /\ \A u \in Volumes : HasRows(copies, u) => HasRows(copies', u)
        /\ \A q \in Sessions : session'[q] = "COMPLETE" => session[q] = "COMPLETE"
        /\ \A u \in noted' : u \in noted \/ status'[u] = "DEPRECATED"
        /\ UNCHANGED <<iso, packsOn, svols>> /\ known \subseteq known'
    BY <1>22 DEF DeprecateSource, DeprecationAllowed, View, VALID_TRANSITIONS, DeprecateInv, HasRows
  <2>3. QED
    BY <2>1, <2>2, TablesMove
<1>23. ASSUME DeprecateCommit
      PROVE  TablesInv'
  <2>1. \A u \in Volumes : Moved(u)
    BY <1>23 DEF DeprecateCommit, View, DeprecateInv, Moved, VolumeStatus
  <2>2. /\ \A u \in Volumes : HasRows(copies, u) => HasRows(copies', u)
        /\ \A q \in Sessions : session'[q] = "COMPLETE" => session[q] = "COMPLETE"
        /\ \A u \in noted' : u \in noted \/ status'[u] = "DEPRECATED"
        /\ UNCHANGED <<iso, packsOn, svols>> /\ known \subseteq known'
    BY <1>23 DEF DeprecateCommit, View, DeprecateInv, HasRows
  <2>3. QED
    BY <2>1, <2>2, TablesMove
<1>24. ASSUME NEW s \in Sessions, ConsolidateStage(s)
      PROVE  TablesInv'
  <2>1. \A u \in Volumes : Moved(u)
    BY <1>24 DEF ConsolidateStage, create_session, abort_consolidation, SourceInv, StagePCs, Moved, VolumeStatus
  <2>2. /\ \A u \in Volumes : HasRows(copies, u) => HasRows(copies', u)
        /\ \A q \in Sessions : session'[q] = "COMPLETE" => session[q] = "COMPLETE"
        /\ \A u \in noted' : u \in noted \/ status'[u] = "DEPRECATED"
        /\ UNCHANGED <<iso, packsOn, svols>> /\ known \subseteq known'
    BY <1>24 DEF ConsolidateStage, create_session, abort_consolidation, SourceInv, StagePCs, HasRows
  <2>3. QED
    BY <2>1, <2>2, TablesMove
<1> HIDE DEF TypeOK, Operation, Idle, Exit, Enter, Step, catalog, packTable, volTables, ghosts
<1>25. QED
  BY <1>1, <1>2, <1>3, <1>3b, <1>4, <1>5, <1>6, <1>7, <1>8, <1>9, <1>10, <1>11,
     <1>12, <1>13, <1>14, <1>15, <1>16, <1>17, <1>18, <1>19, <1>20, <1>21,
     <1>22, <1>23, <1>24 DEF Next

\* A running command that is none of stage, burn, clean and reconcile owes
\* nothing to the next step.
LEMMA OtherCommand ==
    ASSUME op'.pc \in {"idle", "scan.list", "scan", "clean.mark", "deprecate", "consolidate"}
    PROVE  PoolInv' /\ LoopInv' /\ SweepInv'
  BY DEF PoolInv, LoopInv, SweepInv, StagePCs, BurnPCs

\* What a staging run may take is known to the catalog.
LEMMA GatheredIsKnown ==
    ASSUME NEW t
    PROVE  gather_packs(t) \subseteq known
  BY DEF gather_packs, get_unarchived_packs, get_unarchived_or_missing_at_location

\* What a stage, a burn, a clean and a reconcile carry from one commit to the
\* next still holds after it.
LEMMA CarryStep ==
    ASSUME IInv, TrackInv, [Next]_vars
    PROVE  PoolInv' /\ LoopInv' /\ SweepInv'
<1>a. /\ TypeOK /\ StageInv /\ BurnInv /\ PurgeInv
      /\ PoolInv /\ LoopInv /\ SweepInv
  BY DEF IInv, TrackInv
<1> USE <1>a DEF TypeOK, Operation, Idle, Exit, Enter, Step, catalog, packTable, volTables, ghosts
<1>1. CASE \/ \E p \in Packs : PackUnprune(p)
           \/ \E data \in {"listed", "missing", "denied"} : ScanBegin(data)
           \/ \E p \in Packs, readable \in BOOLEAN : ScanDir(p, readable)
           \/ \E sync, yes \in BOOLEAN : ScanRegister(sync, yes)
           \/ RepoRemove
           \/ ScanPrune \/ StageRefused \/ StageFail \/ StageHashFail \/ StageEnd
           \/ BurnRefused \/ BurnException \/ BurnReceiptFail \/ BurnEnd
           \/ \E v \in Volumes : BurnBadTransition(v) \/ AbortVolume(v) \/ MarkVerified(v) \/ VerifyPass(v)
           \/ CleanFiles \/ CleanMark \/ DeprecateCommit \/ Crash
  <2>1. CASE \E sync, yes \in BOOLEAN : ScanRegister(sync, yes)
    BY <2>1, OtherCommand DEF ScanRegister
  <2>1b. CASE \/ \E data \in {"listed", "missing", "denied"} : ScanBegin(data)
              \/ \E p \in Packs, readable \in BOOLEAN : ScanDir(p, readable)
              \/ RepoRemove
    <3>1. CASE \E data \in {"listed", "missing", "denied"} : ScanBegin(data)
      <4>1. op'.pc = "scan.list"
        BY <3>1 DEF ScanBegin
      <4>2. QED
        BY <4>1, OtherCommand
    <3>2. CASE \E p \in Packs, readable \in BOOLEAN : ScanDir(p, readable)
      <4>1. op'.pc = "scan.list"
        BY <3>2 DEF ScanDir
      <4>2. QED
        BY <4>1, OtherCommand
    <3>3. CASE RepoRemove
      BY <3>3, OtherCommand DEF RepoRemove
    <3>4. QED
      BY <2>1b, <3>1, <3>2, <3>3
  <2>2. CASE \/ \E p \in Packs : PackUnprune(p)
             \/ ScanPrune \/ StageRefused \/ StageFail \/ StageHashFail \/ StageEnd
             \/ BurnRefused \/ BurnException \/ BurnReceiptFail \/ BurnEnd
    BY <2>2, OtherCommand DEF PackUnprune, ScanPrune, StageRefused, StageFail, StageHashFail, StageEnd,
       BurnRefused, BurnException, BurnReceiptFail, BurnEnd
  <2>3. CASE \E v \in Volumes : BurnBadTransition(v) \/ AbortVolume(v) \/ MarkVerified(v) \/ VerifyPass(v)
    BY <2>3, OtherCommand DEF BurnBadTransition, AbortVolume, MarkVerified, VerifyPass
  <2>4. CASE CleanFiles
    BY <2>4, OtherCommand DEF CleanFiles
  <2>5. CASE CleanMark \/ DeprecateCommit \/ Crash
    BY <2>5, OtherCommand DEF CleanMark, DeprecateCommit, Crash
  <2>6. QED
    BY <1>1, <2>1, <2>1b, <2>2, <2>3, <2>4, <2>5
<1>2. ASSUME UNCHANGED <<op, known, status, copies, session, svols>>
      PROVE  PoolInv' /\ LoopInv' /\ SweepInv'
  BY <1>2 DEF PoolInv, LoopInv, SweepInv, strandable_session_volumes, HasRows
<1>3. CASE \/ \E p \in Packs : MirrorWrite(p)
           \/ \E p \in Packs, to \in {"none", "empty"} : MirrorLose(p, to)
  BY <1>2, <1>3 DEF MirrorWrite, MirrorLose
<1>3b. CASE \E gone \in SUBSET Packs, force \in BOOLEAN : RepoRemoveBegin(gone, force)
  <2>1. op'.pc = "remove" /\ "remove" \in Commands
    BY <1>3b DEF RepoRemoveBegin
  <2>2. QED
    BY <2>1 DEF PoolInv, LoopInv, SweepInv, StagePCs, BurnPCs
<1>4. CASE UNCHANGED vars
  BY <1>2, <1>4 DEF vars
<1>5. ASSUME op'.pc \in StagePCs, op'.packs \subseteq known', session'[op'.sess] = "STAGED"
      PROVE  PoolInv' /\ LoopInv' /\ SweepInv'
  BY <1>5 DEF PoolInv, LoopInv, SweepInv, StagePCs, BurnPCs
<1>6. ASSUME NEW s \in Sessions, NEW t \in {"none"} \cup Locations, StageBegin(s, t)
      PROVE  PoolInv' /\ LoopInv' /\ SweepInv'
  <2> DEFINE pool == gather_packs(t)
  <2>1. pool \subseteq known
    BY GatheredIsKnown
  <2> HIDE DEF pool
  <2>2. op'.pc = "stage.next" /\ op'.packs = pool /\ op'.sess = s /\ known' = known
    BY <1>6 DEF StageBegin, Staging, pool
  <2>3. session'[s] = "STAGED"
    BY <1>6 DEF StageBegin, create_session
  <2>4. QED
    BY <1>5, <2>1, <2>2, <2>3 DEF StagePCs
<1>7. ASSUME NEW s \in Sessions, ConsolidateStage(s)
      PROVE  PoolInv' /\ LoopInv' /\ SweepInv'
  <2> DEFINE pool == gather_packs("none") \cap op.packs
  <2>1. pool \subseteq known
    BY GatheredIsKnown
  <2>2. /\ op' = IF pool = {} THEN Idle ELSE Staging(s, pool, op.src)
        /\ session' = IF pool = {} THEN session ELSE create_session(s)
        /\ known' = known
    BY <1>7 DEF ConsolidateStage
  <2> HIDE DEF pool
  <2>3. CASE pool = {}
    BY <2>2, <2>3, OtherCommand
  <2>4. CASE pool # {}
    <3>1. op'.pc = "stage.next" /\ op'.packs = pool /\ op'.sess = s
      BY <2>2, <2>4 DEF Staging
    <3>2. session'[s] = "STAGED"
      BY <2>2, <2>4 DEF create_session
    <3>3. QED
      BY <1>5, <2>1, <2>2, <3>1, <3>2 DEF StagePCs
  <2>5. QED
    BY <2>3, <2>4
<1>8. CASE \/ \E v \in Volumes, bin \in SUBSET Packs : StageVolume(v, bin)
           \/ StageIso \/ StageEcc \/ StageHash
  <2>1. /\ op.pc \in StagePCs /\ op'.pc \in StagePCs /\ op'.packs \subseteq op.packs
        /\ op'.sess = op.sess /\ known' = known /\ session' = session
    <3>1. CASE \E v \in Volumes, bin \in SUBSET Packs : StageVolume(v, bin)
      BY <3>1 DEF StageVolume, StagePCs
    <3>2. CASE StageIso \/ StageEcc \/ StageHash
      BY <3>2 DEF StageIso, StageEcc, StageHash, StagePCs
    <3>3. QED
      BY <1>8, <3>1, <3>2
  <2>2. op.packs \subseteq known /\ session[op.sess] = "STAGED"
    BY <2>1 DEF PoolInv
  <2>3. QED
    BY <1>5, <2>1, <2>2
<1>9. ASSUME op'.pc \in BurnPCs,
             ~op'.failed =>
                /\ \A v \in svols'[op'.sess] : v \in op'.todo \/ HasRows(copies', v)
                /\ op'.pc = "burn.receipt" => HasRows(copies', op'.vol)
      PROVE  PoolInv' /\ LoopInv' /\ SweepInv'
  BY <1>9 DEF PoolInv, LoopInv, SweepInv, StagePCs, BurnPCs
<1>10. ASSUME NEW s \in Sessions, NEW l \in Locations, BurnBegin(s, l)
       PROVE  PoolInv' /\ LoopInv' /\ SweepInv'
  <2>1. op'.pc = "burn.next" /\ op'.sess = s /\ op'.todo = svols[s] /\ svols' = svols
    BY <1>10 DEF BurnBegin
  <2>2. QED
    BY <1>9, <2>1 DEF BurnPCs
<1>11. CASE \/ \E v \in Volumes : BurnLoad(v)
            \/ \E kind \in DiscKinds : BurnWrite(kind)
  <2>1. /\ op.pc \in BurnPCs /\ op'.pc \in BurnPCs \ {"burn.receipt"}
        /\ op'.sess = op.sess /\ op'.todo = op.todo /\ op'.failed = op.failed
        /\ svols' = svols /\ copies' = copies
    <3>1. CASE \E v \in Volumes : BurnLoad(v)
      BY <3>1 DEF BurnLoad, BurnPCs
    <3>2. CASE \E kind \in DiscKinds : BurnWrite(kind)
      BY <3>2 DEF BurnWrite, BurnPCs
    <3>3. QED
      BY <1>11, <3>1, <3>2
  <2>2. QED
    BY <1>9, <2>1 DEF LoopInv
<1>12. CASE BurnCommit
  <2> DEFINE ok == verify_burned_disc(op.vol, op.burnt)
  <2>1. op.pc = "burn.verify" /\ op.vol \in Volumes /\ op.loc \in Locations
    BY <1>12 DEF BurnCommit, BurnInv, BurnPCs
  <2>2. /\ copies' = IF ok THEN [copies EXCEPT ![op.vol][op.loc] = "ACTIVE"] ELSE copies
        /\ op'.pc = "burn.receipt" /\ op'.sess = op.sess /\ op'.todo = op.todo /\ op'.vol = op.vol
        /\ op'.failed = (op.failed \/ ~ok) /\ svols' = svols
    BY <1>12 DEF BurnCommit
  <2> HIDE DEF ok
  <2>3. ok => HasRows(copies', op.vol)
    BY <2>1, <2>2 DEF HasRows
  <2>4. \A v \in Volumes : HasRows(copies, v) => HasRows(copies', v)
    BY <2>1, <2>2 DEF HasRows
  <2>5. op.sess \in Sessions
    BY <2>1 DEF BurnInv, BurnPCs
  <2>6. QED
    BY <1>9, <2>1, <2>2, <2>3, <2>4, <2>5 DEF LoopInv, BurnPCs
<1>13. CASE BurnReceipt
  <2>1. /\ op.pc = "burn.receipt" /\ op'.pc = "burn.next" /\ op'.sess = op.sess
        /\ op'.todo = op.todo \ {op.vol} /\ op'.failed = op.failed
        /\ svols' = svols /\ copies' = copies
    BY <1>13 DEF BurnReceipt
  <2>2. QED
    BY <1>9, <2>1 DEF LoopInv, BurnPCs
<1>14. ASSUME op'.pc \in {"clean.delete", "purge"},
              \A v \in op'.todo : status'[v] \in {"STAGING", "BURNING", "BURNED"},
              op'.pc = "clean.delete" =>
                 strandable_session_volumes(status', copies', op'.members) \subseteq op'.todo
       PROVE  PoolInv' /\ LoopInv' /\ SweepInv'
  BY <1>14 DEF PoolInv, LoopInv, SweepInv, StagePCs, BurnPCs
<1>15. ASSUME NEW s \in Sessions, NEW force \in BOOLEAN, CleanBegin(s, force)
       PROVE  PoolInv' /\ LoopInv' /\ SweepInv'
  <2>1. /\ op'.pc = "clean.delete" /\ op'.members = svols[s] /\ status' = status /\ copies' = copies
        /\ op'.todo = strandable_session_volumes(status, copies, svols[s])
    BY <1>15 DEF CleanBegin
  <2>2. QED
    BY <1>14, <2>1 DEF strandable_session_volumes
<1>16. ASSUME NEW old \in SUBSET Volumes, ReconcileBegin(old)
       PROVE  PoolInv' /\ LoopInv' /\ SweepInv'
  <2>1. op'.pc = "purge" /\ op'.todo = get_ghost_volumes(status, copies, old) /\ status' = status
    BY <1>16 DEF ReconcileBegin
  <2>2. QED
    BY <1>14, <2>1 DEF get_ghost_volumes
<1>17. ASSUME NEW v \in Volumes, CleanDelete(v) \/ ReconcileDelete(v)
       PROVE  PoolInv' /\ LoopInv' /\ SweepInv'
  <2>1. /\ op.pc \in {"clean.delete", "purge"}
        /\ \/ op' = Idle
           \/ /\ op'.pc = op.pc /\ op'.todo = op.todo \ {v} /\ op'.members = op.members
    BY <1>17 DEF CleanDelete, ReconcileDelete
  <2>2. /\ status'[v] = "deleted"
        /\ \A u \in Volumes \ {v} : status'[u] = status[u] /\ copies'[u] = copies[u]
    BY <1>17 DEF CleanDelete, ReconcileDelete, delete_volume
  <2>3. CASE op' = Idle
    BY <2>3, OtherCommand
  <2>4. CASE op' # Idle
    <3>1. \A u \in op'.todo : status'[u] \in {"STAGING", "BURNING", "BURNED"}
      BY <2>1, <2>2, <2>4 DEF SweepInv
    <3>2. op'.pc = "clean.delete" =>
             strandable_session_volumes(status', copies', op'.members) \subseteq op'.todo
      <4> SUFFICES ASSUME op'.pc = "clean.delete",
                          NEW u \in strandable_session_volumes(status', copies', op'.members)
                   PROVE  u \in op'.todo
        OBVIOUS
      <4>1. u # v /\ u \in Volumes
        BY <2>1, <2>2, <2>4 DEF strandable_session_volumes
      <4>2. u \in strandable_session_volumes(status, copies, op.members)
        BY <2>1, <2>2, <2>4, <4>1 DEF strandable_session_volumes, HasRows
      <4>3. QED
        BY <2>1, <2>4, <4>1, <4>2 DEF SweepInv
    <3>3. QED
      BY <1>14, <2>1, <2>4, <3>1, <3>2
  <2>5. QED
    BY <2>3, <2>4
<1>18. CASE \/ \E v \in Volumes, l \in Locations, verdict \in {"true", "false", "null", "missing"} :
                  ImportReceipt(v, l, verdict)
            \/ \E v \in Volumes, l \in Locations : CopyDeprecate(v, l) \/ CopyDestroy(v, l)
            \/ \E v \in Volumes, from, to \in Locations : CopyMove(v, from, to)
            \/ \E src \in SUBSET Volumes : DeprecateBegin(src) \/ ConsolidateBegin(src)
            \/ \E v \in Volumes : DeprecateSource(v) \/ DeprecateRefused(v)
  <2>1. CASE \/ \E v \in Volumes, l \in Locations, verdict \in {"true", "false", "null", "missing"} :
                   ImportReceipt(v, l, verdict)
             \/ \E v \in Volumes, from, to \in Locations : CopyMove(v, from, to)
    BY <2>1, OtherCommand DEF ImportReceipt, CopyMove
  <2>2. CASE \E v \in Volumes, l \in Locations : CopyDeprecate(v, l) \/ CopyDestroy(v, l)
    BY <2>2, OtherCommand DEF CopyDeprecate, CopyDestroy, SetCopy
  <2>3. CASE \E src \in SUBSET Volumes : DeprecateBegin(src) \/ ConsolidateBegin(src)
    BY <2>3, OtherCommand DEF DeprecateBegin, ConsolidateBegin
  <2>4. CASE \E v \in Volumes : DeprecateSource(v) \/ DeprecateRefused(v)
    <3>1. op'.pc \in {"idle", "deprecate"}
      <4>1. ASSUME NEW v \in Volumes, DeprecateSource(v)
            PROVE  op'.pc = "deprecate"
        BY <4>1 DEF DeprecateSource
      <4>2. ASSUME NEW v \in Volumes, DeprecateRefused(v)
            PROVE  op'.pc = "idle"
        BY <4>2 DEF DeprecateRefused
      <4>3. QED
        BY <2>4, <4>1, <4>2
    <3>2. QED
      BY <3>1, OtherCommand
  <2>5. QED
    BY <1>18, <2>1, <2>2, <2>3, <2>4
<1> HIDE DEF TypeOK, Operation, Idle, Exit, Enter, Step, catalog, packTable, volTables, ghosts
<1>19. QED
  BY <1>1, <1>3, <1>3b, <1>4, <1>6, <1>7, <1>8, <1>10, <1>11, <1>12, <1>13, <1>15, <1>16, <1>17,
     <1>18 DEF Next

\* An empty catalog satisfies TrackInv.
LEMMA TrackInit == Init => TrackInv
<1> SUFFICES ASSUME Init PROVE TrackInv
  OBVIOUS
<1>1. TablesInv
  BY DEF Init, TablesInv, LinkedInv, NoImageNoWaiting, CompleteHasDiscs, NotesAreTrue, Exists, VolumeStatus
<1>2. PoolInv /\ LoopInv /\ SweepInv
  BY DEF Init, Idle, PoolInv, LoopInv, SweepInv, StagePCs, BurnPCs
<1>3. QED
  BY <1>1, <1>2 DEF TrackInv

\* TrackInv is inductive relative to IInv.
LEMMA TrackInvariance == Spec => []TrackInv
<1>1. IInv /\ TrackInv /\ [Next]_vars => TrackInv'
  BY TablesStep, CarryStep DEF TrackInv
<1>2. QED
  BY <1>1, TrackInit, Invariance, PTL DEF Spec

(* A volume waiting for a burn can be reached: failing stages, aborts, cleans
   and crashes leave no volume without a session or without known packs. *)
THEOREM PendingIsReachable == Spec => []PendingInSession
<1>1. TrackInv => PendingInSession
  BY DEF TrackInv, TablesInv, LinkedInv, PendingInSession, Exists, VolumeStatus
<1>2. QED
  BY <1>1, TrackInvariance, PTL

(* No clean, forced or not and interrupted anywhere, strands a volume: one
   whose image is gone has a disc row or is not waiting for a burn. *)
THEOREM NothingIsStranded == Spec => []NoImageNoWaiting
<1>1. TrackInv => NoImageNoWaiting
  BY DEF TrackInv, TablesInv
<1>2. QED
  BY <1>1, TrackInvariance, PTL

(* COMPLETE means a disc row for every volume the session lists, through any
   number of burns, failed verifications, aborts and lost discs. *)
THEOREM CompleteIsComplete == Spec => []CompleteHasDiscs
<1>1. TrackInv => CompleteHasDiscs
  BY DEF TrackInv, TablesInv
<1>2. QED
  BY <1>1, TrackInvariance, PTL

(* A committed NOTE of a deprecation is true of its volume for ever after. *)
THEOREM NotesStayTrue == Spec => []NotesAreTrue
<1>1. TrackInv => NotesAreTrue
  BY DEF TrackInv, TablesInv
<1>2. QED
  BY <1>1, TrackInvariance, PTL

\* The scan's own invariant holds initially and through every step; a command
\* that is not a scan owes it nothing.
LEMMA ScanStep ==
    ASSUME TypeOK, ListInv, PruneOnlyAbsent, [Next]_vars
    PROVE  ListInv' /\ PruneOnlyAbsent'
<1> USE DEF TypeOK, Operation, Idle, Exit, Enter, Step
<1>a. ASSUME op'.pc \notin {"scan.list", "scan"}
      PROVE  ListInv' /\ PruneOnlyAbsent'
  BY <1>a DEF ListInv, PruneOnlyAbsent
<1>1. ASSUME NEW data \in {"listed", "missing", "denied"}, ScanBegin(data)
      PROVE  ListInv' /\ PruneOnlyAbsent'
  <2>1. /\ op'.pc = "scan.list" /\ op'.packs = {}
        /\ op'.left = Packs \/ op'.left = {}
        /\ missed' = {p \in Packs : mirror[p] # "whole"} /\ mirror' = mirror
    BY <1>1 DEF ScanBegin
  <2>2. QED
    BY <2>1 DEF ListInv, PruneOnlyAbsent
<1>2. ASSUME NEW p \in Packs, NEW readable \in BOOLEAN, ScanDir(p, readable)
      PROVE  ListInv' /\ PruneOnlyAbsent'
  <2>1. /\ op.pc = "scan.list" /\ p \in op.left /\ op'.pc = "scan.list"
        /\ op'.left = op.left \ {p} /\ missed' = missed /\ mirror' = mirror
        /\ op'.failed = (op.failed \/ ~readable)
        /\ op'.packs = IF readable /\ mirror[p] = "whole" THEN op.packs \cup {p} ELSE op.packs
    BY <1>2 DEF ScanDir, ghosts
  <2>2. mirror[p] # "whole" => p \in missed
    BY <2>1 DEF ListInv
  <2>3. ~op.failed => Packs \ (op.left \cup op.packs) \subseteq missed
    BY <2>1 DEF ListInv
  <2>4. QED
    BY <2>1, <2>2, <2>3 DEF ListInv, PruneOnlyAbsent
<1>3. ASSUME NEW p \in Packs, NEW to \in {"none", "empty"}, MirrorLose(p, to)
      PROVE  ListInv' /\ PruneOnlyAbsent'
  <2>1. /\ op' = op /\ missed \subseteq missed'
        /\ op.pc = "scan.list" => p \in missed'
        /\ \A q \in Packs \ {p} : mirror'[q] = mirror[q]
    BY <1>3 DEF MirrorLose
  <2>2. QED
    BY <2>1 DEF ListInv, PruneOnlyAbsent
<1>4. ASSUME NEW p \in Packs, MirrorWrite(p)
      PROVE  ListInv' /\ PruneOnlyAbsent'
  <2>1. /\ op' = op /\ missed' = missed /\ mirror'[p] = "whole"
        /\ \A q \in Packs \ {p} : mirror'[q] = mirror[q]
    BY <1>4 DEF MirrorWrite, ghosts
  <2>2. QED
    BY <2>1 DEF ListInv, PruneOnlyAbsent
<1>5. ASSUME NEW sync \in BOOLEAN, NEW yes \in BOOLEAN, ScanRegister(sync, yes)
      PROVE  ListInv' /\ PruneOnlyAbsent'
  <2> DEFINE gone == detect_pruned(known \cup op.packs, pruned, op.packs)
             sure == /\ sync /\ ~op.failed
                     /\ \/ yes
                        \/ ~(/\ Cardinality(gone) > PruneFloor
                             /\ 5 * Cardinality(gone) > Cardinality((known \cup op.packs) \ pruned))
  <2>1. /\ op.pc = "scan.list" /\ op.left = {} /\ missed' = missed
        /\ op' = [Idle EXCEPT !.pc = "scan", !.packs = IF sure THEN gone ELSE {}]
    BY <1>5 DEF ScanRegister, ghosts
  <2>2. /\ gone \subseteq Packs \ op.packs
        /\ op.packs = {} => gone = {}
    BY DEF detect_pruned
  <2>3. sure => ~op.failed
    OBVIOUS
  <2> HIDE DEF gone, sure
  <2>4. op'.pc = "scan" /\ op'.packs = IF sure THEN gone ELSE {}
    BY <2>1
  <2>5. sure => gone \subseteq missed
    BY <2>1, <2>2, <2>3 DEF ListInv
  <2>6. QED
    BY <2>1, <2>4, <2>5 DEF ListInv, PruneOnlyAbsent
<1>6. CASE UNCHANGED vars
  BY <1>6 DEF vars, ListInv, PruneOnlyAbsent
<1>7. CASE \/ \E p \in Packs : PackUnprune(p)
           \/ \E gone \in SUBSET Packs, force \in BOOLEAN : RepoRemoveBegin(gone, force)
           \/ ScanPrune \/ RepoRemove
           \/ \E v \in Volumes, bin \in SUBSET Packs : StageVolume(v, bin)
           \/ StageRefused \/ StageIso \/ StageEcc \/ StageFail \/ StageHash \/ StageHashFail \/ StageEnd
  <2>1. CASE \E p \in Packs : PackUnprune(p)
    <3>1. op'.pc \notin {"scan.list", "scan"}
      BY <2>1 DEF PackUnprune
    <3>2. QED
      BY <3>1, <1>a
  <2>2. CASE \E gone \in SUBSET Packs, force \in BOOLEAN : RepoRemoveBegin(gone, force)
    <3>1. op'.pc \notin {"scan.list", "scan"}
      BY <2>2 DEF RepoRemoveBegin
    <3>2. QED
      BY <3>1, <1>a
  <2>3. CASE ScanPrune \/ RepoRemove
    <3>1. op'.pc \notin {"scan.list", "scan"}
      BY <2>3 DEF ScanPrune, RepoRemove
    <3>2. QED
      BY <3>1, <1>a
  <2>4. CASE \E v \in Volumes, bin \in SUBSET Packs : StageVolume(v, bin)
    <3>1. op'.pc \notin {"scan.list", "scan"}
      BY <2>4 DEF StageVolume
    <3>2. QED
      BY <3>1, <1>a
  <2>5. CASE StageRefused \/ StageFail \/ StageHashFail \/ StageEnd
    <3>1. op'.pc \notin {"scan.list", "scan"}
      BY <2>5 DEF StageRefused, StageFail, StageHashFail, StageEnd
    <3>2. QED
      BY <3>1, <1>a
  <2>6. CASE StageIso \/ StageEcc \/ StageHash
    <3>1. op'.pc \notin {"scan.list", "scan"}
      BY <2>6 DEF StageIso, StageEcc, StageHash
    <3>2. QED
      BY <3>1, <1>a
  <2>7. QED
    BY <1>7, <2>1, <2>2, <2>3, <2>4, <2>5, <2>6
<1>8. CASE \/ \E v \in Volumes : BurnLoad(v) \/ BurnBadTransition(v)
           \/ \E kind \in DiscKinds : BurnWrite(kind)
           \/ BurnRefused \/ BurnCommit \/ BurnException \/ BurnReceipt \/ BurnReceiptFail \/ BurnEnd
  <2>1. CASE \E v \in Volumes : BurnLoad(v)
    <3>1. op'.pc \notin {"scan.list", "scan"}
      BY <2>1 DEF BurnLoad
    <3>2. QED
      BY <3>1, <1>a
  <2>2. CASE \E kind \in DiscKinds : BurnWrite(kind)
    <3>1. op'.pc \notin {"scan.list", "scan"}
      BY <2>2 DEF BurnWrite
    <3>2. QED
      BY <3>1, <1>a
  <2>3. CASE \/ \E v \in Volumes : BurnBadTransition(v)
             \/ BurnRefused \/ BurnException \/ BurnReceiptFail \/ BurnEnd
    <3>1. op'.pc \notin {"scan.list", "scan"}
      BY <2>3 DEF BurnBadTransition, BurnRefused, BurnException, BurnReceiptFail, BurnEnd
    <3>2. QED
      BY <3>1, <1>a
  <2>4. CASE BurnCommit
    <3>1. op'.pc \notin {"scan.list", "scan"}
      BY <2>4 DEF BurnCommit
    <3>2. QED
      BY <3>1, <1>a
  <2>5. CASE BurnReceipt
    <3>1. op'.pc \notin {"scan.list", "scan"}
      BY <2>5 DEF BurnReceipt
    <3>2. QED
      BY <3>1, <1>a
  <2>6. QED
    BY <1>8, <2>1, <2>2, <2>3, <2>4, <2>5
<1>9. CASE \/ \E v \in Volumes : CleanDelete(v) \/ AbortVolume(v) \/ ReconcileDelete(v)
           \/ CleanFiles \/ CleanMark
           \/ \E v \in Volumes : DeprecateSource(v) \/ DeprecateRefused(v)
           \/ DeprecateCommit
           \/ \E s \in Sessions : ConsolidateStage(s)
           \/ Crash
  <2>1. CASE \E v \in Volumes : CleanDelete(v)
    <3>1. op'.pc \notin {"scan.list", "scan"}
      BY <2>1 DEF CleanDelete
    <3>2. QED
      BY <3>1, <1>a
  <2>2. CASE \E v \in Volumes : ReconcileDelete(v)
    <3>1. op'.pc \notin {"scan.list", "scan"}
      BY <2>2 DEF ReconcileDelete
    <3>2. QED
      BY <3>1, <1>a
  <2>3. CASE CleanFiles
    <3>1. op'.pc \notin {"scan.list", "scan"}
      BY <2>3 DEF CleanFiles
    <3>2. QED
      BY <3>1, <1>a
  <2>4. CASE \E v \in Volumes : DeprecateSource(v)
    <3>1. op'.pc \notin {"scan.list", "scan"}
      BY <2>4 DEF DeprecateSource
    <3>2. QED
      BY <3>1, <1>a
  <2>5. CASE \/ \E v \in Volumes : AbortVolume(v) \/ DeprecateRefused(v)
             \/ CleanMark \/ DeprecateCommit \/ Crash
    <3>1. op'.pc \notin {"scan.list", "scan"}
      BY <2>5 DEF AbortVolume, DeprecateRefused, CleanMark, DeprecateCommit, Crash
    <3>2. QED
      BY <3>1, <1>a
  <2>6. CASE \E s \in Sessions : ConsolidateStage(s)
    <3>1. op'.pc \notin {"scan.list", "scan"}
      BY <2>6 DEF ConsolidateStage, Staging
    <3>2. QED
      BY <3>1, <1>a
  <2>7. QED
    BY <1>9, <2>1, <2>2, <2>3, <2>4, <2>5, <2>6
<1>10. CASE \/ \E s \in Sessions, t \in {"none"} \cup Locations : StageBegin(s, t)
            \/ \E s \in Sessions, l \in Locations : BurnBegin(s, l)
            \/ \E s \in Sessions, force \in BOOLEAN : CleanBegin(s, force)
            \/ \E old \in SUBSET Volumes : ReconcileBegin(old)
            \/ \E src \in SUBSET Volumes : DeprecateBegin(src) \/ ConsolidateBegin(src)
  <2>1. op'.pc \notin {"scan.list", "scan"}
    BY <1>10, ZenonT(60) DEF StageBegin, Staging, BurnBegin, CleanBegin, ReconcileBegin, DeprecateBegin,
       ConsolidateBegin
  <2>2. QED
    BY <2>1, <1>a
<1>11. CASE \/ \E v \in Volumes, l \in Locations, verdict \in {"true", "false", "null", "missing"} :
                  ImportReceipt(v, l, verdict)
            \/ \E v \in Volumes : MarkVerified(v) \/ VerifyPass(v)
            \/ \E v \in Volumes, l \in Locations : CopyDeprecate(v, l) \/ CopyDestroy(v, l)
            \/ \E v \in Volumes, from, to \in Locations : CopyMove(v, from, to)
  <2>1. CASE \E v \in Volumes, l \in Locations, verdict \in {"true", "false", "null", "missing"} :
                ImportReceipt(v, l, verdict)
    <3>1. op'.pc \notin {"scan.list", "scan"}
      BY <2>1 DEF ImportReceipt
    <3>2. QED
      BY <3>1, <1>a
  <2>2. CASE \E v \in Volumes : MarkVerified(v) \/ VerifyPass(v)
    <3>1. op'.pc \notin {"scan.list", "scan"}
      BY <2>2 DEF MarkVerified, VerifyPass
    <3>2. QED
      BY <3>1, <1>a
  <2>3. CASE \E v \in Volumes, l \in Locations : CopyDeprecate(v, l) \/ CopyDestroy(v, l)
    <3>1. op'.pc \notin {"scan.list", "scan"}
      BY <2>3 DEF CopyDeprecate, CopyDestroy, SetCopy
    <3>2. QED
      BY <3>1, <1>a
  <2>4. CASE \E v \in Volumes, from, to \in Locations : CopyMove(v, from, to)
    <3>1. op'.pc \notin {"scan.list", "scan"}
      BY <2>4 DEF CopyMove
    <3>2. QED
      BY <3>1, <1>a
  <2>5. QED
    BY <1>11, <2>1, <2>2, <2>3, <2>4
<1> HIDE DEF TypeOK, Operation, Idle, Exit, Enter, Step
<1>12. QED
  BY <1>1, <1>2, <1>3, <1>4, <1>5, <1>6, <1>7, <1>8, <1>9, <1>10, <1>11 DEF Next

(* Prune-sync marks only packs whose file was missing or empty at some moment
   of the scan: however the mirror changes between two listings, whatever could
   not be read and whatever the owner confirms. *)
THEOREM PruneIsOfTheAbsent == Spec => []PruneOnlyAbsent
<1>1. Init => ListInv /\ PruneOnlyAbsent
  BY DEF Init, Idle, ListInv, PruneOnlyAbsent
<1>2. TypeOK /\ ListInv /\ PruneOnlyAbsent /\ [Next]_vars => ListInv' /\ PruneOnlyAbsent'
  BY ScanStep
<1>3. QED
  BY <1>1, <1>2, TypeCorrect, PTL DEF Spec
=============================================================================
