--------------------------- MODULE SnapshotBuildProofs ---------------------------
(***************************************************************************)
(* Proof that BuildInv holds of SnapshotBuild, for any number of builders, *)
(* runs, versions and incidents, and what follows from it about snapshot   *)
(* rows, archives and scope rules.  Each part of BuildInv has a lemma of   *)
(* its own that says which other parts a step needs to preserve it.        *)
(***************************************************************************)
EXTENDS SnapshotBuild, TLAPS

\* An aborted transaction costs a builder its step; it keeps its archive only from the
\* final transaction, which leads to the removal.
LEMMA AbortEffect ==
  ASSUME TypeOK, NEW b \in Builders, Aborts(b)
  PROVE  \E p \in Steps : /\ pc' = [pc EXCEPT ![b] = p]
                          /\ \/ pc[b] = "commit" /\ p = "broken"
                             \/ pc[b] \notin Owning /\ p \notin Owning
  BY DEF TypeOK, Aborts, Goto, Raise, Steps, Owning

\* Every step keeps the types; LockInv says that who works has a run.
LEMMA TypeStep ==
  ASSUME TypeOK, LockInv, Next
  PROVE  TypeOK'
<1> USE DEF TypeOK, LockInv, Goto, tables, locks, locals, Steps, Status, Failures, DiskStates, Incidents
<1>1. ASSUME NEW b \in Builders, NEW r \in Runs, Begin(b, r) PROVE TypeOK'
  <2>1. \E step \in Steps : pc' = [pc EXCEPT ![b] = step]
    BY <1>1 DEF Begin
  <2>2. pc' \in [Builders -> Steps]
    BY <2>1
  <2>3. incidents' \subseteq Incidents
    <3>1. incidents' \in {incidents, incidents \cup {"again"}}
      BY <1>1 DEF Begin, Happens
    <3> QED BY <3>1
  <2>4. run' \in [Builders -> Runs \cup {None}] /\ tries' \in [Builders -> {0, 1}]
    BY <1>1 DEF Begin
  <2> QED BY <1>1, <2>2, <2>3, <2>4 DEF Begin
<1>2. ASSUME NEW b \in Builders, MarkRunning(b) PROVE TypeOK'
  BY <1>2 DEF MarkRunning, Raise
<1>3. ASSUME NEW b \in Builders, ReadScope(b) PROVE TypeOK'
  BY <1>3 DEF ReadScope
<1>4. ASSUME NEW b \in Builders, ReadFiles(b) PROVE TypeOK'
  BY <1>4 DEF ReadFiles
<1>5. ASSUME NEW b \in Builders, GitFails(b) PROVE TypeOK'
  BY <1>5 DEF GitFails, Raise, Happens
<1>6. ASSUME NEW b \in Builders, NEW i \in Ids, StartArchive(b, i) PROVE TypeOK'
  BY <1>6 DEF StartArchive, Fresh
<1>7. ASSUME NEW b \in Builders, PublishArchive(b) PROVE TypeOK'
  BY <1>7 DEF PublishArchive
<1>8. ASSUME NEW b \in Builders, WriteManifest(b) PROVE TypeOK'
  BY <1>8 DEF WriteManifest
<1>9. ASSUME NEW b \in Builders, StoreFails(b) PROVE TypeOK'
  BY <1>9 DEF StoreFails, Raise, Happens
<1>10. ASSUME NEW b \in Builders, LockAndInsert(b) PROVE TypeOK'
  BY <1>10 DEF LockAndInsert
<1>11. ASSUME NEW b \in Builders, Commit(b) PROVE TypeOK'
  BY <1>11 DEF Commit, Stored, Release
<1>12. ASSUME NEW b \in Builders, AckLost(b) PROVE TypeOK'
  BY <1>12 DEF AckLost, Stored, Release, Happens
<1>13. ASSUME NEW b \in Builders, Discard(b) PROVE TypeOK'
  <2>1. disk' \in [Ids -> DiskStates] /\ id' \in [Builders -> Ids \cup {None}]
    BY <1>13 DEF Discard
  <2>2. pc' \in [Builders -> Steps] /\ problem' \in [Builders -> Failures]
    BY <1>13 DEF Discard, Raise
  <2> QED BY <1>13, <2>1, <2>2 DEF Discard
<1>14. ASSUME NEW b \in Builders, Reload(b) PROVE TypeOK'
  BY <1>14 DEF Reload, Raise
<1>15. ASSUME NEW b \in Builders, EmptyCheck(b) PROVE TypeOK'
  BY <1>15 DEF EmptyCheck, Raise
<1>16. ASSUME NEW b \in Builders, EmptyRun(b) PROVE TypeOK'
  BY <1>16 DEF EmptyRun, Raise, Release, MarkFailed
<1>17. ASSUME NEW b \in Builders, FailRead(b) PROVE TypeOK'
  BY <1>17 DEF FailRead
<1>18. ASSUME NEW b \in Builders, FailRun(b) PROVE TypeOK'
  BY <1>18 DEF FailRun
<1>19. ASSUME NEW b \in Builders, FailConn(b) PROVE TypeOK'
  BY <1>19 DEF FailConn, Release, MarkFailed
<1>20. ASSUME NEW b \in Builders, DbFails(b) PROVE TypeOK'
  BY <1>20 DEF DbFails, Happens, Aborts, Release, Raise
<1>21. ASSUME NEW b \in Builders, Deadlock(b) PROVE TypeOK'
  BY <1>21 DEF Deadlock, Aborts, Release, Raise
<1>22. ASSUME NEW b \in Builders, Return(b) PROVE TypeOK'
  BY <1>22 DEF Return, Forget
<1>23. ASSUME NEW b \in Builders, Crash(b) PROVE TypeOK'
  BY <1>23 DEF Crash, Forget, Happens, Release
<1>24. ASSUME SaveScope PROVE TypeOK'
  BY <1>24 DEF SaveScope
<1> QED
  BY <1>1, <1>2, <1>3, <1>4, <1>5, <1>6, <1>7, <1>8, <1>9, <1>10, <1>11, <1>12, <1>13, <1>14, <1>15, <1>16, <1>17, <1>18, <1>19, <1>20, <1>21, <1>22, <1>23, <1>24 DEF Next, BuilderStep

\* Every step keeps what a held connection lock stands for.
LEMMA LockStep ==
  ASSUME TypeOK, LockInv, Next
  PROVE  LockInv'
<1> USE DEF TypeOK, LockInv, Goto, tables, locks, locals, Steps
<1>1. ASSUME NEW b \in Builders, NEW r \in Runs, Begin(b, r) PROVE LockInv'
  BY <1>1, BuilderAssumption DEF Begin, Raise, Happens
<1>2. ASSUME NEW b \in Builders, MarkRunning(b) PROVE LockInv'
  BY <1>2, BuilderAssumption DEF MarkRunning, Raise
<1>3. ASSUME NEW b \in Builders, ReadScope(b) PROVE LockInv'
  BY <1>3, BuilderAssumption DEF ReadScope
<1>4. ASSUME NEW b \in Builders, ReadFiles(b) PROVE LockInv'
  BY <1>4, BuilderAssumption DEF ReadFiles
<1>5. ASSUME NEW b \in Builders, GitFails(b) PROVE LockInv'
  BY <1>5, BuilderAssumption DEF GitFails, Raise, Happens
<1>6. ASSUME NEW b \in Builders, NEW i \in Ids, StartArchive(b, i) PROVE LockInv'
  BY <1>6, BuilderAssumption DEF StartArchive, Fresh
<1>7. ASSUME NEW b \in Builders, PublishArchive(b) PROVE LockInv'
  BY <1>7, BuilderAssumption DEF PublishArchive
<1>8. ASSUME NEW b \in Builders, WriteManifest(b) PROVE LockInv'
  BY <1>8, BuilderAssumption DEF WriteManifest
<1>9. ASSUME NEW b \in Builders, StoreFails(b) PROVE LockInv'
  BY <1>9, BuilderAssumption DEF StoreFails, Raise, Happens
<1>10. ASSUME NEW b \in Builders, LockAndInsert(b) PROVE LockInv'
  BY <1>10, BuilderAssumption DEF LockAndInsert
<1>11. ASSUME NEW b \in Builders, Commit(b) PROVE LockInv'
  BY <1>11, BuilderAssumption DEF Commit, Stored, Release
<1>12. ASSUME NEW b \in Builders, AckLost(b) PROVE LockInv'
  BY <1>12, BuilderAssumption DEF AckLost, Stored, Release, Happens
<1>13. ASSUME NEW b \in Builders, Discard(b) PROVE LockInv'
  BY <1>13, BuilderAssumption DEF Discard, Raise
<1>14. ASSUME NEW b \in Builders, Reload(b) PROVE LockInv'
  BY <1>14, BuilderAssumption DEF Reload, Raise
<1>15. ASSUME NEW b \in Builders, EmptyCheck(b) PROVE LockInv'
  BY <1>15, BuilderAssumption DEF EmptyCheck, Raise
<1>16. ASSUME NEW b \in Builders, EmptyRun(b) PROVE LockInv'
  BY <1>16, BuilderAssumption DEF EmptyRun, Raise, Release, MarkFailed
<1>17. ASSUME NEW b \in Builders, FailRead(b) PROVE LockInv'
  BY <1>17, BuilderAssumption DEF FailRead
<1>18. ASSUME NEW b \in Builders, FailRun(b) PROVE LockInv'
  BY <1>18, BuilderAssumption DEF FailRun
<1>19. ASSUME NEW b \in Builders, FailConn(b) PROVE LockInv'
  BY <1>19, BuilderAssumption DEF FailConn, Release, MarkFailed
<1>20. ASSUME NEW b \in Builders, DbFails(b) PROVE LockInv'
  BY <1>20, BuilderAssumption DEF DbFails, Happens, Aborts, Release, Raise
<1>21. ASSUME NEW b \in Builders, Deadlock(b) PROVE LockInv'
  BY <1>21, BuilderAssumption DEF Deadlock, Aborts, Release, Raise
<1>22. ASSUME NEW b \in Builders, Return(b) PROVE LockInv'
  BY <1>22, BuilderAssumption DEF Return, Forget
<1>23. ASSUME NEW b \in Builders, Crash(b) PROVE LockInv'
  BY <1>23, BuilderAssumption DEF Crash, Forget, Happens, Release
<1>24. ASSUME SaveScope PROVE LockInv'
  BY <1>24, BuilderAssumption DEF SaveScope
<1> QED
  BY <1>1, <1>2, <1>3, <1>4, <1>5, <1>6, <1>7, <1>8, <1>9, <1>10, <1>11, <1>12, <1>13, <1>14, <1>15, <1>16, <1>17, <1>18, <1>19, <1>20, <1>21, <1>22, <1>23, <1>24 DEF Next, BuilderStep

\* Every step keeps the directories apart: one builder or one stored row has each.
LEMMA OwnershipStep ==
  ASSUME TypeOK, LockInv, OwnershipInv, Next
  PROVE  OwnershipInv'
<1> USE DEF TypeOK, LockInv, OwnershipInv, Goto, tables, locks, locals, Steps, Owning, Content, Never
<1>1. ASSUME NEW b \in Builders, NEW r \in Runs, Begin(b, r) PROVE OwnershipInv'
  BY <1>1 DEF Begin, Raise, Happens
<1>2. ASSUME NEW b \in Builders, MarkRunning(b) PROVE OwnershipInv'
  BY <1>2 DEF MarkRunning, Raise
<1>3. ASSUME NEW b \in Builders, ReadScope(b) PROVE OwnershipInv'
  BY <1>3 DEF ReadScope
<1>4. ASSUME NEW b \in Builders, ReadFiles(b) PROVE OwnershipInv'
  BY <1>4 DEF ReadFiles
<1>5. ASSUME NEW b \in Builders, GitFails(b) PROVE OwnershipInv'
  BY <1>5 DEF GitFails, Raise, Happens
<1>6. ASSUME NEW b \in Builders, NEW i \in Ids, StartArchive(b, i) PROVE OwnershipInv'
  BY <1>6 DEF StartArchive, Fresh
<1>7. ASSUME NEW b \in Builders, PublishArchive(b) PROVE OwnershipInv'
  BY <1>7 DEF PublishArchive
<1>8. ASSUME NEW b \in Builders, WriteManifest(b) PROVE OwnershipInv'
  BY <1>8 DEF WriteManifest
<1>9. ASSUME NEW b \in Builders, StoreFails(b) PROVE OwnershipInv'
  BY <1>9 DEF StoreFails, Raise, Happens
<1>10. ASSUME NEW b \in Builders, LockAndInsert(b) PROVE OwnershipInv'
  BY <1>10 DEF LockAndInsert
<1>11. ASSUME NEW b \in Builders, Commit(b) PROVE OwnershipInv'
  BY <1>11 DEF Commit, Stored, Release
<1>12. ASSUME NEW b \in Builders, AckLost(b) PROVE OwnershipInv'
  BY <1>12 DEF AckLost, Stored, Release, Happens
<1>13. ASSUME NEW b \in Builders, Discard(b) PROVE OwnershipInv'
  BY <1>13 DEF Discard, Raise
<1>14. ASSUME NEW b \in Builders, Reload(b) PROVE OwnershipInv'
  BY <1>14 DEF Reload, Raise
<1>15. ASSUME NEW b \in Builders, EmptyCheck(b) PROVE OwnershipInv'
  BY <1>15 DEF EmptyCheck, Raise
<1>16. ASSUME NEW b \in Builders, EmptyRun(b) PROVE OwnershipInv'
  BY <1>16 DEF EmptyRun, Raise, Release, MarkFailed
<1>17. ASSUME NEW b \in Builders, FailRead(b) PROVE OwnershipInv'
  BY <1>17 DEF FailRead
<1>18. ASSUME NEW b \in Builders, FailRun(b) PROVE OwnershipInv'
  BY <1>18 DEF FailRun
<1>19. ASSUME NEW b \in Builders, FailConn(b) PROVE OwnershipInv'
  BY <1>19 DEF FailConn, Release, MarkFailed
<1>20. ASSUME NEW b \in Builders, DbFails(b) PROVE OwnershipInv'
  <2>1. PICK p \in Steps : /\ pc' = [pc EXCEPT ![b] = p]
                          /\ \/ pc[b] = "commit" /\ p = "broken"
                             \/ pc[b] \notin Owning /\ p \notin Owning
    BY <1>20, AbortEffect DEF DbFails, Deadlock
  <2>2. UNCHANGED <<id, disk, row>> /\ incidents \subseteq incidents'
    BY <1>20 DEF DbFails, Deadlock, Aborts, Happens
  <2> QED BY <2>1, <2>2
<1>21. ASSUME NEW b \in Builders, Deadlock(b) PROVE OwnershipInv'
  <2>1. PICK p \in Steps : /\ pc' = [pc EXCEPT ![b] = p]
                          /\ \/ pc[b] = "commit" /\ p = "broken"
                             \/ pc[b] \notin Owning /\ p \notin Owning
    BY <1>21, AbortEffect DEF DbFails, Deadlock
  <2>2. UNCHANGED <<id, disk, row>> /\ incidents \subseteq incidents'
    BY <1>21 DEF DbFails, Deadlock, Aborts, Happens
  <2> QED BY <2>1, <2>2
<1>22. ASSUME NEW b \in Builders, Return(b) PROVE OwnershipInv'
  BY <1>22 DEF Return, Forget
<1>23. ASSUME NEW b \in Builders, Crash(b) PROVE OwnershipInv'
  BY <1>23 DEF Crash, Forget, Happens, Release
<1>24. ASSUME SaveScope PROVE OwnershipInv'
  BY <1>24 DEF SaveScope
<1> QED
  BY <1>1, <1>2, <1>3, <1>4, <1>5, <1>6, <1>7, <1>8, <1>9, <1>10, <1>11, <1>12, <1>13, <1>14, <1>15, <1>16, <1>17, <1>18, <1>19, <1>20, <1>21, <1>22, <1>23, <1>24 DEF Next, BuilderStep

\* Every step keeps the reasons with which builds fail.
LEMMA EmptyStep ==
  ASSUME TypeOK, EmptyInv, Next
  PROVE  EmptyInv'
<1> USE DEF TypeOK, EmptyInv, Goto, tables, locks, locals, Steps
<1>1. ASSUME NEW b \in Builders, NEW r \in Runs, Begin(b, r) PROVE EmptyInv'
  BY <1>1 DEF Begin, Raise, Happens
<1>2. ASSUME NEW b \in Builders, MarkRunning(b) PROVE EmptyInv'
  BY <1>2 DEF MarkRunning, Raise
<1>3. ASSUME NEW b \in Builders, ReadScope(b) PROVE EmptyInv'
  BY <1>3 DEF ReadScope
<1>4. ASSUME NEW b \in Builders, ReadFiles(b) PROVE EmptyInv'
  BY <1>4 DEF ReadFiles
<1>5. ASSUME NEW b \in Builders, GitFails(b) PROVE EmptyInv'
  BY <1>5 DEF GitFails, Raise, Happens
<1>6. ASSUME NEW b \in Builders, NEW i \in Ids, StartArchive(b, i) PROVE EmptyInv'
  BY <1>6 DEF StartArchive, Fresh
<1>7. ASSUME NEW b \in Builders, PublishArchive(b) PROVE EmptyInv'
  BY <1>7 DEF PublishArchive
<1>8. ASSUME NEW b \in Builders, WriteManifest(b) PROVE EmptyInv'
  BY <1>8 DEF WriteManifest
<1>9. ASSUME NEW b \in Builders, StoreFails(b) PROVE EmptyInv'
  BY <1>9 DEF StoreFails, Raise, Happens
<1>10. ASSUME NEW b \in Builders, LockAndInsert(b) PROVE EmptyInv'
  BY <1>10 DEF LockAndInsert
<1>11. ASSUME NEW b \in Builders, Commit(b) PROVE EmptyInv'
  BY <1>11 DEF Commit, Stored, Release
<1>12. ASSUME NEW b \in Builders, AckLost(b) PROVE EmptyInv'
  BY <1>12 DEF AckLost, Stored, Release, Happens
<1>13. ASSUME NEW b \in Builders, Discard(b) PROVE EmptyInv'
  BY <1>13 DEF Discard, Raise
<1>14. ASSUME NEW b \in Builders, Reload(b) PROVE EmptyInv'
  BY <1>14 DEF Reload, Raise
<1>15. ASSUME NEW b \in Builders, EmptyCheck(b) PROVE EmptyInv'
  BY <1>15 DEF EmptyCheck, Raise
<1>16. ASSUME NEW b \in Builders, EmptyRun(b) PROVE EmptyInv'
  BY <1>16 DEF EmptyRun, Raise, Release, MarkFailed
<1>17. ASSUME NEW b \in Builders, FailRead(b) PROVE EmptyInv'
  BY <1>17 DEF FailRead
<1>18. ASSUME NEW b \in Builders, FailRun(b) PROVE EmptyInv'
  BY <1>18 DEF FailRun
<1>19. ASSUME NEW b \in Builders, FailConn(b) PROVE EmptyInv'
  BY <1>19 DEF FailConn, Release, MarkFailed
<1>20. ASSUME NEW b \in Builders, DbFails(b) PROVE EmptyInv'
  BY <1>20 DEF DbFails, Happens, Aborts, Release, Raise
<1>21. ASSUME NEW b \in Builders, Deadlock(b) PROVE EmptyInv'
  BY <1>21 DEF Deadlock, Aborts, Release, Raise
<1>22. ASSUME NEW b \in Builders, Return(b) PROVE EmptyInv'
  BY <1>22 DEF Return, Forget
<1>23. ASSUME NEW b \in Builders, Crash(b) PROVE EmptyInv'
  BY <1>23 DEF Crash, Forget, Happens, Release
<1>24. ASSUME SaveScope PROVE EmptyInv'
  BY <1>24 DEF SaveScope
<1> QED
  BY <1>1, <1>2, <1>3, <1>4, <1>5, <1>6, <1>7, <1>8, <1>9, <1>10, <1>11, <1>12, <1>13, <1>14, <1>15, <1>16, <1>17, <1>18, <1>19, <1>20, <1>21, <1>22, <1>23, <1>24 DEF Next, BuilderStep

\* Every other step leaves the archives, their owners and the rows alone.
LEMMA StepsOnArchives ==
  ASSUME Next
  PROVE  \/ UNCHANGED <<disk, id, row>> /\ incidents \subseteq incidents'
         \/ \E b \in Builders :
               \/ \E i \in Ids : StartArchive(b, i)
               \/ PublishArchive(b) \/ WriteManifest(b) \/ StoreFails(b)
               \/ Commit(b) \/ AckLost(b) \/ Discard(b) \/ Return(b) \/ Crash(b)
<1> USE DEF tables, locks, locals
<1>1. ASSUME NEW b \in Builders, NEW r \in Runs, Begin(b, r)
      PROVE  UNCHANGED <<disk, id, row>> /\ incidents \subseteq incidents'
  BY <1>1 DEF Begin, Happens
<1>2. ASSUME NEW b \in Builders,
             MarkRunning(b) \/ ReadScope(b) \/ ReadFiles(b) \/ GitFails(b)
      PROVE  UNCHANGED <<disk, id, row>> /\ incidents \subseteq incidents'
  BY <1>2 DEF MarkRunning, ReadScope, ReadFiles, GitFails, Happens
<1>3. ASSUME NEW b \in Builders, LockAndInsert(b) \/ Reload(b) \/ EmptyCheck(b)
      PROVE  UNCHANGED <<disk, id, row>> /\ incidents \subseteq incidents'
  BY <1>3 DEF LockAndInsert, Reload, EmptyCheck
<1>4. ASSUME NEW b \in Builders, EmptyRun(b) \/ FailRead(b) \/ FailRun(b) \/ FailConn(b)
      PROVE  UNCHANGED <<disk, id, row>> /\ incidents \subseteq incidents'
  BY <1>4 DEF EmptyRun, FailRead, FailRun, FailConn
<1>5. ASSUME NEW b \in Builders, DbFails(b) \/ Deadlock(b)
      PROVE  UNCHANGED <<disk, id, row>> /\ incidents \subseteq incidents'
  BY <1>5 DEF DbFails, Deadlock, Aborts, Happens
<1>6. CASE SaveScope
  BY <1>6 DEF SaveScope
<1> QED
  BY <1>1, <1>2, <1>3, <1>4, <1>5, <1>6 DEF Next, BuilderStep

\* A row's archive is nobody's to remove, except after a lost acknowledgement.
LEMMA ArchiveStep ==
  ASSUME TypeOK, LockInv, OwnershipInv, RowHasArchive, Next
  PROVE  RowHasArchive'
<1> USE DEF TypeOK, LockInv, OwnershipInv, RowHasArchive, Goto, tables, locks, locals, Owning, Content, Never
<1>1. CASE UNCHANGED <<disk, id, row>> /\ incidents \subseteq incidents'
  BY <1>1
<1>2. ASSUME NEW b \in Builders, NEW i \in Ids, StartArchive(b, i) PROVE RowHasArchive'
  BY <1>2 DEF StartArchive, Fresh
<1>3. ASSUME NEW b \in Builders, PublishArchive(b) PROVE RowHasArchive'
  BY <1>3 DEF PublishArchive
<1>4. ASSUME NEW b \in Builders, WriteManifest(b) PROVE RowHasArchive'
  BY <1>4 DEF WriteManifest
<1>5. ASSUME NEW b \in Builders, StoreFails(b) PROVE RowHasArchive'
  BY <1>5 DEF StoreFails, Raise, Happens
<1>6. ASSUME NEW b \in Builders, Commit(b) PROVE RowHasArchive'
  BY <1>6 DEF Commit, Stored, Release
<1>7. ASSUME NEW b \in Builders, AckLost(b) PROVE RowHasArchive'
  BY <1>7 DEF AckLost, Stored, Release, Happens
<1>8. ASSUME NEW b \in Builders, Discard(b) PROVE RowHasArchive'
  BY <1>8 DEF Discard, Raise
<1>9. ASSUME NEW b \in Builders, Return(b) PROVE RowHasArchive'
  BY <1>9 DEF Return, Forget
<1>10. ASSUME NEW b \in Builders, Crash(b) PROVE RowHasArchive'
  BY <1>10 DEF Crash, Forget, Happens, Release
<1> QED
  BY <1>1, <1>2, <1>3, <1>4, <1>5, <1>6, <1>7, <1>8, <1>9, <1>10, StepsOnArchives

\* A directory passes from its builder to the row, or is removed.
LEMMA OrphanStep ==
  ASSUME TypeOK, LockInv, OwnershipInv, NoOrphan, Next
  PROVE  NoOrphan'
<1> USE DEF TypeOK, LockInv, OwnershipInv, NoOrphan, Goto, tables, locks, locals, Owning, Content, Never
<1>1. CASE UNCHANGED <<disk, id, row>> /\ incidents \subseteq incidents'
  BY <1>1
<1>2. ASSUME NEW b \in Builders, NEW i \in Ids, StartArchive(b, i) PROVE NoOrphan'
  <2>1. id[b] = None /\ UNCHANGED <<row, incidents>>
    BY <1>2 DEF StartArchive
  <2>2. disk' = [disk EXCEPT ![i] = "temp"] /\ id' = [id EXCEPT ![b] = i]
    BY <1>2 DEF StartArchive
  <2>3. SUFFICES ASSUME Never({"crash"}), NEW j \in Ids, disk'[j] # "none"
                 PROVE  (\E r \in Runs : row[r] = j) \/ (\E c \in Builders : id'[c] = j)
    BY <2>1
  <2>4. CASE j = i
    BY <2>2, <2>4
  <2>5. CASE j # i
    <3>1. (\E r \in Runs : row[r] = j) \/ (\E c \in Builders : id[c] = j)
      BY <2>2, <2>3, <2>5
    <3>2. ASSUME NEW c \in Builders, id[c] = j PROVE id'[c] = j
      BY <3>2, <2>1, <2>2, BuilderAssumption
    <3> QED BY <3>1, <3>2
  <2> QED BY <2>4, <2>5
<1>3. ASSUME NEW b \in Builders, PublishArchive(b) PROVE NoOrphan'
  BY <1>3 DEF PublishArchive
<1>4. ASSUME NEW b \in Builders, WriteManifest(b) PROVE NoOrphan'
  BY <1>4 DEF WriteManifest
<1>5. ASSUME NEW b \in Builders, StoreFails(b) PROVE NoOrphan'
  BY <1>5 DEF StoreFails, Raise, Happens
<1>6. ASSUME NEW b \in Builders, Commit(b) PROVE NoOrphan'
  BY <1>6 DEF Commit, Stored, Release
<1>7. ASSUME NEW b \in Builders, AckLost(b) PROVE NoOrphan'
  <2>1. row[run[b]] = None /\ run[b] \in Runs /\ row' = [row EXCEPT ![run[b]] = id[b]]
    BY <1>7 DEF AckLost, Stored
  <2>2. UNCHANGED <<disk, id>> /\ incidents \subseteq incidents'
    BY <1>7 DEF AckLost, Stored, Happens
  <2> QED BY <2>1, <2>2, BuilderAssumption
<1>8. ASSUME NEW b \in Builders, Discard(b) PROVE NoOrphan'
  BY <1>8 DEF Discard, Raise
<1>9. ASSUME NEW b \in Builders, Return(b) PROVE NoOrphan'
  BY <1>9 DEF Return, Forget
<1>10. ASSUME NEW b \in Builders, Crash(b) PROVE NoOrphan'
  BY <1>10 DEF Crash, Forget, Happens, Release
<1> QED
  BY <1>1, <1>2, <1>3, <1>4, <1>5, <1>6, <1>7, <1>8, <1>9, <1>10, StepsOnArchives

\* Every step keeps what a builder goes by when it gives a run up.
LEMMA EndedStep ==
  ASSUME TypeOK, LockInv, OwnershipInv, EndedInv, Next
  PROVE  EndedInv'
<1> USE BuilderAssumption DEF TypeOK, LockInv, OwnershipInv, Goto, tables, locks, locals, Steps, Status, Owning, EndedInv, Ended, Failing
<1>1. ASSUME NEW b \in Builders, NEW r \in Runs, Begin(b, r) PROVE EndedInv'
  BY <1>1 DEF Begin, Raise, Happens
<1>2. ASSUME NEW b \in Builders, NEW i \in Ids, StartArchive(b, i) PROVE EndedInv'
  BY <1>2 DEF StartArchive, Fresh
<1>3. ASSUME NEW b \in Builders, MarkRunning(b) PROVE EndedInv'
  <2>1. \A r \in Runs : Ended(r) => Ended(r)'
    BY <1>3 DEF MarkRunning
  <2>2. PICK p \in {"resolve", "raised"} : pc' = [pc EXCEPT ![b] = p]
    BY <1>3 DEF MarkRunning, Raise
  <2>3. pc[b] = "mark" /\ UNCHANGED <<row, lock, run, seen>>
    BY <1>3 DEF MarkRunning
  <2>4. \A r \in Runs : \/ status'[r] = status[r]
                        \/ status'[r] = "running" /\ status[r] = "pending"
    BY <1>3 DEF MarkRunning
  <2>5. status'[run[b]] # "pending"
    BY <1>3 DEF MarkRunning
  <2>6. \A c \in Builders : pc'[c] \notin {"idle", "mark"} => status'[run[c]] # "pending"
    BY <2>2, <2>3, <2>4, <2>5
  <2>7. \A r \in Runs : status'[r] = "succeeded" => row'[r] # None
    BY <2>3, <2>4
  <2> QED BY <2>1, <2>2, <2>3, <2>6, <2>7
<1>4. ASSUME NEW b \in Builders, ReadScope(b) PROVE EndedInv'
  BY <1>4 DEF ReadScope
<1>5. ASSUME NEW b \in Builders, ReadFiles(b) PROVE EndedInv'
  BY <1>5 DEF ReadFiles
<1>6. ASSUME NEW b \in Builders, GitFails(b) PROVE EndedInv'
  BY <1>6 DEF GitFails, Raise, Happens
<1>7. ASSUME NEW b \in Builders, PublishArchive(b) PROVE EndedInv'
  BY <1>7 DEF PublishArchive
<1>8. ASSUME NEW b \in Builders, WriteManifest(b) PROVE EndedInv'
  BY <1>8 DEF WriteManifest
<1>9. ASSUME NEW b \in Builders, StoreFails(b) PROVE EndedInv'
  BY <1>9 DEF StoreFails, Raise, Happens
<1>10. ASSUME NEW b \in Builders, LockAndInsert(b) PROVE EndedInv'
  BY <1>10 DEF LockAndInsert
<1>11. ASSUME NEW b \in Builders, Commit(b) PROVE EndedInv'
  BY <1>11 DEF Commit, Stored, Release
<1>12. ASSUME NEW b \in Builders, AckLost(b) PROVE EndedInv'
  BY <1>12 DEF AckLost, Stored, Release, Happens
<1>13. ASSUME NEW b \in Builders, Discard(b) PROVE EndedInv'
  BY <1>13 DEF Discard, Raise
<1>14. ASSUME NEW b \in Builders, Reload(b) PROVE EndedInv'
  <2>1. PICK p \in {"done", "resolve", "raised"} : pc' = [pc EXCEPT ![b] = p]
    BY <1>14 DEF Reload, Raise
  <2>2. pc[b] = "reload" /\ UNCHANGED <<status, row, lock, run, seen>>
    BY <1>14 DEF Reload
  <2> QED BY <2>1, <2>2
<1>15. ASSUME NEW b \in Builders, EmptyCheck(b) PROVE EndedInv'
  BY <1>15 DEF EmptyCheck, Raise
<1>16. ASSUME NEW b \in Builders, EmptyRun(b) PROVE EndedInv'
  BY <1>16 DEF EmptyRun, Raise, Release, MarkFailed
<1>17. ASSUME NEW b \in Builders, FailRead(b) PROVE EndedInv'
  BY <1>17 DEF FailRead
<1>18. ASSUME NEW b \in Builders, FailRun(b) PROVE EndedInv'
  BY <1>18 DEF FailRun
<1>19. ASSUME NEW b \in Builders, FailConn(b) PROVE EndedInv'
  BY <1>19 DEF FailConn, Release, MarkFailed
<1>20. ASSUME NEW b \in Builders, DbFails(b) PROVE EndedInv'
  BY <1>20 DEF DbFails, Happens, Aborts, Release, Raise
<1>21. ASSUME NEW b \in Builders, Deadlock(b) PROVE EndedInv'
  BY <1>21 DEF Deadlock, Aborts, Release, Raise
<1>22. ASSUME NEW b \in Builders, Return(b) PROVE EndedInv'
  BY <1>22 DEF Return, Forget
<1>23. ASSUME NEW b \in Builders, Crash(b) PROVE EndedInv'
  BY <1>23 DEF Crash, Forget, Happens, Release
<1>24. ASSUME SaveScope PROVE EndedInv'
  BY <1>24 DEF SaveScope
<1> QED
  BY <1>1, <1>2, <1>3, <1>4, <1>5, <1>6, <1>7, <1>8, <1>9, <1>10, <1>11, <1>12, <1>13, <1>14, <1>15, <1>16, <1>17, <1>18, <1>19, <1>20, <1>21, <1>22, <1>23, <1>24 DEF Next, BuilderStep

\* A builder gives a running run up only when it has ended, or when another builder has it too.
LEMMA EndingStep ==
  ASSUME TypeOK, LockInv, OwnershipInv, EndingInv, Next, EndedInv'
  PROVE  EndingInv'
<1> USE BuilderAssumption DEF TypeOK, LockInv, Goto, tables, locks, locals, Steps, Status, EndedInv, Ended, Failing, EndingInv, WorkedOn, Never
<1>1. ASSUME NEW b \in Builders, NEW r \in Runs, Begin(b, r) PROVE EndingInv'
  BY <1>1 DEF Begin, Raise, Happens
<1>2. ASSUME NEW b \in Builders, NEW i \in Ids, StartArchive(b, i) PROVE EndingInv'
  BY <1>2 DEF StartArchive, Fresh
<1>3. ASSUME NEW b \in Builders, MarkRunning(b) PROVE EndingInv'
  BY <1>3 DEF MarkRunning, Raise
<1>4. ASSUME NEW b \in Builders, ReadScope(b) PROVE EndingInv'
  BY <1>4 DEF ReadScope
<1>5. ASSUME NEW b \in Builders, ReadFiles(b) PROVE EndingInv'
  BY <1>5 DEF ReadFiles
<1>6. ASSUME NEW b \in Builders, GitFails(b) PROVE EndingInv'
  BY <1>6 DEF GitFails, Raise, Happens
<1>7. ASSUME NEW b \in Builders, PublishArchive(b) PROVE EndingInv'
  BY <1>7 DEF PublishArchive
<1>8. ASSUME NEW b \in Builders, WriteManifest(b) PROVE EndingInv'
  BY <1>8 DEF WriteManifest
<1>9. ASSUME NEW b \in Builders, StoreFails(b) PROVE EndingInv'
  BY <1>9 DEF StoreFails, Raise, Happens
<1>10. ASSUME NEW b \in Builders, LockAndInsert(b) PROVE EndingInv'
  BY <1>10 DEF LockAndInsert
<1>11. ASSUME NEW b \in Builders, Commit(b) PROVE EndingInv'
  BY <1>11 DEF Commit, Stored, Release
<1>12. ASSUME NEW b \in Builders, AckLost(b) PROVE EndingInv'
  BY <1>12 DEF AckLost, Stored, Release, Happens
<1>13. ASSUME NEW b \in Builders, Discard(b) PROVE EndingInv'
  BY <1>13 DEF Discard, Raise
<1>14. ASSUME NEW b \in Builders, Reload(b) PROVE EndingInv'
  BY <1>14 DEF Reload, Raise
<1>15. ASSUME NEW b \in Builders, EmptyCheck(b) PROVE EndingInv'
  BY <1>15 DEF EmptyCheck, Raise
<1>16. ASSUME NEW b \in Builders, EmptyRun(b) PROVE EndingInv'
  BY <1>16 DEF EmptyRun, Raise, Release, MarkFailed
<1>17. ASSUME NEW b \in Builders, FailRead(b) PROVE EndingInv'
  BY <1>17 DEF FailRead
<1>18. ASSUME NEW b \in Builders, FailRun(b) PROVE EndingInv'
  BY <1>18 DEF FailRun
<1>19. ASSUME NEW b \in Builders, FailConn(b) PROVE EndingInv'
  BY <1>19 DEF FailConn, Release, MarkFailed
<1>20. ASSUME NEW b \in Builders, DbFails(b) PROVE EndingInv'
  BY <1>20 DEF DbFails, Happens, Aborts, Release, Raise
<1>21. ASSUME NEW b \in Builders, Deadlock(b) PROVE EndingInv'
  <2>1. UNCHANGED <<status, run, incidents>>
    BY <1>21 DEF Deadlock, Aborts
  <2>2. PICK c \in Builders : Entangled(b, c) \/ Entangled(c, b)
    BY <1>21 DEF Deadlock
  <2>3. PICK p \in Steps : pc' = [pc EXCEPT ![b] = p] /\ (p = "done" => pc[b] \in {"taskRun", "taskConn"})
                         /\ p # "idle"
    BY <1>21 DEF Deadlock, Aborts, Raise
  <2>4. CASE p # "done"
    BY <2>1, <2>3, <2>4
  <2>5. CASE p = "done"
    \* The builder that waits for b goes on with the same run.
    <3>1. lock[run[c]] = b /\ pc[c] \in {"commit", "emptyRun"}
      BY <2>2, <2>3, <2>5 DEF Entangled
    <3>2. run[c] = run[b] /\ c # b
      BY <3>1, <2>3, <2>5
    <3>3. ASSUME NEW r \in Runs, WorkedOn(r) PROVE WorkedOn(r)'
      <4>1. PICK d \in Builders : run[d] = r /\ pc[d] \notin {"idle", "done"}
        BY <3>3
      <4>2. CASE d = b
        BY <4>1, <4>2, <3>1, <3>2, <2>1, <2>3
      <4>3. CASE d # b
        BY <4>1, <4>3, <2>1, <2>3
      <4> QED BY <4>2, <4>3
    <3> QED BY <3>3, <2>1
  <2> QED BY <2>4, <2>5
<1>22. ASSUME NEW b \in Builders, Return(b) PROVE EndingInv'
  BY <1>22 DEF Return, Forget
<1>23. ASSUME NEW b \in Builders, Crash(b) PROVE EndingInv'
  BY <1>23 DEF Crash, Forget, Happens, Release
<1>24. ASSUME SaveScope PROVE EndingInv'
  BY <1>24 DEF SaveScope
<1> QED
  BY <1>1, <1>2, <1>3, <1>4, <1>5, <1>6, <1>7, <1>8, <1>9, <1>10, <1>11, <1>12, <1>13, <1>14, <1>15, <1>16, <1>17, <1>18, <1>19, <1>20, <1>21, <1>22, <1>23, <1>24 DEF Next, BuilderStep

\* A step changes the outcome of one run at most, and a snapshot is stored by the
\* commit of the final transaction, of the rules that are in force.
LEMMA OutcomeStep ==
  ASSUME BuildInv, Next
  PROVE  [Outcome!OutcomeNext]_(Outcome!outcomes)
<1> DEFINE outcome == [r \in Runs |-> OutcomeOf(status[r])]
           product == [r \in Runs |-> IF row[r] = None THEN None ELSE scope[r]]
<1> USE DEF tables, locks, locals
<1>types. TypeOK /\ LockInv /\ OwnershipInv /\ EndedInv
  BY DEF BuildInv, EndingInv
<1>outcomes. /\ OutcomeOf("pending") = "open" /\ OutcomeOf("running") = "building"
      /\ OutcomeOf("succeeded") = "stored" /\ OutcomeOf("failed") = "failed"
  BY DEF OutcomeOf
<1>1. ASSUME UNCHANGED <<status, row, scope>> PROVE UNCHANGED Outcome!outcomes
  BY <1>1 DEF Outcome!outcomes
<1>2. ASSUME NEW b \in Builders, MarkRunning(b) PROVE [Outcome!OutcomeNext]_(Outcome!outcomes)
  <2>1. CASE status[run[b]] = "pending"
    <3>1. run[b] \in Runs /\ status' = [status EXCEPT ![run[b]] = "running"]
      BY <1>types, <1>2, <2>1 DEF MarkRunning, LockInv
    <3>2. UNCHANGED <<row, scope>>
      BY <1>2 DEF MarkRunning
    <3>3. outcome' = [outcome EXCEPT ![run[b]] = "building"] /\ outcome[run[b]] = "open"
      BY <1>types, <1>outcomes, <2>1, <3>1 DEF TypeOK
    <3>4. Outcome!Start(run[b])
      BY <3>2, <3>3 DEF Outcome!Start, Outcome!Set
    <3> QED BY <3>1, <3>4 DEF Outcome!OutcomeNext
  <2>2. CASE status[run[b]] # "pending"
    BY <1>1, <1>2, <2>2 DEF MarkRunning
  <2> QED BY <2>1, <2>2
<1>3. ASSUME NEW b \in Builders, Stored(b) PROVE [Outcome!OutcomeNext]_(Outcome!outcomes)
  <2>1. PICK r \in Runs : r = run[b]
    BY <1>types, <1>3 DEF Stored, LockInv
  <2>2. /\ row[r] = None /\ id[b] # None
        /\ active = version[b]
        /\ status' = [status EXCEPT ![r] = "succeeded"]
        /\ row' = [row EXCEPT ![r] = id[b]]
        /\ scope' = [scope EXCEPT ![r] = version[b]]
    BY <1>types, <1>3, <2>1 DEF Stored, LockInv, OwnershipInv, Owning
  <2>3. outcome' = [outcome EXCEPT ![r] = "stored"]
    BY <1>types, <1>outcomes, <2>2 DEF TypeOK
  <2>4. product' = [product EXCEPT ![r] = active] /\ product[r] = None
    BY <1>types, <2>2 DEF TypeOK
  <2>5. status[r] \in {"running", "failed"}
    BY <1>types, <1>3, <2>1, <2>2 DEF Stored, EndedInv, TypeOK, Status
  <2>6. outcome[r] \in {"building", "failed"}
    BY <2>5 DEF OutcomeOf
  <2>7. \E p \in {active} : product' = [product EXCEPT ![r] = p]
    BY <2>4
  <2>8. Outcome!Store(r)
    BY <2>3, <2>4, <2>6, <2>7 DEF Outcome!Store, Outcome!Set
  <2> QED BY <2>8 DEF Outcome!OutcomeNext
<1>4. ASSUME NEW b \in Builders, NEW code, MarkFailed(b, code), run[b] \in Runs,
             UNCHANGED <<row, scope>>
      PROVE  [Outcome!OutcomeNext]_(Outcome!outcomes)
  <2>1. CASE seen[b] = "succeeded" \/ status[run[b]] = "failed"
    <3>1. UNCHANGED status
      BY <1>types, <1>4, <2>1 DEF MarkFailed, TypeOK
    <3> QED BY <1>1, <1>4, <3>1
  <2>2. CASE seen[b] # "succeeded" /\ status[run[b]] # "failed"
    <3>1. status' = [status EXCEPT ![run[b]] = "failed"]
      BY <1>4, <2>2 DEF MarkFailed
    <3>2. outcome' = [outcome EXCEPT ![run[b]] = "failed"] /\ outcome[run[b]] # "failed"
      BY <1>types, <1>4, <2>2, <3>1 DEF TypeOK, Status, OutcomeOf
    <3>3. Outcome!GiveUp(run[b])
      BY <1>4, <3>2 DEF Outcome!GiveUp, Outcome!Set
    <3> QED BY <1>4, <3>3 DEF Outcome!OutcomeNext
  <2> QED BY <2>1, <2>2
<1>5. ASSUME NEW b \in Builders, EmptyRun(b) \/ FailConn(b)
      PROVE  [Outcome!OutcomeNext]_(Outcome!outcomes)
  <2>1. run[b] \in Runs /\ UNCHANGED <<row, scope>>
    BY <1>types, <1>5 DEF LockInv, EmptyRun, FailConn
  <2>2. \E code \in Failures \cup {problem[b]} : MarkFailed(b, code)
    BY <1>5 DEF EmptyRun, FailConn, Failures
  <2> QED BY <1>4, <2>1, <2>2
<1>6. ASSUME NEW b \in Builders,
             \/ ReadScope(b) \/ ReadFiles(b) \/ GitFails(b) \/ PublishArchive(b)
             \/ WriteManifest(b) \/ StoreFails(b) \/ LockAndInsert(b) \/ Discard(b)
             \/ Reload(b) \/ EmptyCheck(b) \/ FailRead(b) \/ FailRun(b) \/ DbFails(b)
             \/ Deadlock(b) \/ Return(b) \/ Crash(b)
             \/ (\E i \in Ids : StartArchive(b, i)) \/ (\E q \in Runs : Begin(b, q))
      PROVE  UNCHANGED <<status, row, scope>>
  BY <1>6 DEF ReadScope, ReadFiles, GitFails, PublishArchive, WriteManifest, StoreFails,
              LockAndInsert, Discard, Reload, EmptyCheck, FailRead, FailRun, DbFails,
              Deadlock, Aborts, Return, Crash, StartArchive, Begin
<1>7. CASE SaveScope
  BY <1>1, <1>7 DEF SaveScope
<1> QED
  BY <1>1, <1>2, <1>3, <1>5, <1>6, <1>7 DEF Next, BuilderStep, Commit, AckLost

(***************************************************************************)
(* The theorems.                                                           *)
(***************************************************************************)
\* Every reachable state of the builders is well typed, every archive is owned by one
\* builder or row, and the locks guard what was checked under them.
THEOREM BuildInvariant == Spec => []BuildInv
<1>1. Init => BuildInv
  BY BuilderAssumption, RunAssumption
     DEF Init, BuildInv, TypeOK, OwnershipInv, LockInv, EmptyInv, RowHasArchive, NoOrphan,
         EndingInv, EndedInv, WorkedOn, Failing, Never, Steps, Status, Failures, DiskStates, Incidents, Owning
<1>2. BuildInv /\ [Next]_vars => BuildInv'
  <2> SUFFICES ASSUME BuildInv, [Next]_vars PROVE BuildInv'
    OBVIOUS
  <2>1. CASE Next
    BY <2>1, TypeStep, LockStep, OwnershipStep, EmptyStep, ArchiveStep, OrphanStep,
       EndedStep, EndingStep
       DEF BuildInv, EndingInv
  <2>2. CASE UNCHANGED vars
    BY <2>2 DEF vars, tables, locks, locals, BuildInv, TypeOK, OwnershipInv, LockInv,
                EmptyInv, RowHasArchive, NoOrphan, EndingInv, EndedInv, Ended,
                WorkedOn, Never
  <2> QED BY <2>1, <2>2
<1> QED BY <1>1, <1>2, PTL DEF Spec

\* A stored snapshot has its archive, for any number of builders, runs and failures.
THEOREM ArchivesKept == Spec => []RowHasArchive
<1>1. BuildInv => RowHasArchive
  BY DEF BuildInv
<1> QED BY <1>1, BuildInvariant, PTL

\* Only a dying process leaves an archive behind.
THEOREM NothingOrphaned == Spec => []NoOrphan
<1>1. BuildInv => NoOrphan
  BY DEF BuildInv
<1> QED BY <1>1, BuildInvariant, PTL

\* When all builders are idle no run is running, whatever Git, the disk and the
\* deadlock detection have aborted.
THEOREM NoneLeftRunning == Spec => []NothingLeftRunning
<1>1. BuildInv => NothingLeftRunning
  BY DEF BuildInv, EndingInv, WorkedOn, NothingLeftRunning
<1> QED BY <1>1, BuildInvariant, PTL

\* A snapshot is stored under the rules in force.
THEOREM ScopeHeld == Spec => ScopeInForce
<1>1. BuildInv /\ [Next]_vars =>
        [\A r \in Runs : row'[r] # row[r] => scope'[r] = active /\ active' = active]_vars
  <2> SUFFICES ASSUME BuildInv, Next, NEW r \in Runs, row'[r] # row[r]
               PROVE  scope'[r] = active /\ active' = active
    BY DEF vars
  <2>1. PICK b \in Builders : Stored(b)
    <3>1. ASSUME NEW b \in Builders, NEW i \in Ids, StartArchive(b, i) PROVE FALSE
      BY <3>1 DEF StartArchive, tables
    <3>2. ASSUME NEW b \in Builders,
                 \/ PublishArchive(b) \/ WriteManifest(b) \/ StoreFails(b)
                 \/ Discard(b) \/ Return(b) \/ Crash(b)
          PROVE  FALSE
      BY <3>2 DEF PublishArchive, WriteManifest, StoreFails, Discard, Return, Crash, tables
    <3> QED BY <3>1, <3>2, StepsOnArchives DEF Commit, AckLost
  <2>2. row' = [row EXCEPT ![run[b]] = id[b]] /\ scope' = [scope EXCEPT ![run[b]] = version[b]]
    BY <2>1 DEF Stored
  <2>3. r = run[b] /\ active = version[b] /\ UNCHANGED active
    BY <2>1, <2>2 DEF Stored, BuildInv, LockInv, TypeOK
  <2> QED BY <2>2, <2>3 DEF BuildInv, TypeOK
<1> QED BY <1>1, BuildInvariant, PTL DEF Spec, ScopeInForce

\* NO_INCLUDED_FILES is a verdict on the rules in force.
THEOREM EmptyHeld == Spec => EmptyInForce
<1>1. BuildInv /\ [Next]_vars =>
        [\A r \in Runs : (failure'[r] = "noFiles" /\ failure[r] # "noFiles")
              => active \in Empty]_vars
  <2> SUFFICES ASSUME BuildInv, Next, NEW r \in Runs,
                      failure'[r] = "noFiles", failure[r] # "noFiles"
               PROVE  active \in Empty
    BY DEF vars
  <2>1. PICK b \in Builders : EmptyRun(b)
    <3> USE DEF BuildInv, TypeOK, tables
    <3>1. ASSUME NEW b \in Builders, MarkRunning(b) PROVE FALSE
      BY <3>1 DEF MarkRunning
    <3>2. ASSUME NEW b \in Builders, Commit(b) \/ AckLost(b) PROVE FALSE
      BY <3>2 DEF Commit, AckLost, Stored
    <3>3. ASSUME NEW b \in Builders, FailConn(b) PROVE FALSE
      BY <3>3 DEF FailConn, MarkFailed, EmptyInv
    <3>4. ASSUME NEW b \in Builders,
                 \/ ReadScope(b) \/ ReadFiles(b) \/ GitFails(b) \/ PublishArchive(b)
                 \/ WriteManifest(b) \/ StoreFails(b) \/ LockAndInsert(b) \/ Discard(b)
                 \/ Reload(b) \/ EmptyCheck(b) \/ FailRead(b) \/ FailRun(b) \/ DbFails(b)
                 \/ Deadlock(b) \/ Return(b) \/ Crash(b)
                 \/ (\E i \in Ids : StartArchive(b, i)) \/ (\E q \in Runs : Begin(b, q))
          PROVE  UNCHANGED failure
      BY <3>4 DEF ReadScope, ReadFiles, GitFails, PublishArchive, WriteManifest, StoreFails,
                  LockAndInsert, Discard, Reload, EmptyCheck, FailRead, FailRun, DbFails,
                  Deadlock, Aborts, Return, Crash, StartArchive, Begin
    <3>5. CASE SaveScope
      BY <3>5 DEF SaveScope
    <3> QED BY <3>1, <3>2, <3>3, <3>4, <3>5 DEF Next, BuilderStep
  <2> QED BY <2>1 DEF EmptyRun, BuildInv, LockInv, EmptyInv
<1> QED BY <1>1, BuildInvariant, PTL DEF Spec, EmptyInForce

\* Who waits for a row lock waits for somebody who goes on, or PostgreSQL finds two who
\* wait for each other, for any number of builders and runs.
THEOREM SomebodyGoesOn == Spec => []WaitsEnd
<1>1. BuildInv => WaitsEnd
  <2> SUFFICES ASSUME BuildInv, NEW b \in Builders, Waits(b) PROVE WaitsEnd
    BY DEF WaitsEnd
  <2> USE DEF BuildInv, TypeOK, LockInv, EndingInv, EndedInv, InTransaction, Holds, Waits
  \* The connection is held by c, which waits for a run at most.
  <2>1. ASSUME NEW c \in Builders, conn = c PROVE WaitsEnd
    <3>1. pc[c] \in {"commit", "emptyRun"} /\ run[c] \in Runs
      BY <2>1
    <3>2. CASE ~Waits(c)
      BY <2>1, <3>1, <3>2 DEF WaitsEnd
    <3>3. CASE Waits(c)
      <4>1. PICK d \in Builders : lock[run[c]] = d
        BY <3>1, <3>3
      <4>2. pc[d] \in {"failConn", "taskConn"}
        BY <3>1, <4>1
      <4>3. Entangled(c, d)
        BY <2>1, <3>1, <3>3, <4>1, <4>2 DEF Entangled
      <4> QED BY <4>3 DEF WaitsEnd
    <3> QED BY <3>2, <3>3
  \* A run is held by c, which waits for the connection at most.
  <2>2. ASSUME conn = None, NEW c \in Builders, NEW r \in Runs, lock[r] = c PROVE WaitsEnd
    <3>1. pc[c] \in {"failConn", "taskConn"}
      BY <2>2
    <3>2. ~Waits(c)
      BY <2>2, <3>1
    <3> QED BY <2>2, <3>1, <3>2 DEF WaitsEnd
  <2>3. conn # None \/ (conn = None /\ run[b] \in Runs /\ lock[run[b]] # None)
    OBVIOUS
  <2> QED BY <2>1, <2>2, <2>3
<1> QED BY <1>1, BuildInvariant, PTL

\* A build is one step that stores a snapshot under the rules in force, or none, for
\* any number of builders and incidents: SnapshotBuild implements BuildOutcome.
THEOREM BuildRefinement == Spec => ImplementsOutcome
<1>1. Init => Outcome!OutcomeInit
  BY DEF Init, Outcome!OutcomeInit, OutcomeOf
<1>2. BuildInv /\ [Next]_vars => [Outcome!OutcomeNext]_(Outcome!outcomes)
  <2>1. ASSUME BuildInv, Next PROVE [Outcome!OutcomeNext]_(Outcome!outcomes)
    BY <2>1, OutcomeStep
  <2>2. ASSUME UNCHANGED vars PROVE UNCHANGED Outcome!outcomes
    BY <2>2 DEF vars, tables, Outcome!outcomes
  <2> QED BY <2>1, <2>2
<1> QED BY <1>1, <1>2, BuildInvariant, PTL DEF Spec, ImplementsOutcome, Outcome!OutcomeSpec
===============================================================================
