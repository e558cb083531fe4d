---------------------------- MODULE ResearchProofs ----------------------------
(***************************************************************************)
(* The research package, for all values of the constants.                  *)
(*                                                                         *)
(* ResearchStage, with any number of commands of one stage, run ids,       *)
(* contents and rewrites of the parent: the run root implements            *)
(* RunCatalogue.  The recheck makes a published run honest because every   *)
(* rewrite moves the file identity: if the identity is still the one       *)
(* loaded, nothing between the hash and the recheck can have read another  *)
(* content.  The scan and the lock are what keeps a second run of an       *)
(* identity away.                                                          *)
(*                                                                         *)
(* Then the algorithms between convert and simulate, each for any input:   *)
(* the parts of ConversionParts hold the stream, the answer of             *)
(* PredictionJoin is the newest prediction a scan of the whole stream      *)
(* finds, and the decisions of StrategyQuotes follow from the quotes       *)
(* observed before them.  Last, ModelSelection: no choice is made once test*)
(* rows are in memory, and each is within tolerance of the best.           *)
(***************************************************************************)
EXTENDS ResearchStage, ConversionParts, PredictionJoin, StrategyQuotes, ModelSelection, DataLemmas

-----------------------------------------------------------------------------
(* ResearchStage. *)

LEMMA InitInv == Init => StageInv
<1> SUFFICES ASSUME Init PROVE StageInv
  OBVIOUS
<1>1. TypeOK
  BY StageAssumption DEF Init, TypeOK, Kinds, Parent, File, Run, Live, Locked, Staged, Ended
<1>2. LockOwned /\ StagingOwned
  BY StageAssumption DEF Init, LockOwned, StagingOwned, Locked, Staged
<1>3. LoadedIsPast /\ HonestUse
  BY DEF Init, LoadedIsPast, SameOrNewer, HonestUse, HonestUseBy, Authenticated, Unread
<1> QED BY <1>1, <1>2, <1>3 DEF StageInv

(* Type correctness; a staging directory is written only while it exists.  *)
LEMMA TypePreserved ==
    ASSUME TypeOK, StagingOwned, [Next]_vars
    PROVE  TypeOK'
<1> USE StageAssumption DEF tree, inputs, scans
<1>1. ASSUME NEW p \in Processes, Step(p)
      PROVE  TypeOK'
  <2>1. CASE LoadManifest(p)
    <3>1. stage' \in [Processes -> Live \cup Ended]
      BY <2>1 DEF TypeOK, Live, Ended, Locked, Staged, LoadManifest, Remember, Fail, GoTo
    <3>2. loaded' \in [Processes -> Parent]
      BY <2>1 DEF TypeOK, LoadManifest, Remember, Fail, GoTo, Parent, Remember
    <3> QED BY <2>1, <3>1, <3>2 DEF TypeOK, LoadManifest
  <2>2. CASE AuthenticateData(p)
    <3>1. stage' \in [Processes -> Live \cup Ended]
      BY <2>2 DEF TypeOK, Live, Ended, Locked, Staged, AuthenticateData, Remember, HashAgrees, AfterLoading, Fail, GoTo
    <3>2. CASE Remember(p, "data")
      <4>1. [loaded[p] EXCEPT !["data"] = parent["data"]] \in Parent
        BY DEF TypeOK, Parent
      <4>2. loaded' = [loaded EXCEPT ![p] = [loaded[p] EXCEPT !["data"] = parent["data"]]]
        BY <3>2 DEF Remember
      <4>3. loaded' \in [Processes -> Parent]
        BY <4>1, <4>2 DEF TypeOK
      <4> QED BY <2>2, <3>1, <4>3 DEF TypeOK, AuthenticateData
    <3>3. CASE UNCHANGED loaded
      BY <2>2, <3>1, <3>3 DEF TypeOK, AuthenticateData
    <3> QED BY <2>2, <3>2, <3>3 DEF AuthenticateData
  <2>3. CASE HashConversionRows(p)
    BY <2>3 DEF TypeOK, Kinds, Live, Ended, Locked, Staged, Identity, HashConversionRows, HashAgrees, Fail, GoTo
  <2>4. CASE ReadConversionRows(p)
    <3>1. stage' \in [Processes -> Live \cup Ended]
      BY <2>4 DEF TypeOK, Live, Ended, Locked, Staged, ReadConversionRows, Use, Fail, GoTo
    <3>2. used' \in [Processes -> SUBSET Contents]
      BY <2>4 DEF TypeOK, ReadConversionRows, Use, Fail, GoTo, Parent, File
    <3> QED BY <2>4, <3>1, <3>2 DEF TypeOK, ReadConversionRows
  <2>5. CASE Admit(p)
    BY <2>5 DEF TypeOK, Kinds, Live, Ended, Locked, Staged, Identity, Admit, Fail, GoTo
  <2>6. CASE TakeLock(p)
    <3>1. stage' \in [Processes -> Live \cup Ended]
      BY <2>6 DEF TypeOK, Live, Ended, Locked, Staged, TakeLock, LockFree, Fail, GoTo
    <3>2. lock' \in [Contents -> Processes \cup {NoProcess}]
      BY <2>6 DEF TypeOK, TakeLock, LockFree, Fail, GoTo, Identity, Parent, File
    <3> QED BY <2>6, <3>1, <3>2 DEF TypeOK, TakeLock
  <2>7. CASE ListRoot(p)
    <3>1. stage' \in [Processes -> Live \cup Ended]
      BY <2>7 DEF TypeOK, Live, Ended, Locked, Staged, ListRoot, Entries, FailUnlocked, Fail, Unlocked, GoTo
    <3>2. Entries \in SUBSET (Ids \X {"partial", "final"})
      BY DEF Entries
    <3>3. lock' \in [Contents -> Processes \cup {NoProcess}]
      BY <2>7, <3>2 DEF TypeOK, ListRoot, Entries, FailUnlocked, Fail, Unlocked, GoTo, Identity, Parent, File
    <3>4. unseen' \in [Processes -> SUBSET (Ids \X {"partial", "final"})]
      BY <2>7, <3>2 DEF TypeOK, ListRoot, FailUnlocked, Fail, GoTo
    <3>5. listed' \in [Processes -> SUBSET (Ids \X {"partial", "final"})]
      BY <2>7, <3>2 DEF TypeOK, ListRoot, FailUnlocked, Fail, GoTo
    <3> QED BY <2>7, <3>1, <3>3, <3>4, <3>5 DEF TypeOK, ListRoot
  <2>8. CASE ScanEntry(p)
    <3>1. stage' \in [Processes -> Live \cup Ended]
      BY <2>8 DEF TypeOK, Live, Ended, Locked, Staged, ScanEntry, FailUnlocked, Fail, Unlocked, Matches, GoTo
    <3>2. lock' \in [Contents -> Processes \cup {NoProcess}]
      BY <2>8 DEF TypeOK, ScanEntry, FailUnlocked, Fail, Unlocked, Matches, GoTo, Identity, Parent, File
    <3>3. unseen' \in [Processes -> SUBSET (Ids \X {"partial", "final"})]
      BY <2>8 DEF TypeOK, ScanEntry, FailUnlocked, Fail, GoTo
    <3> QED BY <2>8, <3>1, <3>2, <3>3 DEF TypeOK, ScanEntry
  <2>9. CASE EndScan(p)
    BY <2>9 DEF TypeOK, Kinds, Live, Ended, Locked, Staged, Identity, EndScan, Scanned, GoTo
  <2>10. CASE NameRun(p)
    <3>1. stage' \in [Processes -> Live \cup Ended]
      BY <2>10 DEF TypeOK, Live, Ended, Locked, Staged, NameRun, Taken, FailUnlocked, Fail, Unlocked, GoTo
    <3>2. lock' \in [Contents -> Processes \cup {NoProcess}]
      BY <2>10 DEF TypeOK, NameRun, Taken, FailUnlocked, Fail, Unlocked, GoTo, Identity, Parent, File
    <3>3. id' \in [Processes -> Ids]
      BY <2>10 DEF TypeOK, NameRun, Taken, FailUnlocked, Fail, GoTo
    <3> QED BY <2>10, <3>1, <3>2, <3>3 DEF TypeOK, NameRun
  <2>11. CASE CreateStaging(p)
    <3>1. stage' \in [Processes -> Live \cup Ended]
      BY <2>11 DEF TypeOK, Live, Ended, Locked, Staged, CreateStaging, Creatable, FailUnlocked, Fail, Unlocked, GoTo
    <3>2. Identity(p) \in Contents /\ id[p] \in Ids
      BY DEF TypeOK, Identity, Parent, File
    <3>3. [by |-> p, claims |-> Identity(p), marked |-> FALSE, whole |-> FALSE, used |-> {}] \in Run
      BY <3>2 DEF Run
    <3>4. lock' \in [Contents -> Processes \cup {NoProcess}]
      BY <2>11, <3>2, <3>3 DEF TypeOK, CreateStaging, Creatable, FailUnlocked, Fail, Unlocked, GoTo, Identity, Parent, File
    <3>5. partial' \in [Ids -> Run \cup {NoRun}]
      BY <2>11, <3>2, <3>3 DEF TypeOK, CreateStaging, Creatable, FailUnlocked, Fail, GoTo
    <3> QED BY <2>11, <3>1, <3>4, <3>5 DEF TypeOK, CreateStaging
  <2>12. CASE WriteMarker(p)
    <3>1. stage' \in [Processes -> Live \cup Ended]
      BY <2>12 DEF TypeOK, Live, Ended, Locked, Staged, WriteMarker, FailUnlocked, Fail, Unlocked, GoTo
    <3>2. id[p] \in Ids /\ partial[id[p]] \in Run
      BY <2>12 DEF TypeOK, StagingOwned, Staged, WriteMarker
    <3>3. [partial[id[p]] EXCEPT !.marked = TRUE] \in Run
      BY <3>2 DEF Run
    <3>4. lock' \in [Contents -> Processes \cup {NoProcess}]
      BY <2>12, <3>2, <3>3 DEF TypeOK, WriteMarker, FailUnlocked, Fail, Unlocked, GoTo, Identity, Parent, File
    <3>5. partial' \in [Ids -> Run \cup {NoRun}]
      BY <2>12, <3>2, <3>3 DEF TypeOK, WriteMarker, FailUnlocked, Fail, GoTo
    <3> QED BY <2>12, <3>1, <3>4, <3>5 DEF TypeOK, WriteMarker
  <2>13. CASE ReadParent(p)
    <3>1. used' \in [Processes -> SUBSET Contents]
      BY <2>13 DEF TypeOK, ReadParent, Use, Parent, File
    <3> QED BY <2>13, <3>1 DEF TypeOK, ReadParent
  <2>14. CASE EndWork(p)
    BY <2>14 DEF TypeOK, Kinds, Live, Ended, Locked, Staged, Identity, EndWork, Fail, GoTo
  <2>15. CASE Recheck(p)
    BY <2>15 DEF TypeOK, Kinds, Live, Ended, Locked, Staged, Identity, Recheck, ParentUnchanged, ReplaysUnchanged, ConversionsUnchanged, DatasetUnchanged, SameManifest, SameDataFile, Fail, GoTo
  <2>16. CASE WriteManifest(p)
    <3>1. stage' \in [Processes -> Live \cup Ended]
      BY <2>16 DEF TypeOK, Live, Ended, Locked, Staged, WriteManifest, Fail, GoTo
    <3>2. id[p] \in Ids /\ partial[id[p]] \in Run
      BY <2>16 DEF TypeOK, StagingOwned, Staged, WriteManifest
    <3>3. [partial[id[p]] EXCEPT !.whole = TRUE, !.used = used[p]] \in Run
      BY <3>2 DEF TypeOK, Run
    <3>4. partial' \in [Ids -> Run \cup {NoRun}]
      BY <2>16, <3>2, <3>3 DEF TypeOK, WriteManifest, Fail, GoTo
    <3> QED BY <2>16, <3>1, <3>4 DEF TypeOK, WriteManifest
  <2>17. CASE Unlock(p)
    BY <2>17 DEF TypeOK, Kinds, Live, Ended, Locked, Staged, Identity, Unlock, Fail, Unlocked, GoTo
  <2>18. CASE Rename(p)
    <3>1. stage' \in [Processes -> Live \cup Ended]
      BY <2>18 DEF TypeOK, Live, Ended, Locked, Staged, Rename, Fail, GoTo
    <3>2. id[p] \in Ids /\ partial[id[p]] \in Run
      BY <2>18 DEF TypeOK, StagingOwned, Staged, Rename
    <3>3. partial' \in [Ids -> Run \cup {NoRun}]
      BY <2>18, <3>2 DEF TypeOK, Rename, Fail, GoTo
    <3>4. final' \in [Ids -> Run \cup {NoRun}]
      BY <2>18, <3>2 DEF TypeOK, Rename, Fail, GoTo
    <3> QED BY <2>18, <3>1, <3>3, <3>4 DEF TypeOK, Rename
  <2>19. CASE Unmark(p)
    BY <2>19 DEF TypeOK, Kinds, Live, Ended, Locked, Staged, Identity, Unmark, Fail, GoTo
  <2>20. CASE ReloadPublished(p)
    BY <2>20 DEF TypeOK, Kinds, Live, Ended, Locked, Staged, Identity, ReloadPublished, Fail, GoTo
  <2>21. CASE Kill(p)
    BY <2>21 DEF TypeOK, Kinds, Live, Ended, Locked, Staged, Identity, Kill, GoTo
  <2>22. CASE CleanUp(p)
    BY <2>22 DEF TypeOK, Kinds, Live, Ended, Locked, Staged, Identity, CleanUp, GoTo
  <2> QED BY <1>1, <2>1, <2>2, <2>3, <2>4, <2>5, <2>6, <2>7, <2>8, <2>9, <2>10, <2>11, <2>12, <2>13, <2>14, <2>15, <2>16, <2>17, <2>18, <2>19, <2>20, <2>21, <2>22 DEF Step
<1>2. CASE Rewrite
  <2>1. parent' \in Parent
    BY <1>2 DEF Rewrite, Rewrites, NextStat, TypeOK, Parent, File
  <2> QED BY <1>2, <2>1 DEF Rewrite, TypeOK
<1>3. ASSUME NEW i \in Ids, Damage(i)
      PROVE  TypeOK'
  BY <1>3 DEF Damage, TypeOK
<1>4. CASE UNCHANGED vars
  BY <1>4 DEF vars, TypeOK
<1> QED BY <1>1, <1>2, <1>3, <1>4 DEF Next

(* A command that still needs its lock, or stops without removing it.       *)
LEMMA MovingKeepsLocks ==
    ASSUME TypeOK, LockOwned, NEW p \in Processes, stage[p] \in Locked,
           NEW next \in Locked \cup {"failed", "stuck", "crashed"},
           stage' = [stage EXCEPT ![p] = next], UNCHANGED <<lock, loaded>>
    PROVE  LockOwned'
BY StageAssumption DEF TypeOK, LockOwned, Identity

(* A command that removes its lock when it needs it no more.                *)
LEMMA ReleasingKeepsLocks ==
    ASSUME TypeOK, LockOwned, NEW p \in Processes, stage[p] \in Locked, NEW next,
           next \notin Locked, Unlocked(p),
           stage' = [stage EXCEPT ![p] = next], UNCHANGED loaded
    PROVE  LockOwned'
<1>1. Identity(p) \in Contents
  BY DEF TypeOK, Identity, Parent, File
<1>2. \A q \in Processes : stage[q] \in Locked /\ q # p => Identity(q) # Identity(p)
  BY DEF LockOwned
<1> QED BY <1>1, <1>2, StageAssumption DEF TypeOK, LockOwned, Unlocked, Identity

(* A lock has one owner, of its identity; only the owner removes it.          *)
LEMMA LockPreserved ==
    ASSUME TypeOK, TypeOK', LockOwned, [Next]_vars
    PROVE  LockOwned'
<1> USE StageAssumption DEF TypeOK, LockOwned, tree, inputs, scans, Locked, Staged, Identity
<1>1. ASSUME NEW p \in Processes, Step(p)
      PROVE  LockOwned'
  <2>1. CASE LoadManifest(p)
    BY <2>1 DEF LoadManifest, Remember, Fail, GoTo
  <2>2. CASE AuthenticateData(p)
    BY <2>2 DEF AuthenticateData, Remember, HashAgrees, AfterLoading, Fail, GoTo
  <2>3. CASE HashConversionRows(p)
    BY <2>3 DEF HashConversionRows, HashAgrees, Fail, GoTo
  <2>4. CASE ReadConversionRows(p)
    BY <2>4 DEF ReadConversionRows, Use, Fail, GoTo
  <2>5. CASE Admit(p)
    BY <2>5 DEF Admit, Fail, GoTo
  <2>6. CASE TakeLock(p)
    <3>1. CASE Fail(p) /\ UNCHANGED lock
      BY <2>6, <3>1 DEF TakeLock, Fail, GoTo
    <3>2. CASE ~(Fail(p) /\ UNCHANGED lock)
      <4>1. /\ lock[Identity(p)] = NoProcess
            /\ lock' = [lock EXCEPT ![Identity(p)] = p]
            /\ Identity(p) \in Contents
            /\ stage' = [stage EXCEPT ![p] = IF forced[p] THEN "name" ELSE "list"]
            /\ UNCHANGED loaded
        BY <2>6, <3>2 DEF TakeLock, LockFree, GoTo, Parent, File
      <4>2. stage[p] \notin Locked
        BY <2>6 DEF TakeLock
      <4> QED BY <4>1, <4>2
    <3> QED BY <3>1, <3>2
  <2>7. CASE ListRoot(p)
    BY <2>7, MovingKeepsLocks, ReleasingKeepsLocks DEF ListRoot, FailUnlocked, Fail, GoTo
  <2>8. CASE ScanEntry(p)
    <3>1. stage[p] \in Locked /\ UNCHANGED loaded
      BY <2>8 DEF ScanEntry
    <3>2. CASE UNCHANGED <<stage, lock>>
      BY <3>1, <3>2
    <3>3. ASSUME NEW next \in {"reused", "failed"}, Unlocked(p), GoTo(p, next)
          PROVE  LockOwned'
      <4>1. next \notin Locked
        OBVIOUS
      <4> QED BY <3>1, <3>3, <4>1, ReleasingKeepsLocks DEF GoTo
    <3>4. CASE GoTo(p, "stuck") /\ UNCHANGED lock
      BY <3>1, <3>4, MovingKeepsLocks DEF GoTo
    <3> QED BY <2>8, <3>2, <3>3, <3>4 DEF ScanEntry, FailUnlocked, Fail
  <2>9. CASE EndScan(p)
    BY <2>9 DEF EndScan, Scanned, GoTo
  <2>10. CASE NameRun(p)
    BY <2>10, MovingKeepsLocks, ReleasingKeepsLocks DEF NameRun, FailUnlocked, Fail, GoTo
  <2>11. CASE CreateStaging(p)
    BY <2>11, MovingKeepsLocks, ReleasingKeepsLocks DEF CreateStaging, FailUnlocked, Fail, GoTo
  <2>12. CASE WriteMarker(p)
    BY <2>12, MovingKeepsLocks, ReleasingKeepsLocks DEF WriteMarker, FailUnlocked, Fail, GoTo
  <2>13. CASE ReadParent(p)
    BY <2>13 DEF ReadParent, Use, ReadableReplay, ReadableDataset, ReadableConversion, HashAgrees, SameDataFile, GoTo
  <2>14. CASE EndWork(p)
    BY <2>14 DEF EndWork, Fail, GoTo
  <2>15. CASE Recheck(p)
    BY <2>15 DEF Recheck, ParentUnchanged, ReplaysUnchanged, ConversionsUnchanged, DatasetUnchanged, SameManifest, SameDataFile, Fail, GoTo
  <2>16. CASE WriteManifest(p)
    BY <2>16 DEF WriteManifest, Fail, GoTo
  <2>17. CASE Unlock(p)
    BY <2>17, MovingKeepsLocks, ReleasingKeepsLocks DEF Unlock, FailUnlocked, Fail, GoTo
  <2>18. CASE Rename(p)
    BY <2>18 DEF Rename, Fail, GoTo
  <2>19. CASE Unmark(p)
    BY <2>19 DEF Unmark, Fail, GoTo
  <2>20. CASE ReloadPublished(p)
    BY <2>20 DEF ReloadPublished, Fail, GoTo
  <2>21. CASE Kill(p)
    BY <2>21 DEF Kill, GoTo
  <2>22. CASE CleanUp(p)
    <3>1. lock' = [c \in Contents |-> IF lock[c] = p THEN NoProcess ELSE lock[c]]
      BY <2>22 DEF CleanUp
    <3>2. stage[p] \notin Locked /\ UNCHANGED <<stage, loaded>>
      BY <2>22 DEF CleanUp
    <3>3. \A q \in Processes : Identity(q) \in Contents
      BY DEF Parent, File
    <3> QED BY <3>1, <3>2, <3>3
  <2> QED BY <1>1, <2>1, <2>2, <2>3, <2>4, <2>5, <2>6, <2>7, <2>8, <2>9, <2>10, <2>11, <2>12, <2>13, <2>14, <2>15, <2>16, <2>17, <2>18, <2>19, <2>20, <2>21, <2>22 DEF Step
<1>2. CASE Rewrite
  BY <1>2 DEF Rewrite, Rewrites, NextStat
<1>3. ASSUME NEW i \in Ids, Damage(i)
      PROVE  LockOwned'
  BY <1>3 DEF Damage
<1>4. CASE UNCHANGED vars
  BY <1>4 DEF vars
<1> QED BY <1>1, <1>2, <1>3, <1>4 DEF Next

(* Nobody else writes in the staging directory of a command at work.          *)
LEMMA StagingPreserved ==
    ASSUME TypeOK, TypeOK', LockOwned, StagingOwned, [Next]_vars
    PROVE  StagingOwned'
<1> USE StageAssumption DEF TypeOK, StagingOwned, tree, inputs, scans, Staged, Identity, Run
<1>1. ASSUME NEW p \in Processes, Step(p)
      PROVE  StagingOwned'
  <2>1. CASE LoadManifest(p)
    BY <2>1 DEF LoadManifest, Remember, Fail, GoTo
  <2>2. CASE AuthenticateData(p)
    BY <2>2 DEF AuthenticateData, Remember, HashAgrees, AfterLoading, Fail, GoTo
  <2>3. CASE HashConversionRows(p)
    BY <2>3 DEF HashConversionRows, HashAgrees, Fail, GoTo
  <2>4. CASE ReadConversionRows(p)
    BY <2>4 DEF ReadConversionRows, Use, Fail, GoTo
  <2>5. CASE Admit(p)
    BY <2>5 DEF Admit, Fail, GoTo
  <2>6. CASE TakeLock(p)
    BY <2>6 DEF TakeLock, LockFree, Fail, GoTo
  <2>7. CASE ListRoot(p)
    BY <2>7 DEF ListRoot, Entries, FailUnlocked, Fail, Unlocked, GoTo
  <2>8. CASE ScanEntry(p)
    BY <2>8 DEF ScanEntry, FailUnlocked, Fail, Unlocked, Matches, GoTo
  <2>9. CASE EndScan(p)
    BY <2>9 DEF EndScan, Scanned, GoTo
  <2>10. CASE NameRun(p)
    BY <2>10 DEF NameRun, Taken, FailUnlocked, Fail, Unlocked, GoTo
  <2>11. CASE CreateStaging(p)
    <3>1. \A q \in Processes : stage[q] \in Staged => id[q] # id[p] \/ partial' = partial
      BY <2>11 DEF CreateStaging, Creatable
    <3>2. id[p] \in Ids /\ stage[p] \notin Staged
      BY <2>11 DEF CreateStaging
    <3>3. CASE FailUnlocked(p) /\ UNCHANGED partial
      BY <2>11, <3>3 DEF CreateStaging, FailUnlocked, Fail, GoTo
    <3>4. CASE ~(FailUnlocked(p) /\ UNCHANGED partial)
      <4>1. partial' = [partial EXCEPT ![id[p]] =
               [by |-> p, claims |-> Identity(p), marked |-> FALSE, whole |-> FALSE, used |-> {}]]
        BY <2>11, <3>4 DEF CreateStaging
      <4>2. stage' = [stage EXCEPT ![p] = "mark"] /\ UNCHANGED <<id, loaded, used>>
        BY <2>11, <3>4 DEF CreateStaging, GoTo
      <4>3. \A q \in Processes : stage[q] \in Staged => id[q] # id[p]
        BY <2>11, <3>4 DEF CreateStaging, Creatable
      <4>4. partial'[id[p]] # NoRun
        <5>1. Identity(p) \in Contents
          BY DEF Parent, File
        <5>2. [by |-> p, claims |-> Identity(p), marked |-> FALSE, whole |-> FALSE, used |-> {}] \in Run
          BY <5>1
        <5>3. partial'[id[p]] \in Run
          BY <4>1, <3>2, <5>2
        <5> QED BY <5>3
      <4>5. partial'[id[p]].by = p /\ partial'[id[p]].claims = Identity(p)
        BY <4>1, <3>2
      <4>6. \A q \in Processes : q # p /\ stage[q] \in Staged => partial'[id[q]] = partial[id[q]]
        BY <4>1, <4>3
      <4> QED BY <4>2, <4>4, <4>5, <4>6, <3>2
    <3> QED BY <3>3, <3>4
  <2>12. CASE WriteMarker(p)
    <3>1. id[p] \in Ids /\ stage[p] \in Staged
      BY <2>12 DEF WriteMarker
    <3>2. CASE FailUnlocked(p) /\ UNCHANGED partial
      BY <2>12, <3>2 DEF WriteMarker, FailUnlocked, Fail, GoTo
    <3>3. CASE ~(FailUnlocked(p) /\ UNCHANGED partial)
      <4>1. partial' = [partial EXCEPT ![id[p]] = [partial[id[p]] EXCEPT !.marked = TRUE]]
        BY <2>12, <3>3 DEF WriteMarker
      <4>2. stage' = [stage EXCEPT ![p] = "work"] /\ UNCHANGED <<id, loaded, used>>
        BY <2>12, <3>3 DEF WriteMarker, GoTo
      <4>3. \A q \in Processes : q # p /\ stage[q] \in Staged => id[q] # id[p]
        BY <3>1
      <4>4. partial[id[p]] \in Run
        BY <3>1
      <4>5. partial'[id[p]] \in Run /\ partial'[id[p]].by = p /\ partial'[id[p]].claims = Identity(p)
        BY <4>1, <4>4, <3>1
      <4>6. \A q \in Processes : q # p /\ stage[q] \in Staged => partial'[id[q]] = partial[id[q]]
        BY <4>1, <4>3
      <4>7. partial'[id[p]] # NoRun
        BY <4>5
      <4>8. stage'[p] = "unlock" => partial'[id[p]].whole /\ partial'[id[p]].used = used[p]
        BY <4>1, <4>2, <4>4, <3>1
      <4> QED BY <4>2, <4>5, <4>6, <4>7, <4>8, <3>1
    <3> QED BY <3>2, <3>3
  <2>13. CASE ReadParent(p)
    BY <2>13 DEF ReadParent, Use, ReadableReplay, ReadableDataset, ReadableConversion, HashAgrees, SameDataFile, GoTo
  <2>14. CASE EndWork(p)
    BY <2>14 DEF EndWork, Fail, GoTo
  <2>15. CASE Recheck(p)
    BY <2>15 DEF Recheck, ParentUnchanged, ReplaysUnchanged, ConversionsUnchanged, DatasetUnchanged, SameManifest, SameDataFile, Fail, GoTo
  <2>16. CASE WriteManifest(p)
    <3>1. id[p] \in Ids /\ stage[p] \in Staged
      BY <2>16 DEF WriteManifest
    <3>2. CASE Fail(p) /\ UNCHANGED partial
      BY <2>16, <3>2 DEF WriteManifest, FailUnlocked, Fail, GoTo
    <3>3. CASE ~(Fail(p) /\ UNCHANGED partial)
      <4>1. partial' = [partial EXCEPT ![id[p]] = [partial[id[p]] EXCEPT !.whole = TRUE, !.used = used[p]]]
        BY <2>16, <3>3 DEF WriteManifest
      <4>2. stage' = [stage EXCEPT ![p] = "unlock"] /\ UNCHANGED <<id, loaded, used>>
        BY <2>16, <3>3 DEF WriteManifest, GoTo
      <4>3. \A q \in Processes : q # p /\ stage[q] \in Staged => id[q] # id[p]
        BY <3>1
      <4>4. partial[id[p]] \in Run
        BY <3>1
      <4>5. partial'[id[p]] \in Run /\ partial'[id[p]].by = p /\ partial'[id[p]].claims = Identity(p)
        BY <4>1, <4>4, <3>1
      <4>6. \A q \in Processes : q # p /\ stage[q] \in Staged => partial'[id[q]] = partial[id[q]]
        BY <4>1, <4>3
      <4>7. partial'[id[p]] # NoRun
        BY <4>5
      <4>8. stage'[p] = "unlock" => partial'[id[p]].whole /\ partial'[id[p]].used = used[p]
        BY <4>1, <4>2, <4>4, <3>1
      <4> QED BY <4>2, <4>5, <4>6, <4>7, <4>8, <3>1
    <3> QED BY <3>2, <3>3
  <2>17. CASE Unlock(p)
    BY <2>17 DEF Unlock, Fail, Unlocked, GoTo
  <2>18. CASE Rename(p)
    BY <2>18 DEF Rename, Fail, GoTo
  <2>19. CASE Unmark(p)
    BY <2>19 DEF Unmark, Fail, GoTo
  <2>20. CASE ReloadPublished(p)
    BY <2>20 DEF ReloadPublished, Fail, GoTo
  <2>21. CASE Kill(p)
    BY <2>21 DEF Kill, GoTo
  <2>22. CASE CleanUp(p)
    BY <2>22 DEF CleanUp, GoTo
  <2> QED BY <1>1, <2>1, <2>2, <2>3, <2>4, <2>5, <2>6, <2>7, <2>8, <2>9, <2>10, <2>11, <2>12, <2>13, <2>14, <2>15, <2>16, <2>17, <2>18, <2>19, <2>20, <2>21, <2>22 DEF Step
<1>2. CASE Rewrite
  BY <1>2 DEF Rewrite, Rewrites, NextStat
<1>3. ASSUME NEW i \in Ids, Damage(i)
      PROVE  StagingOwned'
  BY <1>3 DEF Damage
<1>4. CASE UNCHANGED vars
  BY <1>4 DEF vars
<1> QED BY <1>1, <1>2, <1>3, <1>4 DEF Next

(* A rewrite moves the file identity past every one that was loaded.          *)
LEMMA LoadedPreserved ==
    ASSUME TypeOK, TypeOK', LoadedIsPast, [Next]_vars
    PROVE  LoadedIsPast'
<1> USE StageAssumption DEF TypeOK, LoadedIsPast, SameOrNewer, tree, inputs, scans, Parent, File
<1>1. ASSUME NEW p \in Processes, Step(p)
      PROVE  LoadedIsPast'
  <2>1. CASE LoadManifest(p)
    BY <2>1 DEF LoadManifest, Remember, Fail, GoTo
  <2>2. CASE AuthenticateData(p)
    BY <2>2 DEF AuthenticateData, Remember, HashAgrees, AfterLoading, Fail, GoTo
  <2>3. CASE HashConversionRows(p)
    BY <2>3 DEF HashConversionRows, HashAgrees, Fail, GoTo
  <2>4. CASE ReadConversionRows(p)
    BY <2>4 DEF ReadConversionRows, Use, Fail, GoTo
  <2>5. CASE Admit(p)
    BY <2>5 DEF Admit, Fail, GoTo
  <2>6. CASE TakeLock(p)
    BY <2>6 DEF TakeLock, LockFree, Fail, GoTo
  <2>7. CASE ListRoot(p)
    BY <2>7 DEF ListRoot, Entries, FailUnlocked, Fail, Unlocked, GoTo
  <2>8. CASE ScanEntry(p)
    BY <2>8 DEF ScanEntry, FailUnlocked, Fail, Unlocked, Matches, GoTo
  <2>9. CASE EndScan(p)
    BY <2>9 DEF EndScan, Scanned, GoTo
  <2>10. CASE NameRun(p)
    BY <2>10 DEF NameRun, Taken, FailUnlocked, Fail, Unlocked, GoTo
  <2>11. CASE CreateStaging(p)
    BY <2>11 DEF CreateStaging, Creatable, FailUnlocked, Fail, Unlocked, GoTo
  <2>12. CASE WriteMarker(p)
    BY <2>12 DEF WriteMarker, FailUnlocked, Fail, Unlocked, GoTo
  <2>13. CASE ReadParent(p)
    BY <2>13 DEF ReadParent, Use, ReadableReplay, ReadableDataset, ReadableConversion, HashAgrees, SameDataFile, GoTo
  <2>14. CASE EndWork(p)
    BY <2>14 DEF EndWork, Fail, GoTo
  <2>15. CASE Recheck(p)
    BY <2>15 DEF Recheck, ParentUnchanged, ReplaysUnchanged, ConversionsUnchanged, DatasetUnchanged, SameManifest, SameDataFile, Fail, GoTo
  <2>16. CASE WriteManifest(p)
    BY <2>16 DEF WriteManifest, Fail, GoTo
  <2>17. CASE Unlock(p)
    BY <2>17 DEF Unlock, Fail, Unlocked, GoTo
  <2>18. CASE Rename(p)
    BY <2>18 DEF Rename, Fail, GoTo
  <2>19. CASE Unmark(p)
    BY <2>19 DEF Unmark, Fail, GoTo
  <2>20. CASE ReloadPublished(p)
    BY <2>20 DEF ReloadPublished, Fail, GoTo
  <2>21. CASE Kill(p)
    BY <2>21 DEF Kill, GoTo
  <2>22. CASE CleanUp(p)
    BY <2>22 DEF CleanUp, GoTo
  <2> QED BY <1>1, <2>1, <2>2, <2>3, <2>4, <2>5, <2>6, <2>7, <2>8, <2>9, <2>10, <2>11, <2>12, <2>13, <2>14, <2>15, <2>16, <2>17, <2>18, <2>19, <2>20, <2>21, <2>22 DEF Step
<1>2. CASE Rewrite
  BY <1>2 DEF Rewrite, Rewrites, NextStat
<1>3. ASSUME NEW i \in Ids, Damage(i)
      PROVE  LoadedIsPast'
  BY <1>3 DEF Damage
<1>4. CASE UNCHANGED vars
  BY <1>4 DEF vars
<1> QED BY <1>1, <1>2, <1>3, <1>4 DEF Next
-----------------------------------------------------------------------------
(* A command that moves on without reading, or ends.                        *)
LEMMA MovingKeepsUse ==
    ASSUME TypeOK, HonestUse, NEW p \in Processes, NEW next,
           stage' = [stage EXCEPT ![p] = next], UNCHANGED <<kind, parent, loaded, used>>,
           \/ next \in Ended \cup {"unmark", "reload"}
           \/ stage[p] \in Unread /\ next \in Unread \cup {"work"}
    PROVE  HonestUse'
BY DEF TypeOK, HonestUse, HonestUseBy, Unread, Authenticated, Identity, Ended

(* What is used between the hash and the recheck.                             *)
LEMMA UsePreserved ==
    ASSUME TypeOK, TypeOK', LoadedIsPast, HonestUse, [Next]_vars
    PROVE  HonestUse'
<1> USE StageAssumption DEF TypeOK, HonestUse, HonestUseBy, Authenticated, tree, inputs, scans, Unread, Identity, LoadedIsPast, SameOrNewer, Parent, File
<1>1. ASSUME NEW p \in Processes, Step(p)
      PROVE  HonestUse'
  <2>1. CASE LoadManifest(p)
    <3>1. \A q \in Processes : q # p => HonestUseBy(q)'
      BY <2>1 DEF LoadManifest, GoTo, Fail, Remember
    <3>2. HonestUseBy(p)'
      BY <2>1 DEF LoadManifest, GoTo, Fail
    <3> QED BY <3>1, <3>2 DEF HonestUse
  <2>2. CASE AuthenticateData(p)
    <3>1. \A q \in Processes : q # p => HonestUseBy(q)'
      BY <2>2 DEF AuthenticateData, GoTo, Fail, Remember
    <3>2. CASE Fail(p) /\ UNCHANGED loaded
      BY <2>2, <3>2, MovingKeepsUse DEF AuthenticateData, Fail, GoTo, Ended
    <3>3. CASE HashAgrees(p) /\ Remember(p, "data") /\ GoTo(p, AfterLoading)
      <4>1. loaded'[p].data = parent.data /\ loaded'[p].manifest = loaded[p].manifest
        BY <3>3 DEF Remember
      <4>2. stage'[p] \in {"hash", "admit", "lock"} /\ (kind # "simulation" => stage'[p] # "hash")
        BY <3>3 DEF GoTo, AfterLoading
      <4>3. HonestUseBy(p)'
        BY <2>2, <3>3, <4>1, <4>2 DEF HashAgrees, AuthenticateData
      <4> QED BY <3>1, <4>3 DEF HonestUse
    <3> QED BY <2>2, <3>2, <3>3 DEF AuthenticateData
  <2>3. CASE HashConversionRows(p)
    BY <2>3 DEF HashConversionRows, HashAgrees, Fail, GoTo
  <2>4. CASE ReadConversionRows(p)
    <3>1. kind = "simulation" /\ UNCHANGED <<kind, parent, loaded>>
      BY <2>4 DEF ReadConversionRows
    <3>2. loaded[p].data.content = Identity(p)
      BY <2>4 DEF ReadConversionRows
    <3>3. \A q \in Processes : q # p => stage'[q] = stage[q]
      BY <2>4 DEF ReadConversionRows, GoTo, Fail
    <3> QED BY <3>1, <3>2, <3>3
  <2>5. CASE Admit(p)
    BY <2>5 DEF Admit, Fail, GoTo
  <2>6. CASE TakeLock(p)
    BY <2>6, MovingKeepsUse DEF TakeLock, FailUnlocked, Fail, GoTo, Ended, Unread
  <2>7. CASE ListRoot(p)
    BY <2>7, MovingKeepsUse DEF ListRoot, FailUnlocked, Fail, GoTo, Ended, Unread
  <2>8. CASE ScanEntry(p)
    BY <2>8, MovingKeepsUse DEF ScanEntry, FailUnlocked, Fail, GoTo, Ended, Unread
  <2>9. CASE EndScan(p)
    BY <2>9, MovingKeepsUse DEF EndScan, FailUnlocked, Fail, GoTo, Ended, Unread
  <2>10. CASE NameRun(p)
    BY <2>10, MovingKeepsUse DEF NameRun, FailUnlocked, Fail, GoTo, Ended, Unread
  <2>11. CASE CreateStaging(p)
    BY <2>11, MovingKeepsUse DEF CreateStaging, FailUnlocked, Fail, GoTo, Ended, Unread
  <2>12. CASE WriteMarker(p)
    BY <2>12, MovingKeepsUse DEF WriteMarker, FailUnlocked, Fail, GoTo, Ended, Unread
  <2>13. CASE ReadParent(p)
    BY <2>13 DEF ReadParent, Use, ReadableReplay, ReadableDataset, ReadableConversion, HashAgrees, SameDataFile, GoTo
  <2>14. CASE EndWork(p)
    BY <2>14 DEF EndWork, Fail, GoTo
  <2>15. CASE Recheck(p)
    <3>1. CASE Fail(p)
      BY <2>15, <3>1, MovingKeepsUse DEF Recheck, Fail, GoTo, Ended
    <3>2. CASE ParentUnchanged(p) /\ GoTo(p, "manifest")
      <4>1. kind # "simulation" => used[p] = {Identity(p)}
        BY <2>15, <3>2 DEF Recheck, ParentUnchanged, ReplaysUnchanged, ConversionsUnchanged,
             DatasetUnchanged, SameManifest, SameDataFile, Kinds
      <4> QED BY <2>15, <3>2, <4>1 DEF Recheck, GoTo
    <3> QED BY <2>15, <3>1, <3>2 DEF Recheck
  <2>16. CASE WriteManifest(p)
    BY <2>16 DEF WriteManifest, Fail, GoTo
  <2>17. CASE Unlock(p)
    BY <2>17 DEF Unlock, Fail, Unlocked, GoTo
  <2>18. CASE Rename(p)
    BY <2>18 DEF Rename, Fail, GoTo
  <2>19. CASE Unmark(p)
    BY <2>19, MovingKeepsUse DEF Unmark, FailUnlocked, Fail, GoTo, Ended, Unread
  <2>20. CASE ReloadPublished(p)
    BY <2>20, MovingKeepsUse DEF ReloadPublished, FailUnlocked, Fail, GoTo, Ended, Unread
  <2>21. CASE Kill(p)
    BY <2>21, MovingKeepsUse DEF Kill, FailUnlocked, Fail, GoTo, Ended, Unread
  <2>22. CASE CleanUp(p)
    BY <2>22 DEF CleanUp, GoTo
  <2> QED BY <1>1, <2>1, <2>2, <2>3, <2>4, <2>5, <2>6, <2>7, <2>8, <2>9, <2>10, <2>11, <2>12, <2>13, <2>14, <2>15, <2>16, <2>17, <2>18, <2>19, <2>20, <2>21, <2>22 DEF Step
<1>2. CASE Rewrite
  BY <1>2 DEF Rewrite, Rewrites, NextStat
<1>3. ASSUME NEW i \in Ids, Damage(i)
      PROVE  HonestUse'
  BY <1>3 DEF Damage
<1>4. CASE UNCHANGED vars
  BY <1>4 DEF vars
<1> QED BY <1>1, <1>2, <1>3, <1>4 DEF Next

LEMMA InvPreserved ==
    ASSUME StageInv, [Next]_vars
    PROVE  StageInv'
<1>1. TypeOK /\ LockOwned /\ StagingOwned /\ LoadedIsPast /\ HonestUse
  BY DEF StageInv
<1>2. TypeOK'
  BY <1>1, TypePreserved
<1>3. LockOwned' /\ StagingOwned' /\ LoadedIsPast' /\ HonestUse'
  BY <1>1, <1>2, LockPreserved, StagingPreserved, LoadedPreserved, UsePreserved
<1> QED BY <1>2, <1>3 DEF StageInv

(* Every reachable state is well typed, locks and staging directories have  *)
(* their owners, and what a command has used is what it claims or differs   *)
(* from what the recheck will find (_prepare_run, the rechecks).            *)
THEOREM StageInvariant == Spec => []StageInv
BY InitInv, InvPreserved, PTL DEF Spec

(* No two commands write one staging directory (mkdir of the staging        *)
(* directory) or work on one identity (mkdir of the lock).                  *)
THEOREM OneWriter == Spec => []SingleWriter
<1>1. StageInv => SingleWriter
  BY DEF StageInv, TypeOK, LockOwned, StagingOwned, SingleWriter
<1> QED BY <1>1, StageInvariant, PTL

(* A lock of a failed command stands beside a partial run of its own.       *)
LEMMA MarksPreserved ==
    ASSUME StageInv, StageInv', LockMarksPartial, [Next]_vars
    PROVE  LockMarksPartial'
<1> USE StageAssumption DEF StageInv, tree, inputs, scans
<1>1. \A q \in Processes, i \in Ids :
         partial[i] # NoRun /\ partial[i].by = q /\ ~(\E p \in Processes : Rename(p) /\ p = q) /\ ~CleanUp(q)
            => partial'[i] # NoRun /\ partial'[i].by = q
  <2> SUFFICES ASSUME NEW q \in Processes, NEW i \in Ids, partial[i] # NoRun, partial[i].by = q,
                      ~Rename(q), ~CleanUp(q)
               PROVE  partial'[i] # NoRun /\ partial'[i].by = q
    OBVIOUS
  <2>1. partial[i] \in Run
    BY DEF TypeOK
  <2>2. ASSUME NEW p \in Processes, CreateStaging(p)
        PROVE  partial'[i] = partial[i]
    BY <2>2 DEF CreateStaging, Creatable, TypeOK
  <2>3. ASSUME NEW p \in Processes, WriteMarker(p)
        PROVE  partial'[i] \in Run /\ partial'[i].by = q
    <3>1. [partial[i] EXCEPT !.marked = TRUE] \in Run /\ [partial[i] EXCEPT !.marked = TRUE].by = q
      BY <2>1 DEF TypeOK, Run
    <3>2. partial'[i] \in {partial[i], [partial[i] EXCEPT !.marked = TRUE]}
      BY <2>3 DEF WriteMarker, TypeOK
    <3> QED BY <2>1, <3>1, <3>2
  <2>4. ASSUME NEW p \in Processes, WriteManifest(p)
        PROVE  partial'[i] \in Run /\ partial'[i].by = q
    <3>1. [partial[i] EXCEPT !.whole = TRUE, !.used = used[p]] \in Run /\ [partial[i] EXCEPT !.whole = TRUE, !.used = used[p]].by = q
      BY <2>1 DEF TypeOK, Run
    <3>2. partial'[i] \in {partial[i], [partial[i] EXCEPT !.whole = TRUE, !.used = used[p]]}
      BY <2>4 DEF WriteManifest, TypeOK
    <3> QED BY <2>1, <3>1, <3>2
  <2>5. ASSUME NEW p \in Processes, Rename(p)
        PROVE  partial'[i] = partial[i]
    <3>1. p # q
      BY <2>5
    <3>2. id[p] # i
      BY <2>5, <3>1 DEF Rename, StagingOwned, Staged
    <3> QED BY <2>5, <3>2 DEF Rename, TypeOK
  <2>6. ASSUME NEW p \in Processes, CleanUp(p)
        PROVE  partial'[i] = partial[i]
    BY <2>6 DEF CleanUp, TypeOK
  <2>7. CASE UNCHANGED partial
    BY <2>7, <2>1
  <2> QED BY <2>1, <2>2, <2>3, <2>4, <2>5, <2>6, <2>7
          DEF Next, Step, vars, LoadManifest, AuthenticateData, HashConversionRows,
              ReadConversionRows, Admit, TakeLock, ListRoot, ScanEntry, EndScan, NameRun,
              ReadParent, EndWork, Recheck, Unlock, Unmark, ReloadPublished, Kill, Rewrite, Damage
<1>2. SUFFICES ASSUME NEW c \in Contents, lock'[c] # NoProcess, stage'[lock'[c]] = "failed"
               PROVE  \E i \in Ids : partial'[i] # NoRun /\ partial'[i].by = lock'[c]
  BY DEF LockMarksPartial, LockOwned, Locked, Staged
<1> DEFINE q == lock'[c]
<1>3. q \in Processes
  BY <1>2 DEF TypeOK
<1>4. ~CleanUp(q)
  BY <1>2, <1>3 DEF CleanUp, TypeOK
<1>5. ~Rename(q)
  BY <1>2, <1>3 DEF Rename, LockOwned, Locked, TypeOK
<1>6. CASE lock[c] = q /\ stage[q] = "failed"
  <2>1. PICK i \in Ids : partial[i] # NoRun /\ partial[i].by = q
    BY <1>2, <1>6 DEF LockMarksPartial
  <2> QED BY <2>1, <1>1, <1>3, <1>4, <1>5
<1>7. CASE ~(lock[c] = q /\ stage[q] = "failed")
  <2>1. stage[q] \in {"work", "recheck", "manifest", "unlock"}
    <3>1. lock[c] = q => Identity(q) = c /\ stage[q] \in Locked \cup {"failed", "stuck", "crashed"}
      BY <1>2, <1>3 DEF LockOwned
    <3>2. ASSUME NEW p \in Processes, p # q, Step(p)
          PROVE  FALSE
      <4>1. stage'[q] = stage[q] /\ lock'[c] \in {lock[c], p, NoProcess}
        <5> USE <3>2, <1>3 DEF TypeOK
        <5>1. CASE TakeLock(p)
          BY <5>1 DEF TakeLock, LockFree, Fail, GoTo
        <5>2. CASE ListRoot(p)
          BY <5>2 DEF ListRoot, Entries, FailUnlocked, Fail, Unlocked, GoTo
        <5>3. CASE ScanEntry(p)
          BY <5>3 DEF ScanEntry, FailUnlocked, Fail, Unlocked, Matches, GoTo
        <5>4. CASE NameRun(p)
          BY <5>4 DEF NameRun, Taken, FailUnlocked, Fail, Unlocked, GoTo
        <5>5. CASE CreateStaging(p)
          BY <5>5 DEF CreateStaging, Creatable, FailUnlocked, Fail, Unlocked, GoTo
        <5>6. CASE WriteMarker(p)
          BY <5>6 DEF WriteMarker, FailUnlocked, Fail, Unlocked, GoTo
        <5>7. CASE Unlock(p)
          BY <5>7 DEF Unlock, Fail, Unlocked, GoTo
        <5>8. CASE CleanUp(p)
          BY <5>8 DEF CleanUp, GoTo
        <5>9. CASE ~(TakeLock(p) \/ ListRoot(p) \/ ScanEntry(p) \/ NameRun(p)
                     \/ CreateStaging(p) \/ WriteMarker(p) \/ Unlock(p) \/ CleanUp(p))
          BY <5>9 DEF Step, LoadManifest, AuthenticateData, HashConversionRows, ReadConversionRows, Admit, EndScan, ReadParent, EndWork, Recheck, WriteManifest, Rename, Unmark, ReloadPublished, Kill, Fail, GoTo
        <5> QED BY <5>1, <5>2, <5>3, <5>4, <5>5, <5>6, <5>7, <5>8, <5>9
      <4> QED BY <4>1, <3>2, <1>2, <1>7
    <3>3. ASSUME Step(q)
          PROVE  stage[q] \in {"work", "recheck", "manifest", "unlock"}
      <4>1. CASE LoadManifest(q)
        BY <4>1, <3>1, <1>2, <1>3, <1>7 DEF TypeOK, Locked, Staged, LoadManifest, Remember, Fail, GoTo
      <4>2. CASE AuthenticateData(q)
        BY <4>2, <3>1, <1>2, <1>3, <1>7 DEF TypeOK, Locked, Staged, AuthenticateData, Remember, HashAgrees, AfterLoading, Fail, GoTo
      <4>3. CASE HashConversionRows(q)
        BY <4>3, <3>1, <1>2, <1>3, <1>7 DEF TypeOK, Locked, Staged, HashConversionRows, HashAgrees, Fail, GoTo
      <4>4. CASE ReadConversionRows(q)
        BY <4>4, <3>1, <1>2, <1>3, <1>7 DEF TypeOK, Locked, Staged, ReadConversionRows, Use, Fail, GoTo
      <4>5. CASE Admit(q)
        BY <4>5, <3>1, <1>2, <1>3, <1>7 DEF TypeOK, Locked, Staged, Admit, Fail, GoTo
      <4>6. CASE TakeLock(q)
        BY <4>6, <3>1, <1>2, <1>3, <1>7 DEF TypeOK, Locked, Staged, TakeLock, LockFree, Fail, GoTo
      <4>7. CASE ListRoot(q)
        BY <4>7, <3>1, <1>2, <1>3, <1>7 DEF TypeOK, Locked, Staged, ListRoot, Entries, FailUnlocked, Fail, Unlocked, GoTo
      <4>8. CASE ScanEntry(q)
        BY <4>8, <3>1, <1>2, <1>3, <1>7 DEF TypeOK, Locked, Staged, ScanEntry, FailUnlocked, Fail, Unlocked, Matches, GoTo
      <4>9. CASE EndScan(q)
        BY <4>9, <3>1, <1>2, <1>3, <1>7 DEF TypeOK, Locked, Staged, EndScan, Scanned, GoTo
      <4>10. CASE NameRun(q)
        BY <4>10, <3>1, <1>2, <1>3, <1>7 DEF TypeOK, Locked, Staged, NameRun, Taken, FailUnlocked, Fail, Unlocked, GoTo
      <4>11. CASE CreateStaging(q)
        BY <4>11, <3>1, <1>2, <1>3, <1>7 DEF TypeOK, Locked, Staged, CreateStaging, Creatable, FailUnlocked, Fail, Unlocked, GoTo
      <4>12. CASE WriteMarker(q)
        BY <4>12, <3>1, <1>2, <1>3, <1>7 DEF TypeOK, Locked, Staged, WriteMarker, FailUnlocked, Fail, Unlocked, GoTo
      <4>13. CASE ReadParent(q)
        BY <4>13, <3>1, <1>2, <1>3, <1>7 DEF TypeOK, Locked, Staged, ReadParent, Use, ReadableReplay, ReadableDataset, ReadableConversion, HashAgrees, SameDataFile, GoTo
      <4>14. CASE EndWork(q)
        BY <4>14, <3>1, <1>2, <1>3, <1>7 DEF TypeOK, Locked, Staged, EndWork, Fail, GoTo
      <4>15. CASE Recheck(q)
        BY <4>15, <3>1, <1>2, <1>3, <1>7 DEF TypeOK, Locked, Staged, Recheck, ParentUnchanged, ReplaysUnchanged, ConversionsUnchanged, DatasetUnchanged, SameManifest, SameDataFile, Fail, GoTo
      <4>16. CASE WriteManifest(q)
        BY <4>16, <3>1, <1>2, <1>3, <1>7 DEF TypeOK, Locked, Staged, WriteManifest, Fail, GoTo
      <4>17. CASE Unlock(q)
        BY <4>17, <3>1, <1>2, <1>3, <1>7 DEF TypeOK, Locked, Staged, Unlock, Fail, Unlocked, GoTo
      <4>18. CASE Rename(q)
        BY <4>18, <3>1, <1>2, <1>3, <1>7 DEF TypeOK, Locked, Staged, Rename, Fail, GoTo
      <4>19. CASE Unmark(q)
        BY <4>19, <3>1, <1>2, <1>3, <1>7 DEF TypeOK, Locked, Staged, Unmark, Fail, GoTo
      <4>20. CASE ReloadPublished(q)
        BY <4>20, <3>1, <1>2, <1>3, <1>7 DEF TypeOK, Locked, Staged, ReloadPublished, Fail, GoTo
      <4>21. CASE Kill(q)
        BY <4>21, <3>1, <1>2, <1>3, <1>7 DEF TypeOK, Locked, Staged, Kill, GoTo
      <4>22. CASE CleanUp(q)
        BY <4>22, <3>1, <1>2, <1>3, <1>7 DEF TypeOK, Locked, Staged, CleanUp, GoTo
      <4> QED BY <3>3, <4>1, <4>2, <4>3, <4>4, <4>5, <4>6, <4>7, <4>8, <4>9, <4>10, <4>11, <4>12, <4>13, <4>14, <4>15, <4>16, <4>17, <4>18, <4>19, <4>20, <4>21, <4>22 DEF Step
    <3> QED BY <3>2, <3>3, <1>2, <1>3, <1>7 DEF Next, vars, Rewrite, Damage
  <2>2. id[q] \in Ids /\ partial[id[q]] # NoRun /\ partial[id[q]].by = q
    BY <2>1, <1>3 DEF StagingOwned, Staged, TypeOK
  <2> QED BY <2>2, <1>1, <1>3, <1>4, <1>5
<1> QED BY <1>6, <1>7

(* identity, or a completed run that was damaged, or the command's own.     *)
Cleared(p, e) ==
    Matches(p, e) =>
        IF e[2] = "final" THEN e[1] \in damaged ELSE stage[p] \in Staged /\ e[1] = id[p]

Scanning == {"scan", "name", "mkdir"} \cup (Staged \ {"rename"})

ScanInvOf(p) ==
    ~forced[p] /\ stage[p] \in Scanning =>
        \A e \in listed[p] :
            /\ e[2] = "final" => final[e[1]] # NoRun
            /\ (stage[p] = "scan" /\ e \in unseen[p]) \/ Cleared(p, e)

ScanInv == \A p \in Processes : ScanInvOf(p)

(* Under the lock of an identity nobody else makes an entry match it.       *)
LEMMA NoNewMatch ==
    ASSUME StageInv, StageInv', NEW p \in Processes, stage[p] \in Locked,
           NEW q \in Processes, q # p, Step(q),
           NEW e \in Ids \X {"partial", "final"}, e[2] = "final" => final[e[1]] # NoRun,
           loaded'[p] = loaded[p], Matches(p, e)'
    PROVE  Matches(p, e)
<1> USE DEF Matches, MarkerMatches, ManifestMatches, Identity
<1>1. e[1] \in Ids /\ e[2] \in {"partial", "final"}
  OBVIOUS
<1>2. TypeOK /\ TypeOK' /\ StagingOwned /\ LockOwned
  BY DEF StageInv
<1>3. CASE CreateStaging(q)
  BY <1>1, <1>2, <1>3 DEF CreateStaging, TypeOK, tree
<1>4. CASE WriteMarker(q)
  <2>1. Identity(q) # Identity(p) /\ partial[id[q]].claims = Identity(q) /\ partial[id[q]] \in Run
    BY <1>2, <1>4 DEF WriteMarker, LockOwned, Locked, Staged, StagingOwned, TypeOK
  <2>2. [partial[id[q]] EXCEPT !.marked = TRUE].claims = partial[id[q]].claims
    BY <2>1 DEF Run
  <2> QED BY <1>1, <1>2, <1>4, <2>1, <2>2 DEF WriteMarker, TypeOK
<1>5. CASE WriteManifest(q)
  <2>1. id[q] \in Ids /\ partial[id[q]] \in Run
    BY <1>2, <1>5 DEF WriteManifest, Staged, StagingOwned, TypeOK
  <2>2. ASSUME NEW i \in Ids, partial'[i] # NoRun
        PROVE  /\ partial[i] # NoRun
               /\ partial'[i].claims = partial[i].claims
               /\ partial'[i].marked = partial[i].marked
    <3>1. CASE i # id[q]
      BY <1>2, <1>5, <2>1, <2>2, <3>1 DEF WriteManifest, TypeOK
    <3>2. CASE i = id[q]
      <4>1. partial[i] # NoRun
        BY <2>1, <3>2, StageAssumption
      <4>2. \/ partial'[i] = partial[i]
            \/ partial'[i] = [[partial[i] EXCEPT !.whole = TRUE] EXCEPT !.used = used[q]]
        BY <1>2, <1>5, <2>1, <3>2 DEF WriteManifest, TypeOK
      <4> QED BY <2>1, <3>2, <4>1, <4>2 DEF Run
    <3> QED BY <3>1, <3>2
  <2>3. final' = final
    BY <1>5 DEF WriteManifest
  <2> QED BY <1>1, <2>2, <2>3
<1>6. CASE Rename(q)
  BY <1>1, <1>2, <1>6 DEF Rename, TypeOK, tree
<1>7. CASE CleanUp(q)
  BY <1>1, <1>2, <1>7 DEF CleanUp, TypeOK
<1>8. CASE UNCHANGED tree
  BY <1>8 DEF tree
<1> QED BY <1>3, <1>4, <1>5, <1>6, <1>7, <1>8
        DEF Step, LoadManifest, AuthenticateData, HashConversionRows, ReadConversionRows, Admit,
            TakeLock, ListRoot, ScanEntry, EndScan, NameRun, ReadParent, EndWork, Recheck,
            Unlock, Unmark, ReloadPublished, Kill

LEMMA ScanPreserved ==
    ASSUME StageInv, StageInv', ScanInv, [Next]_vars
    PROVE  ScanInv'
<1> SUFFICES ASSUME NEW p \in Processes PROVE ScanInvOf(p)'
  BY DEF ScanInv
<1>1. TypeOK /\ StagingOwned /\ TypeOK' /\ ScanInvOf(p)
  BY DEF StageInv, ScanInv
<1>2. listed[p] \in SUBSET (Ids \X {"partial", "final"})
  BY <1>1 DEF TypeOK
<1>3. ASSUME NEW q \in Processes, q # p, Step(q)
      PROVE  ScanInvOf(p)'
  <2>1. /\ stage'[p] = stage[p] /\ loaded'[p] = loaded[p] /\ id'[p] = id[p]
        /\ listed'[p] = listed[p] /\ unseen'[p] = unseen[p] /\ forced' = forced /\ damaged' = damaged
    BY <1>1, <1>3
       DEF Step, TypeOK, inputs, scans, GoTo, Fail, FailUnlocked, Use, Remember, LoadManifest,
           AuthenticateData, HashConversionRows, ReadConversionRows, Admit, TakeLock, ListRoot,
           ScanEntry, EndScan, NameRun, CreateStaging, WriteMarker, ReadParent, EndWork, Recheck,
           WriteManifest, Unlock, Rename, Unmark, ReloadPublished, Kill, CleanUp
  <2>2. \A i \in Ids : final[i] # NoRun => final'[i] # NoRun
    BY <1>1, <1>3
       DEF Step, TypeOK, tree, LoadManifest, AuthenticateData, HashConversionRows,
           ReadConversionRows, Admit, TakeLock, ListRoot, ScanEntry, EndScan, NameRun,
           CreateStaging, WriteMarker, ReadParent, EndWork, Recheck, WriteManifest, Unlock,
           Rename, Unmark, ReloadPublished, Kill, CleanUp
  <2>3. SUFFICES ASSUME ~forced[p], stage[p] \in Scanning, NEW e \in listed[p]
                 PROVE  /\ e[2] = "final" => final'[e[1]] # NoRun
                        /\ (stage[p] = "scan" /\ e \in unseen[p]) \/ Cleared(p, e)'
    BY <2>1 DEF ScanInvOf
  <2>4. e \in Ids \X {"partial", "final"} /\ e[1] \in Ids
    BY <1>2
  <2>5. e[2] = "final" => final[e[1]] # NoRun
    BY <1>1, <2>3 DEF ScanInvOf
  <2>6. stage[p] \in Locked
    BY <2>3 DEF Scanning, Locked, Staged
  <2>7. Matches(p, e)' => Matches(p, e)
    BY <1>3, <2>1, <2>4, <2>5, <2>6, NoNewMatch
  <2>8. Cleared(p, e) => Cleared(p, e)'
    BY <2>1, <2>7 DEF Cleared
  <2> QED BY <1>1, <2>2, <2>3, <2>4, <2>5, <2>8 DEF ScanInvOf
<1>4. ASSUME Step(p)
      PROVE  ScanInvOf(p)'
  <2> SUFFICES ASSUME ~forced'[p], stage'[p] \in Scanning, NEW e \in listed'[p]
               PROVE  /\ e[2] = "final" => final'[e[1]] # NoRun
                      /\ (stage'[p] = "scan" /\ e \in unseen'[p]) \/ Cleared(p, e)'
    BY DEF ScanInvOf
  <2> USE <1>1, <1>2 DEF ScanInvOf, Scanning, Staged, TypeOK
  <2>1. CASE ListRoot(p)
    BY <2>1 DEF ListRoot, Entries, FailUnlocked, Fail, GoTo, tree
  <2>2. CASE ScanEntry(p)
    BY <2>2 DEF ScanEntry, FailUnlocked, Fail, GoTo, tree, Cleared, Matches, MarkerMatches,
                ManifestMatches, Identity, inputs
  <2>3. CASE EndScan(p)
    BY <2>3 DEF EndScan, Scanned, GoTo, tree, Cleared, Matches, MarkerMatches,
                ManifestMatches, Identity, inputs, scans
  <2>4. CASE NameRun(p)
    BY <2>4 DEF NameRun, FailUnlocked, Fail, GoTo, tree, Cleared, Matches, MarkerMatches,
                ManifestMatches, Identity, inputs, scans
  <2>5. CASE CreateStaging(p)
    BY <2>5 DEF CreateStaging, FailUnlocked, Fail, GoTo, Cleared, Matches, MarkerMatches,
                ManifestMatches, Identity, inputs, scans
  <2>6. CASE WriteMarker(p)
    BY <2>6 DEF WriteMarker, FailUnlocked, Fail, GoTo, Cleared, Matches, MarkerMatches,
                ManifestMatches, Identity, inputs, scans
  <2>7. CASE WriteManifest(p)
    BY <2>7 DEF WriteManifest, Fail, GoTo, Cleared, Matches, MarkerMatches,
                ManifestMatches, Identity, inputs, scans
  <2>8. CASE ReadParent(p) \/ EndWork(p) \/ Recheck(p)
    BY <2>8 DEF ReadParent, EndWork, Recheck, Fail, GoTo, tree, Cleared, Matches, MarkerMatches,
                ManifestMatches, Identity, inputs, scans
  <2>9. CASE ~(ListRoot(p) \/ ScanEntry(p) \/ EndScan(p) \/ NameRun(p) \/ CreateStaging(p)
               \/ WriteMarker(p) \/ WriteManifest(p) \/ ReadParent(p) \/ EndWork(p) \/ Recheck(p))
    <3>1. stage'[p] \notin Scanning
      BY <1>4, <2>9
         DEF Step, LoadManifest, AuthenticateData, AfterLoading, HashConversionRows,
             ReadConversionRows, Admit, TakeLock, Unlock, Rename, Unmark, ReloadPublished, Kill,
             CleanUp, Fail, FailUnlocked, GoTo
    <3> QED BY <3>1
  <2> QED BY <2>1, <2>2, <2>3, <2>4, <2>5, <2>6, <2>7, <2>8, <2>9
<1>5. CASE Rewrite
  BY <1>1, <1>5 DEF Rewrite, ScanInvOf, Cleared, Matches, MarkerMatches, ManifestMatches, Identity,
                    tree, inputs, scans
<1>6. ASSUME NEW i \in Ids, Damage(i)
      PROVE  ScanInvOf(p)'
  BY <1>1, <1>6 DEF Damage, ScanInvOf, Cleared, Matches, MarkerMatches, ManifestMatches, Identity,
                    tree, inputs, scans
<1>7. CASE UNCHANGED vars
  BY <1>1, <1>7 DEF vars, ScanInvOf, Cleared, Matches, MarkerMatches, ManifestMatches, Identity,
                    tree, inputs, scans
<1> QED BY <1>3, <1>4, <1>5, <1>6, <1>7 DEF Next

(* A failed command leaves a lock only beside a partial run of its own, and *)
(* a command that ended well leaves none; a stuck one has reported that its *)
(* lock cannot be removed (_prepare_run's error paths, _remove_lock).       *)
THEOREM LocksMarkPartials == Spec => []LockMarksPartial
<1>1. Init => LockMarksPartial
  BY DEF Init, LockMarksPartial
<1> QED BY <1>1, StageInvariant, MarksPreserved, PTL DEF Spec

(* A command that is not forced never works on an identity for which its    *)
(* listing showed a completed run or somebody's partial one (_prepare_run). *)
THEOREM NeverNeedless == Spec => []NoNeedlessRun
<1>1. Init => ScanInv
  BY DEF Init, ScanInv, ScanInvOf, Scanning, Staged
<1>2. ScanInv => NoNeedlessRun
  BY DEF ScanInv, ScanInvOf, NoNeedlessRun, Scanning, Staged, Cleared
<1> QED BY <1>1, <1>2, StageInvariant, ScanPreserved, PTL DEF Spec

(* Only a rename touches the completed runs. *)
LEMMA RenamePublishes ==
    ASSUME StageInv, NEW p \in Processes, Rename(p)
    PROVE  Catalogue!CatalogueNext \/ UNCHANGED <<final, kind>>
<1>1. TypeOK /\ StagingOwned /\ HonestUse
  BY DEF StageInv
<1>2. CASE UNCHANGED tree
  BY <1>2 DEF Rename, tree
<1>3. CASE ~UNCHANGED tree
  <2> DEFINE i == id[p]
             d == partial[i]
  <2>1. i \in Ids /\ stage[p] = "rename" /\ final[i] = NoRun
        /\ final' = [final EXCEPT ![i] = d] /\ kind' = kind
    BY <1>1, <1>3 DEF Rename, TypeOK
  <2>2. d # NoRun /\ d \in Run /\ d.claims = Identity(p) /\ d.whole = TRUE /\ d.used = used[p]
    BY <1>1, <2>1 DEF StagingOwned, Staged, TypeOK, Run
  <2>3. kind # "simulation" => d.used = {d.claims}
    BY <1>1, <2>1, <2>2 DEF HonestUse, HonestUseBy
  <2>4. d.claims \in Contents /\ d.used \in SUBSET Contents
    BY <2>2 DEF Run
  <2> HIDE DEF i, d
  <2> DEFINE Entry(f, j) == [id |-> j, claims |-> f[j].claims, used |-> f[j].used,
                             whole |-> f[j].whole]
             Shown(f) == {Entry(f, j) : j \in {k \in Ids : f[k] # NoRun}}
  <2>5. \A r \in Shown(final) : r.id # i
    BY <2>1
  <2>6. Shown(final') = Shown(final) \cup {[id |-> i, claims |-> d.claims, used |-> d.used,
                                           whole |-> TRUE]}
    <3>1. final'[i] = d /\ \A j \in Ids \ {i} : final'[j] = final[j]
      BY <1>1, <2>1 DEF TypeOK
    <3>2. {k \in Ids : final'[k] # NoRun} = {k \in Ids : final[k] # NoRun} \cup {i}
      BY <2>1, <2>2, <3>1
    <3>3. \A j \in {k \in Ids : final[k] # NoRun} : Entry(final', j) = Entry(final, j)
      BY <2>1, <3>1
    <3>4. Entry(final', i) = [id |-> i, claims |-> d.claims, used |-> d.used, whole |-> TRUE]
      BY <2>2, <3>1
    <3> HIDE DEF Entry
    <3> QED BY <3>2, <3>3, <3>4
  <2>7. (kind' # "simulation") = (kind # "simulation")
    BY <2>1
  <2> HIDE DEF Shown, Entry
  <2>8. /\ \A r \in Shown(final) : r.id # i
        /\ kind # "simulation" => d.used = {d.claims}
        /\ Shown(final') = Shown(final) \cup {[id |-> i, claims |-> d.claims, used |-> d.used,
                                               whole |-> TRUE]}
        /\ (kind' # "simulation") = (kind # "simulation")
    BY <2>3, <2>5, <2>6, <2>7
  <2>9. \E j \in Ids, claimed \in Contents, content \in SUBSET Contents :
            /\ \A r \in Shown(final) : r.id # j
            /\ kind # "simulation" => content = {claimed}
            /\ Shown(final') = Shown(final) \cup {[id |-> j, claims |-> claimed, used |-> content,
                                                   whole |-> TRUE]}
            /\ (kind' # "simulation") = (kind # "simulation")
    BY <2>1, <2>4, <2>8
  <2> QED BY <2>9 DEF Catalogue!CatalogueNext, Catalogue!Publish, Shown, Entry
<1> QED BY <1>2, <1>3

(* The run root implements the catalogue: a run appears by one rename,      *)
(* whole, under a free id, and what it claims is what it was computed from. *)
THEOREM RootImplementsCatalogue == Spec => Implements
<1>1. Init => Catalogue!CatalogueInit
  BY DEF Init, Catalogue!CatalogueInit
<1>2. ASSUME StageInv, [Next]_vars
      PROVE  [Catalogue!CatalogueNext]_(Catalogue!catalogueVars)
  <2>1. ASSUME NEW p \in Processes, Rename(p)
        PROVE  Catalogue!CatalogueNext \/ UNCHANGED <<final, kind>>
    BY <1>2, <2>1, RenamePublishes
  <2>2. ASSUME NEW p \in Processes, Step(p), ~Rename(p)
        PROVE  UNCHANGED <<final, kind>>
    BY <2>2
       DEF Step, tree, LoadManifest, AuthenticateData, HashConversionRows, ReadConversionRows,
           Admit, TakeLock, ListRoot, ScanEntry, EndScan, NameRun, CreateStaging, WriteMarker,
           ReadParent, EndWork, Recheck, WriteManifest, Unlock, Unmark, ReloadPublished, Kill,
           CleanUp
  <2>3. ASSUME Rewrite
        PROVE  UNCHANGED <<final, kind>>
    BY <2>3 DEF Rewrite, tree
  <2>4. ASSUME NEW i \in Ids, Damage(i)
        PROVE  UNCHANGED <<final, kind>>
    BY <2>4 DEF Damage, tree
  <2>5. ASSUME UNCHANGED vars
        PROVE  UNCHANGED <<final, kind>>
    BY <2>5 DEF vars, tree
  <2>6. Catalogue!CatalogueNext \/ UNCHANGED <<final, kind>>
    BY <1>2, <2>1, <2>2, <2>3, <2>4, <2>5 DEF Next
  <2> QED BY <2>6 DEF Catalogue!catalogueVars
<1> QED BY <1>1, <1>2, StageInvariant, PTL DEF Spec, Implements, Catalogue!CatalogueSpec

-----------------------------------------------------------------------------
(* ConversionParts. *)
-----------------------------------------------------------------------------
(* The rows of a symbol in a stream st. *)

IsRows(g, st, s, first, last) ==
    g = [i \in 0 .. last |->
            IF i < first THEN <<>>
            ELSE IF st[i] = s THEN Append(g[i - 1], i) ELSE g[i - 1]]

RowsIn(st, s, first, last) == (CHOOSE g : IsRows(g, st, s, first, last))[last]

LEMMA RowsAre ==
    ASSUME NEW s, NEW first, NEW last
    PROVE  RowsOf(s, first, last) = RowsIn(stream, s, first, last)
<1> QED BY DEF RowsOf, RowsIn, IsRows

RowStep(st, s, first) ==
    [i \in Nat |-> [q \in Seq(Nat) |->
        IF i < first THEN <<>> ELSE IF st[i] = s THEN Append(q, i) ELSE q]]

LEMMA RowStepType == ASSUME NEW st, NEW s, NEW first PROVE Steps(Seq(Nat), RowStep(st, s, first))
<1> SUFFICES ASSUME NEW i \in Nat PROVE RowStep(st, s, first)[i] \in [Seq(Nat) -> Seq(Nat)]
  BY DEF Steps
<1>1. ASSUME NEW q \in Seq(Nat)
      PROVE  (IF i < first THEN <<>> ELSE IF st[i] = s THEN Append(q, i) ELSE q) \in Seq(Nat)
  OBVIOUS
<1> QED BY <1>1 DEF RowStep

LEMMA RowsTable ==
    ASSUME NEW st, NEW s, NEW first \in Nat \ {0}, NEW last \in Nat
    PROVE  \E g : /\ Recursive(g, Seq(Nat), <<>>, RowStep(st, s, first), last)
                  /\ RowsIn(st, s, first, last) = g[last]
<1> DEFINE G == RowStep(st, s, first)
<1>1. ASSUME NEW g, Recursive(g, Seq(Nat), <<>>, G, last) PROVE IsRows(g, st, s, first, last)
  <2>1. ASSUME NEW i \in 0 .. last
        PROVE  g[i] = IF i < first THEN <<>>
                      ELSE IF st[i] = s THEN Append(g[i - 1], i) ELSE g[i - 1]
    <3>1. CASE i = 0
      BY <1>1, <3>1 DEF Recursive
    <3>2. CASE i # 0
      <4>1. i \in 1 .. last /\ i - 1 \in 0 .. last
        BY <3>2
      <4>2. g[i] = G[i][g[i - 1]] /\ g[i - 1] \in Seq(Nat)
        BY <1>1, <4>1 DEF Recursive
      <4> QED BY <4>1, <4>2 DEF RowStep
    <3> QED BY <3>1, <3>2
  <2>2. g = [i \in 0 .. last |-> g[i]]
    BY <1>1 DEF Recursive
  <2> QED BY <2>1, <2>2 DEF IsRows
<1>2. ASSUME NEW g, IsRows(g, st, s, first, last) PROVE Recursive(g, Seq(Nat), <<>>, G, last)
  <2>1. ASSUME NEW i \in 0 .. last
        PROVE  g[i] = IF i < first THEN <<>>
                      ELSE IF st[i] = s THEN Append(g[i - 1], i) ELSE g[i - 1]
    <3> DEFINE val(j) == IF j < first THEN <<>>
                      ELSE IF st[j] = s THEN Append(g[j - 1], j) ELSE g[j - 1]
    <3>1. g = [j \in 0 .. last |-> val(j)]
      BY <1>2 DEF IsRows
    <3> HIDE DEF val
    <3>2. g[i] = val(i)
      BY <3>1
    <3> QED BY <3>2 DEF val
  <2> DEFINE T == {i \in Nat : i <= last /\ g[i] \notin Seq(Nat)}
  <2>2. T = {}
    <3>1. SUFFICES ASSUME T # {} PROVE FALSE
      OBVIOUS
    <3>2. PICK j \in T : \A i \in T : j <= i
      <4>1. T \in SUBSET Nat
        OBVIOUS
      <4> HIDE DEF T
      <4> QED BY <3>1, <4>1, Least
    <3>3. j \in 0 .. last /\ g[j] \notin Seq(Nat) /\ <<>> \in Seq(Nat)
      OBVIOUS
    <3> HIDE DEF T
    <3>7. j >= first
      <4>1. ASSUME j < first PROVE FALSE
        <5>1. g[j] = <<>>
          BY ONLY <2>1, <3>3, <4>1
        <5> QED BY <3>3, <5>1
      <4> QED BY <3>3, <4>1
    <3>4. j - 1 \in Nat /\ j - 1 \notin T
      BY <3>2, <3>3, <3>7 DEF T
    <3>5. g[j - 1] \in Seq(Nat)
      BY <3>3, <3>4 DEF T
    <3>6. g[j] = IF st[j] = s THEN Append(g[j - 1], j) ELSE g[j - 1]
      BY <2>1, <3>3, <3>7
    <3> QED BY <3>3, <3>5, <3>6
  <2>3. \A i \in 0 .. last : g[i] \in Seq(Nat)
    BY <2>2
  <2>4. g \in [0 .. last -> Seq(Nat)]
    <3>1. g = [i \in 0 .. last |-> g[i]]
      <4> DEFINE val(j) == IF j < first THEN <<>>
                      ELSE IF st[j] = s THEN Append(g[j - 1], j) ELSE g[j - 1]
      <4>1. g = [j \in 0 .. last |-> val(j)]
        BY <1>2 DEF IsRows
      <4> HIDE DEF val
      <4> QED BY <4>1
    <3> QED BY <2>3, <3>1
  <2>5. g[0] = <<>>
    BY <2>1
  <2>6. ASSUME NEW i \in 1 .. last PROVE g[i] = G[i][g[i - 1]]
    <3>1. i \in 0 .. last /\ i - 1 \in 0 .. last
      OBVIOUS
    <3>2. g[i - 1] \in Seq(Nat)
      BY <2>3, <3>1
    <3> QED BY <2>1, <3>1, <3>2 DEF RowStep
  <2> HIDE DEF G
  <2> QED BY <2>4, <2>5, <2>6 DEF Recursive
<1>3. \E g : Recursive(g, Seq(Nat), <<>>, G, last)
  <2>1. <<>> \in Seq(Nat) /\ Steps(Seq(Nat), G)
    BY RowStepType
  <2> HIDE DEF G
  <2> QED BY <2>1, RecursionExists
<1>4. IsRows(CHOOSE g : IsRows(g, st, s, first, last), st, s, first, last)
  BY <1>1, <1>3
<1> QED BY <1>2, <1>4 DEF RowsIn

(* The recursion, row by row. *)
RowRecursion(st, s, first, last) ==
    /\ RowsIn(st, s, first, last) \in Seq(Nat)
    /\ last < first => RowsIn(st, s, first, last) = <<>>
    /\ last >= first => RowsIn(st, s, first, last) =
          IF st[last] = s THEN Append(RowsIn(st, s, first, last - 1), last)
          ELSE RowsIn(st, s, first, last - 1)

LEMMA NextRow ==
    ASSUME NEW st, NEW s, NEW first \in Nat \ {0}, NEW last \in Nat
    PROVE  RowRecursion(st, s, first, last)
<1> USE DEF RowRecursion
<1> DEFINE G == RowStep(st, s, first)
<1>1. PICK g : Recursive(g, Seq(Nat), <<>>, G, last) /\ RowsIn(st, s, first, last) = g[last]
  BY RowsTable
<1>2. g[last] \in Seq(Nat)
  BY <1>1 DEF Recursive
<1>3. CASE last < first
  <2>1. CASE last = 0
    BY <1>1, <1>2, <1>3, <2>1 DEF Recursive
  <2>2. CASE last # 0
    <3>1. last \in 1 .. last /\ last - 1 \in 0 .. last
      BY <2>2
    <3>2. g[last] = G[last][g[last - 1]] /\ g[last - 1] \in Seq(Nat)
      BY <1>1, <3>1 DEF Recursive
    <3>3. G[last][g[last - 1]] = <<>>
      BY <1>3, <3>2 DEF RowStep
    <3> QED BY <1>1, <1>2, <1>3, <3>2, <3>3
  <2> QED BY <2>1, <2>2
<1>4. CASE last >= first
  <2>1. last \in 1 .. last /\ last - 1 \in Nat /\ last - 1 \in 0 .. last
    BY <1>4
  <2>2. g[last] = G[last][g[last - 1]] /\ g[last - 1] \in Seq(Nat)
    BY <1>1, <2>1 DEF Recursive
  <2>3. PICK h : /\ Recursive(h, Seq(Nat), <<>>, G, last - 1)
                 /\ RowsIn(st, s, first, last - 1) = h[last - 1]
    BY <2>1, RowsTable
  <2>4. h[last - 1] = g[last - 1]
    <3> HIDE DEF G
    <3>1. last - 1 <= last /\ last - 1 <= last - 1
      BY <2>1
    <3> QED BY <1>1, <2>1, <2>3, <3>1, RecursionAgrees
  <2>5. G[last][g[last - 1]] =
           IF st[last] = s THEN Append(g[last - 1], last) ELSE g[last - 1]
    BY <1>4, <2>2 DEF RowStep
  <2> QED BY <1>1, <1>2, <1>4, <2>2, <2>3, <2>4, <2>5
<1> QED BY <1>3, <1>4

(* A range of rows splits anywhere. *)
SplitAt(st, s, mid, last) ==
    RowsIn(st, s, 1, last) = RowsIn(st, s, 1, mid) \o RowsIn(st, s, mid + 1, last)

LEMMA RowsSplit ==
    ASSUME NEW st, NEW s, NEW mid \in Nat, NEW last \in Nat, mid <= last
    PROVE  SplitAt(st, s, mid, last)
<1> USE DEF SplitAt
<1> DEFINE Split(n) == RowsIn(st, s, 1, n) = RowsIn(st, s, 1, mid) \o RowsIn(st, s, mid + 1, n)
           T == {n \in Nat : mid <= n /\ ~Split(n)}
<1>1. SUFFICES ASSUME T # {} PROVE FALSE
  OBVIOUS
<1>2. PICK n \in T : \A m \in T : n <= m
  <2>1. T \in SUBSET Nat
    OBVIOUS
  <2> HIDE DEF T
  <2> QED BY <1>1, <2>1, Least
<1>3. n \in Nat /\ mid <= n /\ ~Split(n)
  OBVIOUS
<1>4. mid + 1 \in Nat \ {0} /\ 1 \in Nat \ {0} /\ RowsIn(st, s, 1, mid) \in Seq(Nat)
  <2>1. RowRecursion(st, s, 1, mid)
    BY NextRow
  <2> QED BY <2>1 DEF RowRecursion
<1>5. CASE n = mid
  <2>1. RowsIn(st, s, mid + 1, n) = <<>>
    <3>1. RowRecursion(st, s, mid + 1, n)
      BY <1>3, <1>4, NextRow
    <3> QED BY <1>3, <1>5, <3>1 DEF RowRecursion
  <2> QED BY <1>3, <1>4, <1>5, <2>1
<1>6. CASE n # mid
  <2>1. n - 1 \in Nat /\ mid <= n - 1 /\ n - 1 \notin T /\ n >= 1 /\ n >= mid + 1
    BY <1>2, <1>3, <1>6
  <2>2. Split(n - 1)
    BY <2>1
  <2>3. /\ RowsIn(st, s, mid + 1, n - 1) \in Seq(Nat)
        /\ RowsIn(st, s, 1, n - 1) \in Seq(Nat)
    <3>1. RowRecursion(st, s, mid + 1, n - 1) /\ RowRecursion(st, s, 1, n - 1)
      BY <1>4, <2>1, NextRow
    <3> QED BY <3>1 DEF RowRecursion
  <2>4. RowsIn(st, s, 1, n) = IF st[n] = s THEN Append(RowsIn(st, s, 1, n - 1), n)
                              ELSE RowsIn(st, s, 1, n - 1)
    <3>1. RowRecursion(st, s, 1, n)
      BY <1>3, <1>4, NextRow
    <3> QED BY <2>1, <3>1 DEF RowRecursion
  <2>5. RowsIn(st, s, mid + 1, n) =
           IF st[n] = s THEN Append(RowsIn(st, s, mid + 1, n - 1), n)
           ELSE RowsIn(st, s, mid + 1, n - 1)
    <3>1. RowRecursion(st, s, mid + 1, n)
      BY <1>3, <1>4, NextRow
    <3> QED BY <2>1, <3>1 DEF RowRecursion
  <2>6. ASSUME NEW a \in Seq(Nat), NEW b \in Seq(Nat)
        PROVE  Append(a \o b, n) = a \o Append(b, n)
    BY ONLY <1>3, AppendConcat
  <2>7. CASE st[n] = s
    BY <1>3, <1>4, <2>2, <2>3, <2>4, <2>5, <2>6, <2>7
  <2>8. CASE st[n] # s
    BY <1>3, <2>2, <2>4, <2>5, <2>8
  <2> QED BY <2>7, <2>8
<1> QED BY <1>5, <1>6

(* A symbol that is not in a range has no rows there. *)
LEMMA NoRows ==
    ASSUME NEW st, NEW s, NEW first \in Nat \ {0}, NEW last \in Nat,
           \A i \in first .. last : st[i] # s
    PROVE  RowsIn(st, s, first, last) = <<>>
<1> DEFINE T == {n \in Nat : n <= last /\ RowsIn(st, s, first, n) # <<>>}
<1>1. SUFFICES ASSUME T # {} PROVE FALSE
  OBVIOUS
<1>2. PICK n \in T : \A m \in T : n <= m
  <2>1. T \in SUBSET Nat
    OBVIOUS
  <2> HIDE DEF T
  <2> QED BY <1>1, <2>1, Least
<1>3. n >= first /\ RowRecursion(st, s, first, n)
  <2>1. RowRecursion(st, s, first, n)
    BY NextRow
  <2> QED BY <1>2, <2>1 DEF RowRecursion
<1>4. n \in first .. last /\ n - 1 \in Nat /\ n - 1 \notin T
  BY <1>2, <1>3
<1>5. RowsIn(st, s, first, n - 1) = <<>>
  BY <1>2, <1>4
<1>6. RowsIn(st, s, first, n) = RowsIn(st, s, first, n - 1)
  BY <1>3, <1>4 DEF RowRecursion
<1> QED BY <1>2, <1>5, <1>6
-----------------------------------------------------------------------------
(* The open writers: distinct, at most MaxOpen, each with a part. *)

HasPart(ps, q) == \A i \in 1 .. Len(q) : ps[q[i]] # <<>>

OpenOK(q, ps) ==
    q \in Seq(PartSymbols) /\ Len(q) <= MaxOpen /\ Distinct(q) /\ HasPart(ps, q)

LEMMA MostRecentOK ==
    ASSUME OpenOK(opened, parts), NEW s \in PartSymbols
    PROVE  /\ MostRecent(s) \in Seq(PartSymbols)
           /\ Len(MostRecent(s)) <= MaxOpen /\ Distinct(MostRecent(s))
           /\ \A i \in 1 .. Len(MostRecent(s)) :
                 MostRecent(s)[i] = s \/ parts[MostRecent(s)[i]] # <<>>
<1> DEFINE w == IF Contains(opened, s) THEN RemoveFirst(opened, s) ELSE Evicted
<1>1. /\ opened \in Seq(PartSymbols) /\ Len(opened) <= MaxOpen /\ Distinct(opened)
      /\ MaxOpen \in Nat /\ MaxOpen > 0 /\ Len(opened) \in Nat
  BY PartsAssumption DEF OpenOK
<1>2. \E n \in 0 .. MaxOpen - 1 : LeftOf(opened, w, n, PartSymbols) /\ ~Contains(w, s)
  <2>1. CASE Contains(opened, s)
    <3>1. LeftOf(opened, w, Len(opened) - 1, PartSymbols) /\ ~Contains(w, s)
      BY <1>1, <2>1, RemovedFirst
    <3>2. Len(opened) > 0
      BY <1>1, <2>1 DEF Contains
    <3>3. Len(opened) - 1 \in 0 .. MaxOpen - 1
      BY <1>1, <3>2
    <3> QED BY <3>1, <3>3
  <2>2. CASE ~Contains(opened, s) /\ Len(opened) >= MaxOpen
    <3>1. w = Tail(opened) /\ Len(opened) > 0
      BY <1>1, <2>2 DEF Evicted
    <3>2. LeftOf(opened, w, Len(opened) - 1, PartSymbols)
      BY <1>1, <3>1, TailLeft
    <3>3. ~Contains(w, s)
      BY <2>2, <3>2 DEF LeftOf, Contains
    <3>4. Len(opened) - 1 \in 0 .. MaxOpen - 1
      BY <1>1, <2>2
    <3> QED BY <3>2, <3>3, <3>4
  <2>3. CASE ~Contains(opened, s) /\ ~(Len(opened) >= MaxOpen)
    <3>1. w = opened
      BY <2>3 DEF Evicted
    <3>2. LeftOf(opened, w, Len(opened), PartSymbols)
      BY <1>1, <3>1 DEF LeftOf
    <3>3. Len(opened) \in 0 .. MaxOpen - 1
      BY <1>1, <2>3
    <3> QED BY <2>3, <3>1, <3>2, <3>3
  <2> QED BY <2>1, <2>2, <2>3
<1>3. MostRecent(s) = Append(w, s)
  BY DEF MostRecent
<1> HIDE DEF w
<1>4. PICK n \in 0 .. MaxOpen - 1 : LeftOf(opened, w, n, PartSymbols) /\ ~Contains(w, s)
  BY <1>2
<1> DEFINE v == Append(w, s)
<1>5. /\ w \in Seq(PartSymbols) /\ Len(w) = n /\ Distinct(w)
      /\ \A i \in 1 .. n : \E j \in 1 .. Len(opened) : w[i] = opened[j]
      /\ \A i \in 1 .. n : w[i] # s
  BY <1>4 DEF LeftOf, Contains
<1>6. /\ v \in Seq(PartSymbols) /\ Len(v) = n + 1 /\ v[n + 1] = s
      /\ \A i \in 1 .. n : v[i] = w[i]
  BY <1>5
<1> HIDE DEF v
<1>7. Distinct(v)
  <2> SUFFICES ASSUME NEW i \in 1 .. n + 1, NEW j \in 1 .. n + 1, v[i] = v[j] PROVE i = j
    BY <1>6 DEF Distinct
  <2>1. (i \in 1 .. n \/ i = n + 1) /\ (j \in 1 .. n \/ j = n + 1)
    OBVIOUS
  <2>2. CASE i \in 1 .. n /\ j \in 1 .. n
    BY <1>5, <1>6, <2>2 DEF Distinct
  <2> QED BY <1>5, <1>6, <2>1, <2>2
<1>8. ASSUME NEW i \in 1 .. n + 1 PROVE v[i] = s \/ parts[v[i]] # <<>>
  <2>1. i \in 1 .. n \/ i = n + 1
    OBVIOUS
  <2>2. CASE i \in 1 .. n
    <3>1. PICK j \in 1 .. Len(opened) : v[i] = opened[j]
      BY <1>5, <1>6, <2>2
    <3> QED BY <3>1 DEF OpenOK, HasPart
  <2> QED BY <1>6, <2>1, <2>2
<1> QED BY <1>1, <1>3, <1>6, <1>7, <1>8 DEF v
-----------------------------------------------------------------------------
(* The invariant.  Chunks end at a multiple of ChunkRows or at the end of   *)
(* the stream, so the chunk being written starts where the last one ended.  *)

StartOf(r) == ((r - 1) \div ChunkRows) * ChunkRows + 1

Kept(st, r, gr, p, s) ==
    FlattenSeq(p) = RowsIn(st, s, 1, IF s \in gr THEN StartOf(r) - 1 ELSE r)

ReadOK ==
    /\ stream \in Seq(PartSymbols) /\ rows \in Nat /\ rows <= Len(stream)
    /\ rows = Len(stream) \/ \E k \in Nat : rows = k * ChunkRows
    /\ grouped \subseteq PartSymbols /\ (grouped # {} => rows > 0)

PartsOK == parts \in [PartSymbols -> Seq(Seq(Nat))]

KeptOK == \A s \in PartSymbols : Kept(stream, rows, grouped, parts[s], s)

PartsInv == ReadOK /\ PartsOK /\ KeptOK /\ OpenOK(opened, parts)

LEMMA StartIs ==
    ASSUME NEW r \in Nat, r > 0
    PROVE  StartOf(r) \in Nat /\ StartOf(r) > 0 /\ StartOf(r) <= r
<1> DEFINE q == (r - 1) \div ChunkRows
<1>1. ChunkRows \in Nat /\ ChunkRows > 0 /\ r - 1 \in Int /\ 0 \in Int
  BY PartsAssumption
<1>2. q \in Int /\ q * ChunkRows <= r - 1 /\ r - 1 < q * ChunkRows + ChunkRows
  BY <1>1, Division
<1> HIDE DEF q
<1>3. q + 1 \in Int /\ (q + 1) * ChunkRows = q * ChunkRows + ChunkRows /\ q * ChunkRows \in Int
  BY <1>1, <1>2, Scaled
<1>4. q >= 0
  <2>1. SUFFICES ASSUME q + 1 <= 0 PROVE FALSE
    BY <1>2
  <2>2. (q + 1) * ChunkRows <= 0 * ChunkRows /\ 0 * ChunkRows = 0
    BY <1>1, <1>3, <2>1, Scaled
  <2> QED BY <1>1, <1>2, <1>3, <2>2
<1>5. q * ChunkRows >= 0
  <2>1. 0 * ChunkRows <= q * ChunkRows /\ 0 * ChunkRows = 0
    BY <1>1, <1>2, <1>4, Scaled
  <2> QED BY <2>1
<1> QED BY <1>2, <1>3, <1>5 DEF StartOf, q

LEMMA StartOfNext ==
    ASSUME NEW k \in Nat, NEW r \in Nat, k * ChunkRows < r, r <= k * ChunkRows + ChunkRows
    PROVE  StartOf(r) = k * ChunkRows + 1
<1> DEFINE q == (r - 1) \div ChunkRows
<1>1. ChunkRows \in Nat /\ ChunkRows > 0 /\ r - 1 \in Int /\ k \in Int
  BY PartsAssumption
<1>2. q \in Int /\ q * ChunkRows <= r - 1 /\ r - 1 < q * ChunkRows + ChunkRows
  BY <1>1, Division
<1> HIDE DEF q
<1>3. /\ q + 1 \in Int /\ (q + 1) * ChunkRows = q * ChunkRows + ChunkRows /\ q * ChunkRows \in Int
      /\ k + 1 \in Int /\ (k + 1) * ChunkRows = k * ChunkRows + ChunkRows /\ k * ChunkRows \in Int
  BY <1>1, <1>2, Scaled
<1>4. ~(q + 1 <= k)
  <2>1. ASSUME q + 1 <= k PROVE (q + 1) * ChunkRows <= k * ChunkRows
    BY <1>1, <1>3, <2>1, Scaled
  <2> QED BY <1>1, <1>2, <1>3, <2>1
<1>5. ~(k + 1 <= q)
  <2>1. ASSUME k + 1 <= q PROVE (k + 1) * ChunkRows <= q * ChunkRows
    BY <1>1, <1>2, <1>3, <2>1, Scaled
  <2> QED BY <1>1, <1>2, <1>3, <2>1
<1>6. q = k
  BY <1>2, <1>4, <1>5
<1> QED BY <1>6 DEF StartOf, q

LEMMA ReadKeeps == ASSUME PartsInv, ReadChunk PROVE PartsInv'
<1> DEFINE n == Len(stream)
           r == Min({rows + ChunkRows, n})
<1>1. /\ stream \in Seq(PartSymbols) /\ rows \in Nat /\ n \in Nat /\ rows < n
      /\ ChunkRows \in Nat /\ ChunkRows > 0 /\ grouped = {}
      /\ stream' = stream /\ rows' = r /\ grouped' = {stream[i] : i \in rows + 1 .. r}
      /\ opened' = opened /\ parts' = parts
  BY PartsAssumption DEF PartsInv, ReadOK, ReadChunk
<1>2. r = IF rows + ChunkRows <= n THEN rows + ChunkRows ELSE n
  <2>1. rows + ChunkRows \in Int /\ n \in Int
    BY <1>1
  <2> QED BY ONLY <2>1, MinOfTwo
<1>3. PICK k \in Nat : rows = k * ChunkRows
  BY <1>1 DEF PartsInv, ReadOK
<1> HIDE DEF r
<1>4. r \in Nat /\ rows < r /\ r <= n /\ r <= rows + ChunkRows
  BY <1>1, <1>2
<1>5. StartOf(r) = rows + 1
  BY <1>3, <1>4, StartOfNext
<1>6. ReadOK'
  <2>1. r = n \/ \E j \in Nat : r = j * ChunkRows
    <3>1. CASE rows + ChunkRows <= n
      <4>1. k + 1 \in Nat /\ (k + 1) * ChunkRows = k * ChunkRows + ChunkRows
        BY <1>1, Scaled
      <4> QED BY <1>2, <1>3, <3>1, <4>1
    <3>2. CASE ~(rows + ChunkRows <= n)
      BY <1>2, <3>2
    <3> QED BY <3>1, <3>2
  <2>2. \A i \in rows + 1 .. r : stream[i] \in PartSymbols
    BY <1>1, <1>4
  <2>3. grouped' \subseteq PartSymbols /\ rows' > 0
    BY <1>1, <1>4, <2>2
  <2>4. stream' \in Seq(PartSymbols) /\ rows' \in Nat /\ rows' <= Len(stream')
    BY <1>1, <1>4
  <2>5. rows' = Len(stream') \/ \E j \in Nat : rows' = j * ChunkRows
    BY <1>1, <2>1
  <2> QED BY <2>3, <2>4, <2>5 DEF ReadOK
<1>7. ASSUME NEW s \in PartSymbols PROVE Kept(stream, r, grouped', parts[s], s)
  <2>1. FlattenSeq(parts[s]) = RowsIn(stream, s, 1, rows)
    BY <1>1 DEF PartsInv, KeptOK, Kept
  <2>2. CASE s \in grouped'
    BY <1>1, <1>5, <2>1, <2>2 DEF Kept
  <2>3. CASE s \notin grouped'
    <3>1. \A i \in rows + 1 .. r : stream[i] # s
      BY <1>1, <2>3
    <3>2. rows + 1 \in Nat \ {0} /\ 1 \in Nat \ {0}
      BY <1>1
    <3>3. RowsIn(stream, s, rows + 1, r) = <<>>
      BY <1>4, <3>1, <3>2, NoRows
    <3>4. RowsIn(stream, s, 1, r) = RowsIn(stream, s, 1, rows) \o RowsIn(stream, s, rows + 1, r)
      <4>1. rows <= r
        BY <1>1, <1>4
      <4>2. SplitAt(stream, s, rows, r)
        BY <1>1, <1>4, <4>1, RowsSplit
      <4> QED BY <4>2 DEF SplitAt
    <3>5. RowsIn(stream, s, 1, rows) \in Seq(Nat)
      <4>1. RowRecursion(stream, s, 1, rows)
        BY <1>1, <3>2, NextRow
      <4> QED BY <4>1 DEF RowRecursion
    <3>6. RowsIn(stream, s, 1, r) = RowsIn(stream, s, 1, rows)
      BY <3>3, <3>4, <3>5
    <3> QED BY <2>1, <2>3, <3>6 DEF Kept
  <2> QED BY <2>2, <2>3
<1>8. PartsOK' /\ KeptOK' /\ OpenOK(opened, parts)'
  BY <1>1, <1>7 DEF PartsInv, PartsOK, KeptOK, OpenOK, HasPart
<1> QED BY <1>6, <1>8 DEF PartsInv

LEMMA ExtendedType ==
    ASSUME NEW p \in Seq(Seq(Nat)), p # <<>>, NEW q \in Seq(Nat)
    PROVE  LET e == [p EXCEPT ![Len(p)] = @ \o q] IN e \in Seq(Seq(Nat)) /\ e # <<>>
<1> DEFINE n == Len(p)
           e == [p EXCEPT ![n] = @ \o q]
<1>1. n \in Nat /\ n >= 1 /\ DOMAIN p = 1 .. n /\ \A i \in 1 .. n : p[i] \in Seq(Nat)
  OBVIOUS
<1>2. p[n] \o q \in Seq(Nat)
  BY <1>1
<1>3. ASSUME NEW i \in 1 .. n PROVE e[i] \in Seq(Nat)
  BY <1>1, <1>2
<1>4. e = [i \in 1 .. n |-> e[i]]
  BY <1>1
<1> HIDE DEF e, n
<1>5. e \in Seq(Seq(Nat)) /\ Len(e) = n
  <2>1. e \in [1 .. n -> Seq(Nat)]
    BY <1>3, <1>4
  <2> QED BY <1>1, <2>1
<1> QED BY <1>1, <1>5 DEF e, n

LEMMA WriteKeeps == ASSUME PartsInv, WriteBatch PROVE PartsInv'
<1>1. PICK s \in grouped :
        /\ grouped' = grouped \ {s} /\ opened' = MostRecent(s)
        /\ parts' = [parts EXCEPT ![s] =
              [WithPart(s) EXCEPT ![Len(WithPart(s))] = @ \o RowsOf(s, ChunkStart, rows)]]
  BY DEF WriteBatch
<1>2. /\ stream' = stream /\ rows' = rows /\ s \in PartSymbols /\ rows \in Nat /\ rows > 0
      /\ grouped \subseteq PartSymbols
  BY DEF PartsInv, ReadOK, WriteBatch
<1> DEFINE a == ChunkStart - 1
           q == RowsOf(s, ChunkStart, rows)
           w == WithPart(s)
           e == [w EXCEPT ![Len(w)] = @ \o q]
<1>3. /\ ChunkStart = StartOf(rows) /\ a \in Nat /\ a <= rows /\ a + 1 = ChunkStart
      /\ ChunkStart \in Nat \ {0}
  <2>1. ChunkStart = StartOf(rows)
    BY DEF ChunkStart, StartOf
  <2>2. StartOf(rows) \in Nat /\ StartOf(rows) > 0 /\ StartOf(rows) <= rows
    BY <1>2, StartIs
  <2> QED BY <1>2, <2>1, <2>2
<1>4. q = RowsIn(stream, s, a + 1, rows) /\ q \in Seq(Nat)
  <2>1. q = RowsIn(stream, s, ChunkStart, rows)
    BY RowsAre
  <2>2. RowRecursion(stream, s, ChunkStart, rows)
    BY <1>2, <1>3, NextRow
  <2> QED BY <1>3, <2>1, <2>2 DEF RowRecursion
<1> HIDE DEF a, q
<1>5. parts[s] \in Seq(Seq(Nat)) /\ parts \in [PartSymbols -> Seq(Seq(Nat))]
  BY <1>2 DEF PartsInv, PartsOK
<1>6. w \in Seq(Seq(Nat)) /\ w # <<>> /\ FlattenSeq(w) = FlattenSeq(parts[s])
  <2>1. CASE Contains(opened, s)
    BY <1>5, <2>1 DEF WithPart, PartsInv, OpenOK, HasPart, Contains
  <2>2. CASE ~Contains(opened, s)
    <3>1. w = Append(parts[s], <<>>)
      BY <2>2 DEF WithPart
    <3>2. <<>> \in Seq(Nat)
      OBVIOUS
    <3>3. Append(parts[s], <<>>) \in Seq(Seq(Nat)) /\ Append(parts[s], <<>>) # <<>>
      <4>1. /\ Append(parts[s], <<>>) \in Seq(Seq(Nat))
            /\ Len(Append(parts[s], <<>>)) = Len(parts[s]) + 1 /\ Len(parts[s]) \in Nat
        BY <1>5, <3>2
      <4> QED BY <4>1
    <3>4. FlatMore(parts[s], <<>>)
      BY <1>5, <3>2, FlatAppend
    <3>5. FlattenSeq(parts[s]) \o <<>> = FlattenSeq(parts[s])
      BY <3>4 DEF FlatMore
    <3> QED BY <3>1, <3>3, <3>4, <3>5 DEF FlatMore
  <2> QED BY <2>1, <2>2
<1> HIDE DEF w
<1>7. FlattenSeq(e) = FlattenSeq(parts[s]) \o q
  BY <1>4, <1>6, FlatExtended
<1>8. e \in Seq(Seq(Nat)) /\ e # <<>>
  BY <1>4, <1>6, ExtendedType
<1> HIDE DEF e
<1>9. parts' = [parts EXCEPT ![s] = e]
  BY <1>1 DEF e, w, q
<1>10. Kept(stream, rows, grouped', parts'[s], s)
  <2>1. FlattenSeq(parts[s]) = RowsIn(stream, s, 1, a)
    BY <1>1, <1>2, <1>3 DEF PartsInv, KeptOK, Kept, a
  <2>2. RowsIn(stream, s, 1, rows) = RowsIn(stream, s, 1, a) \o RowsIn(stream, s, a + 1, rows)
    BY <1>2, <1>3, RowsSplit DEF SplitAt
  <2>3. parts'[s] = e /\ s \notin grouped'
    BY <1>1, <1>2, <1>5, <1>9
  <2> QED BY <1>4, <1>7, <2>1, <2>2, <2>3 DEF Kept
<1>11. ASSUME NEW t \in PartSymbols, t # s PROVE Kept(stream, rows, grouped', parts'[t], t)
  <2>1. parts'[t] = parts[t] /\ (t \in grouped' <=> t \in grouped)
    BY <1>1, <1>5, <1>9, <1>11
  <2> QED BY <2>1 DEF PartsInv, KeptOK, Kept
<1>12. PartsOK' /\ KeptOK'
  BY <1>2, <1>5, <1>8, <1>9, <1>10, <1>11 DEF PartsOK, KeptOK
<1>13. OpenOK(opened, parts)'
  <2> DEFINE v == MostRecent(s)
  <2>1. /\ v \in Seq(PartSymbols) /\ Len(v) <= MaxOpen /\ Distinct(v)
        /\ \A i \in 1 .. Len(v) : v[i] = s \/ parts[v[i]] # <<>>
    BY <1>2, MostRecentOK DEF PartsInv
  <2> HIDE DEF v
  <2>2. ASSUME NEW i \in 1 .. Len(v) PROVE parts'[v[i]] # <<>>
    <3>1. v[i] \in PartSymbols
      BY <2>1
    <3> QED BY <1>5, <1>8, <1>9, <2>1, <3>1
  <2>3. opened' = v
    BY <1>1 DEF v
  <2> QED BY <2>1, <2>2, <2>3 DEF OpenOK, HasPart
<1>14. ReadOK'
  BY <1>1, <1>2 DEF PartsInv, ReadOK
<1> QED BY <1>12, <1>13, <1>14 DEF PartsInv

LEMMA ClosedKeeps ==
    ASSUME PartsInv, UNCHANGED <<stream, rows, grouped, parts>>, opened' = <<>> \/ opened' = opened
    PROVE  PartsInv'
<1>1. OpenOK(opened, parts)'
  <2>1. OpenOK(<<>>, parts)
    BY PartsAssumption DEF OpenOK, Distinct, HasPart
  <2>2. OpenOK(opened', parts)
    BY <2>1 DEF PartsInv
  <2> QED BY <2>2 DEF OpenOK, HasPart
<1> QED BY <1>1 DEF PartsInv, ReadOK, PartsOK, KeptOK

LEMMA PartsKept == PartsInv /\ [PartsNext]_partsVars => PartsInv'
<1> SUFFICES ASSUME PartsInv, [PartsNext]_partsVars PROVE PartsInv'
  OBVIOUS
<1>1. CASE ReadChunk
  BY <1>1, ReadKeeps
<1>2. CASE WriteBatch
  BY <1>2, WriteKeeps
<1>3. CASE FailWriting
  BY <1>3, ClosedKeeps DEF FailWriting
<1>4. CASE Validate
  BY <1>4, ClosedKeeps DEF Validate
<1>5. CASE UNCHANGED partsVars
  BY <1>5, ClosedKeeps DEF partsVars
<1> QED BY <1>1, <1>2, <1>3, <1>4, <1>5 DEF PartsNext

LEMMA PartsStartInv == PartsInit => PartsInv
<1> SUFFICES ASSUME PartsInit PROVE PartsInv
  OBVIOUS
<1>1. /\ stream \in Seq(PartSymbols) /\ rows = 0 /\ grouped = {} /\ opened = <<>>
      /\ parts = [s \in PartSymbols |-> <<>>]
  BY PartsAssumption DEF PartsInit, PartsStart
<1>2. ReadOK
  <2>1. 0 * ChunkRows = 0 /\ Len(stream) \in Nat
    BY <1>1, PartsAssumption
  <2> QED BY <1>1, <2>1 DEF ReadOK
<1>3. PartsOK
  BY <1>1 DEF PartsOK
<1>4. ASSUME NEW s \in PartSymbols PROVE Kept(stream, rows, grouped, parts[s], s)
  <2>1. FlattenSeq(<<>>) = <<>>
    BY DEF FlattenSeq
  <2>2. RowsIn(stream, s, 1, 0) = <<>>
    <3>1. RowRecursion(stream, s, 1, 0)
      BY NextRow
    <3> QED BY <3>1 DEF RowRecursion
  <2> QED BY <1>1, <2>1, <2>2 DEF Kept
<1>5. OpenOK(opened, parts)
  BY <1>1, PartsAssumption DEF OpenOK, Distinct, HasPart
<1> QED BY <1>2, <1>3, <1>4, <1>5 DEF PartsInv, KeptOK

LEMMA PartsInvIsEnough == PartsInv => PartsKeepStream
<1> SUFFICES ASSUME PartsInv PROVE PartsKeepStream
  OBVIOUS
<1>1. ASSUME NEW s \in PartSymbols
      PROVE  FlattenSeq(parts[s]) = RowsOf(s, 1, IF s \in grouped THEN ChunkStart - 1 ELSE rows)
  BY RowsAre DEF PartsInv, KeptOK, Kept, ChunkStart, StartOf
<1>2. opened \in Seq(PartSymbols) /\ Len(opened) <= MaxOpen /\ Distinct(opened)
  BY DEF PartsInv, OpenOK
<1>3. Cardinality(ToSet(opened)) = Len(opened)
  BY <1>2, DistinctCount
<1>4. \A s \in ToSet(opened) : parts[s] # <<>>
  BY <1>2 DEF PartsInv, OpenOK, HasPart, ToSet
<1> QED BY <1>1, <1>2, <1>3, <1>4 DEF PartsKeepStream

(* Whatever is evicted and reopened in between, the parts of a partition    *)
(* together hold the rows of its symbol, each once and in message order.    *)
THEOREM PartsHoldStream == PartsSpec => []PartsKeepStream
<1> QED BY PartsStartInv, PartsKept, PartsInvIsEnough, PTL DEF PartsSpec

-----------------------------------------------------------------------------
(* PredictionJoin: the iterator and the buffer are one cursor in the stream.*)

Cursor == taken - Len(buffer)

Size == Len(predictions)

CursorOK ==
    /\ predictions \in Seq(Prediction) /\ buffer \in Seq(Prediction)
    /\ taken \in 0 .. Len(predictions) /\ Len(buffer) <= taken
    /\ buffer = SubSeq(predictions, Cursor + 1, taken)

(* What is behind the cursor is in order and was known at the last decision.*)
BehindOK ==
    /\ latest = IF Cursor = 0 THEN None ELSE predictions[Cursor]
    /\ decided \in Key \cup {None}
    /\ Cursor > 0 => decided # None
    /\ InOrderUpTo(Cursor)
    /\ decided # None =>
          /\ \A j \in 1 .. Cursor :
                predictions[j].index <= decided.index /\ predictions[j].time <= decided.time
          /\ Cursor < Size => predictions[Cursor + 1].index > decided.index

AnswerOK ==
    /\ answer # None /\ ~answer.failed =>
          /\ \A k \in DOMAIN predictions : InOrderUpTo(k) /\ predictions[k].index <= answer.key.index =>
                answer.row # None /\ answer.row.index >= predictions[k].index
          /\ answer.used => answer.key.time <= answer.row.time + MaxAge
          /\ answer.row # None /\ ~answer.used => answer.key.time > answer.row.time + MaxAge
    /\ answer # None /\ answer.failed =>
          \/ OutOfOrder(answer.key.index, answer.key.time)
          \/ \E k \in DOMAIN predictions :
                \/ ~InOrderUpTo(k) \/ ~predictions[k].valid
                \/ k > 1 /\ predictions[k - 1].time > predictions[k].time
                \/ predictions[k].index <= answer.key.index /\ predictions[k].time > answer.key.time

JoinInv == CursorOK /\ BehindOK /\ AnswerOK

LEMMA CursorType ==
    ASSUME CursorOK
    PROVE  Cursor \in Nat /\ Size \in Nat /\ Cursor <= Size /\ Len(buffer) \in Nat
           /\ taken = Cursor + Len(buffer) /\ taken \in Nat /\ taken <= Size
<1> QED BY DEF CursorOK, Cursor, Size

LEMMA AheadIs ==
    ASSUME CursorOK
    PROVE  /\ Ahead = SubSeq(predictions, Cursor + 1, Size)
           /\ Ahead \in Seq(Prediction) /\ Len(Ahead) = Size - Cursor
           /\ DOMAIN Ahead = 1 .. Size - Cursor
           /\ \A j \in 1 .. Size - Cursor : Ahead[j] = predictions[Cursor + j]
           /\ Behind = Cursor
<1>1. /\ Cursor \in Nat /\ Size \in Nat /\ Cursor <= Size /\ taken \in Nat
      /\ Cursor <= taken /\ taken <= Size /\ predictions \in Seq(Prediction)
  <2>1. predictions \in Seq(Prediction)
    BY DEF CursorOK
  <2> HIDE DEF Cursor, Size
  <2>2. Cursor \in Nat /\ Size \in Nat /\ Cursor <= Size /\ taken \in Nat
    BY CursorType
  <2>3. Cursor <= taken /\ taken <= Size
    BY CursorType, <2>2
  <2> QED BY <2>1, <2>2, <2>3
<1>2. SubSeq(predictions, Cursor + 1, taken) \o SubSeq(predictions, taken + 1, Size)
        = SubSeq(predictions, Cursor + 1, Size)
  <2>1. /\ Cursor + 1 \in 1 .. Len(predictions) + 1
        /\ taken \in (Cursor + 1) - 1 .. Len(predictions)
        /\ Size \in taken .. Len(predictions)
    BY <1>1 DEF Size
  <2> QED BY <1>1, <2>1, ConcatAdjacentSubSeq
<1>3. Ahead = SubSeq(predictions, Cursor + 1, Size)
  BY <1>2 DEF Ahead, CursorOK, Size
<1>4. /\ SubSeq(predictions, Cursor + 1, Size) \in Seq(Prediction)
      /\ Len(SubSeq(predictions, Cursor + 1, Size)) = Size - Cursor
      /\ \A j \in 1 .. Size - Cursor :
            SubSeq(predictions, Cursor + 1, Size)[j] = predictions[Cursor + j]
  BY <1>1 DEF Size
<1>5. /\ Ahead \in Seq(Prediction) /\ Len(Ahead) = Size - Cursor
      /\ \A j \in 1 .. Size - Cursor : Ahead[j] = predictions[Cursor + j]
  BY <1>3, <1>4
<1>6. Behind = Cursor /\ DOMAIN Ahead = 1 .. Size - Cursor
  BY <1>1, <1>5 DEF Behind, Size
<1> QED BY <1>3, <1>5, <1>6

\* Passed stops at the first row ahead that does not pass.
LEMMA PassedIs ==
    ASSUME CursorOK, NEW index, NEW time
    PROVE  /\ Passed(index, time) \in 0 .. Size - Cursor
           /\ \A j \in 1 .. Passed(index, time) : Passes(j, index, time)
           /\ Passed(index, time) < Size - Cursor
                => ~Passes(Passed(index, time) + 1, index, time)
<1> DEFINE stops == {j \in DOMAIN Ahead : ~Passes(j, index, time)}
           n == Passed(index, time)
<1>1. /\ DOMAIN Ahead = 1 .. Size - Cursor /\ Len(Ahead) = Size - Cursor
      /\ Size - Cursor \in Nat
  BY AheadIs, CursorType
<1>2. CASE stops = {}
  <2>1. n = Size - Cursor
    BY <1>1, <1>2 DEF Passed
  <2> QED BY <1>1, <1>2, <2>1
<1>3. CASE stops # {}
  <2>1. \E j \in stops : \A i \in stops : j <= i
    <3>1. stops \in SUBSET Nat
      BY <1>1
    <3> HIDE DEF stops
    <3> QED BY <1>3, <3>1, Least
  <2>2. Min(stops) \in stops /\ \A i \in stops : Min(stops) <= i
    BY <2>1 DEF Min
  <2>3. n = Min(stops) - 1
    BY <1>3 DEF Passed
  <2> DEFINE least == Min(stops)
  <2> HIDE DEF least, n
  <2>4. least \in 1 .. Size - Cursor /\ ~Passes(least, index, time) /\ n = least - 1
    BY <1>1, <2>2, <2>3 DEF least
  <2>5. ASSUME NEW j \in 1 .. Size - Cursor, j < least PROVE Passes(j, index, time)
    <3>1. ~(least <= j)
      BY <1>1, <2>4, <2>5
    <3>2. j \notin stops
      BY <2>2, <3>1 DEF least
    <3> QED BY <1>1, <3>2
  <2>6. n \in 0 .. Size - Cursor /\ n + 1 = least
    BY <1>1, <2>4
  <2>7. \A j \in 1 .. n : Passes(j, index, time)
    BY <1>1, <2>4, <2>5
  <2>8. ~Passes(n + 1, index, time)
    BY <2>4, <2>6
  <2> QED BY <2>6, <2>7, <2>8 DEF n
<1> QED BY <1>2, <1>3

LEMMA RestOf ==
    ASSUME NEW S, NEW s \in Seq(S), NEW n \in 0 .. Len(s), NEW m \in Nat, m <= n
    PROVE  /\ SubSeq(s, m + 1, n) \in Seq(S) /\ Len(SubSeq(s, m + 1, n)) = n - m
           /\ \A i \in 1 .. n - m : SubSeq(s, m + 1, n)[i] = s[m + i]
<1> QED OBVIOUS

\* What a call that pulls m rows leaves in the buffer.
LEMMA LeftIs ==
    ASSUME CursorOK, NEW m \in 0 .. Size - Cursor, Take(m)
    PROVE  /\ taken' \in 0 .. Size /\ Cursor + m <= taken'
           /\ LeftInBuffer(m) = SubSeq(predictions, Cursor + m + 1, taken')
           /\ LeftInBuffer(m) \in Seq(Prediction)
           /\ Len(LeftInBuffer(m)) = taken' - (Cursor + m)
           /\ m > 0 => SubSeq(Ahead, 1, m) = SubSeq(predictions, Cursor + 1, Cursor + m)
<1>1. /\ Cursor \in Nat /\ Size \in Nat /\ Cursor <= Size /\ Len(buffer) \in Nat
      /\ taken = Cursor + Len(buffer) /\ taken <= Size /\ m \in Nat /\ Cursor + m <= Size
      /\ predictions \in Seq(Prediction) /\ buffer \in Seq(Prediction)
      /\ Size = Len(predictions)
  <2>1. /\ Cursor \in Nat /\ Size \in Nat /\ Cursor <= Size /\ Len(buffer) \in Nat
        /\ taken = Cursor + Len(buffer) /\ taken <= Size
    BY CursorType
  <2>2. m \in Nat /\ Cursor + m <= Size
    BY <2>1
  <2> QED BY <2>1, <2>2 DEF CursorOK, Size
<1>2. taken' = IF m > Len(buffer) THEN Cursor + m ELSE taken
  <2> DEFINE held == Len(buffer)
  <2>1. taken' = taken + (IF m > held THEN m - held ELSE 0)
    BY DEF Take
  <2>2. held \in Nat /\ m \in Nat /\ Cursor \in Nat /\ taken = Cursor + held
    BY <1>1
  <2> HIDE DEF held
  <2>3. taken' = IF m > held THEN Cursor + m ELSE taken
    BY ONLY <2>1, <2>2
  <2> QED BY <2>3 DEF held
<1>3. taken' \in 0 .. Size /\ Cursor + m <= taken'
  BY <1>1, <1>2
<1>4. LeftInBuffer(m) = SubSeq(predictions, Cursor + m + 1, taken')
  <2>1. CASE m < Len(buffer)
    <3>1. /\ Cursor + 1 \in 1 .. Len(predictions) /\ taken \in 1 .. Len(predictions)
          /\ m + 1 \in 1 .. taken - (Cursor + 1) + 1
          /\ Len(buffer) \in 1 .. taken - (Cursor + 1) + 1
          /\ (Cursor + 1) + (m + 1) - 1 = Cursor + m + 1
          /\ (Cursor + 1) + Len(buffer) - 1 = taken
      BY <1>1, <2>1
    <3>2. SubSeq(SubSeq(predictions, Cursor + 1, taken), m + 1, Len(buffer))
            = SubSeq(predictions, (Cursor + 1) + (m + 1) - 1, (Cursor + 1) + Len(buffer) - 1)
      BY <1>1, <3>1, SubSeqOfSubSeq
    <3>3. buffer = SubSeq(predictions, Cursor + 1, taken) /\ taken' = taken
      BY <1>1, <1>2, <2>1 DEF CursorOK
    <3> QED BY <3>1, <3>2, <3>3 DEF LeftInBuffer
  <2>2. CASE ~(m < Len(buffer))
    <3>1. taken' = Cursor + m
      BY <1>1, <1>2, <2>2
    <3>2. SubSeq(buffer, m + 1, Len(buffer)) = <<>>
      BY <1>1, <2>2, SubSeqEmpty
    <3>3. SubSeq(predictions, Cursor + m + 1, taken') = <<>>
      BY <1>1, <3>1, SubSeqEmpty
    <3> QED BY <3>2, <3>3 DEF LeftInBuffer
  <2> QED BY <2>1, <2>2
<1>5. /\ SubSeq(predictions, Cursor + m + 1, taken') \in Seq(Prediction)
      /\ Len(SubSeq(predictions, Cursor + m + 1, taken')) = taken' - (Cursor + m)
  <2>1. Cursor + m \in Nat /\ taken' \in 0 .. Len(predictions)
    BY <1>1, <1>3
  <2> QED BY <1>1, <1>3, <2>1, RestOf
<1>6. ASSUME m > 0
      PROVE  SubSeq(Ahead, 1, m) = SubSeq(predictions, Cursor + 1, Cursor + m)
  <2>1. /\ Cursor + 1 \in 1 .. Len(predictions) /\ Size \in 1 .. Len(predictions)
        /\ 1 \in 1 .. Size - (Cursor + 1) + 1 /\ m \in 1 .. Size - (Cursor + 1) + 1
        /\ (Cursor + 1) + 1 - 1 = Cursor + 1 /\ (Cursor + 1) + m - 1 = Cursor + m
    BY <1>1, <1>6
  <2>2. SubSeq(SubSeq(predictions, Cursor + 1, Size), 1, m)
          = SubSeq(predictions, (Cursor + 1) + 1 - 1, (Cursor + 1) + m - 1)
    BY <1>1, <2>1, SubSeqOfSubSeq
  <2> QED BY <2>1, <2>2, AheadIs
<1> QED BY <1>3, <1>4, <1>5, <1>6

\* The rows that pass continue the order behind the cursor.
LEMMA PassedInOrder ==
    ASSUME JoinInv, NEW index, NEW time, NEW n \in 0 .. Size - Cursor,
           \A j \in 1 .. n : Passes(j, index, time)
    PROVE  /\ InOrderUpTo(Cursor + n)
           /\ \A j \in 1 .. n : /\ predictions[Cursor + j].index <= index
                                /\ predictions[Cursor + j].time <= time
<1>1. /\ Cursor \in Nat /\ Size \in Nat /\ Cursor + n <= Size /\ n \in Nat
      /\ predictions \in Seq(Prediction) /\ Len(predictions) = Size
  BY CursorType DEF JoinInv, CursorOK, Size
<1>2. \A j \in 1 .. n : Ahead[j] = predictions[Cursor + j] /\ Passes(j, index, time)
  BY <1>1, AheadIs DEF JoinInv
<1>3. ASSUME NEW k \in 1 .. Cursor + n
      PROVE  predictions[k].inScope /\ (k > 1 => predictions[k - 1].index < predictions[k].index)
  <2>1. CASE k <= Cursor
    <3>1. k \in 1 .. Cursor
      BY <1>1, <2>1
    <3> QED BY <3>1 DEF JoinInv, BehindOK, InOrderUpTo
  <2>2. CASE k > Cursor
    <3> DEFINE j == k - Cursor
    <3>1. j \in 1 .. n /\ Cursor + j = k /\ j \in Nat
      BY <1>1, <2>2
    <3> HIDE DEF j
    <3>2. Ahead[j] = predictions[k] /\ KeyValid(j)
      BY <1>2, <3>1 DEF Passes
    <3>3. predictions[k].inScope
      BY <3>2 DEF KeyValid
    <3>4. ASSUME k > 1 PROVE Previous(j) = predictions[k - 1] /\ Previous(j) # None
      <4>1. k - 1 \in 1 .. Len(predictions)
        BY <1>1, <3>4
      <4>2. predictions[k - 1] # None
        BY <1>1, <4>1, JoinAssumption
      <4>3. CASE j = 1
        <5>1. Cursor = k - 1 /\ Cursor # 0
          BY <1>1, <3>1, <3>4, <4>3
        <5> QED BY <4>2, <4>3, <5>1 DEF Previous, JoinInv, BehindOK
      <4>4. CASE j # 1
        <5>1. j - 1 \in 1 .. n /\ Cursor + (j - 1) = k - 1
          BY <1>1, <3>1, <4>4
        <5> QED BY <1>2, <4>2, <4>4, <5>1 DEF Previous
      <4> QED BY <4>3, <4>4
    <3> QED BY <3>2, <3>3, <3>4 DEF KeyValid
  <2> QED BY <1>1, <2>1, <2>2
<1>4. InOrderUpTo(Cursor + n)
  BY <1>3 DEF InOrderUpTo
<1> QED BY <1>2, <1>4 DEF Passes, PayloadValid
LEMMA CursorMoves ==
    ASSUME CursorOK, NEW n \in 0 .. Size - Cursor, NEW m \in n .. Size - Cursor, Take(m),
           buffer' = SubSeq(predictions, Cursor + n + 1, taken'), predictions' = predictions
    PROVE  CursorOK' /\ Cursor' = Cursor + n /\ Size' = Size
<1>1. /\ Cursor \in Nat /\ Size \in Nat /\ Cursor <= Size
      /\ predictions \in Seq(Prediction) /\ Size = Len(predictions)
  BY CursorType DEF CursorOK, Size
<1>2. n \in Nat /\ m \in 0 .. Size - Cursor /\ Cursor + n <= Cursor + m
  BY <1>1
<1>3. taken' \in 0 .. Size /\ Cursor + m <= taken'
  BY <1>2, LeftIs
<1>4. Cursor + n \in Nat /\ Cursor + n <= taken' /\ taken' \in Nat
  BY <1>1, <1>2, <1>3
<1>5. buffer' \in Seq(Prediction) /\ Len(buffer') = taken' - (Cursor + n)
  BY <1>1, <1>3, <1>4, RestOf
<1>6. taken' - Len(buffer') = Cursor + n /\ Len(buffer') <= taken'
  BY <1>4, <1>5
<1>7. Cursor' = Cursor + n /\ Size' = Size
  BY <1>6 DEF Cursor, Size
<1> QED BY <1>1, <1>3, <1>5, <1>6, <1>7 DEF CursorOK

LEMMA RowTyped ==
    ASSUME predictions \in Seq(Prediction)
    PROVE  \A j \in 1 .. Size : /\ predictions[j] \in Prediction /\ predictions[j] # None
                                /\ predictions[j].index \in Nat /\ predictions[j].time \in Nat
<1> SUFFICES ASSUME NEW j \in 1 .. Size
             PROVE  /\ predictions[j] \in Prediction /\ predictions[j] # None
                    /\ predictions[j].index \in Nat /\ predictions[j].time \in Nat
  OBVIOUS
<1>1. predictions[j] \in Prediction
  BY DEF Size
<1> QED BY <1>1, JoinAssumption DEF Prediction

LEMMA OrderedUpTo ==
    ASSUME predictions \in Seq(Prediction), NEW n \in 0 .. Size, InOrderUpTo(n)
    PROVE  \A i, j \in 1 .. n : i <= j => predictions[i].index <= predictions[j].index
<1> DEFINE P(j) == \A i \in 1 .. j : predictions[i].index <= predictions[j].index
           Bad == {j \in 1 .. n : ~P(j)}
<1>1. /\ Size \in Nat /\ n \in Nat /\ \A j \in 1 .. n : predictions[j].index \in Nat
      /\ \A j \in 1 .. n : j > 1 => predictions[j - 1].index < predictions[j].index
  <2>1. Size \in Nat /\ n \in Nat /\ n <= Size
    BY DEF Size
  <2> QED BY <2>1, RowTyped DEF InOrderUpTo
<1>2. Bad = {}
  <2> SUFFICES ASSUME Bad # {} PROVE FALSE
    OBVIOUS
  <2>1. Bad \in SUBSET Nat
    BY <1>1
  <2>2. PICK j \in Bad : \A k \in Bad : j <= k
    <3> HIDE DEF Bad
    <3> QED BY <2>1, Least
  <2>3. j \in 1 .. n /\ ~P(j)
    OBVIOUS
  <2>4. PICK i \in 1 .. j : ~(predictions[i].index <= predictions[j].index)
    BY <2>3
  <2>5. i # j /\ i \in 1 .. j - 1 /\ j - 1 \in 1 .. n /\ j > 1
    BY <1>1, <2>3, <2>4
  <2>6. P(j - 1)
    <3>1. ~(j <= j - 1)
      BY <1>1, <2>3
    <3>2. j - 1 \notin Bad
      BY <2>2, <3>1
    <3> QED BY <2>5, <3>2
  <2>7. predictions[i].index <= predictions[j - 1].index
    BY <2>5, <2>6
  <2>8. predictions[j - 1].index < predictions[j].index
    BY <1>1, <2>3, <2>5
  <2>9. i \in 1 .. n
    BY <1>1, <2>3, <2>5
  <2>10. /\ predictions[i].index \in Nat /\ predictions[j].index \in Nat
         /\ predictions[j - 1].index \in Nat
    BY <1>1, <2>3, <2>5, <2>9
  <2> QED BY ONLY <2>4, <2>7, <2>8, <2>10
<1>3. \A j \in 1 .. n : P(j)
  BY <1>2
<1> QED BY <1>1, <1>3

\* A decision that succeeds gets the newest row not after it.
LEMMA AnsweredOK ==
    ASSUME JoinInv, NEW index \in Nat, NEW time \in Nat, NEW n \in 0 .. Size - Cursor,
           \A j \in 1 .. n : Passes(j, index, time), ~OutOfOrder(index, time),
           Cursor + n < Size => predictions[Cursor + n + 1].index > index,
           Answered(index, time, IF n = 0 THEN latest ELSE Ahead[n]),
           Cursor' = Cursor + n, Size' = Size, predictions' = predictions
    PROVE  BehindOK' /\ AnswerOK'
<1> DEFINE row == IF n = 0 THEN latest ELSE Ahead[n]
           c == Cursor + n
           key == [index |-> index, time |-> time]
<1>1. /\ Cursor \in Nat /\ Size \in Nat /\ c \in 0 .. Size /\ n \in Nat
      /\ predictions \in Seq(Prediction) /\ Len(predictions) = Size
      /\ Cursor <= c
  <2>1. Cursor \in Nat /\ Size \in Nat /\ Cursor <= Size
    BY CursorType DEF JoinInv
  <2>2. predictions \in Seq(Prediction) /\ Len(predictions) = Size
    BY DEF JoinInv, CursorOK, Size
  <2>3. n \in Nat /\ c \in 0 .. Size /\ Cursor <= c
    BY ONLY <2>1, n \in 0 .. Size - Cursor
  <2> QED BY <2>1, <2>2, <2>3
<1>2. /\ InOrderUpTo(c)
      /\ \A j \in 1 .. n : predictions[Cursor + j].index <= index
                             /\ predictions[Cursor + j].time <= time
  BY PassedInOrder
<1>3. row = IF c = 0 THEN None ELSE predictions[c]
  <2>1. CASE n = 0
    BY <1>1, <2>1 DEF JoinInv, BehindOK
  <2>2. CASE n # 0
    <3>1. n \in 1 .. Size - Cursor /\ c # 0
      BY <1>1, <2>2
    <3> QED BY <2>2, <3>1, AheadIs DEF JoinInv
  <2> QED BY <2>1, <2>2
<1>4. key \in Key /\ key # None /\ key.index = index /\ key.time = time
  BY JoinAssumption DEF Key
<1>5. /\ latest' = row /\ decided' = key
      /\ answer' = [key |-> key, row |-> row, failed |-> FALSE,
                    used |-> row # None /\ Fresh(row, time)]
  BY DEF Answered
<1>6. ASSUME NEW j \in 1 .. c
      PROVE  predictions[j].index <= index /\ predictions[j].time <= time
  <2>1. CASE j <= Cursor
    <3>1. j \in 1 .. Cursor /\ Cursor > 0
      BY <1>1, <2>1
    <3>2. /\ decided # None /\ decided \in Key
          /\ predictions[j].index <= decided.index /\ predictions[j].time <= decided.time
      BY <3>1 DEF JoinInv, BehindOK
    <3>3. decided.index <= index /\ decided.time <= time
      BY <3>2 DEF OutOfOrder
    <3>4. predictions[j].index \in Nat /\ predictions[j].time \in Nat
      <4>1. j \in 1 .. Size
        BY <1>1
      <4> QED BY <1>1, <4>1, RowTyped
    <3> QED BY <3>2, <3>3, <3>4 DEF Key
  <2>2. CASE j > Cursor
    <3>1. j - Cursor \in 1 .. n /\ Cursor + (j - Cursor) = j
      BY <1>1, <2>2
    <3> QED BY <1>2, <3>1
  <2> QED BY <1>1, <2>1, <2>2
<1> HIDE DEF row, c, key
<1>7. BehindOK'
  <2>1. Cursor' = c
    BY DEF c
  <2>2. c < Size => predictions[c + 1].index > index
    BY DEF c
  <2>3. InOrderUpTo(Cursor)'
    BY <1>2, <2>1 DEF InOrderUpTo
  <2> QED BY <1>1, <1>3, <1>4, <1>5, <1>6, <2>1, <2>2, <2>3 DEF BehindOK
<1>8. ASSUME NEW k \in DOMAIN predictions, InOrderUpTo(k), predictions[k].index <= index
      PROVE  row # None /\ row.index >= predictions[k].index
  <2>1. k \in 1 .. Size
    BY <1>1
  <2>2. k <= c
    <3> SUFFICES ASSUME k > c PROVE FALSE
      BY <1>1, <2>1
    <3>1. c < Size /\ c + 1 \in 1 .. k /\ k \in 0 .. Size
      BY <1>1, <2>1
    <3>2. predictions[c + 1].index <= predictions[k].index
      BY <1>1, <1>8, <2>1, <3>1, OrderedUpTo
    <3>3. predictions[c + 1].index > index
      BY <3>1 DEF c
    <3>4. predictions[c + 1].index \in Nat /\ predictions[k].index \in Nat
      <4>1. c + 1 \in 1 .. Size
        BY <1>1, <3>1
      <4> QED BY <1>1, <2>1, <4>1, RowTyped
    <3> QED BY <1>8, <3>2, <3>3, <3>4
  <2>3. c \in 1 .. Size /\ k \in 1 .. c /\ c # 0 /\ c \in 1 .. c
    BY <1>1, <2>1, <2>2
  <2>4. row = predictions[c] /\ predictions[c] \in Prediction /\ predictions[k] \in Prediction
    BY <1>1, <1>3, <2>1, <2>3
  <2>5. predictions[k].index <= predictions[c].index
    BY <1>1, <1>2, <2>3, OrderedUpTo
  <2>6. row # None
    BY <2>4, JoinAssumption
  <2> QED BY <2>4, <2>5, <2>6 DEF Prediction
<1>9. row # None => row.time \in Nat
  <2>1. c # 0 => c \in 1 .. Size
    BY <1>1
  <2> QED BY <1>1, <1>3, <2>1, RowTyped
<1>10. AnswerOK'
  <2>1. /\ ~answer'.failed /\ answer'.key = key /\ answer'.row = row
        /\ answer'.used <=> row # None /\ Fresh(row, time)
    BY <1>5
  <2>2. \A k \in DOMAIN predictions' : InOrderUpTo(k)' /\ predictions'[k].index <= index =>
           row # None /\ row.index >= predictions'[k].index
    BY <1>8 DEF InOrderUpTo
  <2>3. row # None /\ Fresh(row, time) => time <= row.time + MaxAge
    BY <1>9, JoinAssumption DEF Fresh
  <2>4. row # None /\ ~Fresh(row, time) => time > row.time + MaxAge
    BY <1>9, JoinAssumption DEF Fresh
  <2> QED BY <1>4, <2>1, <2>2, <2>3, <2>4 DEF AnswerOK
<1> QED BY <1>7, <1>10

\* A refused call leaves the cursor where it was.
LEMMA RefusedBehind ==
    ASSUME JoinInv, NEW index, NEW time, Refused(index, time),
           Cursor' = Cursor, Size' = Size, predictions' = predictions
    PROVE  BehindOK'
<1> QED BY DEF JoinInv, BehindOK, Refused, InOrderUpTo

LEMMA RefusedOK ==
    ASSUME NEW index, NEW time, Refused(index, time), predictions' = predictions,
           \/ OutOfOrder(index, time)
           \/ \E k \in DOMAIN predictions :
                 \/ ~InOrderUpTo(k) \/ ~predictions[k].valid
                 \/ k > 1 /\ predictions[k - 1].time > predictions[k].time
                 \/ predictions[k].index <= index /\ predictions[k].time > time
    PROVE  AnswerOK'
<1>1. answer'.failed /\ answer'.key.index = index /\ answer'.key.time = time
  BY DEF Refused
<1>2. OutOfOrder(index, time) => OutOfOrder(index, time)'
  BY DEF OutOfOrder, Refused
<1>3. \A k : InOrderUpTo(k)' <=> InOrderUpTo(k)
  BY DEF InOrderUpTo
<1> QED BY <1>1, <1>2, <1>3 DEF AnswerOK, OutOfOrder
\* A row that is neither passed nor of a later message is at fault.
LEMMA StopIsFault ==
    ASSUME JoinInv, NEW index \in Nat, NEW time \in Nat, NEW j \in 1 .. Size - Cursor,
           ~Passes(j, index, time), ~Future(j, index)
    PROVE  \E k \in DOMAIN predictions :
              \/ ~InOrderUpTo(k) \/ ~predictions[k].valid
              \/ k > 1 /\ predictions[k - 1].time > predictions[k].time
              \/ predictions[k].index <= index /\ predictions[k].time > time
<1> DEFINE k == Cursor + j
<1>1. /\ Cursor \in Nat /\ Size \in Nat /\ predictions \in Seq(Prediction)
      /\ Len(predictions) = Size /\ k \in 1 .. Size /\ k \in Nat /\ j \in Nat
      /\ DOMAIN predictions = 1 .. Size
  <2>1. CursorOK /\ predictions \in Seq(Prediction) /\ Len(predictions) = Size
    BY DEF JoinInv, CursorOK, Size
  <2>2. Cursor \in Nat /\ Size \in Nat /\ Cursor <= Size
    BY <2>1, CursorType
  <2>3. k \in 1 .. Size /\ k \in Nat /\ j \in Nat
    BY <2>2
  <2> QED BY <2>1, <2>2, <2>3
<1>2. Ahead[j] = predictions[k]
  BY AheadIs DEF JoinInv
<1>3. ASSUME Previous(j) # None
      PROVE  k > 1 /\ k - 1 \in 1 .. Size /\ Previous(j) = predictions[k - 1]
  <2>1. CASE j = 1
    <3>1. Previous(j) = latest
      BY <2>1 DEF Previous
    <3>2. Cursor # 0
      BY <1>3, <3>1 DEF JoinInv, BehindOK
    <3>3. k > 1 /\ k - 1 \in 1 .. Size /\ k - 1 = Cursor
      BY <1>1, <2>1, <3>2
    <3> QED BY <3>1, <3>2, <3>3 DEF JoinInv, BehindOK
  <2>2. CASE j # 1
    <3>1. j - 1 \in 1 .. Size - Cursor /\ Cursor + (j - 1) = k - 1 /\ k > 1
          /\ k - 1 \in 1 .. Size
      BY <1>1, <2>2
    <3>2. Previous(j) = Ahead[j - 1]
      BY <2>2 DEF Previous
    <3> QED BY <3>1, <3>2, AheadIs DEF JoinInv
  <2> QED BY <2>1, <2>2
<1>4. predictions[k].index \in Nat /\ predictions[k].time \in Nat
  BY <1>1, RowTyped
<1> HIDE DEF k
<1>5. CASE ~KeyValid(j)
  <2>1. ~predictions[k].inScope
          \/ (k > 1 /\ k - 1 \in 1 .. Size /\ ~(predictions[k - 1].index < predictions[k].index))
    BY <1>2, <1>3, <1>5 DEF KeyValid
  <2>2. k \in 1 .. k
    BY <1>1
  <2>3. ~InOrderUpTo(k)
    BY <2>1, <2>2 DEF InOrderUpTo
  <2> QED BY <1>1, <2>3
<1>6. CASE KeyValid(j)
  <2>1. predictions[k].index <= index
    BY <1>2, <1>4, <1>6 DEF Future
  <2>2. ~PayloadValid(j, time)
    BY <1>2, <1>6, <2>1 DEF Passes
  <2>3. \/ ~predictions[k].valid
        \/ k > 1 /\ k - 1 \in 1 .. Size /\ ~(predictions[k - 1].time <= predictions[k].time)
        \/ ~(predictions[k].time <= time)
    BY <1>2, <1>3, <2>2 DEF PayloadValid
  <2>4. CASE k > 1 /\ k - 1 \in 1 .. Size /\ ~(predictions[k - 1].time <= predictions[k].time)
    <3>1. predictions[k - 1].time \in Nat
      BY <1>1, <2>4, RowTyped
    <3>2. predictions[k - 1].time > predictions[k].time
      BY <1>4, <2>4, <3>1
    <3> QED BY <1>1, <2>4, <3>2
  <2>5. CASE ~(predictions[k].time <= time)
    BY <1>1, <1>4, <2>1, <2>5
  <2> QED BY <1>1, <2>3, <2>4, <2>5
<1> QED BY <1>5, <1>6

LEMMA FutureIsLater ==
    ASSUME JoinInv, NEW index, NEW n \in 0 .. Size - Cursor, n < Size - Cursor,
           Future(n + 1, index)
    PROVE  predictions[Cursor + n + 1].index > index
<1>1. /\ n + 1 \in 1 .. Size - Cursor /\ Cursor + (n + 1) = Cursor + n + 1
  BY CursorType DEF JoinInv
<1> QED BY <1>1, AheadIs DEF JoinInv, Future

LEMMA SelectKeeps ==
    ASSUME JoinInv, NEW index \in Nat, NEW time \in Nat, Select(index, time)
    PROVE  JoinInv'
<1> DEFINE n == Passed(index, time)
           newest == IF n = 0 THEN latest ELSE Ahead[n]
<1>1. /\ CursorOK /\ Cursor \in Nat /\ Size \in Nat /\ Cursor <= Size
      /\ Len(Ahead) = Size - Cursor /\ predictions \in Seq(Prediction)
      /\ Len(predictions) = Size /\ predictions' = predictions
  <2>1. /\ CursorOK /\ predictions \in Seq(Prediction) /\ Len(predictions) = Size
        /\ predictions' = predictions
    BY DEF JoinInv, CursorOK, Select, Size
  <2> QED BY <2>1, CursorType, AheadIs
<1>2. /\ n \in 0 .. Size - Cursor
      /\ \A j \in 1 .. n : Passes(j, index, time)
      /\ n < Size - Cursor => ~Passes(n + 1, index, time)
  BY <1>1, PassedIs
<1>3. \/ OutOfOrder(index, time) /\ Refused(index, time) /\ UNCHANGED <<taken, buffer>>
      \/ /\ ~OutOfOrder(index, time) /\ n = Len(Ahead)
         /\ Answered(index, time, newest)
         /\ Take(n) /\ buffer' = <<>>
      \/ /\ ~OutOfOrder(index, time) /\ n < Len(Ahead) /\ Future(n + 1, index)
         /\ Answered(index, time, newest)
         /\ Take(n + 1) /\ buffer' = <<Ahead[n + 1]>> \o LeftInBuffer(n + 1)
      \/ /\ ~OutOfOrder(index, time) /\ n < Len(Ahead) /\ ~Future(n + 1, index)
         /\ Refused(index, time)
         /\ Take(n + 1) /\ buffer' = Restored(n + 1)
  BY DEF Select
<1>4. CASE OutOfOrder(index, time) /\ Refused(index, time) /\ UNCHANGED <<taken, buffer>>
  <2>1. CursorOK' /\ Cursor' = Cursor /\ Size' = Size
    BY <1>1, <1>4 DEF CursorOK, Cursor, Size
  <2> QED BY <1>1, <1>4, <2>1, RefusedBehind, RefusedOK DEF JoinInv
<1>5. CASE /\ ~OutOfOrder(index, time) /\ n = Len(Ahead)
           /\ Answered(index, time, newest)
           /\ Take(n) /\ buffer' = <<>>
  <2> HIDE DEF n
  <2>1. n = Size - Cursor /\ n \in n .. Size - Cursor /\ Cursor + n = Size
    BY <1>1, <1>5
  <2>2. taken' \in 0 .. Size /\ Cursor + n <= taken'
    BY <1>1, <1>2, <1>5, LeftIs
  <2>3. buffer' = SubSeq(predictions, Cursor + n + 1, taken')
    <3>1. taken' < Cursor + n + 1 /\ Cursor + n + 1 \in Int /\ taken' \in Int
      BY <1>1, <2>1, <2>2
    <3> QED BY <1>5, <3>1, SubSeqEmpty
  <2>4. CursorOK' /\ Cursor' = Cursor + n /\ Size' = Size
    BY <1>1, <1>2, <1>5, <2>1, <2>3, CursorMoves
  <2>5. ~(Cursor + n < Size)
    BY <1>1, <2>1
  <2>6. BehindOK' /\ AnswerOK'
    BY <1>1, <1>2, <1>5, <2>4, <2>5, AnsweredOK
  <2> QED BY <2>4, <2>6 DEF JoinInv
<1>6. CASE /\ ~OutOfOrder(index, time) /\ n < Len(Ahead) /\ Future(n + 1, index)
           /\ Answered(index, time, newest)
           /\ Take(n + 1) /\ buffer' = <<Ahead[n + 1]>> \o LeftInBuffer(n + 1)
  <2> HIDE DEF n
  <2>1. n < Size - Cursor /\ n + 1 \in 0 .. Size - Cursor /\ n + 1 \in n .. Size - Cursor
        /\ n + 1 \in 1 .. Size - Cursor /\ Cursor + (n + 1) = Cursor + n + 1
    BY <1>1, <1>2, <1>6
  <2>2. /\ taken' \in 0 .. Size /\ Cursor + n + 1 <= taken'
        /\ LeftInBuffer(n + 1) = SubSeq(predictions, (Cursor + n + 1) + 1, taken')
    BY <1>1, <1>6, <2>1, LeftIs
  <2>3. buffer' = SubSeq(predictions, Cursor + n + 1, taken')
    <3>1. Cursor + n + 1 \in 1 .. Len(predictions) /\ taken' \in Cursor + n + 1 .. Len(predictions)
      BY <1>1, <1>2, <2>1, <2>2
    <3>2. Ahead[n + 1] = predictions[Cursor + n + 1]
      BY <1>1, <2>1, AheadIs
    <3> QED BY <1>1, <1>6, <2>2, <3>1, <3>2, SubSeqRecursiveFirst
  <2>4. CursorOK' /\ Cursor' = Cursor + n /\ Size' = Size
    BY <1>1, <1>2, <1>6, <2>1, <2>3, CursorMoves
  <2>5. predictions[Cursor + n + 1].index > index
    BY <1>2, <1>6, <2>1, FutureIsLater
  <2>6. BehindOK' /\ AnswerOK'
    BY <1>1, <1>2, <1>6, <2>4, <2>5, AnsweredOK
  <2> QED BY <2>4, <2>6 DEF JoinInv
<1>7. CASE /\ ~OutOfOrder(index, time) /\ n < Len(Ahead) /\ ~Future(n + 1, index)
           /\ Refused(index, time)
           /\ Take(n + 1) /\ buffer' = Restored(n + 1)
  <2> HIDE DEF n
  <2>1. n < Size - Cursor /\ n + 1 \in 0 .. Size - Cursor /\ n + 1 > 0
        /\ n + 1 \in 1 .. Size - Cursor /\ 0 \in 0 .. Size - Cursor
    BY <1>1, <1>2, <1>7
  <2>2. /\ taken' \in 0 .. Size /\ Cursor + (n + 1) <= taken'
        /\ LeftInBuffer(n + 1) = SubSeq(predictions, Cursor + (n + 1) + 1, taken')
        /\ SubSeq(Ahead, 1, n + 1) = SubSeq(predictions, Cursor + 1, Cursor + (n + 1))
    BY <1>1, <1>7, <2>1, LeftIs
  <2>3. buffer' = SubSeq(predictions, Cursor + 0 + 1, taken')
    <3> DEFINE k == Cursor + (n + 1)
    <3>1. /\ Cursor + 1 \in 1 .. Len(predictions) + 1 /\ Cursor + 0 + 1 = Cursor + 1
          /\ k \in (Cursor + 1) - 1 .. Len(predictions) /\ taken' \in k .. Len(predictions)
      BY <1>1, <1>2, <2>1, <2>2
    <3>2. SubSeq(predictions, Cursor + 1, k) \o SubSeq(predictions, k + 1, taken')
            = SubSeq(predictions, Cursor + 1, taken')
      <4> HIDE DEF k
      <4> QED BY <1>1, <3>1, ConcatAdjacentSubSeq
    <3> QED BY <1>7, <2>2, <3>1, <3>2 DEF Restored
  <2>4. CursorOK' /\ Cursor' = Cursor + 0 /\ Size' = Size
    BY <1>1, <1>7, <2>1, <2>3, CursorMoves
  <2>5. Cursor' = Cursor
    BY <1>1, <2>4
  <2>6. \E k \in DOMAIN predictions :
           \/ ~InOrderUpTo(k) \/ ~predictions[k].valid
           \/ k > 1 /\ predictions[k - 1].time > predictions[k].time
           \/ predictions[k].index <= index /\ predictions[k].time > time
    BY <1>2, <1>7, <2>1, StopIsFault
  <2>7. BehindOK'
    BY <1>1, <1>7, <2>4, <2>5, RefusedBehind
  <2>8. AnswerOK'
    BY <1>1, <1>7, <2>6, RefusedOK
  <2> QED BY <2>4, <2>7, <2>8 DEF JoinInv
<1> HIDE DEF n, newest
<1> QED BY <1>3, <1>4, <1>5, <1>6, <1>7

LEMMA JoinStarts == JoinInit => JoinInv
<1> SUFFICES ASSUME JoinInit PROVE JoinInv
  OBVIOUS
<1>1. /\ predictions \in Seq(Prediction) /\ taken = 0 /\ buffer = <<>> /\ latest = None
      /\ decided = None /\ answer = None
  BY JoinAssumption DEF JoinInit, JoinStart
<1>2. Cursor = 0 /\ Len(predictions) \in Nat /\ buffer \in Seq(Prediction) /\ Len(buffer) = 0
  <2>1. buffer \in Seq(Prediction) /\ Len(buffer) = 0
    BY <1>1
  <2>2. Cursor = 0
    <3> DEFINE held == Len(buffer)
    <3>1. taken = 0 /\ held = 0
      BY <1>1, <2>1
    <3> HIDE DEF held
    <3>2. taken - held = 0
      BY ONLY <3>1
    <3> QED BY <3>2 DEF Cursor, held
  <2> QED BY <1>1, <2>1, <2>2
<1>3. SubSeq(predictions, Cursor + 1, taken) = <<>>
  BY <1>1, <1>2, SubSeqEmpty
<1>4. CursorOK
  BY <1>1, <1>2, <1>3 DEF CursorOK
<1> QED BY <1>1, <1>2, <1>4 DEF JoinInv, BehindOK, AnswerOK, InOrderUpTo

LEMMA JoinKept == JoinInv /\ [JoinNext]_joinVars => JoinInv'
<1>1. ASSUME JoinInv, UNCHANGED joinVars PROVE JoinInv'
  BY <1>1 DEF joinVars, JoinInv, CursorOK, BehindOK, AnswerOK, Cursor, Size, InOrderUpTo, OutOfOrder
<1>2. ASSUME JoinInv, JoinNext PROVE JoinInv'
  <2>1. PICK index \in DecisionIndexes, time \in DecisionTimes : Select(index, time)
    BY <1>2 DEF JoinNext
  <2>2. index \in Nat /\ time \in Nat
    BY JoinAssumption
  <2> QED BY <1>2, <2>1, <2>2, SelectKeeps
<1> QED BY <1>1, <1>2

LEMMA JoinInvIsEnough == JoinInv => UsesNewestPrediction
<1> SUFFICES ASSUME JoinInv PROVE UsesNewestPrediction
  OBVIOUS
<1>1. /\ Ahead = SubSeq(predictions, Cursor + 1, Size) /\ Behind = Cursor
      /\ Len(Ahead) = Size - Cursor /\ Size = Len(predictions)
      /\ Cursor \in Nat /\ Size \in Nat /\ Cursor <= Size
  BY AheadIs, CursorType DEF JoinInv, Size
<1>2. ASSUME Ahead # <<>> PROVE Cursor < Size /\ Ahead[1] = predictions[Cursor + 1]
  <2>1. Size # Cursor
    BY <1>1, <1>2, SubSeqEmpty
  <2>2. Cursor < Size /\ 1 \in 1 .. Size - Cursor
    BY <1>1, <2>1
  <2> QED BY <2>2, AheadIs DEF JoinInv
<1> QED BY <1>1, <1>2 DEF JoinInv, BehindOK, AnswerOK, UsesNewestPrediction

(* For any stream, decisions and age: however decisions and errors follow   *)
(* each other, the join loses and repeats no row, and a decision gets the   *)
(* newest row that was known to it (CausalPredictionJoin.select).           *)
THEOREM JoinUsesNewest == JoinSpec => []UsesNewestPrediction
<1> QED BY JoinStarts, JoinKept, JoinInvIsEnough, PTL DEF JoinSpec

-----------------------------------------------------------------------------
(* StrategyQuotes: the window is the part of the observed past it stands for. *)

Step2(obs, k) == Mid2(obs[k]) - Mid2(obs[k - 1])

\* The change that observation k ends.
ChangeAt(obs, k) ==
    [time |-> obs[k].time, index |-> obs[k].index, square |-> Square(Step2(obs, k))]

InWindow(obs, time) == {k \in 2 .. Len(obs) : obs[k].time > time - Window}

ObservedOK(obs) ==
    /\ obs \in Seq(Quote)
    /\ \A i, j \in 1 .. Len(obs) :
          i < j => obs[i].time <= obs[j].time /\ obs[i].index < obs[j].index
    /\ \A i \in 1 .. Len(obs) : obs[i].bid <= obs[i].ask /\ Mid2(obs[i]) > 0

WindowOK(obs, first, last, kept) ==
    /\ obs = <<>> => last = Missing /\ first = Missing /\ kept = {}
    /\ obs # <<>> => /\ last = obs[Len(obs)] /\ first = obs[1].time
                     /\ kept = {ChangeAt(obs, k) : k \in InWindow(obs, last.time)}

QuotesInv ==
    ObservedOK(observed) /\ WindowOK(observed, firstTime, best, changes) /\ DecisionsAreCausal

LEMMA ObservedTyped ==
    ASSUME NEW obs, ObservedOK(obs)
    PROVE  /\ Len(obs) \in Nat
           /\ \A k \in 1 .. Len(obs) :
                 /\ obs[k] \in Quote /\ obs[k] # Missing
                 /\ obs[k].time \in Nat /\ obs[k].index \in Nat
                 /\ obs[k].bid \in Nat /\ obs[k].ask \in Nat
                 /\ Mid2(obs[k]) \in Nat
<1>1. Len(obs) \in Nat
  BY DEF ObservedOK
<1>2. ASSUME NEW k \in 1 .. Len(obs)
      PROVE  /\ obs[k] \in Quote /\ obs[k] # Missing
             /\ obs[k].time \in Nat /\ obs[k].index \in Nat
             /\ obs[k].bid \in Nat /\ obs[k].ask \in Nat
             /\ Mid2(obs[k]) \in Nat
  <2>1. obs[k] \in Quote
    BY DEF ObservedOK
  <2>2. /\ obs[k].time \in Nat /\ obs[k].index \in Nat
        /\ obs[k].bid \in Nat /\ obs[k].ask \in Nat
    BY <2>1 DEF Quote
  <2>3. obs[k] # Missing
    BY <2>1, QuotesAssumption
  <2>4. Mid2(obs[k]) \in Nat
    BY <2>2 DEF Mid2
  <2> QED BY <2>1, <2>2, <2>3, <2>4
<1> QED BY <1>1, <1>2

Numbers(q, I, Z) ==
    /\ \A i, j \in I : q[i] = q[j] => i = j
    /\ \A z : z \in Z <=> \E i \in I : z = q[i]

Valued(g, f, q, I) == \A i \in I : g[i] = f[q[i]] /\ f[q[i]] \in Int

LEMMA SumOverImage ==
    ASSUME NEW I, IsFiniteSet(I), NEW q, NEW f, NEW g, NEW Z, Numbers(q, I, Z), Valued(g, f, q, I)
    PROVE  SumFunctionOnSet(g, I) = SumFunctionOnSet(f, Z)
<1>1. Z = {q[i] : i \in I}
  BY DEF Numbers
<1>2. SumFunctionOnSet(g, I) = SumFunctionOnSet(f, {q[i] : i \in I})
  BY SumReindexed DEF Numbers, Valued
<1> QED BY <1>1, <1>2

\* The window, made of changes, sums as the observations it stands for do.
LEMMA SumOfChanges ==
    ASSUME NEW obs, ObservedOK(obs), NEW kept, NEW K \in SUBSET (2 .. Len(obs)), NEW ended \in SUBSET K,
           kept = {ChangeAt(obs, k) : k \in K}
    PROVE  SumFunctionOnSet([c \in kept |-> c.square], {ChangeAt(obs, k) : k \in ended})
             = SumFunctionOnSet([k \in ended |-> Square(Step2(obs, k))], ended)
<1> DEFINE f == [c \in kept |-> c.square]
           g == [k \in ended |-> Square(Step2(obs, k))]
           q == [k \in ended |-> ChangeAt(obs, k)]
<1>1. Len(obs) \in Nat
  BY ObservedTyped
<1>2. IsFiniteSet(ended)
  <2>1. IsFiniteSet(2 .. Len(obs))
    BY <1>1, FS_Interval
  <2> QED BY <2>1, FS_Subset
<1>3. \A i, j \in ended : q[i] = q[j] => i = j
  <2> SUFFICES ASSUME NEW i \in ended, NEW j \in ended, q[i] = q[j] PROVE i = j
    OBVIOUS
  <2>1. /\ i \in 1 .. Len(obs) /\ j \in 1 .. Len(obs) /\ i \in Nat /\ j \in Nat
        /\ obs[i].index \in Nat /\ obs[j].index \in Nat
    BY <1>1, ObservedTyped
  <2>2. obs[i].index = obs[j].index
    BY DEF ChangeAt
  <2>3. ~(i < j) /\ ~(j < i)
    BY <2>1, <2>2 DEF ObservedOK
  <2> QED BY <2>1, <2>3
<1>4. ASSUME NEW k \in ended PROVE g[k] = f[q[k]] /\ f[q[k]] \in Int
  <2>1. ChangeAt(obs, k) \in kept /\ ChangeAt(obs, k).square = Square(Step2(obs, k))
    BY DEF ChangeAt
  <2>2. Step2(obs, k) \in Int
    <3>1. k \in 1 .. Len(obs) /\ k - 1 \in 1 .. Len(obs)
      BY <1>1
    <3> QED BY <3>1, ObservedTyped DEF Step2
  <2>3. Square(Step2(obs, k)) \in Int
    BY <2>2 DEF Square
  <2> QED BY <2>1, <2>3

<1>5. \A z : z \in {ChangeAt(obs, k) : k \in ended} <=> \E k \in ended : z = q[k]
  BY DEF q
<1> DEFINE Z == {ChangeAt(obs, k) : k \in ended}
<1> HIDE DEF f, g, q, Z
<1>6. SumFunctionOnSet(g, ended) = SumFunctionOnSet(f, Z)
  <2>1. \A z : z \in Z <=> \E k \in ended : z = q[k]
    BY <1>5 DEF Z
  <2>2. Numbers(q, ended, Z)
    BY <1>3, <2>1 DEF Numbers
  <2>3. Valued(g, f, q, ended)
    BY <1>4 DEF Valued
  <2> QED BY ONLY <1>2, <2>2, <2>3, SumOverImage
<1> QED BY <1>6 DEF f, g, Z

\* The estimate that the whole past gives.
TrailingEstimate(obs, time) ==
    LET elapsed == Min({Window, time - obs[1].time})
        ended == InWindow(obs, time)
    IN  IF elapsed = 0 THEN Missing
        ELSE [elapsed |-> elapsed,
              sum |-> SumFunctionOnSet([k \in ended |-> Square(Step2(obs, k))], ended)]

LEMMA EstimateIs ==
    ASSUME NEW obs, ObservedOK(obs), obs # <<>>, NEW first, NEW quote, NEW kept,
           WindowOK(obs, first, quote, kept), NEW index \in Nat, NEW time \in Nat,
           time > quote.time \/ (time = quote.time /\ index >= quote.index)
    PROVE  Estimate(first, kept, index, time) = TrailingEstimate(obs, time)
<1> DEFINE last == obs[Len(obs)]
           K == InWindow(obs, last.time)
           ended == InWindow(obs, time)
           elapsed == Min({Window, time - obs[1].time})
           eligible == {c \in kept : /\ c.time > time - Window
                                     /\ c.time < time \/ (c.time = time /\ c.index <= index)}
<1>1. /\ Len(obs) \in Nat /\ Len(obs) \in 1 .. Len(obs) /\ 1 \in 1 .. Len(obs)
      /\ quote = last /\ first = obs[1].time /\ kept = {ChangeAt(obs, k) : k \in K}
      /\ last.time \in Nat /\ last.index \in Nat /\ obs[1].time \in Nat
      /\ Window \in Nat /\ Window > 0
  <2>1. Len(obs) \in Nat /\ Len(obs) \in 1 .. Len(obs) /\ 1 \in 1 .. Len(obs)
    BY ObservedTyped
  <2> QED BY <2>1, ObservedTyped, QuotesAssumption DEF WindowOK
<1>2. time > last.time \/ (time = last.time /\ index >= last.index)
  BY <1>1
<1>3. \A k \in 1 .. Len(obs) : /\ obs[k].time \in Nat /\ obs[k].index \in Nat
                           /\ obs[k].time <= last.time /\ obs[k].index <= last.index
  <2> SUFFICES ASSUME NEW k \in 1 .. Len(obs)
               PROVE  /\ obs[k].time \in Nat /\ obs[k].index \in Nat
                      /\ obs[k].time <= last.time /\ obs[k].index <= last.index
    OBVIOUS
  <2>1. obs[k].time \in Nat /\ obs[k].index \in Nat
    BY ObservedTyped
  <2>2. CASE k = Len(obs)
    BY <2>1, <2>2
  <2>3. CASE k # Len(obs)
    <3>1. k < Len(obs)
      BY <1>1, <2>3
    <3>2. obs[k].time <= last.time /\ obs[k].index < last.index
      BY <1>1, <3>1 DEF ObservedOK
    <3> QED BY <1>1, <2>1, <3>2
  <2> QED BY <2>2, <2>3
<1>4. ended \in SUBSET K /\ K \in SUBSET (2 .. Len(obs))
  <2>1. ASSUME NEW k \in 2 .. Len(obs), obs[k].time > time - Window
        PROVE  obs[k].time > last.time - Window
    <3>1. k \in 1 .. Len(obs)
      BY <1>1
    <3>2. obs[k].time \in Nat
      BY <1>3, <3>1
    <3> QED BY <1>1, <1>2, <2>1, <3>2
  <2> QED BY <2>1 DEF InWindow
<1>5. eligible = {ChangeAt(obs, k) : k \in ended}
  <2>1. ASSUME NEW k \in K
        PROVE  /\ ChangeAt(obs, k).time = obs[k].time /\ ChangeAt(obs, k).index = obs[k].index
               /\ obs[k].time < time \/ (obs[k].time = time /\ obs[k].index <= index)
               /\ k \in ended <=> obs[k].time > time - Window
    <3>1. k \in 2 .. Len(obs) /\ k \in 1 .. Len(obs)
      BY <1>1, <1>4
    <3>2. /\ obs[k].time \in Nat /\ obs[k].index \in Nat
          /\ obs[k].time <= last.time /\ obs[k].index <= last.index
      BY <1>3, <3>1
    <3>3. obs[k].time < time \/ (obs[k].time = time /\ obs[k].index <= index)
      BY <1>1, <1>2, <3>2
    <3> QED BY <3>1, <3>3 DEF ChangeAt, InWindow
  <2> HIDE DEF K, ended
  <2> QED BY <1>1, <1>4, <2>1
<1>6. SumFunctionOnSet([c \in kept |-> c.square], eligible)
        = SumFunctionOnSet([k \in ended |-> Square(Step2(obs, k))], ended)
  <2> HIDE DEF K, ended, eligible
  <2> QED BY <1>1, <1>4, <1>5, SumOfChanges
<1>7. elapsed \in Nat
  <2>1. time - obs[1].time \in Nat
    BY <1>1, <1>2, <1>3
  <2> QED BY <1>1, <2>1, MinOfTwo
<1>8. Estimate(first, kept, index, time)
        = IF elapsed <= 0 THEN Missing
          ELSE [sum |-> SumFunctionOnSet([c \in kept |-> c.square], eligible),
                elapsed |-> elapsed]
  BY <1>1 DEF Estimate
<1> HIDE DEF elapsed, eligible
<1>9. elapsed <= 0 <=> elapsed = 0
  BY <1>7
<1> HIDE DEF ended
<1> QED BY <1>6, <1>8, <1>9 DEF TrailingEstimate, elapsed, ended
LEMMA OneMore ==
    ASSUME NEW obs, ObservedOK(obs), NEW quote \in Quote
    PROVE  /\ Append(obs, quote) \in Seq(Quote) /\ Len(Append(obs, quote)) = Len(obs) + 1
           /\ Append(obs, quote)[Len(obs) + 1] = quote /\ Append(obs, quote) # <<>>
           /\ \A i \in 1 .. Len(obs) : Append(obs, quote)[i] = obs[i]
           /\ Len(obs) \in Nat /\ (obs # <<>> => Len(obs) \in 1 .. Len(obs))
<1>1. obs \in Seq(Quote)
  BY DEF ObservedOK
<1> QED BY <1>1, AppendProperties

\* A quote that follows the last one in source order.
Follows(obs, quote) ==
    /\ quote \in Quote /\ quote.bid <= quote.ask /\ Mid2(quote) > 0
    /\ obs # <<>> => quote.index > obs[Len(obs)].index /\ quote.time >= obs[Len(obs)].time

LEMMA ObservedMore ==
    ASSUME NEW obs, ObservedOK(obs), NEW quote, Follows(obs, quote)
    PROVE  ObservedOK(Append(obs, quote))
<1> DEFINE more == Append(obs, quote)
           n == Len(obs)
<1>1. /\ more \in Seq(Quote) /\ Len(more) = n + 1 /\ more[n + 1] = quote /\ n \in Nat
      /\ \A i \in 1 .. n : more[i] = obs[i]
      /\ quote.time \in Nat /\ quote.index \in Nat
  BY OneMore DEF Follows, Quote
<1> HIDE DEF more
<1>2. ASSUME NEW i \in 1 .. n + 1, NEW j \in 1 .. n + 1, i < j
      PROVE  more[i].time <= more[j].time /\ more[i].index < more[j].index
  <2>1. i \in 1 .. n /\ more[i] = obs[i] /\ obs[i].time \in Nat /\ obs[i].index \in Nat
        /\ n \in 1 .. n /\ obs[n].time \in Nat /\ obs[n].index \in Nat
    <3>1. i \in 1 .. n /\ n \in 1 .. n
      BY <1>1, <1>2
    <3> QED BY <1>1, <3>1, ObservedTyped
  <2>2. CASE j = n + 1
    <3>1. obs # <<>>
      BY <2>1
    <3>2. quote.index > obs[n].index /\ quote.time >= obs[n].time
      BY <3>1 DEF Follows
    <3>3. obs[i].time <= obs[n].time /\ obs[i].index <= obs[n].index
      <4>1. CASE i = n
        BY <2>1, <4>1
      <4>2. CASE i # n
        <5>1. i < n
          BY <1>1, <2>1, <4>2
        <5>2. obs[i].time <= obs[n].time /\ obs[i].index < obs[n].index
          BY <2>1, <5>1 DEF ObservedOK
        <5> QED BY <2>1, <5>2
      <4> QED BY <4>1, <4>2
    <3>4. more[j] = quote
      BY <1>1, <2>2
    <3> HIDE DEF n
    <3> QED BY <1>1, <2>1, <3>2, <3>3, <3>4
  <2>3. CASE j # n + 1
    <3>1. j \in 1 .. n
      BY <1>1, <2>3
    <3> QED BY <1>1, <1>2, <2>1, <3>1 DEF ObservedOK
  <2> QED BY <2>2, <2>3
<1>3. ASSUME NEW i \in 1 .. n + 1 PROVE more[i].bid <= more[i].ask /\ Mid2(more[i]) > 0
  <2>1. CASE i = n + 1
    BY <1>1, <2>1 DEF Follows
  <2>2. CASE i # n + 1
    <3>1. i \in 1 .. n
      BY <1>1, <2>2
    <3> QED BY <1>1, <3>1 DEF ObservedOK
  <2> QED BY <2>1, <2>2
<1>4. ObservedOK(more)
  <2> HIDE DEF n
  <2> QED BY <1>1, <1>2, <1>3 DEF ObservedOK
<1> QED BY <1>4 DEF more

LEMMA WindowMore ==
    ASSUME NEW obs, ObservedOK(obs), NEW quote, Follows(obs, quote),
           NEW first, NEW last, NEW kept, WindowOK(obs, first, last, kept)
    PROVE  WindowOK(Append(obs, quote), IF obs = <<>> THEN quote.time ELSE first, quote,
                    IF obs = <<>> THEN {}
                    ELSE {c \in kept : c.time > quote.time - Window}
                         \cup {[time |-> quote.time, index |-> quote.index,
                                square |-> Square(Mid2(quote) - Mid2(last))]})
<1> DEFINE more == Append(obs, quote)
           n == Len(obs)
           change == [time |-> quote.time, index |-> quote.index,
                      square |-> Square(Mid2(quote) - Mid2(last))]
           kept2 == IF obs = <<>> THEN {}
                    ELSE {c \in kept : c.time > quote.time - Window} \cup {change}
           first2 == IF obs = <<>> THEN quote.time ELSE first
<1>1. /\ more \in Seq(Quote) /\ Len(more) = n + 1 /\ more[n + 1] = quote /\ n \in Nat
      /\ \A i \in 1 .. n : more[i] = obs[i]
      /\ quote.time \in Nat /\ quote.index \in Nat /\ more # <<>>
      /\ Window \in Nat /\ Window > 0
      /\ obs # <<>> => n \in 1 .. n
      /\ obs = <<>> => n = 0
  BY OneMore, QuotesAssumption DEF Follows, Quote
<1> HIDE DEF more
<1>2. first2 = more[1].time
  <2>1. CASE obs = <<>>
    <3>1. n + 1 = 1
      BY <1>1, <2>1
    <3> QED BY <1>1, <2>1, <3>1
  <2>2. CASE obs # <<>>
    <3>1. 1 \in 1 .. n
      BY <1>1, <2>2
    <3> QED BY <1>1, <2>2, <3>1 DEF WindowOK
  <2> QED BY <2>1, <2>2
<1>3. kept2 = {ChangeAt(more, k) : k \in InWindow(more, quote.time)}
  <2>1. CASE obs = <<>>
    <3>1. Len(more) = 1
      BY <1>1, <2>1
    <3>2. InWindow(more, quote.time) = {}
      BY <3>1 DEF InWindow
    <3> QED BY <2>1, <3>2
  <2>2. CASE obs # <<>>
    <3>1. /\ last = obs[n] /\ kept = {ChangeAt(obs, k) : k \in InWindow(obs, last.time)}
          /\ quote.time >= last.time /\ last.time \in Nat /\ n \in 1 .. n
      BY <1>1, <2>2, ObservedTyped DEF WindowOK, Follows
    <3>2. ASSUME NEW k \in 2 .. n
          PROVE  /\ ChangeAt(more, k) = ChangeAt(obs, k) /\ ChangeAt(obs, k).time = obs[k].time
                 /\ more[k] = obs[k] /\ obs[k].time \in Nat
      <4>1. k \in 1 .. n /\ k - 1 \in 1 .. n
        BY <1>1
      <4>2. more[k] = obs[k] /\ more[k - 1] = obs[k - 1] /\ obs[k].time \in Nat
        BY <1>1, <4>1, ObservedTyped
      <4> QED BY <4>2 DEF ChangeAt, Step2
    <3>3. change = ChangeAt(more, n + 1)
      <4>1. (n + 1) - 1 = n /\ more[n] = obs[n]
        BY <1>1, <3>1
      <4> HIDE DEF n
      <4> QED BY <1>1, <3>1, <4>1 DEF ChangeAt, Step2
    <3>4. InWindow(more, quote.time)
            = {k \in 2 .. n : obs[k].time > quote.time - Window} \cup {n + 1}
      <4>1. 2 .. n + 1 = (2 .. n) \cup {n + 1}
        BY <1>1, <3>1
      <4>2. quote.time > quote.time - Window
        BY <1>1
      <4> HIDE DEF n
      <4> QED BY <1>1, <3>2, <4>1, <4>2 DEF InWindow
    <3>5. {c \in kept : c.time > quote.time - Window}
            = {ChangeAt(obs, k) : k \in {k \in 2 .. n : obs[k].time > quote.time - Window}}
      <4>1. ASSUME NEW k \in 2 .. n, obs[k].time > quote.time - Window
            PROVE  k \in InWindow(obs, last.time)
        <5>1. obs[k].time > last.time - Window
          BY <1>1, <3>1, <3>2, <4>1
        <5> QED BY <5>1 DEF InWindow
      <4>2. \A k \in InWindow(obs, last.time) : k \in 2 .. n
        BY DEF InWindow
      <4> HIDE DEF n
      <4> QED BY <3>1, <3>2, <4>1, <4>2
    <3> HIDE DEF n, change
    <3> QED BY <2>2, <3>2, <3>3, <3>4, <3>5
  <2> QED BY <2>1, <2>2
<1> HIDE DEF kept2, first2, change
<1>4. WindowOK(more, first2, quote, kept2)
  BY <1>1, <1>2, <1>3 DEF WindowOK
<1> QED BY <1>4 DEF more, kept2, first2, change
\* The desired ticks, moved outwards, take nothing from the newest quote.
LEMMA PassiveTicks ==
    ASSUME best.bid \in Nat, best.ask \in Nat, NEW desiredBid \in Int, NEW desiredAsk \in Int
    PROVE  /\ PassiveBid(desiredBid) * TickSize <= best.bid
           /\ PassiveBid(desiredBid) * TickSize < best.ask
           /\ PassiveAsk(desiredAsk) * TickSize >= best.ask
           /\ PassiveAsk(desiredAsk) * TickSize > best.bid
           /\ PassiveBid(desiredBid) * TickSize < PassiveAsk(desiredAsk) * TickSize
<1> DEFINE d == TickSize
           b == best.bid
           a == best.ask
           t == PassiveBid(desiredBid)
           u == PassiveAsk(desiredAsk)
           tb == b \div d
           ta == (a - 1) \div d
           ub == tb + 1
           ua == (a + d - 1) \div d
<1>1. d \in Nat /\ d > 0 /\ b \in Nat /\ a \in Nat /\ a - 1 \in Int /\ a + d - 1 \in Int
  BY QuotesAssumption
<1>2. /\ tb \in Int /\ ta \in Int /\ ua \in Int /\ ub \in Int
      /\ tb * d <= b /\ b < tb * d + d /\ ta * d <= a - 1
      /\ a + d - 1 < ua * d + d
  <2> HIDE DEF d, b, a
  <2> QED BY <1>1, Division
<1>3. t \in Int /\ t <= tb /\ t <= ta
  <2>1. t = Min({desiredBid, tb, ta})
    BY DEF PassiveBid, TickOf
  <2> HIDE DEF t, tb, ta
  <2> QED BY <1>2, <2>1, MinOfThree
<1>4. u \in Int /\ u >= ua /\ u >= ub
  <2>1. u = Max({desiredAsk, ua, ub})
    BY DEF PassiveAsk, TickOf
  <2> HIDE DEF u, ua, ub
  <2> QED BY <1>2, <2>1, MaxOfThree
<1>5. ub = tb + 1
  OBVIOUS
<1> HIDE DEF d, b, a, t, u, tb, ta, ub, ua
<1>6. t < u /\ ub <= u /\ ua <= u
  BY <1>2, <1>3, <1>4, <1>5
<1>7. /\ t * d \in Int /\ u * d \in Int /\ ua * d \in Int /\ ub * d \in Int
      /\ tb * d \in Int /\ ta * d \in Int
      /\ t * d <= tb * d /\ t * d <= ta * d /\ t * d < u * d
      /\ ua * d <= u * d /\ ub * d <= u * d /\ ub * d = tb * d + d
  <2>1. /\ t * d \in Int /\ tb * d \in Int /\ t * d <= tb * d /\ ub * d = tb * d + d
    BY <1>1, <1>2, <1>3, <1>5, Scaled
  <2>2. ta * d \in Int /\ t * d <= ta * d
    BY <1>1, <1>2, <1>3, Scaled
  <2>3. u * d \in Int /\ t * d < u * d
    BY <1>1, <1>3, <1>4, <1>6, Scaled
  <2>4. ua * d \in Int /\ ua * d <= u * d
    BY <1>1, <1>2, <1>4, <1>6, Scaled
  <2>5. ub * d \in Int /\ ub * d <= u * d
    BY <1>1, <1>2, <1>4, <1>6, Scaled
  <2> QED BY <2>1, <2>2, <2>3, <2>4, <2>5
<1> DEFINE T == t * d
           U == u * d
           TB == tb * d
           TA == ta * d
           UA == ua * d
           UB == ub * d
<1>8. /\ T \in Int /\ U \in Int /\ TB \in Int /\ TA \in Int /\ UA \in Int /\ UB \in Int
      /\ TB <= b /\ b < TB + d /\ TA <= a - 1 /\ a + d - 1 < UA + d
      /\ T <= TB /\ T <= TA /\ T < U /\ UA <= U /\ UB <= U /\ UB = TB + d
  BY <1>2, <1>7
<1> HIDE DEF T, U, TB, TA, UA, UB
<1>9. T <= b /\ T < a /\ U >= a /\ U > b /\ T < U
  BY <1>1, <1>8
<1> QED BY <1>9 DEF T, U, t, u, d, b, a

LEMMA ObserveKeeps ==
    ASSUME QuotesInv, NEW quote \in Quote, ObserveQuote(quote)
    PROVE  QuotesInv'
<1> DEFINE accepts == Tradable(quote.time) /\ quote.bid <= quote.ask /\ Mid2(quote) > 0
                        /\ InSourceOrder(quote)
           more == Append(observed, quote)
<1>1. CASE ~accepts
  <2>1. Refuse
    BY <1>1 DEF ObserveQuote
  <2> QED BY <2>1 DEF Refuse, Refusal, QuotesInv, DecisionsAreCausal, EstimateIsTrailing,
                      QuotesRest, Returned
<1>2. CASE accepts
  <2>1. /\ firstTime' = IF best = Missing THEN quote.time ELSE firstTime
        /\ changes' = IF best = Missing THEN {} ELSE Trailing(quote.time) \cup {Change(quote)}
        /\ best' = quote /\ observed' = more
        /\ reply' = [raised |-> FALSE, bid |-> Missing, ask |-> Missing, time |-> quote.time,
                     estimate |-> Estimate(firstTime', changes', quote.index, quote.time)]
    BY <1>2 DEF ObserveQuote
  <2>2. best = Missing <=> observed = <<>>
    <3>1. observed # <<>> => Len(observed) \in 1 .. Len(observed)
      BY DEF QuotesInv, ObservedOK
    <3> QED BY <3>1, ObservedTyped DEF QuotesInv, WindowOK
  <2>3. Follows(observed, quote)
    BY <1>2, <2>2 DEF Follows, InSourceOrder, QuotesInv, WindowOK
  <2>4. ObservedOK(more)
    BY <2>3, ObservedMore DEF QuotesInv
  <2>5. WindowOK(more, firstTime', quote, changes')
    BY <2>1, <2>2, <2>3, WindowMore DEF QuotesInv, Trailing, Change
  <2>6. more # <<>> /\ quote.time \in Nat /\ quote.index \in Nat
    BY OneMore DEF QuotesInv, Quote
  <2> HIDE DEF more
  <2>7. Estimate(firstTime', changes', quote.index, quote.time) = TrailingEstimate(more, quote.time)
    BY <2>4, <2>5, <2>6, EstimateIs
  <2>8. EstimateIsTrailing'
    <3>1. reply'.estimate = TrailingEstimate(more, quote.time) /\ reply'.time = quote.time
      BY <2>1, <2>7
    <3> QED BY <2>1, <3>1 DEF EstimateIsTrailing, TrailingEstimate, InWindow, Step2
  <2>9. QuotesRest'
    BY <2>1 DEF QuotesRest
  <2> QED BY <2>1, <2>4, <2>5, <2>8, <2>9 DEF QuotesInv, DecisionsAreCausal
<1> QED BY <1>1, <1>2

LEMMA DecideKeeps ==
    ASSUME QuotesInv, NEW index \in Nat, NEW time \in Nat, NEW inventory,
           NEW bid \in Int, NEW ask \in Int, DecideQuotes(index, time, inventory, bid, ask)
    PROVE  QuotesInv'
<1> DEFINE accepts == Tradable(time) /\ best # Missing /\ NotBefore(index, time)
<1>1. CASE ~accepts
  <2>1. Refuse
    BY <1>1 DEF DecideQuotes
  <2> QED BY <2>1 DEF Refuse, Refusal, QuotesInv, DecisionsAreCausal, EstimateIsTrailing,
                      QuotesRest, Returned
<1>2. CASE accepts
  <2> DEFINE estimate == Estimate(firstTime, changes, index, time)
  <2>1. /\ UNCHANGED <<firstTime, best, changes, observed>>
        /\ reply' = [raised |-> FALSE, estimate |-> estimate, time |-> time,
                     bid |-> IF estimate = Missing THEN Missing
                             ELSE Proposal(PassiveBid(bid), inventory + OrderShares),
                     ask |-> IF estimate = Missing THEN Missing
                             ELSE Proposal(PassiveAsk(ask), inventory - OrderShares)]
    BY <1>2 DEF DecideQuotes
  <2>2. /\ observed # <<>> /\ ObservedOK(observed)
        /\ WindowOK(observed, firstTime, best, changes) /\ best = observed[Len(observed)]
    BY <1>2 DEF QuotesInv, WindowOK
  <2>3. estimate = TrailingEstimate(observed, time)
    BY <1>2, <2>2, EstimateIs DEF NotBefore
  <2> HIDE DEF estimate
  <2>4. EstimateIsTrailing'
    <3>1. reply'.estimate = TrailingEstimate(observed, time) /\ reply'.time = time
      BY <2>1, <2>3
    <3> QED BY <2>1, <3>1 DEF EstimateIsTrailing, TrailingEstimate, InWindow, Step2
  <2>5. best.bid \in Nat /\ best.ask \in Nat
    <3>1. Len(observed) \in 1 .. Len(observed)
      BY <2>2 DEF ObservedOK
    <3> QED BY <2>2, <3>1, ObservedTyped
  <2>6. /\ reply'.bid \in {Missing, PassiveBid(bid) * TickSize}
        /\ reply'.ask \in {Missing, PassiveAsk(ask) * TickSize}
    BY <2>1 DEF Proposal
  <2>7. Last(observed') = best
    BY <2>1, <2>2 DEF Last
  <2>8. QuotesRest'
    BY <2>5, <2>6, <2>7, PassiveTicks DEF QuotesRest
  <2> QED BY <2>1, <2>4, <2>8 DEF QuotesInv, DecisionsAreCausal
<1> QED BY <1>1, <1>2

LEMMA QuotesStartInv == QuotesStart => QuotesInv
<1> SUFFICES ASSUME QuotesStart PROVE QuotesInv
  OBVIOUS
<1>1. ObservedOK(observed)
  BY DEF QuotesStart, ObservedOK
<1>2. ~Returned
  BY DEF QuotesStart, Returned
<1> QED BY <1>1, <1>2 DEF QuotesStart, QuotesInv, WindowOK, DecisionsAreCausal,
                          EstimateIsTrailing, QuotesRest

LEMMA QuotesKept == QuotesInv /\ [QuotesNext]_quoteVars => QuotesInv'
<1>1. ASSUME QuotesInv, UNCHANGED quoteVars PROVE QuotesInv'
  BY <1>1 DEF quoteVars, QuotesInv, DecisionsAreCausal, EstimateIsTrailing, QuotesRest, Returned
<1>2. ASSUME QuotesInv, QuotesNext PROVE QuotesInv'
  <2>1. PICK index \in MarketIndexes, time \in MarketTimes :
           \/ \E quote \in BestQuotes :
                 ObserveQuote([index |-> index, time |-> time, bid |-> quote.bid,
                               ask |-> quote.ask])
           \/ \E inventory \in {-InventoryCap, 0, InventoryCap}, bid, ask \in DesiredTicks :
                 bid <= ask /\ DecideQuotes(index, time, inventory, bid, ask)
    BY <1>2 DEF QuotesNext
  <2>2. index \in Nat /\ time \in Nat
    BY QuotesAssumption
  <2>3. ASSUME NEW quote \in BestQuotes,
               ObserveQuote([index |-> index, time |-> time, bid |-> quote.bid, ask |-> quote.ask])
        PROVE  QuotesInv'
    <3>1. [index |-> index, time |-> time, bid |-> quote.bid, ask |-> quote.ask] \in Quote
      BY <2>2, QuotesAssumption DEF Quote
    <3> QED BY <1>2, <2>3, <3>1, ObserveKeeps
  <2>4. ASSUME NEW inventory, NEW bid \in DesiredTicks, NEW ask \in DesiredTicks,
               DecideQuotes(index, time, inventory, bid, ask)
        PROVE  QuotesInv'
    <3>1. bid \in Int /\ ask \in Int
      BY QuotesAssumption
    <3> QED BY <1>2, <2>2, <2>4, <3>1, DecideKeeps
  <2> QED BY <2>1, <2>3, <2>4
<1> QED BY <1>1, <1>2

(* For any quotes, window, tick and desired ticks: an estimate is that of   *)
(* the whole past, though the estimator prunes it, and the proposals of a   *)
(* decision rest (observe_quote, decide, _quotes_for_reservation).          *)
THEOREM QuotesAreCausal == QuotesSpec => []DecisionsAreCausal
<1>1. QuotesInv => DecisionsAreCausal
  BY DEF QuotesInv
<1> QED BY <1>1, QuotesStartInv, QuotesKept, PTL DEF QuotesSpec
-----------------------------------------------------------------------------
(* ModelSelection.  How far above the least loss the choice of a search can *)
(* stand, in tolerances: Wins(f, c) when candidate c has just been chosen,  *)
(* Gap(f, c, n) when it is still the choice after n candidates.  A choice   *)
(* by a tie adds one, any candidate that is not chosen may have come one    *)
(* below, and a choice by a lower loss takes one away.                      *)

Chain == <<0, 1, 0, 1, 2, 3, 2, 3>>
Wins(f, c) == IF f = "logistic_regression" THEN 0 ELSE Chain[c]

Gap(f, c, n) == IF n = c \/ Wins(f, c) > 0 THEN Wins(f, c) ELSE 1

LEMMA KeyOfGrid ==
    ASSUME NEW T, NEW grid \in Seq(T), NEW k \in 1 .. Len(grid)
    PROVE  grid[k] \in T
OBVIOUS

LEMMA EndsOfGrid ==
    ASSUME Len(BoostingGrid) = 8
    PROVE  BoostingGrid[1] \in Nat \X Nat \X Nat /\ BoostingGrid[8] \in Nat \X Nat \X Nat
<1>1. BoostingGrid \in Seq(Nat \X Nat \X Nat)
  BY SelectionAssumption
<1>2. 1 \in 1 .. Len(BoostingGrid) /\ 8 \in 1 .. Len(BoostingGrid)
  OBVIOUS
<1> QED BY <1>1, <1>2, KeyOfGrid, Zenon

LEMMA BoostingKeys ==
    ASSUME NEW c \in 1 .. 8, NEW d \in 1 .. 8, c < d, Simpler("hist_gradient_boosting", d, c)
    PROVE  <<c, d>> \in {<<1, 2>>, <<1, 6>>, <<3, 4>>, <<3, 5>>, <<3, 6>>, <<3, 8>>,
                         <<4, 5>>, <<4, 6>>, <<5, 6>>, <<7, 8>>}
<1>1. PICK few, many, weak, strong, slow, fast \in UNION {ToSet(key) : key \in ToSet(BoostingGrid)} :
          /\ few < many /\ weak < strong /\ slow < fast
          /\ BoostingGrid = <<<<few, weak, slow>>, <<few, strong, slow>>,
                              <<many, weak, slow>>, <<many, strong, slow>>,
                              <<few, weak, fast>>, <<few, strong, fast>>,
                              <<many, weak, fast>>, <<many, strong, fast>>>>
  BY GridsAssumption
<1>2. few \in Nat /\ many \in Nat /\ weak \in Nat /\ strong \in Nat /\ slow \in Nat /\ fast \in Nat
  <2>1. Len(BoostingGrid) = 8
    BY <1>1
  <2>2. BoostingGrid[1] \in Nat \X Nat \X Nat /\ BoostingGrid[8] \in Nat \X Nat \X Nat
    BY <2>1, EndsOfGrid, Zenon
  <2>3. BoostingGrid[1] = <<few, weak, slow>> /\ BoostingGrid[8] = <<many, strong, fast>>
    BY <1>1
  <2> QED BY <2>2, <2>3
<1> DEFINE g == GridOf("hist_gradient_boosting")
<1>3. /\ g[1] = <<few, weak, slow>> /\ g[2] = <<few, strong, slow>>
      /\ g[3] = <<many, weak, slow>> /\ g[4] = <<many, strong, slow>>
      /\ g[5] = <<few, weak, fast>> /\ g[6] = <<few, strong, fast>>
      /\ g[7] = <<many, weak, fast>> /\ g[8] = <<many, strong, fast>>
  BY <1>1 DEF GridOf
<1> HIDE DEF g
<1>4. \/ g[d][1] < g[c][1]
      \/ g[d][1] = g[c][1] /\ g[d][2] > g[c][2]
      \/ g[d][1] = g[c][1] /\ g[d][2] = g[c][2] /\ g[d][3] < g[c][3]
  BY DEF Simpler, g
<1>5. c = 1 \/ c = 2 \/ c = 3 \/ c = 4 \/ c = 5 \/ c = 6 \/ c = 7 \/ c = 8
  OBVIOUS
<1>6. d = 1 \/ d = 2 \/ d = 3 \/ d = 4 \/ d = 5 \/ d = 6 \/ d = 7 \/ d = 8
  OBVIOUS
<1> QED BY <1>1, <1>2, <1>3, <1>4, <1>5, <1>6

(* What the potential must satisfy. *)
LEMMA LaterCandidate ==
    ASSUME NEW f \in Searched, NEW c \in DOMAIN GridOf(f), NEW d \in DOMAIN GridOf(f), c < d
    PROVE  /\ Wins(f, d) + 1 >= Gap(f, c, d - 1)
           /\ Simpler(f, d, c) => Wins(f, d) >= Gap(f, c, d - 1) + 1
<1>1. CASE f = "logistic_regression"
  <2>1. ~Simpler(f, d, c)
    <3>1. LogisticGrid[c] \in Nat /\ LogisticGrid[d] \in Nat /\ LogisticGrid[c] < LogisticGrid[d]
      <4>1. c \in DOMAIN LogisticGrid /\ d \in DOMAIN LogisticGrid
        BY <1>1 DEF GridOf
      <4>2. DOMAIN LogisticGrid = 1 .. Len(LogisticGrid) /\ LogisticGrid \in Seq(Nat)
        BY SelectionAssumption
      <4> QED BY <4>1, <4>2, GridsAssumption DEF Ascending
    <3> QED BY <1>1, <3>1 DEF Simpler, GridOf
  <2> QED BY <1>1, <2>1 DEF Wins, Gap
<1>2. CASE f = "hist_gradient_boosting"
  <2>1. DOMAIN GridOf(f) = 1 .. 8
    BY <1>2, GridsAssumption DEF GridOf
  <2>2. c = 1 \/ c = 2 \/ c = 3 \/ c = 4 \/ c = 5 \/ c = 6 \/ c = 7 \/ c = 8
    BY <2>1
  <2>3. d = 1 \/ d = 2 \/ d = 3 \/ d = 4 \/ d = 5 \/ d = 6 \/ d = 7 \/ d = 8
    BY <2>1
  <2>4. /\ Chain[1] = 0 /\ Chain[2] = 1 /\ Chain[3] = 0 /\ Chain[4] = 1
        /\ Chain[5] = 2 /\ Chain[6] = 3 /\ Chain[7] = 2 /\ Chain[8] = 3
    BY DEF Chain
  <2>5. Wins(f, c) = Chain[c] /\ Wins(f, d) = Chain[d]
    BY <1>2 DEF Wins
  <2>6. Wins(f, d) + 1 >= Gap(f, c, d - 1)
    BY <2>2, <2>3, <2>4, <2>5 DEF Gap
  <2>7. ASSUME Simpler(f, d, c) PROVE Wins(f, d) >= Gap(f, c, d - 1) + 1
    <3>1. <<c, d>> \in {<<1, 2>>, <<1, 6>>, <<3, 4>>, <<3, 5>>, <<3, 6>>, <<3, 8>>,
                        <<4, 5>>, <<4, 6>>, <<5, 6>>, <<7, 8>>}
      BY <1>2, <2>1, <2>7, BoostingKeys
    <3> QED BY <2>4, <2>5, <3>1 DEF Gap
  <2> QED BY <2>6, <2>7
<1> QED BY <1>1, <1>2 DEF Searched

LEMMA GapBounds ==
    ASSUME NEW f \in Searched, NEW c \in DOMAIN GridOf(f), NEW n
    PROVE  /\ Gap(f, c, n) \in 0 .. 3 /\ Wins(f, c) \in 0 .. 3
           /\ f = "logistic_regression" => Gap(f, c, n) \in 0 .. 1
<1>1. CASE f = "logistic_regression"
  BY <1>1 DEF Gap, Wins
<1>2. CASE f = "hist_gradient_boosting"
  <2>1. DOMAIN GridOf(f) = 1 .. 8
    BY <1>2, GridsAssumption DEF GridOf
  <2>2. c = 1 \/ c = 2 \/ c = 3 \/ c = 4 \/ c = 5 \/ c = 6 \/ c = 7 \/ c = 8
    BY <2>1
  <2> QED BY <1>2, <2>2 DEF Gap, Wins, Chain
<1> QED BY <1>1, <1>2 DEF Searched
Choice == [candidate : Nat, loss : Losses]

Times(g) ==
    IF g = 0 THEN 0 ELSE IF g = 1 THEN Tolerance ELSE IF g = 2 THEN Tolerance + Tolerance
    ELSE Tolerance + Tolerance + Tolerance

(* A choice s after n candidates, the least loss of which is l. *)
Near(f, n, s, l) ==
    /\ s \in Choice /\ l \in Losses /\ s.candidate \in 1 .. n
    /\ s.loss <= l + Times(Gap(f, s.candidate, n))

SearchOK(f, n, s, l) ==
    n \in 0 .. Len(GridOf(f)) /\ ((s = Nothing /\ l = Nothing) \/ Near(f, n, s, l))

LEMMA GridLength == \A f \in Searched : Len(GridOf(f)) \in Nat /\ DOMAIN GridOf(f) = 1 .. Len(GridOf(f))
<1> QED BY SelectionAssumption DEF GridOf

(* Every case of one candidate, on the numbers alone.                       *)
LEMMA NearerOrNot ==
    ASSUME NEW f \in Searched, NEW n \in 0 .. Len(GridOf(f)), n < Len(GridOf(f)),
           NEW s, NEW l, Near(f, n, s, l), NEW loss \in Losses
    PROVE  /\ loss < s.loss - Tolerance =>
                 Near(f, n + 1, [candidate |-> n + 1, loss |-> loss], IF loss < l THEN loss ELSE l)
           /\ (Distance(loss, s.loss) <= Tolerance /\ Simpler(f, n + 1, s.candidate)) =>
                 Near(f, n + 1, [candidate |-> n + 1, loss |-> loss], IF loss < l THEN loss ELSE l)
           /\ ~(loss < s.loss - Tolerance) => Near(f, n + 1, s, IF loss < l THEN loss ELSE l)
           /\ Near(f, n + 1, s, l)
<1> DEFINE c == s.candidate
           d == n + 1
           g == Gap(f, c, n)
           w == Wins(f, d)
           low == IF loss < l THEN loss ELSE l
           new == [candidate |-> d, loss |-> loss]
<1>1. /\ s \in Choice /\ l \in Losses /\ c \in 1 .. n /\ s.loss <= l + Times(g)
      /\ s.loss \in Nat /\ l \in Nat /\ loss \in Nat /\ Tolerance \in Nat /\ low \in Losses
  BY SelectionAssumption DEF Near, Choice
<1>2. c \in DOMAIN GridOf(f) /\ d \in DOMAIN GridOf(f) /\ c < d /\ d - 1 = n /\ d \in Nat
  <2>1. Len(GridOf(f)) \in Nat /\ DOMAIN GridOf(f) = 1 .. Len(GridOf(f))
    BY GridLength
  <2> QED BY <1>1, <2>1
<1>3. /\ g \in 0 .. 3 /\ w \in 0 .. 3 /\ w + 1 >= g /\ (Simpler(f, d, c) => w >= g + 1)
      /\ Gap(f, d, d) = w
  <2>1. g \in 0 .. 3
    BY <1>2, GapBounds
  <2>2. w \in 0 .. 3
    BY <1>2, GapBounds
  <2>3. w + 1 >= Gap(f, c, d - 1) /\ (Simpler(f, d, c) => w >= Gap(f, c, d - 1) + 1)
    BY <1>2, LaterCandidate
  <2>4. Gap(f, c, d - 1) = g
    BY <1>2
  <2> QED BY <2>1, <2>2, <2>3, <2>4 DEF Gap
<1>4. Gap(f, c, d) \in 0 .. 3 /\ Gap(f, c, d) >= g /\ Gap(f, c, d) >= 1
  <2>1. Gap(f, c, d) \in 0 .. 3 /\ Wins(f, c) \in 0 .. 3
    BY <1>2, GapBounds
  <2>2. c # d
    BY <1>1, <1>2
  <2> QED BY <2>1, <2>2 DEF Gap
<1>5. new \in Choice /\ new.candidate = d /\ new.loss = loss
  BY <1>2 DEF Choice
<1>6. ASSUME loss < s.loss - Tolerance PROVE Near(f, d, new, low)
  <2>1. loss <= low + Times(w)
    <3> HIDE DEF g, w
    <3> QED BY <1>1, <1>3, <1>6 DEF Times
  <2>2. d \in 1 .. d
    BY <1>2
  <2> HIDE DEF new, low, d
  <2> QED BY <1>1, <1>3, <1>5, <2>1, <2>2 DEF Near, w
<1>7. ASSUME Distance(loss, s.loss) <= Tolerance, Simpler(f, d, c) PROVE Near(f, d, new, low)
  <2>1. loss <= s.loss + Tolerance
    BY <1>1, <1>7 DEF Distance
  <2>2. w >= g + 1
    BY <1>3, <1>7
  <2>3. loss <= low + Times(w)
    <3> HIDE DEF g, w
    <3> QED BY <1>1, <1>3, <2>1, <2>2 DEF Times
  <2>4. d \in 1 .. d
    BY <1>2
  <2> HIDE DEF new, low, d
  <2> QED BY <1>1, <1>3, <1>5, <2>3, <2>4 DEF Near, w
<1>8. c \in 1 .. d
  BY <1>1, <1>2
<1>9. ASSUME ~(loss < s.loss - Tolerance) PROVE Near(f, d, s, low)
  <2> DEFINE e == Gap(f, c, d)
  <2>1. s.loss <= low + Times(e)
    <3>1. e \in 0 .. 3 /\ e >= g /\ e >= 1
      BY <1>4
    <3> HIDE DEF g, e
    <3> QED BY <1>1, <1>3, <1>9, <3>1 DEF Times
  <2> HIDE DEF low, d
  <2> QED BY <1>1, <1>8, <2>1 DEF Near
<1>10. Near(f, d, s, l)
  <2> DEFINE e == Gap(f, c, d)
  <2>1. s.loss <= l + Times(e)
    <3>1. e \in 0 .. 3 /\ e >= g /\ e >= 1
      BY <1>4
    <3> HIDE DEF g, e
    <3> QED BY <1>1, <1>3, <3>1 DEF Times
  <2> HIDE DEF d
  <2> QED BY <1>1, <1>8, <2>1 DEF Near
<1> QED BY <1>6, <1>7, <1>9, <1>10

LEMMA FirstChoice ==
    ASSUME NEW f \in Searched, NEW n \in 0 .. Len(GridOf(f)), n < Len(GridOf(f)), NEW loss \in Losses
    PROVE  Near(f, n + 1, [candidate |-> n + 1, loss |-> loss], loss)
<1> DEFINE d == n + 1
<1>1. loss \in Nat /\ d \in Nat /\ d \in DOMAIN GridOf(f) /\ Tolerance \in Nat
  BY GridLength, SelectionAssumption
<1>2. Gap(f, d, d) \in 0 .. 3
  BY <1>1, GapBounds
<1>3. loss <= loss + Times(Gap(f, d, d))
  BY <1>1, <1>2 DEF Times
<1> QED BY <1>1, <1>3 DEF Near, Choice
(* The step of the search: the conditions and the choices of TryCandidate.  *)
LEMMA SearchStep ==
    ASSUME NEW f \in Searched, NEW n, NEW s, NEW l, SearchOK(f, n, s, l), n < Len(GridOf(f))
    PROVE  /\ SearchOK(f, n + 1, s, l)
           /\ \A loss \in Losses :
                 SearchOK(f, n + 1,
                          IF \/ s = Nothing \/ loss < s.loss - Tolerance
                             \/ Distance(loss, s.loss) <= Tolerance /\ Simpler(f, n + 1, s.candidate)
                          THEN [candidate |-> n + 1, loss |-> loss] ELSE s,
                          IF l = Nothing \/ loss < l THEN loss ELSE l)
<1>1. n \in 0 .. Len(GridOf(f)) /\ n + 1 \in 0 .. Len(GridOf(f)) /\ Nothing \notin Choice /\ Nothing \notin Losses
  BY GridLength, SelectionAssumption DEF SearchOK, Choice
<1>2. CASE s = Nothing /\ l = Nothing
  <2>1. \A loss \in Losses : Near(f, n + 1, [candidate |-> n + 1, loss |-> loss], loss)
    BY <1>1, FirstChoice
  <2> QED BY <1>1, <1>2, <2>1 DEF SearchOK
<1>3. CASE Near(f, n, s, l)
  <2>1. s # Nothing /\ l # Nothing
    BY <1>1, <1>3 DEF Near
  <2>2. SearchOK(f, n + 1, s, l)
    <3>1. PICK loss \in Losses : TRUE
      BY SelectionAssumption
    <3>2. Near(f, n + 1, s, l)
      BY <1>1, <1>3, <3>1, NearerOrNot
    <3> QED BY <1>1, <3>2 DEF SearchOK
  <2>3. ASSUME NEW loss \in Losses
        PROVE  SearchOK(f, n + 1,
                          IF \/ loss < s.loss - Tolerance
                             \/ Distance(loss, s.loss) <= Tolerance /\ Simpler(f, n + 1, s.candidate)
                          THEN [candidate |-> n + 1, loss |-> loss] ELSE s,
                          IF loss < l THEN loss ELSE l)
    <3>1. /\ loss < s.loss - Tolerance =>
                 Near(f, n + 1, [candidate |-> n + 1, loss |-> loss], IF loss < l THEN loss ELSE l)
          /\ (Distance(loss, s.loss) <= Tolerance /\ Simpler(f, n + 1, s.candidate)) =>
                 Near(f, n + 1, [candidate |-> n + 1, loss |-> loss], IF loss < l THEN loss ELSE l)
          /\ ~(loss < s.loss - Tolerance) => Near(f, n + 1, s, IF loss < l THEN loss ELSE l)
      BY <1>1, <1>3, NearerOrNot
    <3> DEFINE low == IF loss < l THEN loss ELSE l
               new == [candidate |-> n + 1, loss |-> loss]
               lower == loss < s.loss - Tolerance
               tie == Distance(loss, s.loss) <= Tolerance /\ Simpler(f, n + 1, s.candidate)
    <3> HIDE DEF low, new, lower, tie
    <3>2. (lower \/ tie => Near(f, n + 1, new, low)) /\ (~lower => Near(f, n + 1, s, low))
      BY <3>1 DEF low, new, lower, tie
    <3>3. SearchOK(f, n + 1, IF lower \/ tie THEN new ELSE s, low)
      BY ONLY <1>1, <3>2 DEF SearchOK
    <3> QED BY <3>3 DEF low, new, lower, tie
  <2> QED BY <2>1, <2>2, <2>3
<1> QED BY <1>2, <1>3 DEF SearchOK

-----------------------------------------------------------------------------
(* The simplest model and the smallest weight within a tolerance.           *)

LEMMA ModelSelected ==
    ASSUME losses \in [ToSet(Families) -> Losses]
    PROVE  /\ \A f \in ToSet(Families) : losses[SelectedModel] <= losses[f] + Tolerance
           /\ \A i, j \in DOMAIN Families :
                 i < j /\ Families[j] = SelectedModel =>
                    \E f \in ToSet(Families) : losses[Families[i]] > losses[f] + Tolerance
<1> DEFINE low == Min(Range(losses))
           I == {i \in DOMAIN Families : losses[Families[i]] - low <= Tolerance}
<1>1. DOMAIN Families = 1 .. 3 /\ ToSet(Families) = {Families[1], Families[2], Families[3]}
  <2>1. DOMAIN Families = 1 .. 3
    BY DEF Families
  <2> QED BY <2>1 DEF ToSet
<1>2. Families[1] # Families[2] /\ Families[1] # Families[3] /\ Families[2] # Families[3]
  BY DEF Families
<1>3. Tolerance \in Nat /\ Losses \subseteq Nat /\ \A f \in ToSet(Families) : losses[f] \in Nat
  BY SelectionAssumption
<1>4. Range(losses) \in SUBSET Nat /\ Range(losses) # {}
  BY <1>1, <1>3 DEF Range
<1>5. low \in Range(losses) /\ \A x \in Range(losses) : low <= x
  BY <1>4, Least DEF Min
<1>6. PICK m \in 1 .. 3 : losses[Families[m]] = low
  BY <1>1, <1>5 DEF Range
<1>7. low \in Nat /\ \A f \in ToSet(Families) : low <= losses[f]
  BY <1>4, <1>5 DEF Range
<1> HIDE DEF low
<1>8. I \in SUBSET Nat /\ m \in I
  BY <1>1, <1>3, <1>6, <1>7
<1> DEFINE k == Min(I)
<1>9. k \in I /\ \A i \in I : k <= i
  <2> HIDE DEF I
  <2> QED BY <1>8, Least DEF Min
<1>10. SelectedModel = Families[k]
  BY DEF SelectedModel, low
<1> HIDE DEF k
<1>11. k \in 1 .. 3 /\ losses[Families[k]] <= low + Tolerance
  BY <1>1, <1>3, <1>7, <1>9
<1>12. ASSUME NEW i \in 1 .. 3, i < k PROVE losses[Families[i]] > low + Tolerance
  <2>1. i \notin I
    BY <1>9, <1>11, <1>12
  <2> QED BY <1>1, <1>3, <1>7, <2>1
<1> HIDE DEF I
<1>13. \A f \in ToSet(Families) : losses[SelectedModel] <= losses[f] + Tolerance
  BY <1>1, <1>3, <1>7, <1>10, <1>11
<1>14. ASSUME NEW i \in DOMAIN Families, NEW j \in DOMAIN Families, i < j, Families[j] = SelectedModel
       PROVE  \E f \in ToSet(Families) : losses[Families[i]] > losses[f] + Tolerance
  <2>1. j = k
    BY <1>1, <1>2, <1>10, <1>11, <1>14
  <2>2. losses[Families[i]] > losses[Families[m]] + Tolerance
    BY <1>1, <1>6, <1>12, <1>14, <2>1
  <2> QED BY <1>1, <1>6, <2>2
<1> QED BY <1>13, <1>14

LEMMA WeightSelected ==
    ASSUME profits \in Seq(Profits), Len(profits) = Len(Weights)
    PROVE  \A i \in DOMAIN Weights :
              /\ Weights[i] = SelectedWeight => \A j \in DOMAIN profits : profits[j] <= profits[i] + Tolerance
              /\ Weights[i] < SelectedWeight => \E j \in DOMAIN profits : profits[j] > profits[i] + Tolerance
<1> DEFINE high == Max(Range(profits))
           n == Len(Weights)
           I == {i \in DOMAIN Weights : high - profits[i] <= Tolerance}
<1>1. /\ Weights \in Seq(Nat) /\ n \in Nat \ {0} /\ DOMAIN Weights = 1 .. n /\ DOMAIN profits = 1 .. n
      /\ Tolerance \in Nat /\ Profits \subseteq Int
  BY SelectionAssumption, GridsAssumption
<1>2. \A i \in 1 .. n : profits[i] \in Int /\ Weights[i] \in Nat
  <2>1. ASSUME NEW i \in 1 .. n PROVE profits[i] \in Int
    <3>1. profits \in Seq(Profits) /\ i \in 1 .. Len(profits)
      OBVIOUS
    <3>2. profits[i] \in Profits
      BY ONLY <3>1
    <3> QED BY <1>1, <3>2
  <2>2. ASSUME NEW i \in 1 .. n PROVE Weights[i] \in Nat
    BY <1>1
  <2> QED BY <2>1, <2>2
<1>3. Range(profits) \in SUBSET Int /\ Range(profits) # {} /\ IsFiniteSet(Range(profits))
  <2>1. IsFiniteSet(1 .. n)
    BY <1>1, FS_Interval
  <2> DEFINE U == 1 .. n
             R == Range(profits)
  <2>2. profits \in Surjection(U, R)
    <3>1. profits \in [U -> R] /\ \A x \in R : \E i \in U : profits[i] = x
      BY <1>1 DEF Range
    <3> QED BY <3>1 DEF Surjection
  <2>3. IsFiniteSet(R)
    <3> HIDE DEF U, R
    <3> QED BY ONLY <2>1, <2>2, FS_Surjection DEF U
  <2>4. R \in SUBSET Int
    BY <1>1, <1>2 DEF Range
  <2>5. profits[1] \in R
    BY <1>1 DEF Range
  <2> QED BY <2>3, <2>4, <2>5
<1>4. high \in Range(profits) /\ \A x \in Range(profits) : x <= high
  BY <1>3, Largest DEF Max
<1>5. PICK m \in 1 .. n : profits[m] = high
  BY <1>1, <1>4 DEF Range
<1>6. high \in Int /\ \A i \in 1 .. n : profits[i] <= high
  BY <1>1, <1>3, <1>4 DEF Range
<1> HIDE DEF high
<1>7. I \in SUBSET Nat /\ m \in I
  BY <1>1, <1>2, <1>5, <1>6
<1> DEFINE k == Min(I)
<1>8. k \in I /\ \A i \in I : k <= i
  <2> HIDE DEF I
  <2> QED BY <1>7, Least DEF Min
<1>9. SelectedWeight = Weights[k]
  BY DEF SelectedWeight, high
<1> HIDE DEF k
<1>10. k \in 1 .. n /\ high <= profits[k] + Tolerance
  BY <1>1, <1>2, <1>6, <1>8
<1>11. ASSUME NEW i \in 1 .. n, i < k PROVE high > profits[i] + Tolerance
  <2>1. i \notin I
    BY <1>8, <1>10, <1>11
  <2> QED BY <1>1, <1>2, <1>6, <2>1
<1>12. \A i, j \in 1 .. n : i < j => Weights[i] < Weights[j]
  BY <1>1, GridsAssumption DEF Ascending
<1> HIDE DEF I, n
<1>13. ASSUME NEW i \in 1 .. n, Weights[i] = SelectedWeight PROVE i = k
  BY <1>1, <1>2, <1>9, <1>10, <1>12, <1>13
<1>14. ASSUME NEW i \in 1 .. n, Weights[i] < SelectedWeight PROVE i < k
  BY <1>1, <1>2, <1>9, <1>10, <1>12, <1>14
<1>15. ASSUME NEW i \in 1 .. n, Weights[i] = SelectedWeight, NEW j \in 1 .. n
       PROVE  profits[j] <= profits[i] + Tolerance
  BY <1>1, <1>2, <1>6, <1>10, <1>13, <1>15
<1>16. ASSUME NEW i \in 1 .. n, Weights[i] < SelectedWeight
       PROVE  \E j \in 1 .. n : profits[j] > profits[i] + Tolerance
  <2>1. profits[m] > profits[i] + Tolerance
    BY <1>5, <1>11, <1>14, <1>16
  <2> QED BY <2>1, <1>5
<1> QED BY <1>1, <1>15, <1>16
-----------------------------------------------------------------------------
(* Where the study is, and what is known there.                             *)

Testing == {"test days", "scenarios", "done"}
Weighing == {"weights"} \cup Testing
Calibrated == {"fit", "model"} \cup Weighing
Simulating == {"selection days", "calibrate"} \cup Calibrated

Unsearched(f) == selected[f] = Nothing /\ lowest[f] = Nothing
Searching(f) == SearchOK(f, tried, selected[f], lowest[f])
Settled(f) ==
    /\ selected[f] \in Choice /\ lowest[f] \in Losses
    /\ selected[f].loss <= lowest[f] + Times(IF f = "logistic_regression" THEN 1 ELSE 3)

StudyTypes ==
    /\ selected \in [Searched -> Choice \cup {Nothing}]
    /\ lowest \in [Searched -> Losses \cup {Nothing}]
    /\ profits \in Seq(Profits) /\ Len(profits) <= Len(Weights)

TrainInv ==
    /\ step \in {"load", "logistic_regression"} => Unsearched("hist_gradient_boosting")
    /\ step = "load" => tried = 0 /\ Unsearched("logistic_regression")
    /\ step \in Searched => Searching(step)
    /\ step \in {"hist_gradient_boosting", "test", "publish"} => Settled("logistic_regression")
    /\ step \in {"test", "publish"} => Settled("hist_gradient_boosting")

SimulateInv ==
    /\ step \in Simulating => losses \in [ToSet(Families) -> Losses]
    /\ step = "calibrate" => inMemory = {"train", "validation"}
    /\ step \in Calibrated => calibrated = {"train"}
    /\ step \in Weighing => model = SelectedModel
    /\ step \in Testing =>
          Len(profits) = Len(Weights) /\ weight = SelectedWeight /\ configured \in {Nothing, weight}

StudyInv ==
    /\ StudyTypes /\ TrainInv /\ SimulateInv
    /\ "test" \in inMemory => step \in {"publish", "scenarios", "done"}

LEMMA StudyStarts == StudyStart => StudyInv
<1> SUFFICES ASSUME StudyStart PROVE StudyInv
  OBVIOUS
<1>1. StudyTypes
  BY GridsAssumption, SelectionAssumption DEF StudyStart, StudyTypes, NoneSelected
<1>2. TrainInv
  BY DEF StudyStart, TrainInv, NoneSelected, Searched, Unsearched
<1>3. SimulateInv
  BY DEF StudyStart, SimulateInv, Simulating, Calibrated, Weighing, Testing
<1> QED BY <1>1, <1>2, <1>3 DEF StudyInv, StudyStart

(* A complete search leaves its family settled.                             *)
LEMMA SearchSettles ==
    ASSUME NEW f \in Searched, StudyInv, step = f, tried = Len(GridOf(f)), selected[f] # Nothing
    PROVE  Settled(f)
<1>1. Near(f, tried, selected[f], lowest[f])
  BY DEF StudyInv, TrainInv, Searching, SearchOK
<1> DEFINE s == selected[f]
           l == lowest[f]
           g == Gap(f, s.candidate, tried)
<1>2. s \in Choice /\ l \in Losses /\ s.candidate \in DOMAIN GridOf(f) /\ s.loss <= l + Times(g)
  BY <1>1, GridLength DEF Near
<1>3. g \in 0 .. 3 /\ (f = "logistic_regression" => g \in 0 .. 1)
  BY <1>2, GapBounds
<1>4. s.loss \in Nat /\ l \in Nat /\ Tolerance \in Nat
  BY <1>2, SelectionAssumption DEF Choice
<1>5. s.loss <= l + Times(IF f = "logistic_regression" THEN 1 ELSE 3)
  <2> HIDE DEF g, s, l
  <2>1. CASE f = "logistic_regression"
    BY <1>2, <1>3, <1>4, <2>1 DEF Times
  <2>2. CASE f # "logistic_regression"
    BY <1>2, <1>3, <1>4, <2>2 DEF Times
  <2> QED BY <2>1, <2>2
<1> QED BY <1>2, <1>5 DEF Settled

LEMMA TryCandidateKeeps ==
    ASSUME NEW f \in Searched, StudyInv, TryCandidate(f)
    PROVE  StudyInv'
<1>1. SearchOK(f, tried, selected[f], lowest[f])
  BY DEF TryCandidate, StudyInv, TrainInv, Searching
<1> DEFINE s == selected[f]
           l == lowest[f]
           n == tried + 1
<1>2. /\ SearchOK(f, n, s, l)
      /\ \A loss \in Losses :
            SearchOK(f, n,
                     IF \/ s = Nothing \/ loss < s.loss - Tolerance
                        \/ Distance(loss, s.loss) <= Tolerance /\ Simpler(f, n, s.candidate)
                     THEN [candidate |-> n, loss |-> loss] ELSE s,
                     IF l = Nothing \/ loss < l THEN loss ELSE l)
  BY <1>1, SearchStep DEF TryCandidate
<1>3. /\ Searching(f)'
      /\ \A h \in Searched \ {f} : selected'[h] = selected[h] /\ lowest'[h] = lowest[h]
      /\ StudyTypes'
  <2>1. CASE UNCHANGED <<selected, lowest>>
    BY <1>2, <2>1 DEF TryCandidate, StudyInv, StudyTypes, Searching, signal
  <2>2. ASSUME NEW loss \in Losses,
               selected' = IF Preferred(f, tried', loss)
                           THEN [selected EXCEPT ![f] = [candidate |-> tried', loss |-> loss]]
                           ELSE selected,
               lowest' = [lowest EXCEPT ![f] = IF @ = Nothing \/ loss < @ THEN loss ELSE @]
        PROVE  /\ Searching(f)'
               /\ \A h \in Searched \ {f} : selected'[h] = selected[h] /\ lowest'[h] = lowest[h]
               /\ StudyTypes'
    <3>1. /\ selected'[f] = IF Preferred(f, n, loss) THEN [candidate |-> n, loss |-> loss] ELSE s
          /\ lowest'[f] = IF l = Nothing \/ loss < l THEN loss ELSE l
          /\ tried' = n
      BY <2>2 DEF TryCandidate, StudyInv, StudyTypes
    <3>2. SearchOK(f, n, selected'[f], lowest'[f])
      BY <1>2, <3>1 DEF Preferred
    <3>3. Searching(f)'
      BY <3>1, <3>2 DEF Searching
    <3>4. \A h \in Searched \ {f} : selected'[h] = selected[h] /\ lowest'[h] = lowest[h]
      BY <2>2 DEF StudyInv, StudyTypes
    <3>5. selected'[f] \in Choice \cup {Nothing} /\ lowest'[f] \in Losses \cup {Nothing}
      BY <3>2 DEF SearchOK, Near
    <3>6. /\ selected' \in [Searched -> Choice \cup {Nothing}]
          /\ lowest' \in [Searched -> Losses \cup {Nothing}]
      <4>1. /\ DOMAIN selected' = Searched /\ DOMAIN lowest' = Searched
            /\ selected' = [h \in Searched |-> selected'[h]] /\ lowest' = [h \in Searched |-> lowest'[h]]
        BY <2>2 DEF StudyInv, StudyTypes
      <4>2. \A h \in Searched : selected'[h] \in Choice \cup {Nothing} /\ lowest'[h] \in Losses \cup {Nothing}
        BY <3>4, <3>5 DEF StudyInv, StudyTypes
      <4> QED BY <4>1, <4>2
    <3>7. StudyTypes'
      BY <3>6 DEF TryCandidate, StudyInv, StudyTypes, signal
    <3> QED BY <3>3, <3>4, <3>7
  <2> QED BY <2>1, <2>2 DEF TryCandidate
<1>4. TrainInv'
  <2>1. CASE f = "logistic_regression"
    <3>1. "hist_gradient_boosting" \in Searched \ {f}
      BY <2>1 DEF Searched
    <3> QED BY <1>3, <2>1, <3>1 DEF TryCandidate, StudyInv, TrainInv, Unsearched, Searching
  <2>2. CASE f = "hist_gradient_boosting"
    <3>1. "logistic_regression" \in Searched \ {f}
      BY <2>2 DEF Searched
    <3> QED BY <1>3, <2>2, <3>1 DEF TryCandidate, StudyInv, TrainInv, Settled, Searching
  <2> QED BY <2>1, <2>2 DEF Searched
<1>5. SimulateInv'
  BY DEF TryCandidate, StudyInv, SimulateInv, Simulating, Calibrated, Weighing, Testing, Searched
<1> QED BY <1>3, <1>4, <1>5 DEF TryCandidate, StudyInv

LEMMA EndSearchKeeps ==
    ASSUME NEW f \in Searched, StudyInv, EndSearch(f)
    PROVE  StudyInv'
<1>1. selected[f] # Nothing => Settled(f)
  BY SearchSettles DEF EndSearch
<1>2. SelectedModel' = SelectedModel /\ SelectedWeight' = SelectedWeight /\ StudyTypes'
  BY DEF EndSearch, StudyInv, StudyTypes, signal, SelectedModel, SelectedWeight
<1>3. TrainInv'
  <2>1. CASE selected[f] = Nothing
    BY <2>1 DEF EndSearch, Then, TrainInv, Searched
  <2>2. CASE selected[f] # Nothing /\ f = "logistic_regression"
    <3>1. Unsearched("hist_gradient_boosting")
      BY <2>2 DEF EndSearch, StudyInv, TrainInv
    <3>2. SearchOK("hist_gradient_boosting", 0, Nothing, Nothing)
      BY GridLength DEF SearchOK, Searched
    <3> QED BY <1>1, <2>2, <3>1, <3>2 DEF EndSearch, Then, TrainInv, Searched, Searching, Settled, Unsearched
  <2>3. CASE selected[f] # Nothing /\ f = "hist_gradient_boosting"
    BY <1>1, <2>3 DEF EndSearch, Then, StudyInv, TrainInv, Searched, Settled
  <2> QED BY <2>1, <2>2, <2>3 DEF Searched
<1>4. SimulateInv'
  BY DEF EndSearch, Then, SimulateInv, Simulating, Calibrated, Weighing, Testing
<1>5. "test" \notin inMemory'
  BY DEF EndSearch, StudyInv, Searched
<1> QED BY <1>2, <1>3, <1>4, <1>5 DEF StudyInv

LEMMA StudyKeeps == StudyInv /\ [StudyNext]_studyVars => StudyInv'
<1> SUFFICES ASSUME StudyInv, [StudyNext]_studyVars PROVE StudyInv'
  OBVIOUS
<1> USE DEF Then
<1>1. CASE LoadTrainAndValidation
  <2>1. StudyTypes' /\ Searching("logistic_regression")' /\ Unsearched("hist_gradient_boosting")'
    BY <1>1, GridLength
    DEF LoadTrainAndValidation, StudyInv, StudyTypes, TrainInv, search, signal, Unsearched, Searching, SearchOK, Searched
  <2> QED BY <1>1, <2>1
    DEF LoadTrainAndValidation, StudyInv, TrainInv, SimulateInv, Simulating, Calibrated, Weighing, Testing, Searched
<1>2. ASSUME NEW f \in Searched, TryCandidate(f) PROVE StudyInv'
  BY <1>2, TryCandidateKeeps
<1>3. ASSUME NEW f \in Searched, EndSearch(f) PROVE StudyInv'
  BY <1>3, EndSearchKeeps
<1>4. CASE LoadTest
  <2>1. StudyTypes' /\ \A f \in Searched : Settled(f)'
    BY <1>4 DEF LoadTest, StudyInv, StudyTypes, TrainInv, search, signal, Settled, Searched
  <2> QED BY <1>4, <2>1
    DEF LoadTest, StudyInv, TrainInv, SimulateInv, Simulating, Calibrated, Weighing, Testing, Searched
<1>5. CASE PublishExperiment
  <2>1. StudyTypes'
    BY <1>5 DEF PublishExperiment, StudyInv, StudyTypes, NoneSelected
  <2>2. losses' \in [ToSet(Families) -> Losses]
    <3>1. ToSet(Families) = {"prior", "logistic_regression", "hist_gradient_boosting"}
      <4>1. DOMAIN Families = 1 .. 3
        BY DEF Families
      <4> QED BY <4>1 DEF ToSet, Families
    <3>2. \A f \in Searched : selected[f].loss \in Losses
      BY <1>5 DEF PublishExperiment, StudyInv, TrainInv, Settled, Choice, Searched
    <3> QED BY <1>5, <3>1, <3>2 DEF PublishExperiment, Searched
  <2> QED BY <1>5, <2>1, <2>2
    DEF PublishExperiment, StudyInv, TrainInv, SimulateInv, Calibrated, Weighing, Testing, Searched
<1>6. CASE ReadSelectionDays
  BY <1>6 DEF ReadSelectionDays, StudyInv, StudyTypes, TrainInv, SimulateInv, search, signal,
     Simulating, Calibrated, Weighing, Testing, Searched
<1>7. CASE Calibrate
  <2>1. calibrated' = {"train"}
    BY <1>7 DEF Calibrate, StudyInv, SimulateInv, Recordable
  <2> QED BY <1>7, <2>1 DEF Calibrate, StudyInv, StudyTypes, TrainInv, SimulateInv, search,
     Simulating, Calibrated, Weighing, Testing, Searched
<1>8. CASE FitIntensity
  BY <1>8 DEF FitIntensity, StudyInv, StudyTypes, TrainInv, SimulateInv, search, signal,
     Simulating, Calibrated, Weighing, Testing, Searched
<1>9. CASE SelectModel
  <2>1. SelectedModel' = SelectedModel
    BY <1>9 DEF SelectModel, SelectedModel
  <2> QED BY <1>9, <2>1 DEF SelectModel, StudyInv, StudyTypes, TrainInv, SimulateInv, search,
     Simulating, Calibrated, Weighing, Testing, Searched
<1>10. CASE TryWeight
  <2>1. SelectedModel' = SelectedModel
    BY <1>10 DEF TryWeight, SelectedModel
  <2>2. profits' \in Seq(Profits) /\ Len(profits') = Len(profits) + 1
    BY <1>10 DEF TryWeight, StudyInv, StudyTypes
  <2>3. Len(profits) \in Nat /\ Len(Weights) \in Nat
    BY SelectionAssumption DEF StudyInv, StudyTypes
  <2>4. StudyTypes'
    BY <1>10, <2>2, <2>3 DEF TryWeight, StudyInv, StudyTypes, search
  <2> QED BY <1>10, <2>1, <2>4 DEF TryWeight, StudyInv, TrainInv, SimulateInv, search,
     Simulating, Calibrated, Weighing, Testing, Searched
<1>11. CASE SelectWeight
  <2>1. SelectedModel' = SelectedModel /\ SelectedWeight' = SelectedWeight
    BY <1>11 DEF SelectWeight, SelectedModel, SelectedWeight
  <2>2. StudyTypes'
    BY <1>11 DEF SelectWeight, StudyInv, StudyTypes, search
  <2> QED BY <1>11, <2>1, <2>2 DEF SelectWeight, StudyInv, TrainInv, SimulateInv, search,
     Simulating, Calibrated, Weighing, Testing, Searched
<1>12. CASE ReadTestDays
  <2>1. SelectedModel' = SelectedModel /\ SelectedWeight' = SelectedWeight
    BY <1>12 DEF ReadTestDays, SelectedModel, SelectedWeight, signal
  <2> QED BY <1>12, <2>1 DEF ReadTestDays, StudyInv, StudyTypes, TrainInv, SimulateInv, search, signal,
     Simulating, Calibrated, Weighing, Testing, Searched
<1>13. CASE RunTestScenarios
  <2>1. SelectedModel' = SelectedModel /\ SelectedWeight' = SelectedWeight
    BY <1>13 DEF RunTestScenarios, SelectedModel, SelectedWeight, signal
  <2> QED BY <1>13, <2>1 DEF RunTestScenarios, StudyInv, StudyTypes, TrainInv, SimulateInv, search, signal,
     Simulating, Calibrated, Weighing, Testing, Searched
<1>14. CASE FailStudy
  BY <1>14 DEF FailStudy, StudyInv, StudyTypes, TrainInv, SimulateInv, search, signal,
     Simulating, Calibrated, Weighing, Testing, Searched
<1>15. CASE UNCHANGED studyVars
  <2>1. SelectedModel' = SelectedModel /\ SelectedWeight' = SelectedWeight
    BY <1>15 DEF studyVars, SelectedModel, SelectedWeight, signal
  <2> QED BY <1>15, <2>1 DEF studyVars, StudyInv, StudyTypes, TrainInv, SimulateInv, search, signal,
     Unsearched, Searching, Settled
<1> QED BY <1>1, <1>2, <1>3, <1>4, <1>5, <1>6, <1>7, <1>8, <1>9, <1>10, <1>11, <1>12, <1>13, <1>14, <1>15
  DEF StudyNext

LEMMA StudyInvImplies == StudyInv => FrozenBeforeTest
<1> SUFFICES ASSUME StudyInv, "test" \in inMemory PROVE FrozenBeforeTest
  BY DEF FrozenBeforeTest
<1>1. CASE step = "publish"
  <2>1. Settled("logistic_regression") /\ Settled("hist_gradient_boosting")
    BY <1>1 DEF StudyInv, TrainInv
  <2>2. Nothing \notin Choice
    BY SelectionAssumption DEF Choice
  <2>3. \A f \in Searched : selected[f] # Nothing
    BY <2>1, <2>2 DEF Searched, Settled
  <2>4. \A f \in Searched : lowest[f] \in Nat /\ Tolerance \in Nat
    BY <2>1, SelectionAssumption DEF Searched, Settled
  <2>5. Within("logistic_regression", 1)
    BY <2>1, <2>4 DEF Settled, Within, Times, Searched
  <2>6. Within("hist_gradient_boosting", 3)
    BY <2>1, <2>4 DEF Settled, Within, Times, Searched
  <2> QED BY <1>1, <2>3, <2>5, <2>6 DEF FrozenBeforeTest
<1>2. CASE step # "publish"
  <2>1. /\ losses \in [ToSet(Families) -> Losses] /\ calibrated = {"train"} /\ model = SelectedModel
        /\ Len(profits) = Len(Weights) /\ weight = SelectedWeight /\ configured \in {Nothing, weight}
        /\ profits \in Seq(Profits)
    BY <1>2 DEF StudyInv, StudyTypes, SimulateInv, Simulating, Calibrated, Weighing, Testing
  <2> QED BY <1>2, <2>1, ModelSelected, WeightSelected DEF FrozenBeforeTest
<1> QED BY <1>1, <1>2

(* Test rows never reach a choice: FrozenBeforeTest holds for every grid    *)
(* the schema allows, every loss, profit and tolerance, and every failure.  *)
THEOREM StudyIsFrozen == StudySpec => []FrozenBeforeTest
<1>1. StudyInv /\ [StudyNext]_studyVars => StudyInv'
  BY StudyKeeps
<1> QED BY StudyStarts, StudyInvImplies, <1>1, PTL DEF StudySpec
=============================================================================
