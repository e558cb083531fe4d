----------------------- MODULE ReplayPublicationProofs -----------------------
(***************************************************************************)
(* For any number of replay commands of one identity: what is published is *)
(* whole, no staging directory has two writers, and only a killed process  *)
(* leaves its lock behind.  The invariants need each other: a writer finds *)
(* only its own files because it is the only writer, and it is the only    *)
(* one because every live writer's directory exists.                       *)
(***************************************************************************)
EXTENDS ReplayPublication, TLAPS

Inv == PublicationInv /\ SingleWriter /\ PublishedIsWhole /\ StaleOnlyByCrash

LEMMA StagedNamesAreNames ==
    ASSUME NEW at \in Staged PROVE StagedNames(at) \in SUBSET Names
BY DEF StagedNames, Staged, Names

LEMMA FilesAreFiles ==
    ASSUME NEW at \in Staged, NEW p \in Processes
    PROVE  [name : StagedNames(at), by : {p}] \in SUBSET File
BY StagedNamesAreNames DEF File

(* The files of one writer are determined by their names. *)
LEMMA FilesBy ==
    ASSUME NEW names, NEW p
    PROVE  [name : names, by : {p}] = {[name |-> n, by |-> p] : n \in names}
<1>1. ASSUME NEW f \in [name : names, by : {p}]
      PROVE  f \in {[name |-> n, by |-> p] : n \in names}
  <2>1. f = [name |-> f.name, by |-> f.by] /\ f.name \in names /\ f.by = p
    OBVIOUS
  <2> QED BY <2>1
<1>2. ASSUME NEW n \in names
      PROVE  [name |-> n, by |-> p] \in [name : names, by : {p}]
  OBVIOUS
<1> QED BY <1>1, <1>2

LEMMA InitInv == Init => Inv
BY PublicationAssumption
   DEF Init, Inv, PublicationInv, TypeOK, SingleWriter, PublishedIsWhole,
       StaleOnlyByCrash, Staged, Live, Ended

(* A process that leaves its directory alone and gets a stage in which it   *)
(* needs none keeps everything but, maybe, StaleOnlyByCrash.                *)
LEMMA LeavingKeeps ==
    ASSUME Inv, NEW p \in Processes,
           NEW next \in ({"start"} \cup Live \cup Ended) \ Staged,
           stage' = [stage EXCEPT ![p] = next],
           UNCHANGED <<dirs, commands>>,
           lock' \in Processes \cup {NoProcess},
           unseen' \in [Processes -> SUBSET (Ids \X {"partial", "final"})],
           before' \in [Processes -> SUBSET Ids]
    PROVE  PublicationInv' /\ SingleWriter' /\ PublishedIsWhole'
<1> USE DEF Inv, dirs, commands
<1>1. TypeOK'
  BY DEF PublicationInv, TypeOK
<1>2. \A q \in Processes : stage'[q] \in Staged => stage[q] = stage'[q] /\ stage[q] \in Staged
  BY DEF PublicationInv, TypeOK
<1>3. PublicationInv'
  BY <1>1, <1>2 DEF PublicationInv, StagedFiles
<1>4. SingleWriter'
  BY <1>2 DEF SingleWriter
<1>5. PublishedIsWhole'
  BY DEF PublishedIsWhole, Whole
<1> QED BY <1>3, <1>4, <1>5

(* A call of a live writer that brings its directory to what the next stage *)
(* expects.                                                                 *)
LEMMA WritingKeeps ==
    ASSUME Inv, NEW p \in Processes, NEW next \in Staged,
           stage[p] \in Staged,
           stage' = [stage EXCEPT ![p] = next],
           staging' = [staging EXCEPT ![id[p]] = [name : StagedNames(next), by : {p}]],
           UNCHANGED <<lock, partials, finals, final, altered, commands, scans>>
    PROVE  Inv'
<1> USE DEF Inv, commands, scans
<1>1. id[p] \in Ids /\ id[p] \in partials
  BY DEF PublicationInv, TypeOK
<1>2. next \in Live
  BY DEF Staged, Live
<1>3. TypeOK'
  BY <1>2, FilesAreFiles DEF PublicationInv, TypeOK
<1>4. \A i \in Ids : i \notin partials' => staging'[i] = {}
  BY <1>1 DEF PublicationInv, TypeOK
<1>5. ASSUME NEW q \in Processes, stage'[q] \in Staged
      PROVE  id'[q] \in partials' /\ staging'[id'[q]] = StagedFiles(q)'
  <2>1. CASE q = p
    BY <2>1, <1>1 DEF PublicationInv, TypeOK, StagedFiles
  <2>2. CASE q # p
    <3>1. stage'[q] = stage[q] /\ id[q] \in Ids
      BY <2>2 DEF PublicationInv, TypeOK
    <3>2. id[q] # id[p]
      BY <2>2, <3>1, <1>5 DEF SingleWriter
    <3>3. staging'[id[q]] = staging[id[q]]
      BY <3>1, <3>2 DEF PublicationInv, TypeOK
    <3> QED BY <3>1, <3>3, <1>5 DEF PublicationInv, StagedFiles
  <2> QED BY <2>1, <2>2
<1>6. SingleWriter'
  BY DEF SingleWriter, PublicationInv, TypeOK
<1>7. PublishedIsWhole'
  BY DEF PublishedIsWhole, Whole
<1>8. StaleOnlyByCrash'
  BY <1>2 DEF StaleOnlyByCrash, PublicationInv, TypeOK
<1> QED BY <1>3, <1>4, <1>5, <1>6, <1>7, <1>8 DEF PublicationInv

(* A failure under ReplayLockRelease. *)
LEMMA UnwindingKeeps ==
    ASSUME Inv, NEW p \in Processes, stage' = [stage EXCEPT ![p] = "unwind"],
           UNCHANGED <<lock, dirs, commands, scans>>
    PROVE  Inv'
<1>1. "unwind" \in ({"start"} \cup Live \cup Ended) \ Staged
  BY DEF Live, Ended, Staged
<1>2. PublicationInv' /\ SingleWriter' /\ PublishedIsWhole'
  BY <1>1, LeavingKeeps DEF scans, Inv, PublicationInv, TypeOK
<1>3. StaleOnlyByCrash'
  BY DEF StaleOnlyByCrash, Inv, PublicationInv, TypeOK, Live
<1> QED BY <1>2, <1>3 DEF Inv

(* A failure or an early answer that frees the lock. *)
LEMMA FreeingKeeps ==
    ASSUME Inv, NEW p \in Processes, NEW next \in Ended \ {"crashed"},
           stage' = [stage EXCEPT ![p] = next],
           lock' = NoProcess, UNCHANGED <<dirs, commands, scans>>
    PROVE  Inv'
<1>1. next \in ({"start"} \cup Live \cup Ended) \ Staged
  BY DEF Ended, Staged
<1>2. PublicationInv' /\ SingleWriter' /\ PublishedIsWhole'
  BY <1>1, LeavingKeeps DEF scans, Inv, PublicationInv, TypeOK
<1>3. StaleOnlyByCrash'
  BY DEF StaleOnlyByCrash
<1> QED BY <1>2, <1>3 DEF Inv

-----------------------------------------------------------------------------
(* prepare_replay_run. *)

LEMMA TakeLockKeeps == ASSUME Inv, NEW p \in Processes, TakeLock(p) PROVE Inv'
<1> USE DEF TakeLock, GoTo, FailAfterLock
<1>1. CASE GoTo(p, "failed") /\ UNCHANGED <<lock, scans>>
  <2>1. "failed" \in ({"start"} \cup Live \cup Ended) \ Staged
    BY DEF Live, Ended, Staged
  <2>2. PublicationInv' /\ SingleWriter' /\ PublishedIsWhole'
    BY <1>1, <2>1, LeavingKeeps DEF scans, Inv, PublicationInv, TypeOK
  <2>3. lock # p
    BY <1>1, PublicationAssumption DEF Inv, StaleOnlyByCrash, Live
  <2>4. StaleOnlyByCrash'
    BY <1>1, <2>3 DEF Inv, StaleOnlyByCrash, PublicationInv, TypeOK
  <2> QED BY <2>2, <2>4 DEF Inv
<1>2. CASE lock' = p
  <2> DEFINE next == IF forced[p] THEN "fresh" ELSE "scan"
  <2>1. next \in ({"start"} \cup Live \cup Ended) \ Staged /\ next \in Live
    BY DEF Live, Ended, Staged
  <2>2. Entries \in SUBSET (Ids \X {"partial", "final"}) /\ finals \in SUBSET Ids
    BY DEF Entries, Inv, PublicationInv, TypeOK
  <2>3. lock' # lock
    BY <1>2, PublicationAssumption DEF Inv, StaleOnlyByCrash, Live
  <2>4. stage' = [stage EXCEPT ![p] = next] /\ lock' = p
    BY <1>2, <2>3
  <2>5. /\ unseen' \in [Processes -> SUBSET (Ids \X {"partial", "final"})]
        /\ before' \in [Processes -> SUBSET Ids]
        /\ UNCHANGED <<dirs, commands>>
    BY <1>2, <2>3, <2>2 DEF Inv, PublicationInv, TypeOK
  <2> HIDE DEF next
  <2>6. PublicationInv' /\ SingleWriter' /\ PublishedIsWhole'
    BY <2>1, <2>4, <2>5, LeavingKeeps
  <2>7. StaleOnlyByCrash'
    BY <2>1, <2>4 DEF Inv, StaleOnlyByCrash, PublicationInv, TypeOK
  <2> QED BY <2>6, <2>7 DEF Inv
<1> QED BY <1>1, <1>2

(* Going on in prepare_replay_run without touching a file. *)
LEMMA GoingOnKeeps ==
    ASSUME Inv, NEW p \in Processes, NEW next \in Live \ Staged,
           stage' = [stage EXCEPT ![p] = next],
           UNCHANGED <<lock, dirs, commands, before>>,
           unseen' \in [Processes -> SUBSET (Ids \X {"partial", "final"})]
    PROVE  Inv'
<1>1. next \in ({"start"} \cup Live \cup Ended) \ Staged
  OBVIOUS
<1>2. lock' \in Processes \cup {NoProcess} /\ before' \in [Processes -> SUBSET Ids]
  BY DEF Inv, PublicationInv, TypeOK
<1>3. PublicationInv' /\ SingleWriter' /\ PublishedIsWhole'
  BY <1>1, <1>2, LeavingKeeps
<1>4. StaleOnlyByCrash'
  BY DEF StaleOnlyByCrash, Inv, PublicationInv, TypeOK
<1> QED BY <1>3, <1>4 DEF Inv

LEMMA ScanKeeps ==
    ASSUME Inv, NEW p \in Processes, ScanEntry(p) \/ EndScan(p) \/ CheckFinalAbsent(p)
    PROVE  Inv'
<1> USE DEF GoTo, FailAfterLock
<1>1. "failed" \in Ended \ {"crashed"} /\ "existing" \in Ended \ {"crashed"}
  BY DEF Ended
<1>2. "fresh" \in Live \ Staged /\ "scan" \in Live \ Staged /\ "create" \in Live \ Staged
  BY DEF Live, Staged
<1>3. CASE ScanEntry(p)
  <2>1. PICK e \in unseen[p] \cup Entries :
            \/ /\ GoTo(p, "failed") \/ GoTo(p, "existing")
               /\ lock' = NoProcess /\ UNCHANGED unseen
            \/ /\ unseen' = [unseen EXCEPT ![p] = @ \ {e}]
               /\ UNCHANGED <<lock, stage>>
    BY <1>3 DEF ScanEntry
  <2>2. UNCHANGED <<dirs, commands, before>> /\ stage[p] = "scan"
    BY <1>3 DEF ScanEntry
  <2>3. CASE GoTo(p, "failed") /\ lock' = NoProcess /\ UNCHANGED unseen
    BY <1>1, <2>2, <2>3, FreeingKeeps DEF scans
  <2>4. CASE GoTo(p, "existing") /\ lock' = NoProcess /\ UNCHANGED unseen
    BY <1>1, <2>2, <2>4, FreeingKeeps DEF scans
  <2>5. CASE unseen' = [unseen EXCEPT ![p] = @ \ {e}] /\ UNCHANGED <<lock, stage>>
    <3>1. stage' = [stage EXCEPT ![p] = "scan"]
      BY <2>2, <2>5 DEF Inv, PublicationInv, TypeOK
    <3>2. unseen' \in [Processes -> SUBSET (Ids \X {"partial", "final"})]
      BY <2>5 DEF Inv, PublicationInv, TypeOK
    <3> QED BY <1>2, <2>2, <2>5, <3>1, <3>2, GoingOnKeeps
  <2> QED BY <2>1, <2>3, <2>4, <2>5
<1>4. CASE EndScan(p)
  BY <1>2, <1>4, GoingOnKeeps DEF EndScan, scans, Inv, PublicationInv, TypeOK
<1>5. CASE CheckFinalAbsent(p)
  <2>1. CASE FailAfterLock(p)
    BY <1>1, <1>5, <2>1, FreeingKeeps DEF CheckFinalAbsent
  <2>2. CASE GoTo(p, "create") /\ UNCHANGED lock
    BY <1>2, <1>5, <2>2, GoingOnKeeps
       DEF CheckFinalAbsent, scans, Inv, PublicationInv, TypeOK
  <2> QED BY <1>5, <2>1, <2>2 DEF CheckFinalAbsent
<1> QED BY <1>3, <1>4, <1>5

(* The new directory is empty, and no live writer was using its name. *)
LEMMA CreateStagingKeeps ==
    ASSUME Inv, NEW p \in Processes, CreateStaging(p) PROVE Inv'
<1> USE DEF GoTo, FailAfterLock
<1>1. CASE FailAfterLock(p) /\ UNCHANGED partials
  <2>1. UNCHANGED <<dirs, commands, scans>>
    BY <1>1 DEF CreateStaging, dirs
  <2>2. "failed" \in Ended \ {"crashed"}
    BY DEF Ended
  <2> QED BY <1>1, <2>1, <2>2, FreeingKeeps
<1>2. CASE ~(FailAfterLock(p) /\ UNCHANGED partials)
  <2> USE DEF commands, scans
  <2>1. /\ id[p] \in Ids \ partials
        /\ partials' = partials \cup {id[p]}
        /\ stage' = [stage EXCEPT ![p] = "mark"]
        /\ UNCHANGED <<lock, staging, finals, final, altered, commands, scans>>
    BY <1>2 DEF CreateStaging, Creatable, Inv, PublicationInv, TypeOK
  <2>2. "mark" \in Live /\ "mark" \in Staged
    BY DEF Live, Staged
  <2>3. TypeOK'
    BY <2>1, <2>2 DEF Inv, PublicationInv, TypeOK
  <2>4. \A i \in Ids : i \notin partials' => staging'[i] = {}
    BY <2>1 DEF Inv, PublicationInv
  <2>5. ASSUME NEW q \in Processes, stage'[q] \in Staged
        PROVE  id'[q] \in partials' /\ staging'[id'[q]] = StagedFiles(q)'
    <3>1. CASE q = p
      <4>1. stage'[q] = "mark" /\ staging[id[p]] = {}
        BY <2>1, <3>1 DEF Inv, PublicationInv, TypeOK
      <4>2. StagedNames(stage'[q]) = {}
        BY <4>1 DEF StagedNames
      <4>3. [name : {}, by : {q}] = {}
        OBVIOUS
      <4> QED BY <2>1, <3>1, <4>1, <4>2, <4>3 DEF StagedFiles
    <3>2. CASE q # p
      BY <2>1, <2>5, <3>2 DEF Inv, PublicationInv, TypeOK, StagedFiles
    <3> QED BY <3>1, <3>2
  <2>6. SingleWriter'
    <3> SUFFICES ASSUME NEW q \in Processes, NEW r \in Processes, q # r,
                        stage'[q] \in Staged, stage'[r] \in Staged
                 PROVE  id'[q] # id'[r]
      BY DEF SingleWriter
    <3>1. \A t \in Processes : t # p /\ stage'[t] \in Staged =>
             stage[t] \in Staged /\ id[t] \in partials
      BY <2>1 DEF Inv, PublicationInv, TypeOK
    <3> QED BY <2>1, <3>1 DEF Inv, SingleWriter
  <2>7. PublishedIsWhole'
    BY <2>1 DEF Inv, PublishedIsWhole, Whole
  <2>8. StaleOnlyByCrash'
    BY <2>1, <2>2 DEF Inv, StaleOnlyByCrash, PublicationInv, TypeOK
  <2> QED BY <2>3, <2>4, <2>5, <2>6, <2>7, <2>8 DEF Inv, PublicationInv
<1> QED BY <1>1, <1>2

-----------------------------------------------------------------------------
(* run_replay and publish_replay_run. *)

LEMMA WriteMarkerKeeps == ASSUME Inv, NEW p \in Processes, WriteMarker(p) PROVE Inv'
<1> USE DEF GoTo, FailAfterLock
<1>1. stage[p] = "mark" /\ stage[p] \in Staged /\ "open" \in Staged
  BY DEF WriteMarker, Staged
<1>2. CASE FailAfterLock(p) /\ UNCHANGED staging
  BY <1>2, FreeingKeeps DEF WriteMarker, dirs, Ended
<1>3. CASE ~(FailAfterLock(p) /\ UNCHANGED staging)
  <2>1. staging[id[p]] = {}
    <3>1. [name : {}, by : {p}] = {}
      OBVIOUS
    <3>2. StagedNames(stage[p]) = {}
      BY <1>1 DEF StagedNames
    <3> QED BY <1>1, <3>1, <3>2 DEF Inv, PublicationInv, StagedFiles
  <2>2. staging' = [staging EXCEPT ![id[p]] = [name : StagedNames("open"), by : {p}]]
    <3>1. StagedNames("open") = {"identity"}
      BY DEF StagedNames
    <3> QED BY <1>3, <2>1, <3>1 DEF WriteMarker, WithFiles
  <2> QED BY <1>1, <1>3, <2>2, WritingKeeps DEF WriteMarker
<1> QED BY <1>2, <1>3

LEMMA OpenWritersKeeps == ASSUME Inv, NEW p \in Processes, OpenWriters(p) PROVE Inv'
<1> USE DEF GoTo, Fail
<1>1. stage[p] = "open" /\ stage[p] \in Staged /\ "replay" \in Staged
  BY DEF OpenWriters, Staged
<1>2. CASE Fail(p)
  BY <1>2, UnwindingKeeps DEF OpenWriters, dirs
<1>3. CASE ~Fail(p)
  <2>1. staging[id[p]] = [name : {"identity"}, by : {p}]
    BY <1>1 DEF Inv, PublicationInv, StagedFiles, StagedNames
  <2>2. StagedNames("replay") = {"identity", "events.open", "snapshots.open"}
    BY DEF StagedNames
  <2>3. [name : {"identity"}, by : {p}]
           \cup [name : {"events.open", "snapshots.open"}, by : {p}]
        = [name : {"identity", "events.open", "snapshots.open"}, by : {p}]
    OBVIOUS
  <2>4. staging' = [staging EXCEPT ![id[p]] = [name : StagedNames("replay"), by : {p}]]
    BY <1>3, <2>1, <2>2, <2>3 DEF OpenWriters, WithFiles
  <2> QED BY <1>1, <1>3, <2>4, WritingKeeps DEF OpenWriters
<1> QED BY <1>2, <1>3

LEMMA ReplayKeeps == ASSUME Inv, NEW p \in Processes, Replay(p) PROVE Inv'
<1> USE DEF GoTo, Fail
<1>1. stage[p] = "replay" /\ stage[p] \in Staged /\ "check" \in Staged
  BY DEF Replay, Staged
<1>2. CASE Fail(p)
  BY <1>2, UnwindingKeeps DEF Replay, dirs
<1>3. CASE ~Fail(p)
  <2>1. staging[id[p]] = [name : {"identity", "events.open", "snapshots.open"}, by : {p}]
    BY <1>1 DEF Inv, PublicationInv, StagedFiles, StagedNames
  <2>2. StagedNames("check") = {"identity", "events.partial", "snapshots.partial"}
    BY DEF StagedNames
  <2>3. Finalised(id[p])
          = [name : {"identity", "events.partial", "snapshots.partial"}, by : {p}]
    <3> DEFINE closed == [name : {"identity", "events.partial", "snapshots.partial"},
                          by : {p}]
    <3>1. ASSUME NEW f \in staging[id[p]] PROVE Closed(f) \in closed
      BY <2>1 DEF Closed
    <3>2. ASSUME NEW g \in closed PROVE \E f \in staging[id[p]] : g = Closed(f)
      <4> DEFINE open == CASE g.name = "events.partial" -> "events.open"
                           [] g.name = "snapshots.partial" -> "snapshots.open"
                           [] OTHER -> g.name
                 f == [name |-> open, by |-> p]
      <4>1. g = [name |-> g.name, by |-> p]
        OBVIOUS
      <4>2. f \in staging[id[p]]
        BY <2>1
      <4>3. g = Closed(f)
        BY <4>1 DEF Closed
      <4> QED BY <4>2, <4>3
    <3> QED BY <3>1, <3>2, Zenon DEF Finalised
  <2>4. staging' = [staging EXCEPT ![id[p]] = [name : StagedNames("check"), by : {p}]]
    BY <1>3, <2>2, <2>3 DEF Replay
  <2> QED BY <1>1, <1>3, <2>4, WritingKeeps DEF Replay
<1> QED BY <1>2, <1>3

(* The two calls of publish_replay_run that change no staged file. *)
LEMMA CheckTargetsKeeps == ASSUME Inv, NEW p \in Processes, CheckTargets(p) PROVE Inv'
<1> USE DEF GoTo
<1>1. stage[p] = "check" /\ stage[p] \in Staged /\ "manifest" \in Staged
  BY DEF CheckTargets, Staged
<1>2. CASE GoTo(p, "unwind")
  BY <1>2, UnwindingKeeps DEF CheckTargets
<1>3. CASE GoTo(p, "manifest")
  <2>1. staging[id[p]] = [name : StagedNames("manifest"), by : {p}]
    BY <1>1 DEF Inv, PublicationInv, StagedFiles, StagedNames
  <2>2. staging' = [staging EXCEPT ![id[p]] = [name : StagedNames("manifest"), by : {p}]]
    BY <2>1 DEF CheckTargets, dirs, Inv, PublicationInv, TypeOK
  <2>3. UNCHANGED <<lock, partials, finals, final, altered, commands, scans>>
    BY DEF CheckTargets, dirs
  <2> QED BY <1>1, <1>3, <2>2, <2>3, WritingKeeps DEF CheckTargets
<1> QED BY <1>2, <1>3 DEF CheckTargets

LEMMA WriteManifestKeeps == ASSUME Inv, NEW p \in Processes, WriteManifest(p) PROVE Inv'
<1> USE DEF GoTo, Fail
<1>1. stage[p] = "manifest" /\ stage[p] \in Staged /\ "unlock" \in Staged
  BY DEF WriteManifest, Staged
<1>2. CASE Fail(p)
  BY <1>2, UnwindingKeeps DEF WriteManifest, dirs
<1>3. CASE ~Fail(p)
  <2> DEFINE staged == {"identity", "events.partial", "snapshots.partial"}
  <2>1. staging[id[p]] = [name : staged, by : {p}]
    BY <1>1 DEF Inv, PublicationInv, StagedFiles, StagedNames
  <2>2. StagedNames("unlock") = staged \cup {"manifest.partial"}
    BY DEF StagedNames
  <2>3. [name : staged, by : {p}] \cup [name : {"manifest.partial"}, by : {p}]
          = [name : staged \cup {"manifest.partial"}, by : {p}]
    OBVIOUS
  <2>4. staging' = [staging EXCEPT ![id[p]] = [name : StagedNames("unlock"), by : {p}]]
    BY <1>3, <2>1, <2>2, <2>3 DEF WriteManifest, WithFiles
  <2> QED BY <1>1, <1>3, <2>4, WritingKeeps DEF WriteManifest
<1> QED BY <1>2, <1>3

LEMMA RemoveLockKeeps == ASSUME Inv, NEW p \in Processes, RemoveLock(p) PROVE Inv'
<1> USE DEF RemoveLock, GoTo
<1>1. /\ stage[p] = "unlock" /\ stage[p] \in Staged
      /\ "events" \in Staged /\ "events" \in Live
  BY DEF Staged, Live
<1>2. CASE lock = NoProcess
  BY <1>2, UnwindingKeeps
<1>3. CASE lock # NoProcess
  <2> USE DEF dirs, commands, scans, Inv
  <2>1. stage' = [stage EXCEPT ![p] = "events"] /\ lock' = NoProcess
    BY <1>3
  <2>2. \A q \in Processes : stage'[q] \in Staged => stage[q] \in Staged
    BY <1>1, <2>1 DEF PublicationInv, TypeOK
  <2>3. \A q \in Processes : StagedNames(stage'[q]) = StagedNames(stage[q])
    <3>1. StagedNames("events") = StagedNames("unlock")
      BY DEF StagedNames
    <3> QED BY <1>1, <2>1, <3>1 DEF PublicationInv, TypeOK
  <2>4. TypeOK'
    BY <1>1, <2>1 DEF PublicationInv, TypeOK
  <2>5. PublicationInv'
    BY <2>2, <2>3, <2>4 DEF PublicationInv, StagedFiles
  <2>6. SingleWriter' /\ PublishedIsWhole' /\ StaleOnlyByCrash'
    BY <2>1, <2>2 DEF SingleWriter, PublishedIsWhole, Whole, StaleOnlyByCrash
  <2> QED BY <2>5, <2>6
<1> QED BY <1>2, <1>3

(* A renamed file: what is left is what the next stage expects. *)
LEMMA RenameStagedKeeps ==
    ASSUME Inv, NEW p \in Processes, NEW old, NEW new, NEW next \in Staged,
           stage[p] \in Staged,
           RenameStaged(p, old, new, next),
           {IF name = old THEN new ELSE name : name \in StagedNames(stage[p])}
             = StagedNames(next),
           UNCHANGED <<lock, partials, finals, final, altered, commands, scans>>
    PROVE  Inv'
<1> USE DEF GoTo, Fail
<1>1. CASE Fail(p)
  BY <1>1, UnwindingKeeps DEF dirs
<1>2. CASE ~Fail(p)
  <2> DEFINE names == StagedNames(stage[p])
  <2>1. staging[id[p]] = [name : names, by : {p}]
    BY DEF Inv, PublicationInv, StagedFiles
  <2>2. /\ staging' = [staging EXCEPT ![id[p]] = Renamed(id[p], old, new)]
        /\ stage' = [stage EXCEPT ![p] = next]
    BY <1>2 DEF RenameStaged
  <2>3. StagedNames(next) = {IF name = old THEN new ELSE name : name \in names}
    OBVIOUS
  <2> DEFINE renamed(f) == IF f.name = old THEN [f EXCEPT !.name = new] ELSE f
             wanted == [name : StagedNames(next), by : {p}]
  <2> HIDE DEF names
  <2>4. ASSUME NEW f \in staging[id[p]] PROVE renamed(f) \in wanted
    <3>1. f.name \in names /\ f.by = p /\ f = [name |-> f.name, by |-> f.by]
      BY <2>1
    <3>2. (IF f.name = old THEN new ELSE f.name) \in StagedNames(next)
      BY <2>3, <3>1
    <3> QED BY <3>1, <3>2
  <2>5. ASSUME NEW g \in wanted PROVE \E f \in staging[id[p]] : g = renamed(f)
    <3>1. PICK n \in names : g.name = IF n = old THEN new ELSE n
      BY <2>3
    <3>2. g = [name |-> g.name, by |-> p]
      OBVIOUS
    <3>3. [name |-> n, by |-> p] \in staging[id[p]]
      BY <2>1
    <3>4. g = renamed([name |-> n, by |-> p])
      BY <3>1, <3>2
    <3> QED BY <3>3, <3>4
  <2>8. Renamed(id[p], old, new) = wanted
    BY <2>4, <2>5, Zenon DEF Renamed
  <2> QED BY <2>2, <2>8, WritingKeeps
<1> QED BY <1>1, <1>2

LEMMA RenameFileKeeps == ASSUME Inv, NEW p \in Processes, RenameFile(p) PROVE Inv'
<1>1. UNCHANGED <<lock, partials, finals, final, altered, commands, scans>>
  BY DEF RenameFile
<1>2. CASE stage[p] = "events"
  <2>1. RenameStaged(p, "events.partial", "events", "snapshots")
    BY <1>2 DEF RenameFile
  <2>2. stage[p] \in Staged /\ "snapshots" \in Staged
    BY <1>2 DEF Staged
  <2>3. {IF name = "events.partial" THEN "events" ELSE name :
            name \in StagedNames(stage[p])} = StagedNames("snapshots")
    BY <1>2 DEF StagedNames
  <2> QED BY <1>1, <2>1, <2>2, <2>3, RenameStagedKeeps
<1>3. CASE stage[p] = "snapshots"
  <2>1. RenameStaged(p, "snapshots.partial", "snapshots", "seal")
    BY <1>3 DEF RenameFile
  <2>2. stage[p] \in Staged /\ "seal" \in Staged
    BY <1>3 DEF Staged
  <2>3. {IF name = "snapshots.partial" THEN "snapshots" ELSE name :
            name \in StagedNames(stage[p])} = StagedNames("seal")
    BY <1>3 DEF StagedNames
  <2> QED BY <1>1, <2>1, <2>2, <2>3, RenameStagedKeeps
<1>4. CASE stage[p] = "seal"
  <2>1. RenameStaged(p, "manifest.partial", "manifest", "unmark")
    BY <1>4 DEF RenameFile
  <2>2. stage[p] \in Staged /\ "unmark" \in Staged
    BY <1>4 DEF Staged
  <2>3. {IF name = "manifest.partial" THEN "manifest" ELSE name :
            name \in StagedNames(stage[p])} = StagedNames("unmark")
    BY <1>4 DEF StagedNames
  <2> QED BY <1>1, <2>1, <2>2, <2>3, RenameStagedKeeps
<1> QED BY <1>2, <1>3, <1>4 DEF RenameFile

LEMMA RemoveMarkerKeeps == ASSUME Inv, NEW p \in Processes, RemoveMarker(p) PROVE Inv'
<1> USE DEF GoTo, Fail
<1>1. stage[p] = "unmark" /\ stage[p] \in Staged /\ "move" \in Staged
  BY DEF RemoveMarker, Staged
<1>2. CASE Fail(p)
  BY <1>2, UnwindingKeeps DEF RemoveMarker, dirs
<1>3. CASE ~Fail(p)
  <2>1. staging[id[p]]
          = [name : {"identity", "events", "snapshots", "manifest"}, by : {p}]
    BY <1>1 DEF Inv, PublicationInv, StagedFiles, StagedNames
  <2>2. StagedNames("move") = {"events", "snapshots", "manifest"}
    BY DEF StagedNames
  <2>3. {f \in staging[id[p]] : f.name # "identity"}
          = [name : {"events", "snapshots", "manifest"}, by : {p}]
    <3> DEFINE names == {"identity", "events", "snapshots", "manifest"}
               public == {"events", "snapshots", "manifest"}
    <3>1. staging[id[p]] = {[name |-> n, by |-> p] : n \in names}
      BY <2>1, FilesBy
    <3>2. public = {n \in names : n # "identity"}
      OBVIOUS
    <3>3. [name : public, by : {p}] = {[name |-> n, by |-> p] : n \in public}
      BY FilesBy
    <3> HIDE DEF names, public
    <3>4. {f \in staging[id[p]] : f.name # "identity"}
            = {[name |-> n, by |-> p] : n \in public}
      BY <3>1, <3>2
    <3> QED BY <3>3, <3>4 DEF public
  <2>4. id[p] \in Ids /\ staging \in [Ids -> SUBSET File]
    BY DEF Inv, PublicationInv, TypeOK
  <2>5. staging' = [staging EXCEPT ![id[p]] = {f \in staging[id[p]] : f.name # "identity"}]
    BY <1>3 DEF RemoveMarker
  <2>6. staging' = [staging EXCEPT ![id[p]] = [name : StagedNames("move"), by : {p}]]
    BY <2>2, <2>3, <2>5
  <2> QED BY <1>1, <1>3, <2>6, WritingKeeps DEF RemoveMarker
<1> QED BY <1>2, <1>3

LEMMA MoveToFinalKeeps == ASSUME Inv, NEW p \in Processes, MoveToFinal(p) PROVE Inv'
<1> USE DEF GoTo, Fail, Inv
<1>1. stage[p] = "move" /\ stage[p] \in Staged
  BY DEF MoveToFinal, Staged
<1>2. CASE Fail(p) /\ UNCHANGED <<partials, finals, final>>
  BY <1>2, UnwindingKeeps DEF MoveToFinal, dirs
<1>3. CASE ~(Fail(p) /\ UNCHANGED <<partials, finals, final>>)
  <2> USE DEF commands, scans
  <2>1. /\ id[p] \in Ids
        /\ id[p] \notin finals
        /\ finals' = finals \cup {id[p]}
        /\ final' = [final EXCEPT ![id[p]] = staging[id[p]]]
        /\ partials' = partials \ {id[p]}
        /\ staging' = [staging EXCEPT ![id[p]] = {}]
        /\ stage' = [stage EXCEPT ![p] = "published"]
        /\ UNCHANGED <<lock, altered, commands, scans>>
    BY <1>3 DEF MoveToFinal, PublicationInv, TypeOK
  <2>2. "published" \in Live /\ "published" \notin Staged
    BY DEF Live, Staged
  <2>3. TypeOK'
    BY <2>1, <2>2 DEF PublicationInv, TypeOK
  <2>4. \A i \in Ids : i \notin partials' => staging'[i] = {}
    BY <2>1 DEF PublicationInv, TypeOK
  <2>5. \A q \in Processes : stage'[q] \in Staged =>
             q # p /\ stage[q] \in Staged /\ stage'[q] = stage[q] /\ id[q] # id[p]
    BY <1>1, <2>1, <2>2 DEF PublicationInv, TypeOK, SingleWriter
  <2>6. ASSUME NEW q \in Processes, stage'[q] \in Staged
        PROVE  id'[q] \in partials' /\ staging'[id'[q]] = StagedFiles(q)'
    <3>1. id[q] \in partials /\ staging[id[q]] = StagedFiles(q) /\ id[q] \in Ids
      BY <2>5, <2>6 DEF PublicationInv, TypeOK
    <3>2. staging'[id[q]] = staging[id[q]]
      BY <2>1, <2>5, <2>6, <3>1 DEF PublicationInv, TypeOK
    <3> QED BY <2>1, <2>5, <2>6, <3>1, <3>2 DEF StagedFiles
  <2>7. SingleWriter'
    BY <2>1, <2>5 DEF SingleWriter
  <2>8. PublishedIsWhole'
    <3>1. staging[id[p]] = [name : {"events", "snapshots", "manifest"}, by : {p}]
      BY <1>1 DEF PublicationInv, StagedFiles, StagedNames
    <3>2. final'[id[p]] = staging[id[p]]
      BY <2>1 DEF PublicationInv, TypeOK
    <3>3. \A i \in finals : final'[i] = final[i]
      BY <2>1 DEF PublicationInv, TypeOK
    <3>4. Whole(final'[id[p]])
      BY <3>1, <3>2 DEF Whole
    <3>5. \A i \in finals : Whole(final'[i])
      BY <3>3 DEF PublishedIsWhole
    <3>6. \A i \in finals' : Whole(final'[i])
      BY <2>1, <3>4, <3>5
    <3> QED BY <3>6 DEF PublishedIsWhole, Whole
  <2>9. StaleOnlyByCrash'
    BY <2>1, <2>2 DEF StaleOnlyByCrash, PublicationInv, TypeOK
  <2> QED BY <2>3, <2>4, <2>6, <2>7, <2>8, <2>9 DEF PublicationInv
<1> QED BY <1>2, <1>3

LEMMA EndingKeeps ==
    ASSUME Inv, NEW p \in Processes, ReleaseLock(p) \/ Crash(p) PROVE Inv'
<1> USE DEF GoTo
<1>1. CASE ReleaseLock(p)
  <2> DEFINE next == IF stage[p] = "published" THEN "completed" ELSE "failed"
  <2>1. next \in Ended \ {"crashed"}
    BY DEF Ended
  <2>2. stage' = [stage EXCEPT ![p] = next]
    BY <1>1 DEF ReleaseLock
  <2> HIDE DEF next
  <2> QED BY <1>1, <2>1, <2>2, FreeingKeeps DEF ReleaseLock
<1>2. CASE Crash(p)
  <2>1. "crashed" \in ({"start"} \cup Live \cup Ended) \ Staged
    BY DEF Live, Ended, Staged
  <2>2. PublicationInv' /\ SingleWriter' /\ PublishedIsWhole'
    BY <1>2, <2>1, LeavingKeeps DEF Crash, scans, Inv, PublicationInv, TypeOK
  <2>3. StaleOnlyByCrash'
    BY <1>2 DEF Crash, Inv, StaleOnlyByCrash, PublicationInv, TypeOK
  <2> QED BY <2>2, <2>3 DEF Inv
<1> QED BY <1>1, <1>2

(* The user removes or alters nothing a live process uses. *)
LEMMA UserKeeps ==
    ASSUME Inv, RemoveStaleLock \/ \E i \in Ids : RemovePartial(i) \/ AlterFinal(i)
    PROVE  Inv'
<1> USE DEF Inv, commands, scans
<1>1. CASE RemoveStaleLock
  <2>1. lock' = NoProcess /\ UNCHANGED <<dirs, stage, commands, scans>>
    BY <1>1 DEF RemoveStaleLock
  <2>2. PublicationInv'
    BY <2>1 DEF PublicationInv, TypeOK, StagedFiles, dirs
  <2>3. SingleWriter' /\ PublishedIsWhole' /\ StaleOnlyByCrash'
    BY <2>1 DEF SingleWriter, PublishedIsWhole, Whole, StaleOnlyByCrash, dirs
  <2> QED BY <2>2, <2>3
<1>2. ASSUME NEW i \in Ids, RemovePartial(i) PROVE Inv'
  <2>1. /\ \A p \in Processes : id[p] = i => stage[p] \notin Staged
        /\ partials' = partials \ {i}
        /\ staging' = [staging EXCEPT ![i] = {}]
        /\ UNCHANGED <<lock, finals, final, altered, stage, commands, scans>>
    BY <1>2 DEF RemovePartial
  <2>2. TypeOK' /\ \A j \in Ids : j \notin partials' => staging'[j] = {}
    BY <2>1 DEF PublicationInv, TypeOK
  <2>3. \A p \in Processes : stage'[p] \in Staged =>
             id'[p] \in partials' /\ staging'[id'[p]] = staging[id[p]]
    BY <2>1 DEF PublicationInv, TypeOK
  <2>4. PublicationInv'
    BY <2>1, <2>2, <2>3 DEF PublicationInv, StagedFiles
  <2>5. SingleWriter' /\ PublishedIsWhole' /\ StaleOnlyByCrash'
    BY <2>1 DEF SingleWriter, PublishedIsWhole, Whole, StaleOnlyByCrash
  <2> QED BY <2>4, <2>5
<1>3. ASSUME NEW i \in Ids, AlterFinal(i) PROVE Inv'
  <2>1. /\ altered' \in SUBSET finals
        /\ UNCHANGED <<lock, partials, staging, finals, final, stage, commands, scans>>
    BY <1>3 DEF AlterFinal, PublicationInv, TypeOK
  <2>2. PublicationInv'
    BY <2>1 DEF PublicationInv, TypeOK, StagedFiles
  <2>3. SingleWriter' /\ PublishedIsWhole' /\ StaleOnlyByCrash'
    BY <2>1 DEF SingleWriter, PublishedIsWhole, Whole, StaleOnlyByCrash
  <2> QED BY <2>2, <2>3
<1> QED BY <1>1, <1>2, <1>3

LEMMA StepKeepsInv == Inv /\ [Next]_vars => Inv'
<1> SUFFICES ASSUME Inv, [Next]_vars PROVE Inv'
  OBVIOUS
<1>1. ASSUME NEW p \in Processes, Step(p) PROVE Inv'
  BY <1>1, TakeLockKeeps, ScanKeeps, CreateStagingKeeps, WriteMarkerKeeps,
     OpenWritersKeeps, ReplayKeeps, CheckTargetsKeeps, WriteManifestKeeps,
     RemoveLockKeeps, RenameFileKeeps, RemoveMarkerKeeps, MoveToFinalKeeps,
     EndingKeeps DEF Step
<1>2. ASSUME NEW p \in Processes, Crash(p) PROVE Inv'
  BY <1>2, EndingKeeps
<1>3. CASE UNCHANGED vars
  <2>1. UNCHANGED <<lock, dirs, stage, commands, scans>>
    BY <1>3 DEF vars
  <2>2. PublicationInv'
    BY <2>1 DEF Inv, PublicationInv, TypeOK, StagedFiles, dirs, commands, scans
  <2>3. SingleWriter' /\ PublishedIsWhole' /\ StaleOnlyByCrash'
    BY <2>1 DEF Inv, SingleWriter, PublishedIsWhole, Whole, StaleOnlyByCrash, dirs, commands
  <2> QED BY <2>2, <2>3 DEF Inv
<1> QED BY <1>1, <1>2, <1>3, UserKeeps DEF Next

(* In every execution the four invariants hold together. *)
THEOREM PublicationSafe == Spec => []Inv
<1>1. Init => Inv
  BY InitInv
<1>2. Inv /\ [Next]_vars => Inv'
  BY StepKeepsInv
<1> QED BY <1>1, <1>2, PTL DEF Spec

(* The staging directory of a live process holds exactly the files of the   *)
(* calls it has made (prepare_replay_run, run_replay, publish_replay_run).  *)
THEOREM StagedAsPlanned == Spec => []PublicationInv
<1>1. Inv => PublicationInv
  BY DEF Inv
<1> QED BY <1>1, PublicationSafe, PTL

(* A directory under its final name is whole, whatever failed or was killed. *)
THEOREM OnlyWholeReplaysPublished == Spec => []PublishedIsWhole
<1>1. Inv => PublishedIsWhole
  BY DEF Inv
<1> QED BY <1>1, PublicationSafe, PTL

(* No staging directory has two live writers, with or without the lock. *)
THEOREM OneWriterPerDirectory == Spec => []SingleWriter
<1>1. Inv => SingleWriter
  BY DEF Inv
<1> QED BY <1>1, PublicationSafe, PTL

(* Only a killed process leaves its lock behind. *)
THEOREM LocksFreed == Spec => []StaleOnlyByCrash
<1>1. Inv => StaleOnlyByCrash
  BY DEF Inv
<1> QED BY <1>1, PublicationSafe, PTL

(* The scan of a process that is not forced: of the completed replays that  *)
(* were there when it took the lock, each is still to be returned by the    *)
(* iterator or has been changed by somebody; past the scan only the second. *)
PastScan == Staged \cup {"fresh", "create", "published", "completed"}

ScanInvOf(p) ==
    ~forced[p] =>
        /\ stage[p] = "scan" =>
              \A i \in before[p] : i \in finals /\ (<<i, "final">> \in unseen[p] \/ i \in altered)
        /\ stage[p] \in PastScan => before[p] \subseteq altered

ScanInv == \A p \in Processes : ScanInvOf(p)

(* Completed and changed replays stay so. *)
LEMMA FinalsStay ==
    ASSUME [Next]_vars
    PROVE  finals \subseteq finals' /\ altered \subseteq altered' /\ forced' = forced
<1> QED BY DEF Next, Step, vars, dirs, commands, TakeLock, ScanEntry, EndScan, CheckFinalAbsent,
               CreateStaging, WriteMarker, OpenWriters, Replay, CheckTargets, WriteManifest,
               RemoveLock, RenameFile, RemoveMarker, MoveToFinal, ReleaseLock, Crash,
               RemoveStaleLock, RemovePartial, AlterFinal

(* A step of its own takes a process on through the scan. *)
LEMMA OwnScan ==
    ASSUME Inv, ScanInv, [Next]_vars, NEW p \in Processes, Step(p)
    PROVE  ScanInvOf(p)'
<1>1. TypeOK /\ ScanInvOf(p) /\ altered \subseteq altered' /\ forced' = forced
  BY FinalsStay DEF Inv, PublicationInv, ScanInv
<1> USE DEF TypeOK, ScanInvOf, PastScan, Staged, GoTo
<1>2. CASE TakeLock(p)
  BY <1>1, <1>2 DEF TakeLock, Entries, dirs, commands
<1>3. CASE ScanEntry(p)
  <2>1. PICK e \in unseen[p] \cup Entries :
           \/ stage' = [stage EXCEPT ![p] = "failed"]
           \/ stage' = [stage EXCEPT ![p] = IF lock # NoProcess THEN "existing" ELSE "failed"]
           \/ ~Reusable(e) /\ unseen' = [unseen EXCEPT ![p] = @ \ {e}] /\ stage' = stage
    BY <1>3 DEF ScanEntry, FailAfterLock
  <2>2. stage[p] = "scan" /\ UNCHANGED <<finals, altered, before>>
    BY <1>3 DEF ScanEntry, dirs
  <2>3. CASE stage'[p] # "scan"
    BY <1>1, <2>1, <2>2, <2>3
  <2>4. CASE stage'[p] = "scan"
    <3>1. ~Reusable(e) /\ unseen'[p] = unseen[p] \ {e}
      BY <1>1, <2>1, <2>4
    <3>2. ASSUME ~forced[p], NEW i \in before[p]
          PROVE  i \in finals /\ (<<i, "final">> \in unseen'[p] \/ i \in altered)
      <4>1. CASE e = <<i, "final">>
        BY <1>1, <2>2, <3>1, <3>2, <4>1 DEF Reusable
      <4>2. CASE e # <<i, "final">>
        BY <1>1, <2>2, <3>1, <3>2, <4>2
      <4> QED BY <4>1, <4>2
    <3> QED BY <1>1, <2>2, <2>4, <3>2
  <2> QED BY <2>3, <2>4
<1>4. CASE EndScan(p)
  <2>1. /\ stage[p] = "scan" /\ unseen[p] \cap Entries = {}
        /\ stage'[p] = "fresh" /\ before' = before
    BY <1>1, <1>4 DEF EndScan, Scanned, scans
  <2>2. ASSUME ~forced[p], NEW i \in before[p]
        PROVE  i \in altered
    <3>1. i \in finals /\ (<<i, "final">> \in unseen[p] \/ i \in altered)
      BY <1>1, <2>1, <2>2
    <3>2. <<i, "final">> \in Entries
      BY <3>1 DEF Entries
    <3> QED BY <2>1, <3>1, <3>2
  <2> QED BY <1>1, <2>1, <2>2
<1>5. CASE ~(TakeLock(p) \/ ScanEntry(p) \/ EndScan(p))
  <2>1. /\ stage[p] \in PastScan \/ stage'[p] \in {"unwind", "failed"}
        /\ stage'[p] # "scan"
    BY <1>1, <1>5
       DEF Step, FailAfterLock, Fail, RenameStaged, CheckFinalAbsent, CreateStaging,
           WriteMarker, OpenWriters, Replay, CheckTargets, WriteManifest, RemoveLock, RenameFile,
           RemoveMarker, MoveToFinal, ReleaseLock
  <2>2. before' = before
    BY <1>5
       DEF Step, scans, CheckFinalAbsent, CreateStaging, WriteMarker, OpenWriters, Replay,
           CheckTargets, WriteManifest, RemoveLock, RenameFile, RemoveMarker, MoveToFinal,
           ReleaseLock
  <2> QED BY <1>1, <2>1, <2>2
<1> QED BY <1>2, <1>3, <1>4, <1>5

(* Nobody else touches what a process has scanned. *)
LEMMA ScanInvKept ==
    ASSUME Inv, ScanInv, [Next]_vars
    PROVE  ScanInv'
<1> SUFFICES ASSUME NEW p \in Processes PROVE ScanInvOf(p)'
  BY DEF ScanInv
<1>1. /\ TypeOK /\ ScanInvOf(p)
      /\ finals \subseteq finals' /\ altered \subseteq altered' /\ forced' = forced
  BY FinalsStay DEF Inv, PublicationInv, ScanInv
<1>2. CASE Step(p)
  BY <1>2, OwnScan
<1>3. ASSUME UNCHANGED <<stage[p], unseen[p], before[p]>>
      PROVE  ScanInvOf(p)'
  BY <1>1, <1>3 DEF ScanInvOf
<1>4. ASSUME NEW q \in Processes, q # p, Step(q)
      PROVE  UNCHANGED <<stage[p], unseen[p], before[p]>>
  BY <1>1, <1>4
     DEF Step, TypeOK, scans, GoTo, FailAfterLock, Fail, RenameStaged, TakeLock, ScanEntry,
         EndScan, CheckFinalAbsent, CreateStaging, WriteMarker, OpenWriters, Replay,
         CheckTargets, WriteManifest, RemoveLock, RenameFile, RemoveMarker, MoveToFinal,
         ReleaseLock
<1>5. ASSUME NEW q \in Processes, Crash(q)
      PROVE  ScanInvOf(p)'
  <2>1. CASE q = p
    BY <1>1, <1>5, <2>1 DEF Crash, GoTo, TypeOK, ScanInvOf, PastScan, Staged
  <2>2. CASE q # p
    BY <1>1, <1>3, <1>5, <2>2 DEF Crash, GoTo, TypeOK, scans
  <2> QED BY <2>1, <2>2
<1>6. ASSUME RemoveStaleLock \/ (\E i \in Ids : RemovePartial(i) \/ AlterFinal(i)) \/ UNCHANGED vars
      PROVE  UNCHANGED <<stage[p], unseen[p], before[p]>>
  BY <1>6 DEF RemoveStaleLock, RemovePartial, AlterFinal, vars, scans
<1> QED BY <1>2, <1>3, <1>4, <1>5, <1>6 DEF Next

(* A replay that was not forced ran only because every completed replay of  *)
(* its identity that was there when it took the lock had been changed       *)
(* (prepare_replay_run), however many entries came and went meanwhile.      *)
THEOREM NoReplayIsNeedless == Spec => []NoNeedlessReplay
<1>1. Init => ScanInv
  BY DEF Init, ScanInv, ScanInvOf, PastScan, Staged
<1>2. ScanInv => NoNeedlessReplay
  BY DEF ScanInv, ScanInvOf, PastScan, NoNeedlessReplay
<1> QED BY <1>1, <1>2, PublicationSafe, ScanInvKept, PTL DEF Spec
=============================================================================
