---------------------------- MODULE ResearchStage ----------------------------
(***************************************************************************)
(* The commands of one Python stage that share a run root: convert,        *)
(* build-dataset, train and simulate of itchlab_research.  Each command    *)
(* authenticates its completed parent, takes the lock directory of its     *)
(* identity, looks for a run to reuse, works in <run id>.partial, checks   *)
(* the parent again and publishes by one rename.                           *)
(*                                                                         *)
(* Every file-system call is one step, a command may be killed between any *)
(* two steps, and a call may fail where the code handles that; somebody    *)
(* outside may rewrite a file of the parent at any moment, with the old    *)
(* content or another, and may damage a completed run.                     *)
(*                                                                         *)
(* Abstractions: the parent is one manifest and one data file; a content   *)
(* stands for its hash, and a manifest of content c names data of content  *)
(* c; the file identity (device, inode, size, times) is a counter that     *)
(* every rewrite moves; the identity of a command is the content of the    *)
(* manifest it loaded, since its configuration and package do not change.  *)
(* The stages differ in how they read and recheck their parent.            *)
(***************************************************************************)
EXTENDS Naturals, FiniteSets

CONSTANTS
    Processes,     \* the commands that may run
    Contents,      \* contents of the parent
    Ids,           \* run ids: clock reading and identity prefix
    MaxRewrites,   \* bound on the rewrites of the parent by somebody outside
    NoProcess,     \* owner of a lock that does not exist
    NoRun          \* a directory that does not exist

Kinds == {"conversion", "dataset", "experiment", "simulation"}

File == [content : Contents, stat : 0 .. MaxRewrites]
Parent == [manifest : File, data : File]
Run == [by : Processes, claims : Contents, marked : BOOLEAN, whole : BOOLEAN,
        used : SUBSET Contents]

ASSUME StageAssumption ==
    NoProcess \notin Processes /\ NoRun \notin Run /\ MaxRewrites \in Nat

VARIABLES
    kind,      \* the stage
    parent,    \* the completed run it reads
    lock,      \* owner of the lock directory of each identity
    partial,   \* staging directory of each id
    final,     \* completed directory of each id
    damaged,   \* completed directories somebody outside changed
    stage,     \* next call of each command
    forced,    \* its --force-new-run
    loaded,    \* the parent as it authenticated it
    used,      \* contents of the data it has worked from
    id,        \* its run id
    unseen,    \* entries of its directory listing it has yet to look at
    listed     \* that listing

tree == <<partial, final>>
inputs == <<loaded, used>>
scans == <<unseen, listed>>
vars == <<kind, parent, lock, tree, damaged, stage, forced, inputs, id, scans>>

(* A command is stuck when it failed in _prepare_run and could not remove   *)
(* its lock either.                                                         *)
Ended == {"published", "reused", "failed", "stuck", "crashed"}

(* Before it has a staging directory, and while it has one. *)
Staged == {"mark", "work", "recheck", "manifest", "unlock", "rename"}
Locked == {"list", "scan", "name", "mkdir"} \cup (Staged \ {"rename"})
Live == {"load", "authenticate", "hash", "read", "admit", "lock", "unmark", "reload"}
            \cup Locked \cup Staged

Identity(p) == loaded[p].manifest.content

Entries == {<<i, "partial">> : i \in {j \in Ids : partial[j] # NoRun}}
              \cup {<<i, "final">> : i \in {j \in Ids : final[j] # NoRun}}

GoTo(p, next) == stage' = [stage EXCEPT ![p] = next]

Fail(p) == GoTo(p, "failed")
Unlocked(p) == lock' = [lock EXCEPT ![Identity(p)] = NoProcess]

-----------------------------------------------------------------------------
(* Authentication of the parent: the manifest is read and validated, then  *)
(* every file it names is hashed; both are kept with their file identities.*)

Remember(p, part) == loaded' = [loaded EXCEPT ![p][part] = parent[part]]

LoadManifest(p) ==
    /\ stage[p] = "load"
    /\ \/ Remember(p, "manifest") /\ GoTo(p, "authenticate")
       \/ Fail(p) /\ UNCHANGED loaded
    /\ UNCHANGED <<kind, parent, lock, tree, damaged, forced, used, id, scans>>

HashAgrees(p) == parent.data.content = Identity(p)

(* A simulation reads all it needs of its parent before it takes the lock; *)
(* train checks the loaded dataset once more.                              *)
AfterLoading ==
    IF kind = "simulation" THEN "hash" ELSE IF kind = "experiment" THEN "admit" ELSE "lock"

AuthenticateData(p) ==
    /\ stage[p] = "authenticate"
    /\ \/ /\ HashAgrees(p)
          /\ Remember(p, "data")
          /\ GoTo(p, AfterLoading)
       \/ Fail(p) /\ UNCHANGED loaded
    /\ UNCHANGED <<kind, parent, lock, tree, damaged, forced, used, id, scans>>

(* simulate hashes each Parquet file by its path and then opens the path   *)
(* again, so what it reads need not be what it hashed.                     *)
HashConversionRows(p) ==
    /\ stage[p] = "hash"
    /\ IF HashAgrees(p) THEN GoTo(p, "read") ELSE Fail(p)
    /\ UNCHANGED <<kind, parent, lock, tree, damaged, forced, inputs, id, scans>>

Use(p) == used' = [used EXCEPT ![p] = @ \cup {parent.data.content}]

ReadConversionRows(p) ==
    /\ stage[p] = "read"
    /\ \/ Use(p) /\ GoTo(p, "hash")
       \/ Use(p) /\ GoTo(p, "lock")
       \/ Fail(p) /\ UNCHANGED used
    /\ UNCHANGED <<kind, parent, lock, tree, damaged, forced, loaded, id, scans>>

-----------------------------------------------------------------------------
(* The recheck before publication. *)

SameManifest(p) == parent.manifest = loaded[p].manifest
SameDataFile(p) == parent.data.stat = loaded[p].data.stat

(* convert: the replay manifests only, since read_events and               *)
(* read_snapshots authenticate the records they hand out.                  *)
ReplaysUnchanged(p) == SameManifest(p)

(* build-dataset: conversion and replay manifests, and the identity of     *)
(* every Parquet file.                                                     *)
ManifestsUnchanged(p) == SameManifest(p)

ConversionsUnchanged(p) == SameManifest(p) /\ SameDataFile(p)

(* train: the dataset manifest and the identity of every child.            *)
DatasetUnchanged(p) == SameManifest(p) /\ SameDataFile(p)

ParentUnchanged(p) ==
    /\ kind = "conversion" => ReplaysUnchanged(p)
    /\ kind = "dataset" => ConversionsUnchanged(p)
    /\ kind = "experiment" => DatasetUnchanged(p)

Admit(p) ==
    /\ stage[p] = "admit"
    /\ IF DatasetUnchanged(p) THEN GoTo(p, "lock") ELSE Fail(p)
    /\ UNCHANGED <<kind, parent, lock, tree, damaged, forced, inputs, id, scans>>

Recheck(p) ==
    /\ stage[p] = "recheck"
    /\ IF ParentUnchanged(p) THEN GoTo(p, "manifest") ELSE Fail(p)
    /\ UNCHANGED <<kind, parent, lock, tree, damaged, forced, inputs, id, scans>>

-----------------------------------------------------------------------------
(* _prepare_run.  An error before the staging directory exists, and every   *)
(* operating-system error, takes the lock away again, unless _remove_lock   *)
(* raises itself and leaves it.                                             *)

FailKeepingLock(p) == Fail(p) /\ UNCHANGED lock

FailUnlocked(p) ==
    \/ Fail(p) /\ Unlocked(p)
    \/ GoTo(p, "stuck") /\ UNCHANGED lock

(* mkdir of the lock directory is atomic and fails when it exists. *)
LockTakenAgain(p) == TRUE

LockFree(p) == lock[Identity(p)] = NoProcess

TakeLock(p) ==
    /\ stage[p] = "lock"
    /\ \/ Fail(p) /\ UNCHANGED lock
       \/ /\ LockFree(p)
          /\ lock' = [lock EXCEPT ![Identity(p)] = p]
          /\ GoTo(p, IF forced[p] THEN "name" ELSE "list")
    /\ UNCHANGED <<kind, parent, tree, damaged, forced, inputs, id, scans>>

(* sorted(root.iterdir()) is one listing; the loop then looks at each entry. *)
ListRoot(p) ==
    /\ stage[p] = "list"
    /\ \/ /\ unseen' = [unseen EXCEPT ![p] = Entries]
          /\ listed' = [listed EXCEPT ![p] = Entries]
          /\ GoTo(p, "scan")
          /\ UNCHANGED lock
       \/ FailUnlocked(p) /\ UNCHANGED scans
    /\ UNCHANGED <<kind, parent, tree, damaged, forced, inputs, id>>

(* The identity shown by the marker of a partial run, or by the manifest of *)
(* a completed one.                                                         *)
MarkerMatches(p, i) == partial[i] # NoRun /\ partial[i].marked /\ partial[i].claims = Identity(p)
ManifestMatches(p, i) == final[i] # NoRun /\ final[i].claims = Identity(p)

Matches(p, e) == IF e[2] = "partial" THEN MarkerMatches(p, e[1]) ELSE ManifestMatches(p, e[1])

(* load_completed_simulation authenticates the whole lineage again.         *)
LineageAuthentic(p) == parent.manifest.content = Identity(p) /\ HashAgrees(p)

(* _verify_existing compares a completed run with the parents as loaded.    *)
Verified(p, i) == i \notin damaged /\ (kind = "simulation" => LineageAuthentic(p))

(* A reused run is returned after the lock is removed.  When that fails the *)
(* handler tries to remove it once more, so the command fails like after a  *)
(* conflict, another error or a cancellation.                               *)
ScanEntry(p) ==
    /\ stage[p] = "scan"
    /\ \E e \in unseen[p] :
          \/ /\ ~Matches(p, e) \/ (e[2] = "final" /\ e[1] \in damaged)
             /\ unseen' = [unseen EXCEPT ![p] = @ \ {e}]
             /\ UNCHANGED <<stage, lock>>
          \/ /\ Matches(p, e) /\ e[2] = "final" /\ Verified(p, e[1])
             /\ GoTo(p, "reused")
             /\ Unlocked(p)
             /\ UNCHANGED unseen
          \/ FailUnlocked(p) /\ UNCHANGED unseen
    /\ UNCHANGED <<kind, parent, tree, damaged, forced, inputs, id, listed>>

ScannedPartly(p) == TRUE

Scanned(p) == unseen[p] = {}

EndScan(p) ==
    /\ stage[p] = "scan"
    /\ Scanned(p)
    /\ GoTo(p, "name")
    /\ UNCHANGED <<kind, parent, lock, tree, damaged, forced, inputs, id, scans>>

(* train and simulate also look for a staging directory of that id. *)
Taken(i) == final[i] # NoRun \/ (kind \in {"experiment", "simulation"} /\ partial[i] # NoRun)

NameRun(p) ==
    /\ stage[p] = "name"
    /\ \/ \E i \in Ids :
             /\ ~Taken(i)
             /\ id' = [id EXCEPT ![p] = i]
             /\ GoTo(p, "mkdir")
             /\ UNCHANGED lock
       \/ FailUnlocked(p) /\ UNCHANGED id
    /\ UNCHANGED <<kind, parent, tree, damaged, forced, inputs, scans>>

CreatableAgain(i) == TRUE

Creatable(i) == partial[i] = NoRun

CreateStaging(p) ==
    /\ stage[p] = "mkdir"
    /\ \/ /\ Creatable(id[p])
          /\ partial' = [partial EXCEPT ![id[p]] =
                [by |-> p, claims |-> Identity(p), marked |-> FALSE, whole |-> FALSE, used |-> {}]]
          /\ GoTo(p, "mark")
          /\ UNCHANGED lock
       \/ FailUnlocked(p) /\ UNCHANGED partial
    /\ UNCHANGED <<kind, parent, final, damaged, forced, inputs, id, scans>>

WriteMarker(p) ==
    /\ stage[p] = "mark"
    /\ \/ partial' = [partial EXCEPT ![id[p]].marked = TRUE] /\ GoTo(p, "work") /\ UNCHANGED lock
       \/ FailUnlocked(p) /\ UNCHANGED partial
    /\ UNCHANGED <<kind, parent, final, damaged, forced, inputs, id, scans>>

-----------------------------------------------------------------------------
(* The work, from here on an error or a cancellation keeps the lock and the *)
(* staging directory.                                                       *)

(* read_events and read_snapshots hash the open file against its header's   *)
(* manifest entry, and stream from the same descriptor.                     *)
ReadableReplay(p) == HashAgrees(p)

(* _input_batches opens the Parquet parts by path and checks nothing.       *)
ReadableConversion(p) == TRUE

(* _load_partition compares the file identity before and after reading.     *)
ReadableDataset(p) == SameDataFile(p)

ReadParent(p) ==
    /\ stage[p] = "work"
    /\ \/ kind = "conversion" /\ ReadableReplay(p)
       \/ kind = "dataset" /\ ReadableConversion(p)
       \/ kind = "experiment" /\ ReadableDataset(p)
    /\ Use(p)
    /\ UNCHANGED <<kind, parent, lock, tree, damaged, stage, forced, loaded, id, scans>>

EndWork(p) ==
    /\ stage[p] = "work"
    /\ \/ used[p] # {} /\ GoTo(p, "recheck")
       \/ Fail(p)
    /\ UNCHANGED <<kind, parent, lock, tree, damaged, forced, inputs, id, scans>>

-----------------------------------------------------------------------------
(* _publish *)

WriteManifest(p) ==
    /\ stage[p] = "manifest"
    /\ \/ /\ partial' = [partial EXCEPT ![id[p]].whole = TRUE, ![id[p]].used = used[p]]
          /\ GoTo(p, "unlock")
       \/ Fail(p) /\ UNCHANGED partial
    /\ UNCHANGED <<kind, parent, lock, final, damaged, forced, inputs, id, scans>>

Unlock(p) ==
    /\ stage[p] = "unlock"
    /\ \/ Unlocked(p) /\ GoTo(p, "rename")
       \/ Fail(p) /\ UNCHANGED lock
    /\ UNCHANGED <<kind, parent, tree, damaged, forced, inputs, id, scans>>

Rename(p) ==
    /\ stage[p] = "rename"
    /\ \/ /\ final[id[p]] = NoRun
          /\ final' = [final EXCEPT ![id[p]] = partial[id[p]]]
          /\ partial' = [partial EXCEPT ![id[p]] = NoRun]
          /\ GoTo(p, "unmark")
       \/ Fail(p) /\ UNCHANGED tree
    /\ UNCHANGED <<kind, parent, lock, damaged, forced, inputs, id, scans>>

(* Only simulate reports a marker that cannot be removed; a run without its *)
(* marker is the same run to every reader.                                  *)
Unmark(p) ==
    /\ stage[p] = "unmark"
    /\ \/ GoTo(p, IF kind = "simulation" THEN "reload" ELSE "published")
       \/ kind = "simulation" /\ Fail(p)
    /\ UNCHANGED <<kind, parent, lock, tree, damaged, forced, inputs, id, scans>>

(* simulate returns what load_completed_simulation reads back.              *)
ReloadPublished(p) ==
    /\ stage[p] = "reload"
    /\ \/ Verified(p, id[p]) /\ GoTo(p, "published")
       \/ Fail(p)
    /\ UNCHANGED <<kind, parent, lock, tree, damaged, forced, inputs, id, scans>>

-----------------------------------------------------------------------------
(* The world around the commands. *)

Kill(p) ==
    /\ stage[p] \in Live
    /\ GoTo(p, "crashed")
    /\ UNCHANGED <<kind, parent, lock, tree, damaged, forced, inputs, id, scans>>

(* A stale lock and its partial run go only when the user removes them.     *)
CleanUp(p) ==
    /\ stage[p] \in {"failed", "stuck", "crashed"}
    /\ \E c \in Contents : lock[c] = p \/ \E i \in Ids : partial[i] # NoRun /\ partial[i].by = p
    /\ lock' = [c \in Contents |-> IF lock[c] = p THEN NoProcess ELSE lock[c]]
    /\ partial' = [i \in Ids |-> IF partial[i] # NoRun /\ partial[i].by = p
                                 THEN NoRun ELSE partial[i]]
    /\ UNCHANGED <<kind, parent, final, damaged, stage, forced, inputs, id, scans>>

Rewrites == parent.manifest.stat + parent.data.stat

(* Device, inode, size and times of a file: a rewrite moves the change time *)
(* even when it restores size, modification time and content.               *)
NextStat(f) == f.stat + 1

Rewrite ==
    /\ Rewrites < MaxRewrites
    /\ \E part \in {"manifest", "data"}, c \in Contents :
          parent' = [parent EXCEPT ![part] = [content |-> c, stat |-> NextStat(@)]]
    /\ UNCHANGED <<kind, lock, tree, damaged, stage, forced, inputs, id, scans>>

Damage(i) ==
    /\ final[i] # NoRun /\ i \notin damaged
    /\ damaged' = damaged \cup {i}
    /\ UNCHANGED <<kind, parent, lock, tree, stage, forced, inputs, id, scans>>

-----------------------------------------------------------------------------
Init ==
    /\ kind \in Kinds
    /\ \E c \in Contents :
          parent = [manifest |-> [content |-> c, stat |-> 0], data |-> [content |-> c, stat |-> 0]]
    /\ lock = [c \in Contents |-> NoProcess]
    /\ partial = [i \in Ids |-> NoRun]
    /\ final = [i \in Ids |-> NoRun]
    /\ damaged = {}
    /\ stage = [p \in Processes |-> "load"]
    /\ forced \in [Processes -> BOOLEAN]
    /\ loaded = [p \in Processes |-> parent]
    /\ used = [p \in Processes |-> {}]
    /\ id \in {f \in [Processes -> Ids] : \A p, q \in Processes : f[p] = f[q]}
    /\ unseen = [p \in Processes |-> {}]
    /\ listed = [p \in Processes |-> {}]

Step(p) ==
    \/ LoadManifest(p) \/ AuthenticateData(p) \/ HashConversionRows(p) \/ ReadConversionRows(p)
    \/ Admit(p) \/ TakeLock(p) \/ ListRoot(p) \/ ScanEntry(p) \/ EndScan(p) \/ NameRun(p)
    \/ CreateStaging(p) \/ WriteMarker(p) \/ ReadParent(p) \/ EndWork(p) \/ Recheck(p)
    \/ WriteManifest(p) \/ Unlock(p) \/ Rename(p) \/ Unmark(p) \/ ReloadPublished(p)
    \/ Kill(p) \/ CleanUp(p)

Next == (\E p \in Processes : Step(p)) \/ Rewrite \/ (\E i \in Ids : Damage(i))

Spec == Init /\ [][Next]_vars

-----------------------------------------------------------------------------
(* Type correctness, and what the steps keep true of each command: who      *)
(* holds which lock and staging directory, and how far what it loaded and   *)
(* used is still what the parent holds.                                     *)

TypeOK ==
    /\ kind \in Kinds
    /\ parent \in Parent
    /\ lock \in [Contents -> Processes \cup {NoProcess}]
    /\ partial \in [Ids -> Run \cup {NoRun}]
    /\ final \in [Ids -> Run \cup {NoRun}]
    /\ damaged \in SUBSET Ids
    /\ stage \in [Processes -> Live \cup Ended]
    /\ forced \in [Processes -> BOOLEAN]
    /\ loaded \in [Processes -> Parent]
    /\ used \in [Processes -> SUBSET Contents]
    /\ id \in [Processes -> Ids]
    /\ unseen \in [Processes -> SUBSET (Ids \X {"partial", "final"})]
    /\ listed \in [Processes -> SUBSET (Ids \X {"partial", "final"})]

(* A command that needs its lock has it, and a lock is held by a command    *)
(* of its identity that is at work or has stopped.                          *)
LockOwned ==
    /\ \A p \in Processes : stage[p] \in Locked => lock[Identity(p)] = p
    /\ \A c \in Contents : lock[c] # NoProcess =>
          /\ Identity(lock[c]) = c
          /\ stage[lock[c]] \in Locked \cup {"failed", "stuck", "crashed"}

(* The staging directory of a command at work is its own and shows how far *)
(* the command is.                                                         *)
StagingOwned ==
    \A p \in Processes : stage[p] \in Staged =>
        /\ partial[id[p]] # NoRun
        /\ partial[id[p]].by = p
        /\ partial[id[p]].claims = Identity(p)
        /\ stage[p] \in {"unlock", "rename"} =>
              partial[id[p]].whole /\ partial[id[p]].used = used[p]

(* Every rewrite of a file moves its identity, so a file with the identity  *)
(* that was loaded is the file that was loaded.                             *)
SameOrNewer(old, new) == old = new \/ old.stat < new.stat

LoadedIsPast ==
    \A p \in Processes :
        /\ SameOrNewer(loaded[p].manifest, parent.manifest)
        /\ SameOrNewer(loaded[p].data, parent.data)

(* What a command has used is what it claims, or its recheck will tell.     *)
Unread == {"lock", "list", "scan", "name", "mkdir", "mark"}

Authenticated ==
    Unread \cup {"hash", "read", "admit", "work", "recheck", "manifest", "unlock", "rename"}

HonestUseBy(p) ==
    /\ stage[p] \in Authenticated => loaded[p].data.content = Identity(p)
    /\ kind # "simulation" =>
          /\ stage[p] \notin {"hash", "read"}
          /\ stage[p] \in Unread \cup {"load", "authenticate", "admit"} => used[p] = {}
          /\ stage[p] \in {"work", "recheck"} =>
                \/ used[p] \subseteq {Identity(p)}
                \/ kind # "conversion" /\ loaded[p].data # parent.data
          /\ stage[p] = "recheck" => used[p] # {}
          /\ stage[p] \in {"manifest", "unlock", "rename"} => used[p] = {Identity(p)}

HonestUse == \A p \in Processes : HonestUseBy(p)

StageInv == TypeOK /\ LockOwned /\ StagingOwned /\ LoadedIsPast /\ HonestUse

(* Single writer (_prepare_run): two commands never work in one staging     *)
(* directory, nor on one identity while both need its lock.                 *)
SingleWriter ==
    \A p, q \in Processes : p # q =>
        /\ stage[p] \in Staged /\ stage[q] \in Staged => id[p] # id[q]
        /\ stage[p] \in Locked /\ stage[q] \in Locked => Identity(p) # Identity(q)

(* A command that failed leaves its lock behind only beside a partial run   *)
(* of its own to inspect, whichever call failed and whatever the others did *)
(* meanwhile, and one that ended well leaves none.  The exception is the    *)
(* stuck command: _prepare_run reported that the lock cannot be removed.    *)
LockMarksPartial ==
    \A c \in Contents : lock[c] # NoProcess =>
        /\ stage[lock[c]] \notin {"published", "reused"}
        /\ stage[lock[c]] = "failed" => \E i \in Ids : partial[i] # NoRun /\ partial[i].by = lock[c]

(* The scan before a new run: a command without --force-new-run never works *)
(* on an identity of which its listing showed a completed run, or the       *)
(* marked partial run of another command that is still there.               *)
NoNeedlessRun ==
    \A p \in Processes :
        stage[p] \in Staged \ {"rename"} /\ ~forced[p] =>
            \A e \in listed[p] :
                Matches(p, e) => IF e[2] = "final" THEN e[1] \in damaged ELSE e[1] = id[p]

(* The run root implements the catalogue: a run appears by one step, whole  *)
(* and under its own id, and never changes; where the stage rechecks its    *)
(* parent the run was computed from the content its manifest claims.        *)
Catalogue == INSTANCE RunCatalogue WITH
    runs <- {[id |-> i, claims |-> final[i].claims, used |-> final[i].used,
              whole |-> final[i].whole] : i \in {j \in Ids : final[j] # NoRun}},
    audited <- kind # "simulation"

Implements == Catalogue!CatalogueSpec
=============================================================================
