---------------------------- MODULE MCBackupImage ----------------------------
(***************************************************************************)
(* BackupImage as TLC runs it and VolumeProofs speaks of it: an instance B *)
(* with names of its own, so that proofs about backups stand beside those  *)
(* about the other operations on a volume, and the properties of backups.  *)
(***************************************************************************)
EXTENDS Naturals

CONSTANTS Vol, Boot, Stores, All, Api, MaxPower, MaxFailures
VARIABLES store, inst, img, bo, req, stage, data, power, failures

B == INSTANCE BackupImage WITH w <- stage, faults <- failures, MaxFaults <- MaxFailures

ASSUME BackupConstants == B!ConstantsOK

BackupSpec == B!FairSpec

\* The comment in ready_poweron?: no power on while a backup object is in a
\* working state.  So the disks do not change while they are uploaded.
DiskIsStill == \A v \in Vol : stage[v] = "upload" => inst = "halted"

\* The comment on post_process_backup_image: an image becomes available when
\* the backup objects of all its volumes are.  So their data is there.
ImageHasItsData == img = "available" => B!parts \subseteq data

\* That is so for an image of the boot volume alone.
BootImageHasItsData == B!parts = {Boot} => ImageHasItsData

\* A request that wants all volumes of an instance that boots from local disk.
lost == store = "local" /\ B!parts \notin {{}, {Boot}}

\* A backup object does not stay in a working state, where it would keep the
\* instance from being powered on or terminated for good; and the image of a
\* local boot volume, whose rescue proc deletes it, does not stay in the state
\* creating.  Those of a lost request are excepted.
BackupSettles ==
    /\ \A v \in Vol : (bo[v] \in {"pending", "creating"}) ~> (bo[v] \in {"available", "deleted"} \/ lost)
    /\ (img = "creating") ~> (img \in {"available", "deleted"} \/ store = "shared" \/ lost)
==============================================================================
