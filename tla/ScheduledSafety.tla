-------------------------- MODULE ScheduledSafety --------------------------
(* src/scheduling.py, scripts/check_scheduled_safety.py and                   *)
(* scripts/scheduled_write_guard.py: what an unattended run may write, and    *)
(* the two checks around it. A path is its name; the tree is a record from    *)
(* path to content, and a digest is the tree itself: equal digests, equal     *)
(* contents. The archive is a note's word count, None when it is gone.        *)
EXTENDS Money

(* The scopes of the three kinds of unattended process are disjoint. *)
WritableDuringScheduledRun ==
  {"reports/", "research/", "logs/scheduled/", "logs/scheduled_usage.jsonl",
   "logs/discovery/", "logs/discovery_usage.jsonl"}
WritableDuringSnapshotRefresh == {"broker_snapshot"}
WritableDuringPromotionSnapshot == {"promotion_snapshot"}

(* Mutant: every job may write every job's scope. *)
GuardAllowsAnyScope(markers, path) ==
  path \in WritableDuringScheduledRun \cup WritableDuringSnapshotRefresh
           \cup WritableDuringPromotionSnapshot

(* The PreToolUse hook: inert without a marker, and the narrower job first.   *)
GuardAllows(markers, path) ==
  CASE markers = {} -> TRUE
    [] "SNAPSHOT_REFRESH" \in markers -> path \in WritableDuringSnapshotRefresh
    [] "PROMOTION_SNAPSHOT" \in markers -> path \in WritableDuringPromotionSnapshot
    [] OTHER -> path \in WritableDuringScheduledRun

(* A run may add words or edit; it may not delete a note or leave fewer than  *)
(* half of its words.                                                         *)
ArchiveLost(before, after) ==
  /\ before # None
  /\ \/ after = None
     \/ before # 0 /\ 2 * after < before

Changed(before, after) == {p \in DOMAIN after : before[p] # after[p]}

UnauthorizedWrites(before, after) ==
  Changed(before, after) \ WritableDuringScheduledRun

(* The store of approvals must not have moved. It is written whole, so that   *)
(* it is never found unreadable.                                              *)
ApprovalChanges(before, after) == before # after

Switches == {"execution_mode", "agent_enabled", "live_trading"}

(* preflight_safety: the switches are closed, the order tools and the two     *)
(* human-only scripts are denied, and no handoff is waiting for an outcome.   *)
PreflightSafe(open, denied, pending) ==
  /\ open = {}
  /\ denied
  /\ ~pending

(* Mutant: the archive is not compared. *)
PostflightSafeSansArchive(before, after, pending) ==
  UnauthorizedWrites(before.tree, after.tree) = {} /\ ~pending

(* postflight_safety over the digest saved before the model and the one after. *)
PostflightSafe(before, after, pending) ==
  /\ UnauthorizedWrites(before.tree, after.tree) = {}
  /\ ~ArchiveLost(before.archive, after.archive)
  /\ ~ApprovalChanges(before.tree.approvals, after.tree.approvals)
  /\ ~pending
=============================================================================
