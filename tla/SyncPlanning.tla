---------------------------- MODULE SyncPlanning ----------------------------
(***************************************************************************)
(* What the id-list producer and the id-list worker both ask before they   *)
(* touch a list: given the list's sync state in Redis and the manifest's   *)
(* entry for it, is there work to do, and for which file?  Translated from *)
(* datastore/idlist_membership/redis_syncer/planning.rs.                   *)
(*                                                                         *)
(* A file is named by its id; its generation is the pair of its id and its *)
(* creation time, which is also the version tag of the forward set loaded  *)
(* from it ("file_id@creation_time").  A committed state always carries    *)
(* the file id and creation time of its version, so they are not repeated. *)
(* Sizes count complete lines of the file rather than bytes.               *)
(***************************************************************************)
EXTENDS Integers

CONSTANTS
    Files,      \* ids of the files an id list may be published as
    NoFile      \* the empty file id

ASSUME NoFileAssumption == NoFile \notin Files

Version == [file : Files \cup {NoFile}, ctime : Nat]
NoVersion == [file |-> NoFile, ctime |-> 0]

\* An optional number that is absent from a Redis hash.
Absent == -1

(***************************************************************************)
(* The per-list state hash.  Redis has no empty hash: the hash exists iff  *)
(* some field of it was set, i.e. iff it differs from NoState.             *)
(***************************************************************************)
ListSyncState ==
    [version     : Version,           \* the committed forward set, NoVersion: none
     size        : Nat,               \* how much of its file it holds
     card        : Nat,               \* its cardinality at the last checkpoint
     reconcile   : BOOLEAN,           \* reconcile_required
     loading     : Version,           \* loading_version, NoVersion: none
     loadingSize : Nat,
     loadingCard : Nat \cup {Absent},
     part        : Nat \cup {Absent}, \* diff_partition
     removed     : BOOLEAN,           \* removal_fanout_complete
     disabled    : BOOLEAN]           \* reverse_index_disabled

NoState ==
    [version |-> NoVersion, size |-> 0, card |-> 0, reconcile |-> FALSE,
     loading |-> NoVersion, loadingSize |-> 0, loadingCard |-> Absent,
     part |-> Absent, removed |-> FALSE, disabled |-> FALSE]

\* A manifest entry for the list; NoEntry: the list is not in the manifest.
Entry == [file : Files \cup {NoFile}, ctime : Nat, size : Nat]
NoEntry == [file |-> NoFile, ctime |-> 0, size |-> 0]

Tag(entry) == [file |-> entry.file, ctime |-> entry.ctime]

\* The committed file, as if the manifest still advertised it.
CommittedEntry(state) ==
    [file |-> state.version.file, ctime |-> state.version.ctime, size |-> state.size]

\* Re-enabled indexing repairs the committed file, not an older one.
RepairsCommitted(state, entry, enableReverse) ==
    /\ enableReverse
    /\ state.disabled
    /\ state.version # NoVersion
    /\ entry.file # state.version.file
    /\ entry.ctime <= state.version.ctime

SyncTarget(state, entry, enableReverse) ==
    IF RepairsCommitted(state, entry, enableReverse)
    THEN CommittedEntry(state)
    ELSE entry

SyncActions == {"full", "delta", "none"}

\* Mutant: any other file replaces the committed one.
NeedsWork_anyFile(state, entry, fwdExists, enableReverse) ==
    CASE state.version = NoVersion \/ entry.file # state.version.file -> "full"
      [] OTHER -> IF \/ enableReverse /\ state.disabled
                     \/ state.loading # NoVersion
                     \/ state.card > 0 /\ ~fwdExists
                  THEN "full"
                  ELSE IF entry.size > state.size THEN "delta" ELSE "none"

\* needs_work_with_reverse_index: the first condition that applies decides.
NeedsWork(state, entry, fwdExists, enableReverse) ==
    CASE state.version = NoVersion -> "full"
      [] state.version # NoVersion /\ entry.file # state.version.file ->
            IF entry.ctime > state.version.ctime THEN "full" ELSE "none"
      [] state.version # NoVersion /\ entry.file = state.version.file ->
            IF \/ enableReverse /\ state.disabled
               \/ state.loading # NoVersion
               \/ state.card > 0 /\ ~fwdExists
            THEN "full"
            ELSE IF entry.size > state.size THEN "delta" ELSE "none"

\* plan_sync_with_reverse_index: the action and the file it is for.
PlanAction(state, entry, fwdExists, enableReverse) ==
    NeedsWork(state, SyncTarget(state, entry, enableReverse), fwdExists, enableReverse)
=============================================================================
