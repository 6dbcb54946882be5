--------------------------- MODULE StorageUpkeep ---------------------------
(***************************************************************************)
(* Backups (storage/backup.rs) and pruning (storage/pruning.rs) of a       *)
(* database that is written meanwhile.  The database is the number of      *)
(* blocks stored in it; a block adds one record to every family.  Any call *)
(* to the backup engine or to the file system may fail, which is also what *)
(* a crash there leaves behind.                                            *)
(***************************************************************************)
EXTENDS Naturals, FiniteSets, FiniteSetsExt, Functions

CONSTANTS MaxBackups,    \* max_backups
          MaxBlocks,     \* bound on the blocks
          MaxIds,        \* bound on the backups made
          MaxBackupFailures   \* bound on the calls that fail

ASSUME BackupsAssumption == MaxBackups \in Nat \ {0}

VARIABLE bk   \* sm: blocks applied to the state manager; db: blocks stored; pc: the next step of
              \* create_consistent_backup; draft: the metadata gathered so far; id: the backup
              \* being made; copies, metas: [ids -> blocks], [ids -> metadata] on disk; pruned;
              \* history: began, the database when gathering began; quiet: the backups made
              \* while nothing was written; result of the last creation; restored, what
              \* the last restore_and_validate said; failures

NoBackup == [x \in {} |-> 0]
NoDraft == [root |-> 0, last |-> 0, blocks |-> 0, txs |-> 0, utxos |-> 0]
BackupAt(f, k, v) == [x \in DOMAIN f \union {k} |-> IF x = k THEN v ELSE f[x]]
BkInit == bk = [sm |-> 0, db |-> 0, pc |-> "idle", draft |-> NoDraft, id |-> 0, copies |-> NoBackup,
                metas |-> NoBackup, pruned |-> 0, began |-> 0, quiet |-> {}, result |-> "none",
                restored |-> "none", failures |-> 0]

\* the state manager is borrowed while the metadata is gathered, the database is not
AdvanceState == /\ bk.pc \in {"idle", "copy"} /\ bk.sm < MaxBlocks
              /\ bk' = [bk EXCEPT !.sm = @ + 1]
StoreNextBlock == bk.db < bk.sm /\ bk' = [bk EXCEPT !.db = @ + 1]

-----------------------------------------------------------------------------
CountRecords(blocks) == blocks

\* gather_metadata: root and last block first, then one family after the other
GatherState == /\ bk.pc = "idle"
               /\ bk' = [bk EXCEPT !.pc = "blocks", !.began = bk.db, !.draft = [NoDraft EXCEPT !.root = bk.sm, !.last = bk.sm]]
CountBlocks == bk.pc = "blocks" /\ bk' = [bk EXCEPT !.pc = "txs", !.draft.blocks = CountRecords(bk.db)]
CountTxs == bk.pc = "txs" /\ bk' = [bk EXCEPT !.pc = "utxos", !.draft.txs = CountRecords(bk.db)]
CountUtxos == bk.pc = "utxos" /\ bk' = [bk EXCEPT !.pc = "copy", !.draft.utxos = CountRecords(bk.db)]

\* mutant: the first backup listed is taken for the new one
OldestId(copies) == Min(DOMAIN copies)
NewestId(copies) == Max(DOMAIN copies)
\* create_new_backup_flush copies the live database, not the snapshot
CopyLive == /\ bk.pc = "copy" /\ Max(DOMAIN bk.copies \union {0}) < MaxIds
            /\ LET copies == BackupAt(bk.copies, Max(DOMAIN bk.copies \union {0}) + 1, bk.db)
               IN bk' = [bk EXCEPT !.pc = "verify", !.copies = copies, !.id = NewestId(copies),
                                   !.quiet = IF bk.began = bk.db THEN @ \union {Max(DOMAIN copies)} ELSE @]
VerifyBackup == bk.pc = "verify" /\ bk' = [bk EXCEPT !.pc = "save"]
SaveBackupMetadata == /\ bk.pc = "save"
                      /\ bk' = [bk EXCEPT !.pc = "purge", !.metas = BackupAt(@, bk.id, bk.draft)]
PurgeOldBackups ==
  /\ bk.pc = "purge"
  /\ LET kept == {i \in DOMAIN bk.copies : Cardinality({j \in DOMAIN bk.copies : j > i}) < MaxBackups}
     IN bk' = [bk EXCEPT !.pc = "clean", !.copies = Restrict(@, kept)]
\* the metadata files go one by one, in the order the directory lists them
RemoveOldMetadata ==
  /\ bk.pc = "clean"
  /\ \E i \in DOMAIN bk.metas \ DOMAIN bk.copies :
       bk' = [bk EXCEPT !.metas = Restrict(@, DOMAIN @ \ {i})]
BackupDone ==
  /\ bk.pc = "clean" /\ DOMAIN bk.metas \subseteq DOMAIN bk.copies
  /\ bk' = [bk EXCEPT !.pc = "idle", !.result = "ok", !.draft = NoDraft]
\* the error ends the creation where it is; a copy that was made stays
BackupFails == /\ bk.pc # "idle" /\ bk.failures < MaxBackupFailures
               /\ bk' = [bk EXCEPT !.pc = "idle", !.result = "error", !.draft = NoDraft, !.failures = @ + 1]

-----------------------------------------------------------------------------
\* restore_from_backup needs the copy and its metadata
RestoreFromBackup(id) == IF id \notin DOMAIN bk.copies THEN "no_backup"
                         ELSE IF id \notin DOMAIN bk.metas THEN "no_metadata" ELSE "restored"
\* validate_restored_database, with the state manager at block v
ValidateRestoredDatabase(meta, blocks, v) ==
  IF meta.root # v THEN "root_mismatch"
  ELSE IF meta.last # v THEN "last_block_mismatch"
  ELSE IF \E family \in {"blocks", "txs", "utxos"} : meta[family] # CountRecords(blocks) THEN "count_mismatch"
  ELSE "valid"
RestoreAndValidate(id, v) ==
  /\ bk.pc = "idle"
  /\ LET outcome == IF RestoreFromBackup(id) # "restored" THEN RestoreFromBackup(id)
                    ELSE ValidateRestoredDatabase(bk.metas[id], bk.copies[id], v)
     IN bk' = [bk EXCEPT !.restored = outcome]

\* prune_blocks names no column family: it counts the old headers and deletes nothing
Cutoff(height, depth) == IF height > depth THEN height - depth ELSE 0
PruneBlocks(depth) ==
  /\ bk.pc = "idle" /\ bk.pruned < MaxBlocks
  /\ LET old == {h \in 0 .. (bk.db - 1) : h < Cutoff(bk.db, depth)}
     IN old # {} /\ bk' = [bk EXCEPT !.pruned = @ + Cardinality(old)]

BkNext == \/ AdvanceState \/ StoreNextBlock
          \/ GatherState \/ CountBlocks \/ CountTxs \/ CountUtxos
          \/ CopyLive \/ VerifyBackup \/ SaveBackupMetadata \/ PurgeOldBackups
          \/ RemoveOldMetadata \/ BackupDone \/ BackupFails
          \/ \E id \in 1 .. MaxIds, v \in 0 .. MaxBlocks : RestoreAndValidate(id, v)
          \/ \E depth \in 1 .. MaxBlocks : PruneBlocks(depth)

-----------------------------------------------------------------------------
\* A backup whose metadata was saved and during which no block was stored validates against
\* the state manager it was taken from, whatever creations failed before and after it.
QuietBackupsValidate ==
  \A i \in DOMAIN bk.metas \intersect DOMAIN bk.copies \intersect bk.quiet :
    ValidateRestoredDatabase(bk.metas[i], bk.copies[i], bk.metas[i].root) = "valid"

\* After a creation without error the newest backup is there with its metadata, no file is
\* left of a purged one, and the number of backups is within the limit.
CreationLeavesNewest ==
  bk.pc = "idle" /\ bk.result = "ok" =>
    /\ bk.id = Max(DOMAIN bk.copies) /\ bk.id \in DOMAIN bk.metas
    /\ DOMAIN bk.metas \subseteq DOMAIN bk.copies
    /\ Cardinality(DOMAIN bk.copies) <= MaxBackups

\* A backup during which nothing was stored validates after its restore, and a creation without error
\* leaves the newest backup, its metadata and nothing of the purged ones, whatever failed before it.
BackupsSound == QuietBackupsValidate /\ CreationLeavesNewest
=============================================================================
