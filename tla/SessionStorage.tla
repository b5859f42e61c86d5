---------------------------- MODULE SessionStorage ----------------------------
(***************************************************************************)
(* The SessionStorage backends, for one session of one customer: memory, a *)
(* directory of files, Redis.  A file is written under a temporary name    *)
(* and renamed; Redis takes two commands, the document and then the        *)
(* customer's index, and a delete three.  The process may die in between;  *)
(* another goes on with what is stored.                                    *)
(***************************************************************************)
EXTENDS Integers

CONSTANT StoreMaxVersion    \* bound: saves

ASSUME StoreAssumption == StoreMaxVersion \in Nat

Nothing == 0
Torn == -1     \* part of a document
Versions == 1 .. StoreMaxVersion

VARIABLES
  storeKind,      \* the backend in use
  storeTmp,       \* file: what the temporary file holds
  storeDoc,       \* what load() reads
  storeIndex,     \* Redis: the session is in its customer's index
  storeFound,     \* Redis: what delete() loaded first
  storeAt,        \* where the save or delete in progress is
  storeVersion,   \* the latest version save() was called with
  storeKept       \* history: what the last operation that completed left

storeVars == <<storeKind, storeTmp, storeDoc, storeIndex, storeFound, storeAt,
               storeVersion, storeKept>>

StoreInit ==
  /\ storeKind = "none" /\ storeTmp = Nothing /\ storeDoc = Nothing
  /\ storeIndex = FALSE /\ storeFound = FALSE /\ storeAt = "idle"
  /\ storeVersion = 0 /\ storeKept = Nothing

StoreTypeOK ==
  /\ storeKind \in {"none", "memory", "file", "redis"}
  /\ {storeTmp, storeDoc} \subseteq Versions \cup {Nothing, Torn}
  /\ storeIndex \in BOOLEAN /\ storeFound \in BOOLEAN
  /\ storeAt \in {"idle", "writing", "written", "indexing", "deleting", "unindexing"}
  /\ storeVersion \in 0 .. StoreMaxVersion /\ storeKept \in Versions \cup {Nothing}

-------------------------------------------------------------------------------
(* Faulty variants, see AcpMerchant. *)

StoreWriteFile_InPlace ==
  /\ storeKind = "file" /\ storeAt = "idle" /\ storeVersion < StoreMaxVersion
  /\ storeVersion' = storeVersion + 1
  /\ storeDoc' = Torn /\ storeTmp' = Torn /\ storeAt' = "writing"
  /\ UNCHANGED <<storeKind, storeIndex, storeFound, storeKept>>
StoreDelete_IndexFirst ==
  /\ storeAt = "deleting"
  /\ storeIndex' = FALSE /\ storeAt' = "unindexing"
  /\ UNCHANGED <<storeKind, storeTmp, storeDoc, storeFound, storeVersion, storeKept>>

-------------------------------------------------------------------------------
StoreOpen ==
  /\ storeKind = "none"
  /\ storeKind' \in {"memory", "file", "redis"}
  /\ UNCHANGED <<storeTmp, storeDoc, storeIndex, storeFound, storeAt,
                 storeVersion, storeKept>>

StoreSaves(kind) ==
  /\ storeKind = kind /\ storeAt = "idle" /\ storeVersion < StoreMaxVersion
  /\ storeVersion' = storeVersion + 1

StoreSaveMemory ==
  /\ StoreSaves("memory")
  /\ storeDoc' = storeVersion' /\ storeKept' = storeVersion'
  /\ UNCHANGED <<storeKind, storeTmp, storeIndex, storeFound, storeAt>>

\* writeFile() of the temporary file has begun.
StoreWriteFile ==
  /\ StoreSaves("file")
  /\ storeTmp' = Torn /\ storeAt' = "writing"
  /\ UNCHANGED <<storeKind, storeDoc, storeIndex, storeFound, storeKept>>

StoreFileWritten ==
  /\ storeAt = "writing"
  /\ storeTmp' = storeVersion /\ storeAt' = "written"
  /\ UNCHANGED <<storeKind, storeDoc, storeIndex, storeFound, storeVersion, storeKept>>

StoreRename ==
  /\ storeAt = "written"
  /\ storeDoc' = storeTmp /\ storeTmp' = Nothing
  /\ storeAt' = "idle" /\ storeKept' = storeVersion
  /\ UNCHANGED <<storeKind, storeIndex, storeFound, storeVersion>>

StoreSet ==
  /\ StoreSaves("redis")
  /\ storeDoc' = storeVersion' /\ storeAt' = "indexing"
  /\ UNCHANGED <<storeKind, storeTmp, storeIndex, storeFound, storeKept>>

StoreAddToIndex ==
  /\ storeAt = "indexing"
  /\ storeIndex' = TRUE /\ storeAt' = "idle" /\ storeKept' = storeVersion
  /\ UNCHANGED <<storeKind, storeTmp, storeDoc, storeFound, storeVersion>>

\* unlink() or Map.delete().
StoreDeleteAtOnce ==
  /\ storeKind \in {"memory", "file"} /\ storeAt = "idle"
  /\ storeDoc' = Nothing /\ storeKept' = Nothing
  /\ UNCHANGED <<storeKind, storeTmp, storeIndex, storeFound, storeAt, storeVersion>>

StoreDeleteLoads ==
  /\ storeKind = "redis" /\ storeAt = "idle"
  /\ storeFound' = (storeDoc # Nothing) /\ storeAt' = "deleting"
  /\ UNCHANGED <<storeKind, storeTmp, storeDoc, storeIndex, storeVersion, storeKept>>

StoreDelete ==
  /\ storeAt = "deleting"
  /\ storeDoc' = Nothing /\ storeKept' = Nothing
  /\ storeAt' = IF storeFound THEN "unindexing" ELSE "idle"
  /\ UNCHANGED <<storeKind, storeTmp, storeIndex, storeFound, storeVersion>>

StoreRemoveFromIndex ==
  /\ storeAt = "unindexing"
  /\ storeIndex' = FALSE /\ storeAt' = "idle"
  /\ UNCHANGED <<storeKind, storeTmp, storeDoc, storeFound, storeVersion, storeKept>>

\* The time to live given with SET ends, not before the save does; the index
\* has none.
StoreExpire ==
  /\ storeKind = "redis" /\ storeDoc # Nothing /\ storeAt # "indexing"
  /\ storeDoc' = Nothing /\ storeKept' = Nothing
  /\ UNCHANGED <<storeKind, storeTmp, storeIndex, storeFound, storeAt, storeVersion>>

\* Memory is lost; a temporary file stays behind under a name nobody reads.
StoreCrash ==
  /\ storeAt' = "idle" /\ storeTmp' = Nothing
  /\ IF storeKind = "memory"
     THEN storeDoc' = Nothing /\ storeKept' = Nothing
     ELSE UNCHANGED <<storeDoc, storeKept>>
  /\ UNCHANGED <<storeKind, storeIndex, storeFound, storeVersion>>

StoreNext ==
  \/ StoreOpen \/ StoreSaveMemory
  \/ StoreWriteFile \/ StoreFileWritten \/ StoreRename
  \/ StoreSet \/ StoreAddToIndex
  \/ StoreDeleteAtOnce \/ StoreDeleteLoads \/ StoreDelete \/ StoreRemoveFromIndex
  \/ StoreExpire \/ StoreCrash

StoreSpec == StoreInit /\ [][StoreNext]_storeVars

-------------------------------------------------------------------------------
(* Properties. *)

\* list({customerId}) has the session: Redis takes the ids of the index and
\* drops those without a document, the others look at the documents.
StoreListed == storeDoc # Nothing /\ (storeKind = "redis" => storeIndex)

\* What load() reads is whole, and once a save has completed it is that version
\* or one whose save got as far as the rename or the SET.
LoadedIsWhole ==
  /\ storeDoc # Torn
  /\ storeKept # Nothing => storeDoc \in storeKept .. storeVersion

\* A session whose save completed, and that was not deleted since, is listed
\* under its customer, whatever was cut short by a crash before or after.
SavedIsListed == storeKept # Nothing => StoreListed
===============================================================================
