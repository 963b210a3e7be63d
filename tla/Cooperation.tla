---------------------------- MODULE Cooperation ----------------------------
(***************************************************************************)
(* The metadata that the beacon edge keeps for one key, and the operations *)
(* of CooperationWrapperBase on it.  Each operation runs under the key's   *)
(* lock of cooperation_wrapper_perkey_rwlock, so it is one atomic operator *)
(* from a metadata value to the next.                                      *)
(*                                                                         *)
(*   dir        DirectoryTable: which edges are recorded as caching the    *)
(*              key, and whether their record is valid                     *)
(*   writeflag  BlockTracker: an MsiMetadata entry exists exactly while    *)
(*              the key is being written, because finishing the write      *)
(*              erases the entry                                           *)
(*   blocklist  the edges whose cache server worker waits for the end of   *)
(*              the write                                                  *)
(***************************************************************************)
CONSTANTS Edges

Dirinfo == {"none", "valid", "invalid"}

MetaType == [dir : [Edges -> Dirinfo], writeflag : BOOLEAN,
             blocklist : SUBSET Edges]

InitMeta == [dir |-> [e \in Edges |-> "none"], writeflag |-> FALSE,
             blocklist |-> {}]

----------------------------------------------------------------------------
(* The directory table *)

\* Mutant: only the valid records count.
dirinfos_OnlyValid(mt) == {e \in Edges : mt.dir[e] = "valid"}

dirinfos(mt) == {e \in Edges : mt.dir[e] # "none"}

isGlobalCached(mt) == dirinfos(mt) # {}

\* The edges one of which a lookup returns: valid, and not the asking edge.
lookupTargets(mt, src) == {e \in Edges \ {src} : mt.dir[e] = "valid"}

\* Mutant: an admission during a write is recorded as valid.
updateDirectoryTable_IgnoresWrite(mt, src, is_admit) ==
    [mt EXCEPT !.dir[src] = IF is_admit THEN "valid" ELSE "none"]

\* Admission records the edge, as invalid while the key is being written;
\* eviction forgets the edge.
updateDirectoryTable(mt, src, is_admit) ==
    [mt EXCEPT !.dir[src] = IF ~is_admit THEN "none"
                            ELSE IF mt.writeflag THEN "invalid" ELSE "valid"]

invalidateAllDirinfo(dir) ==
    [e \in Edges |-> IF dir[e] = "none" THEN "none" ELSE "invalid"]

\* Mutant: the end of a write validates every record.
validateDirinfo_All(dir, src) ==
    [e \in Edges |-> IF dir[e] = "none" THEN "none" ELSE "valid"]

validateDirinfo(dir, src) ==
    [dir EXCEPT ![src] = IF @ = "none" THEN "none" ELSE "valid"]

----------------------------------------------------------------------------
(* The block tracker and the write lock *)

blockEdge(mt, src) == [mt EXCEPT !.blocklist = @ \cup {src}]

\* Mutant: the asking edge is told to wait and not remembered.
lookupByBeaconServer_Forgets(mt, src) == mt

\* A lookup that finds the key being written blocks the asking edge.
lookupByBeaconServer(mt, src) == IF mt.writeflag THEN blockEdge(mt, src) ELSE mt

\* Mutant: the write flag is not tested before it is set.
lockResult_NoTest(mt) == IF isGlobalCached(mt) THEN "success" ELSE "noneed"

lockResult(mt) == IF ~isGlobalCached(mt) THEN "noneed"
                  ELSE IF mt.writeflag THEN "failure" ELSE "success"

setWriteflag(mt) == [mt EXCEPT !.writeflag = TRUE,
                               !.dir = invalidateAllDirinfo(mt.dir)]

acquireLocalWritelockByCacheServer(mt) ==
    IF lockResult(mt) = "success" THEN setWriteflag(mt) ELSE mt

acquireLocalWritelockByBeaconServer(mt, src) ==
    CASE lockResult(mt) = "success" -> setWriteflag(mt)
      [] lockResult(mt) = "failure" -> blockEdge(mt, src)
      [] OTHER -> mt

\* The blocked edges are handed to the caller, which notifies them.
releaseLocalWritelock(mt, src) ==
    [mt EXCEPT !.writeflag = FALSE, !.blocklist = {},
               !.dir = validateDirinfo(mt.dir, src)]

=============================================================================
