----------------------------- MODULE MCUmdImage -----------------------------
(* UmdImage with a FAT of two sectors of four entries, clusters of eight        *)
(* sectors and discs of one to six sectors: discs that end within a cluster, at  *)
(* its end, at the end of a sector of the FAT and behind it.                     *)
EXTENDS UmdImage

MCOffsets == {-1, 0, 1, 4, 8, 12}
=============================================================================
