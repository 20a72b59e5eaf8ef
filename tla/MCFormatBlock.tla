--------------------------- MODULE MCFormatBlock ----------------------------
(* Devices of 512-byte blocks in the sizes of the source, at and next to the  *)
(* sizes where the cluster size or the FAT type changes.                      *)
EXTENDS FormatBlock

\* 34 MB, 64 MB, 1 GB and 3 GB; the smallest FAT16 volume; the first with
\* two and four sectors to a cluster; the last with FAT16; the smallest with
\* FAT32; without room for a partition; without room for one table; with
\* room for a partition of 34, 70 and 97 blocks, too small for FAT32's layout.
SomeTotals == {20, 68, 101, 137, 164, 165, 69632, 131072, 2097152, 6291456, 4219, 4220,
               66140, 66141, 131663, 131664, 4194211}

\* Only the three small ones are not what the layout is made for.
ASSUME \A t \in SomeTotals : SizeFits(t) <=> t \notin {101, 137, 164}
=============================================================================
