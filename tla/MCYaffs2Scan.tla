---------------------------- MODULE MCYaffs2Scan ----------------------------
(* A small flash: two blocks of three pages and a summary, one directory and *)
(* one file of one chunk beside the root.                                    *)
EXTENDS Yaffs2Scan
=============================================================================
