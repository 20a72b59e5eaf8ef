------------------------- MODULE MCRouterOSLoader --------------------------
(* Files of up to nine bytes with headers of two and three, so that lengths   *)
(* end on, before and behind every boundary; kernels with and without a RAM   *)
(* disk, and damaged ones: an empty file, a stream cut short, no stub in it,  *)
(* other second streams.                                                      *)
EXTENDS RouterOSLoader

Package(id, bytes, elf, section, out, ends, mz, extent, second) ==
    [id |-> id, size |-> bytes, elf |-> elf, section |-> section, out |-> out, ends |-> ends,
     mz |-> mz, extent |-> extent, second |-> second]

SomePackages == {
    Package(1, 4, TRUE, TRUE, 3, TRUE, TRUE, 3, "cpio"),
    Package(2, 4, TRUE, FALSE, 3, TRUE, TRUE, 2, "none"),
    Package(3, 4, TRUE, TRUE, 2, FALSE, TRUE, 3, "other"),
    Package(4, 4, TRUE, TRUE, 0, TRUE, FALSE, 0, "cpio"),
    Package(5, 4, TRUE, TRUE, 3, TRUE, TRUE, 3, "empty"),
    Package(6, 0, FALSE, FALSE, 0, FALSE, FALSE, 0, "none")}
=============================================================================
