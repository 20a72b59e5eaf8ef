---------------------------- MODULE MCSpiLoader -----------------------------
(* Fields take small values, values at a limit and values that wrap.          *)
EXTENDS SpiLoader

SomePhdrs ==
    [load : {TRUE}, p_paddr : {0, 3, 8, 31}, p_vaddr : {13}, p_offset : {0, 2, 31},
     p_filesz : {0, 2, 3}, p_memsz : {0, 2, 5, 30}]
    \cup {[load |-> FALSE, p_paddr |-> 9, p_vaddr |-> 9, p_offset |-> 31, p_filesz |-> 3,
           p_memsz |-> 2]}
=============================================================================
