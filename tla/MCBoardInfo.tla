---------------------------- MODULE MCBoardInfo -----------------------------
(* Areas of six cells with headers of two;  names of up to one cell and its   *)
(* zero, MAC addresses of two cells.                                          *)
EXTENDS BoardInfo, TLC

Cell(tag, len) == [tag |-> tag, len |-> len]
SomeCells == {Nul, Cell("name", 1), Cell("name", 2), Cell("serial", 0), Cell("mac", 1),
              Cell("mac", 2), Cell("other", 1)}
AName   == 0 :> Cell("other", 1) @@ 1 :> Nul
ASerial == 0 :> Cell("other", 1) @@ 1 :> Nul
AMac    == 0 :> Cell("other", 1) @@ 1 :> Nul
=============================================================================
