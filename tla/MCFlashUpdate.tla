--------------------------- MODULE MCFlashUpdate ----------------------------
(* Six sectors of two pages: two slots of two sectors and a raw area in      *)
(* front.  The images share their first page, as two builds share an ELF     *)
(* header, and have sizes on and off a sector's boundary.                    *)
EXTENDS FlashUpdate

AllImages   == {<<"h", "a2", "a3">>, <<"h", "b2">>, <<"c1">>,
                <<"h", "a2", "a3", "b2">>}
AllContents == {"old", "h", "a2", "a3", "b2", "c1"}
=============================================================================
