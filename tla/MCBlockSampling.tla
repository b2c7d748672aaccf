--------------------------- MODULE MCBlockSampling ---------------------------
(* Two markets, one of them created halfway; windows inside the chain,     *)
(* from before it to after it, and after it altogether.                    *)
EXTENDS BlockSampling

MCCreated == <<0, 3>>
MCWindows == {[start |-> 3, end |-> 7], [start |-> 0, end |-> 99],
              [start |-> 50, end |-> 99]}
=============================================================================
