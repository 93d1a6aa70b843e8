--------------------------- MODULE MCNativeCapture ---------------------------
(***************************************************************************)
(* Two concurrent requests and the closing bridge over two captures.       *)
(***************************************************************************)
EXTENDS NativeCapture, TLC

CONSTANTS t1, t2
MCClient == {t1, t2}
Alike == Permutations(MCClient)
=============================================================================
