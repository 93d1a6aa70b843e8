--------------------------- MODULE MCNativeBridge ---------------------------
(***************************************************************************)
(* Two threads, two sessions over one place in each table, two operations  *)
(* of a lease and one reconnection of the device.                          *)
(***************************************************************************)
EXTENDS NativeBridge, TLC

CONSTANTS t1, t2, s1, s2, c1, w1, w2
MCThread == {t1, t2}
MCScreen == {s1, s2}
MCCand == {c1}
MCWindow == {w1, w2}
Alike == Permutations(MCThread) \cup Permutations(MCScreen)
         \cup Permutations(MCWindow)
=============================================================================
