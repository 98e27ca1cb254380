---------------------------- MODULE MCFrameLayout ----------------------------
(* Small instances of FrameLayout: the sizes are those of a 64-bit build.  *)
EXTENDS FrameLayout

MCSize == [int32 |-> 4, ptr |-> 8, array |-> 24, big |-> 64, var |-> 40]
MCTypes == DOMAIN MCSize

=============================================================================
