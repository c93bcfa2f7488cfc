---------------------------- MODULE NullPointer ----------------------------
(* The null pointer, also used for the owner of a free lock and for the    *)
(* descriptor -1.                                                          *)

CONSTANT NULL
=============================================================================
