--------------------------- MODULE MCEllipseSystem ---------------------------
(* A small instance of EllipseSystem for TLC.                                *)
EXTENDS EllipseSystem

MCConns == 1..NUM_CLIENTS

=============================================================================
