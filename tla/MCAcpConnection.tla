--------------------------- MODULE MCAcpConnection ---------------------------
(***************************************************************************)
(* Model of AcpConnection: two requests, a notification and an error of    *)
(* the reader share the writer; a frame has two pieces, the peer may reply *)
(* twice.                                                                  *)
(***************************************************************************)
EXTENDS AcpConnection

=============================================================================
