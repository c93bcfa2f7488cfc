---------------------------- MODULE MCLineBuffer ----------------------------
(* Small buffers: contents of up to four bytes, reads of up to three, and   *)
(* lines cut after two bytes, so that overflow, truncation and stale bytes   *)
(* all occur within a stream of MaxStream bytes.                            *)
EXTENDS LineBuffer

MCByte == {"x", "NL", "NUL"}
=============================================================================
