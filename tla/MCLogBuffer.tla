----------------------------- MODULE MCLogBuffer -----------------------------
(***************************************************************************)
(* Buffers of every limit from 0 (no room at all) to 9, with logs that     *)
(* overflow them by several writes; every way to cut a log into writes.    *)
(***************************************************************************)
EXTENDS LogBuffer
=============================================================================
