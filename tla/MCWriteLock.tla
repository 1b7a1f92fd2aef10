---------------------------- MODULE MCWriteLock ----------------------------
(***************************************************************************)
(* TLC instances of WriteLock: `ico compile --changed` (c), `ico maintain` *)
(* (m, requireLock) and the backup (b).                                    *)
(***************************************************************************)
EXTENDS WriteLock

=============================================================================
