---------------------------- MODULE MCAsyncWorker ----------------------------
(* Small instance of AsyncWorker for TLC. *)
EXTENDS AsyncWorker
=============================================================================
