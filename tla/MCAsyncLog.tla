----------------------------- MODULE MCAsyncLog -----------------------------
(* A small instance of AsyncLog: the queue holds two entries, a batch two.  *)
EXTENDS AsyncLog
=============================================================================
