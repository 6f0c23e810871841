---------------------------- MODULE MCKeyLocks ----------------------------
(* A small instance of KeyLocks. *)
EXTENDS KeyLocks

\* One lock object per thread is enough: a thread that registers refers to
\* none, so some object is fresh whenever a new one is needed.
OnePerThread == {<<"refLock", t>> : t \in Threads}
=============================================================================
