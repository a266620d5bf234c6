----------------------------- MODULE MCHeapRun -----------------------------
(* A floor-run heap on few floors, each at most MaxCopies times per part.  *)
EXTENDS HeapRun
=============================================================================
