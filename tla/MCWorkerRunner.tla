--------------------------- MODULE MCWorkerRunner ---------------------------
(* WorkerRunner for model checking: two jobs, a pair of bodies one of two, *)
(* so that every kind of body occurs: a match job, which may kill its      *)
(* worker, next to the job that generates its mapping, and a job that is   *)
(* refused next to one that is skipped.                                    *)
EXTENDS WorkerRunner

MCJob == 1 .. 2

MCBodies == { << "generate", "match" >>, << "other_type", "garbled" >> }
=============================================================================
