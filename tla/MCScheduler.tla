----------------------------- MODULE MCScheduler -----------------------------
(***************************************************************************)
(* Instances of Scheduler for TLC: three user threads, and who may create  *)
(* and start whom.                                                         *)
(***************************************************************************)
EXTENDS Scheduler

CONSTANTS t1, t2, t3

\* Anyone may start anyone, several threads the same one.
AllStarts == {t1, t2, t3} \X {t1, t2, t3}

\* Each thread starts the one behind it: Bootstrap creates Loader's thread and
\* Loader the one of ProcessManager, and the handle stays with its creator.
ChainStarts == {<<t1, t2>>, <<t2, t3>>}
=============================================================================
