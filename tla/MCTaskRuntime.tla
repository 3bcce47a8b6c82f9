--------------------------- MODULE MCTaskRuntime ---------------------------
(***************************************************************************)
(* TaskRuntime for TLC.                                                    *)
(***************************************************************************)
EXTENDS TaskRuntime, TLC

WorkerSymmetry == Permutations(Workers) \cup Permutations(Requests)

\* A job put back under its worker lets a second one in, as a lapsed lease does:
\* where leases lapse under live workers, one of the two is enough.
NotOverwritten == ~overwritten
=============================================================================
