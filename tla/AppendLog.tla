----------------------------- MODULE AppendLog -----------------------------
(***************************************************************************)
(* What the chain store promises: a log that grows by one record at a      *)
(* time, of which a durable prefix survives every failure.                 *)
(***************************************************************************)
EXTENDS Sequences, SequencesExt

CONSTANT Payloads

VARIABLES
    log,     \* the chain that HEAD names
    stable   \* the part of it that cannot be lost

logVars == <<log, stable>>

LogStart == log = << >> /\ stable = << >>

Extend ==
    /\ \E p \in Payloads : log' = Append(log, p)
    /\ UNCHANGED stable

Settle ==
    /\ IsPrefix(stable, stable') /\ IsPrefix(stable', log)
    /\ UNCHANGED log

\* A power loss may take back what was not stable yet, and only that.
Lose ==
    /\ IsPrefix(stable, log') /\ IsPrefix(log', log)
    /\ stable' = log'

LogSpec == LogStart /\ [][Extend \/ Settle \/ Lose]_logVars
=============================================================================
