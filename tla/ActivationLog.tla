--------------------------- MODULE ActivationLog ---------------------------
(***************************************************************************)
(* What the registry promises about the active set, without tables, events *)
(* or versions: a log of activations that only grows, one set at a time,   *)
(* and in which no set comes back.  The active set is the last of the log, *)
(* the previous set the one before it, the version its length.             *)
(***************************************************************************)
EXTENDS Naturals, Sequences

CONSTANT SetIds

VARIABLE log

LogInit == log = <<>>

LogActivate(s) ==
  /\ \A i \in DOMAIN log : log[i] # s
  /\ log' = Append(log, s)

LogNext == \E s \in SetIds : LogActivate(s)

LogSpec == LogInit /\ [][LogNext]_log
=============================================================================
