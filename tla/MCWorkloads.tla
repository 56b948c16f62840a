----------------------------- MODULE MCWorkloads -----------------------------
(* An instance of Workloads; times are scaled down, the ratios are kept.     *)
EXTENDS Workloads

(* The pace has settled after SettlesIn evaluations, from any pause.         *)
ASSUME PaceSettles == Pace!SettlesSoon

(* The instance is within the margins the expected shares leave.            *)
ASSUME WithinMargins == Cpu!SteadyClock /\ Query!FourQueries

MCQueries == <<"CPU", "Sleep", "other", "CPU", "Sleep">>
=============================================================================
