----------------------------- MODULE MCServices -----------------------------
(***************************************************************************)
(* The software timers, the watchdog and power management.  They share     *)
(* nothing but the tick counter, which each of them only reads, so a       *)
(* behaviour runs one of them.                                             *)
(***************************************************************************)
EXTENDS Watchdog, Power, Timer, TLC

VARIABLES service

ServicesInit ==
    /\ Init /\ TimerInit /\ PowerInit
    /\ service \in {"timers", "watchdog", "power"}

ServicesNext ==
    /\ service' = service
    /\ \/ service = "timers" /\ TimerNext /\ UNCHANGED <<vars, powervars>>
       \/ service = "watchdog" /\ Next /\ UNCHANGED <<timervars, powervars>>
       \/ service = "power" /\ PowerNext /\ UNCHANGED <<timervars, vars>>

allvars == <<vars, timervars, powervars, service>>

ServicesSpec == ServicesInit /\ [][ServicesNext]_allvars

\* The same model values stand for the timers and the monitored tasks.
Symmetry == Permutations(Timers)

\* Fields in range, and more: the timers' list and count agree; the watchdog has at most
\* WDT_MAX_MONITORED_TASKS entries, no task in two, and every task in a call holds the index
\* of an entry (wdt_register_task, wdt_unregister_task).
ServicesTypeOK == TypeOK /\ TimerTypeOK
=============================================================================
