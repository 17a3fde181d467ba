-------------------------------- MODULE MC_Sched --------------------------------
(***************************************************************************)
(* Four slots (the kernel task and three processes), one wait queue, and  *)
(* wakeups of one or two processes: enough to fill the table, exit and    *)
(* reuse a slot, race two sys_exec calls for one slot, and wait and wake  *)
(* across a switch.                                                        *)
(***************************************************************************)
EXTENDS Sched

MC_Queues == {"q"}
MC_NbProcs == {1, 2}
==================================================================================
