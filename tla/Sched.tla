-------------------------------- MODULE Sched --------------------------------
(***************************************************************************)
(* The process table and the scheduler: schedule() and reschedule() of    *)
(* src/schedule.c with switch_to_task, the timer's call of schedule() in  *)
(* isr_clock_int (src/interrupt.c), the slot search of sys_exec           *)
(* (src/syscall/exec.c), sys_exit (src/syscall/exit.c) and the wait queues *)
(* of src/kwaitq.c.                                                         *)
(*                                                                         *)
(* The state is one record k, so that a call and the schedule() it makes  *)
(* are one step:                                                           *)
(*  - state: p_list[i].state; cur: the pid of current; numProc: num_proc;  *)
(*  - ctx: whether the registers saved for a process came from an          *)
(*    interrupt frame ("ok") or from a C caller's frame ("garbage").       *)
(*    schedule() and reschedule() read the registers at fixed offsets of   *)
(*    their caller's frame, laid out by the interrupt entry; called from   *)
(*    kwaitq_wait or kwaitq_wakeup they read that function's locals;       *)
(*  - hasAs: p_list[i].address_space is set;                               *)
(*  - queue: each wait queue's waiting_list, the pids of its entries;      *)
(*  - pc: where the process is in the kernel: "user", between the two      *)
(*    steps of sys_exec ("exec"), or spinning ("spin"); pending: the slot  *)
(*    its sys_exec took;                                                   *)
(*  - fault: "none", or the first undefined behaviour reached.             *)
(*                                                                         *)
(* process.h, which declares p_list, num_proc and the states, is not in   *)
(* the repository: MaxPid is MAXPID, and the zeroed p_list is all         *)
(* PROC_STOPPED, which sys_exec's search relies on.  The system call      *)
(* vector is a TRAPGATE (idt.c:60), so the timer can preempt sys_exec     *)
(* between its slot search and the PROC_READY that ends it; the wait-queue *)
(* calls run with IRQs disabled and are one step each.                    *)
(***************************************************************************)
EXTENDS Integers, Sequences, FiniteSets
LOCAL INSTANCE FiniteSetsExt

CONSTANTS
  MaxPid,       \* MAXPID
  Queues,       \* the wait queues kernel code waits on
  NbProcs,      \* nb_process values passed to kwaitq_wakeup
  MaxCalls      \* bound on the calls (not the timer ticks) of a behaviour

Pids == 0 .. MaxPid - 1
UserPids == 1 .. MaxPid - 1
States == {"STOPPED", "READY", "RUNNING", "BLOCKED"}

----------------------------------------------------------------------------
(* schedule.c                                                              *)

(* switch_to_task(n): current = &p_list[n], PROC_RUNNING, and the iret    *)
(* into n's saved registers; eflags gets IF, so interrupts are on after.  *)
SwitchToTask(k, n) ==
  [k EXCEPT !.cur = n, !.state[n] = "RUNNING",
            !.fault = IF k.ctx[n] = "garbage" THEN "resume_garbage" ELSE @]

(* Mutant: the first loop starts at current itself. *)
PickNextFromCurrent(k) ==
  LET after == {i \in k.cur .. MaxPid - 1 : k.state[i] = "READY"}
      before == {i \in 1 .. k.cur - 1 : k.state[i] = "READY"}
  IN  IF after # {} THEN Min(after) ELSE IF before # {} THEN Min(before) ELSE 0

(* The search of schedule(): the first PROC_READY pid after current, then *)
(* from 1 up to current, else 0. *)
PickNext(k) ==
  LET after == {i \in k.cur + 1 .. MaxPid - 1 : k.state[i] = "READY"}
      before == {i \in 1 .. k.cur - 1 : k.state[i] = "READY"}
  IN  IF after # {} THEN Min(after) ELSE IF before # {} THEN Min(before) ELSE 0

(* No switch with no process, or with one that is running. *)
KeepsCurrent(k) == k.numProc = 0 \/ (k.numProc = 1 /\ k.cur # 0)

SaveContext(k, frame) ==
  [k EXCEPT !.ctx[k.cur] = IF frame = "irq" THEN "ok" ELSE "garbage"]

(* Mutant: current is not put back to PROC_READY. *)
ScheduleNoReady(k, frame) ==
  IF KeepsCurrent(k) THEN k
  ELSE LET k1 == SaveContext(k, frame) IN SwitchToTask(k1, PickNext(k1))

(* schedule(): current becomes PROC_READY; then, unless KeepsCurrent, its *)
(* registers are saved and the next ready process runs. *)
Schedule(k, frame) ==
  LET k1 == [k EXCEPT !.state[k.cur] = "READY"]
  IN  IF KeepsCurrent(k1) THEN k1
      ELSE LET k2 == SaveContext(k1, frame) IN SwitchToTask(k2, PickNext(k2))

(* reschedule(pid): the same, to a given pid, and current keeps its state. *)
Reschedule(k, p) ==
  IF KeepsCurrent(k) THEN k ELSE SwitchToTask(SaveContext(k, "c"), p)

----------------------------------------------------------------------------
(* Processes.                                                              *)

(* Mutant: the loop runs while pid <= MAXPID and takes p_list[MAXPID]. *)
ExecBeginPastEnd(k, c) ==
  LET free == {i \in UserPids : k.state[i] = "STOPPED"} \cup {MaxPid}
  IN  [k EXCEPT !.numProc = @ + 1, !.pending[c] = Min(free), !.pc[c] = "exec"]

(* sys_exec up to the preemptible part: from pid 1, the first            *)
(* PROC_STOPPED slot; with none, the loop reads p_list[MAXPID], past the  *)
(* table.  num_proc++ and the slot is taken, still PROC_STOPPED. *)
ExecBegin(k, c) ==
  LET free == {i \in UserPids : k.state[i] = "STOPPED"}
  IN  IF free = {} THEN [k EXCEPT !.fault = "plist_overflow"]
      ELSE [k EXCEPT !.numProc = @ + 1, !.pending[c] = Min(free), !.pc[c] = "exec"]

(* The rest of sys_exec: a new address space, the stack, the ELF image   *)
(* (binfmt_elf32_map, not in the repository: ok says whether it loads).  *)
(* On failure the space is deleted and -8 returned.  Else                 *)
(* process_set_address_space spins in while(1) if the slot already has a *)
(* space; else the registers are set and the slot is PROC_READY. *)
ExecEnd(k, c, ok) ==
  LET p == k.pending[c]
  IN  CASE ~ok -> [k EXCEPT !.pc[c] = "user"]
        [] k.hasAs[p] -> [k EXCEPT !.pc[c] = "spin"]
        [] OTHER -> [k EXCEPT !.hasAs[p] = TRUE, !.ctx[p] = "ok",
                              !.state[p] = "READY", !.pc[c] = "user"]

(* sys_exit: the kernel stack and page tables go back, PROC_STOPPED, and  *)
(* switch_to_task(0).  address_space stays set and num_proc unchanged. *)
Exit(k) == SwitchToTask([k EXCEPT !.state[k.cur] = "STOPPED"], 0)

----------------------------------------------------------------------------
(* kwaitq.c                                                                *)

DropEntry(k, q, p) == [k EXCEPT !.queue[q] = SelectSeq(@, LAMBDA x : x # p)]

(* kwaitq_wait: the entry at the tail, PROC_BLOCKED, schedule() from C.   *)
(* If schedule() returns at once, the entry was not woken: it is removed  *)
(* and -EINTR returned.  Otherwise the caller is switched away with the   *)
(* registers read from kwaitq_wait's frame. *)
KwaitqWait(k, q) ==
  LET c == k.cur
      k1 == [k EXCEPT !.queue[q] = Append(@, c), !.state[c] = "BLOCKED"]
  IN  IF KeepsCurrent(k)
      THEN DropEntry(Schedule(k1, "c"), q, c)
      ELSE Schedule(k1, "c")

(* kwaitq_wakeup: while the list is not empty and nb_process > 0, the     *)
(* head entry: a PROC_RUNNING process is skipped with continue, which     *)
(* meets the same head again with IRQs off; otherwise PROC_READY and      *)
(* reschedule() to it, and only when that returns is the entry removed.  *)
RECURSIVE WakeFrom(_, _, _)
WakeFrom(k, q, n) ==
  IF k.queue[q] = <<>> \/ n = 0 THEN k
  ELSE LET p == Head(k.queue[q])
       IN  IF k.state[p] = "RUNNING" THEN [k EXCEPT !.fault = "wakeup_spins"]
           ELSE LET k1 == Reschedule([k EXCEPT !.state[p] = "READY"], p)
                IN  IF k1.cur # k.cur THEN k1
                    ELSE WakeFrom(DropEntry(k1, q, p), q, n - 1)

KwaitqWakeup(k, q, n) == WakeFrom(k, q, n)

----------------------------------------------------------------------------
(* kernel_main: p_list[0] is current and PROC_READY, and sys_exec of the  *)
(* first program runs with interrupts off. *)

Boot ==
  [state |-> [i \in Pids |-> IF i = 0 THEN "READY" ELSE "STOPPED"],
   cur |-> 0, numProc |-> 0, ctx |-> [i \in Pids |-> "ok"],
   hasAs |-> [i \in Pids |-> FALSE], queue |-> [q \in Queues |-> <<>>],
   pc |-> [i \in Pids |-> "user"], pending |-> [i \in Pids |-> 0],
   fault |-> "none"]

VARIABLES k, calls
kvars == <<k, calls>>

Init == /\ \E ok \in BOOLEAN : k = ExecEnd(ExecBegin(Boot, 0), 0, ok)
        /\ calls = 0

(* A call of the running user process, within the bound. *)
Call(pc) == /\ k.fault = "none" /\ k.cur # 0 /\ k.pc[k.cur] = pc
            /\ calls < MaxCalls /\ calls' = calls + 1

(* isr_clock_int: every hundredth tick, schedule() from the interrupt.   *)
Tick == /\ k.fault = "none"
        /\ k' = Schedule(k, "irq")
        /\ UNCHANGED calls

ExecCall == Call("user") /\ k' = ExecBegin(k, k.cur)

ExecReturn == \E ok \in BOOLEAN : Call("exec") /\ k' = ExecEnd(k, k.cur, ok)

ExitCall == Call("user") /\ k' = Exit(k)

WaitCall == \E q \in Queues : Call("user") /\ k' = KwaitqWait(k, q)

WakeupCall ==
  \E q \in Queues, n \in NbProcs : Call("user") /\ k' = KwaitqWakeup(k, q, n)

Next == Tick \/ ExecCall \/ ExecReturn \/ ExitCall \/ WaitCall \/ WakeupCall

(* The timer interrupt is taken whenever the running code has IRQs on:   *)
(* every switch_to_task sets IF, and the calls that clear it are single   *)
(* steps here. *)
Spec == Init /\ [][Next]_kvars /\ WF_kvars(Tick)

----------------------------------------------------------------------------
(* Properties.                                                             *)

TypeOK ==
  /\ k.state \in [Pids -> States]
  /\ k.cur \in Pids
  /\ k.numProc \in 0 .. MaxCalls + 1
  /\ k.ctx \in [Pids -> {"ok", "garbage"}]
  /\ k.hasAs \in [Pids -> BOOLEAN]
  /\ k.queue \in [Queues -> Seq(UserPids)]
  /\ k.pc \in [Pids -> {"user", "exec", "spin"}]
  /\ k.pending \in [Pids -> Pids]
  /\ k.fault \in {"none", "plist_overflow", "resume_garbage", "wakeup_spins"}
  /\ calls \in 0 .. MaxCalls

(* Until undefined behaviour, only current is PROC_RUNNING: schedule()   *)
(* puts the process it leaves back to PROC_READY before switch_to_task    *)
(* marks the next one, across preemption, exec, exit and the wait calls. *)
RunningIsCurrent ==
  k.fault = "none" => \A p \in Pids : k.state[p] = "RUNNING" => p = k.cur

(* A user process that is PROC_READY is eventually current, unless the   *)
(* kernel reaches undefined behaviour first: schedule()'s round robin     *)
(* from current + 1 passes no ready process over for ever. *)
ReadyRuns ==
  \A p \in UserPids :
    k.state[p] = "READY" ~> (k.cur = p \/ k.fault # "none")
====
