------------------------------- MODULE MCCpu -------------------------------
(* An instance of Cpu for TLC.  States that differ only in what no step will *)
(* read before it is written again count as one, and the time of a sleeper   *)
(* counts from its ticks0.                                                   *)
EXTENDS Cpu

SleepArgs == {1, -2}

InYield == {"y_lock", "y_sched", "y_rel"}
InIrq == {"irq", "t_lock", "t_tick", "t_wake", "t_rel", "d_lock", "d_wake", "d_rel", "irq_done"}
InSleep == {"s_test", "s_own", "s_drop", "s_sched", "s_wake", "s_again"}

LiveThread(t) ==
    LET r == th[t]
        out == t[1] = "proc" /\ \A c \in Cpus : on[c] # t
        irqs == InIrq \cup {"irq_ret"} \cup IF r.ret = "irq_ret" THEN InYield ELSE {}
    IN
    IF t[1] = "proc" /\ state[t[2]] \in {"unused", "zombie"} /\ out THEN Thread("dead")
    ELSE [r EXCEPT !.pick = IF r.pc = "idle" \/ (r.pc \in irqs /\ r.back = "idle") THEN None ELSE @,
                   !.ret = IF r.pc \in InYield THEN @ ELSE "irq_ret",
                   !.back = IF r.pc \in irqs THEN @ ELSE "user",
                   !.is_timer = @ /\ r.pc \in InIrq,
                   !.intena = @ /\ out,
                   !.n = IF r.pc \in InSleep \cup {"s_lock", "s_read"} THEN @ ELSE 0,
                   !.ticks0 = IF r.pc \in InSleep THEN (ticks - @) % TickMod ELSE 0]

Live == <<locks, irq, noff, [c \in Cpus |-> intena[c] /\ noff[c] > 0],
          [c \in Cpus |-> IF Pc(c) = "eret" THEN elr[c] ELSE "kernel"],
          on, [t \in Threads |-> LiveThread(t)], state,
          [p \in Procs |-> killed[p] /\ state[p] \notin {"unused", "zombie"}],
          targets, first, panic, wild>>
===========================================================================
