----------------------------- MODULE Standalone -----------------------------
(***************************************************************************)
(* The programs that talk to no program of another exercise, each by       *)
(* itself: Riepilogo, both Adders, Scheduler, Dns, Copy and the two ends   *)
(* of Vpn.  The first state chooses the one that runs, and the variables   *)
(* of the others keep their initial values.                                *)
(***************************************************************************)
EXTENDS Integers, Sequences

CONSTANTS children, threads, Rounds, ForkFails,             \* Riepilogo
          n1, m1, v1, n2, m2, v2, ULONG_MAX,                \* Adders: e1 and e2
          NUM_RESOURCES, THREAD_BURST, NUM_TASKS, Bursts,   \* Scheduler
          Records, Asked, Queries,                          \* Dns
          src, block_size, OldFiles,                        \* Copy
          Rules, Packets                                    \* Vpn

VARIABLE program
VARIABLES mpc, i, mainWait, childrenWait, criticalSection, data, file, cpc, round, tpc,
          max_child_id
VARIABLES apc, own_i, wpc, thread_idx, iter, reg, shared, sem, value
VARIABLES bpc, one_i, xpc, xidx, xiter, xreg, xshared, xsem, xvalue
VARIABLES dpc, thread_ID, toSpawn, semaphore, freed, thpc, tasks
VARIABLES dnspc, buffer, msg, allocated, reply, received
VARIABLES ppc, offset, block, written, dest, dest_offset, old
VARIABLES vpc, step, rules, vpn_addr, tun_buf, udp_buf, packets, delivered, socket

riepilogoVars == <<mpc, i, mainWait, childrenWait, criticalSection, data, file, cpc, round,
                   tpc, max_child_id>>
ownVars == <<apc, own_i, wpc, thread_idx, iter, reg, shared, sem, value>>
oneVars == <<bpc, one_i, xpc, xidx, xiter, xreg, xshared, xsem, xvalue>>
schedVars == <<dpc, thread_ID, toSpawn, semaphore, freed, thpc, tasks>>
dnsVars == <<dnspc, buffer, msg, allocated, reply, received>>
copyVars == <<ppc, offset, block, written, dest, dest_offset, old>>
vpnVars == <<vpc, step, rules, vpn_addr, tun_buf, udp_buf, packets, delivered, socket>>

Ri == INSTANCE Riepilogo WITH n <- children, m <- threads
Own == INSTANCE Adders WITH n <- n1, m <- m1, v <- v1, Exclusive <- FALSE, i <- own_i
One == INSTANCE Adders WITH n <- n2, m <- m2, v <- v2, Exclusive <- TRUE, apc <- bpc,
           i <- one_i, wpc <- xpc, thread_idx <- xidx, iter <- xiter, reg <- xreg,
           shared <- xshared, sem <- xsem, value <- xvalue
Sc == INSTANCE Scheduler
D == INSTANCE Dns
Co == INSTANCE Copy
VP == INSTANCE Vpn WITH client_addr <- vpn_addr, read <- packets, written <- delivered

ASSUME StandaloneAssumption ==
    /\ Ri!RiepilogoAssumption /\ Sc!SchedulerAssumption
    /\ Own!AddersAssumption /\ One!AddersAssumption
    /\ D!DnsAssumption /\ Co!CopyAssumption /\ VP!VpnAssumption

Init == /\ program \in {"riepilogo", "own", "one", "scheduler", "dns", "copy", "vpn"}
        /\ Ri!Init /\ Own!Init /\ One!Init /\ Sc!Init /\ D!Init /\ Co!Init /\ VP!Init
        /\ program # "copy" => old = CHOOSE o \in OldFiles : TRUE

Next ==
    /\ UNCHANGED program
    /\ IF program = "riepilogo" THEN Ri!Next ELSE UNCHANGED riepilogoVars
    /\ IF program = "own" THEN Own!Next ELSE UNCHANGED ownVars
    /\ IF program = "one" THEN One!Next ELSE UNCHANGED oneVars
    /\ IF program = "scheduler" THEN Sc!Next ELSE UNCHANGED schedVars
    /\ IF program = "dns" THEN D!Next ELSE UNCHANGED dnsVars
    /\ IF program = "copy" THEN Co!Next ELSE UNCHANGED copyVars
    /\ IF program = "vpn" THEN VP!Next ELSE UNCHANGED vpnVars

vars == <<program, riepilogoVars, ownVars, oneVars, schedVars, dnsVars, copyVars, vpnVars>>

\* The fairness of each module, for the chosen one.
Fairness ==
    /\ WF_riepilogoVars(program = "riepilogo" /\ Ri!Main)
    /\ \A c \in Ri!Children :
          /\ WF_riepilogoVars(program = "riepilogo" /\ Ri!Child(c))
          /\ \A t \in Ri!Threads : WF_riepilogoVars(program = "riepilogo" /\ Ri!Thread(c, t))
    /\ WF_ownVars(program = "own" /\ Own!Main) /\ WF_oneVars(program = "one" /\ One!Main)
    /\ \A t \in Own!Indexes : WF_ownVars(program = "own" /\ Own!Thread(t))
    /\ \A t \in One!Indexes : WF_oneVars(program = "one" /\ One!Thread(t))
    /\ WF_schedVars(program = "scheduler" /\ Sc!Spawn)
    /\ \A t \in Sc!Ids : WF_schedVars(program = "scheduler" /\ Sc!Client(t))
    /\ WF_copyVars(program = "copy" /\ (Co!Read \/ Co!Write))
    /\ \A e \in VP!Ends : WF_vpnVars(program = "vpn" /\ VP!Main(e))

Spec == Init /\ [][Next]_vars /\ Fairness

-----------------------------------------------------------------------------
\* The properties of the modules, under the names they have there.
Barrier == Ri!Barrier
ReportIsFinal == program = "riepilogo" => Ri!ReportIsFinal
NoLostAdds == (program = "own" => Own!NoLostAdds) /\ (program = "one" => One!NoLostAdds)
ResourcesShared == program = "scheduler" => Sc!ResourcesShared
AnswersAsAsked == D!AnswersAsAsked
Copied == program = "copy" => Co!Copied
StopsClean == program = "vpn" => VP!StopsClean
OnlyFromOutside == VP!OnlyFromOutside
=============================================================================
