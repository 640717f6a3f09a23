-------------------------------- MODULE Boot --------------------------------
(***************************************************************************)
(* How IX comes up, and how an application thread gets a core.             *)
(*                                                                         *)
(* main() (dp/core/init.c) walks init_tbl: it reads the configuration file *)
(* (cfg.c), probes and registers the devices (pci.c, drivers/common.c,     *)
(* ethdev.c), brings up the first core and then, one at a time, the other  *)
(* cores: each runs the per-core column of the table, takes one RX and one *)
(* TX queue of every device and a command slot of the control plane.  The  *)
(* devices are started, their flow groups numbered, and after a barrier    *)
(* every core takes its share of the flow groups and steers them to its    *)
(* own queue.  Then the application runs on the first core; its clone()    *)
(* calls (sandbox/trap.c) are served by the waiting cores, or by plain     *)
(* threads, through a handshake on the caller's stack.                     *)
(*                                                                         *)
(* Cores are named by their sequence number 0..N-1; CFG.cpu gives the id.  *)
(***************************************************************************)
EXTENDS Integers, Sequences, FiniteSets, SequencesExt

CONSTANTS Confs,                \* the configuration files tried
          Device,               \* PCI address -> [info, bar, drv, maxrx, maxtx, reta]
          CPU_COUNT,            \* cores of the machine
          CFG_MAX_CPU, CFG_MAX_ETHDEV, CFG_MAX_PORTS,
          ETH_RSS_RETA_MAX_QUEUE, ETH_MAX_NUM_FG,
          MaxClones             \* clone() calls of the application

VARIABLES conf, CFG, step, halt, dev, fgs, pc, mi, started, rxq, txq, slot,
          percpu, faults, spawn_cores, spawn_reqs, thr,
          misled                \* the calls that a late thread of the call before, or no signal, ended

bootVars == <<conf, CFG, step, halt, dev, fgs, pc, mi, started, rxq, txq, slot,
              percpu, faults>>
spawnVars == <<spawn_cores, spawn_reqs, thr, misled>>
vars == <<bootVars, spawnVars>>

Nr == 0..(CPU_COUNT - 1)
NCPUS == Len(CFG.cpu)
CpuId(n) == CFG.cpu[n + 1]
Active == 0..(NCPUS - 1)
AppThreads == 1..MaxClones
Lesser(a, b) == IF a < b THEN a ELSE b

-----------------------------------------------------------------------------
(* The start-up table: a global initializer f and a per-core one fcpu.     *)

Row(name, f, fcpu) == [name |-> name, f |-> f, fcpu |-> fcpu]

init_tbl ==
    << Row("CPU", TRUE, FALSE), Row("Dune", TRUE, FALSE), Row("timer", TRUE, TRUE),
       Row("net", TRUE, FALSE), Row("cfg", TRUE, FALSE), Row("cp", TRUE, FALSE),
       Row("dpdk", TRUE, FALSE), Row("firstcpu", TRUE, FALSE), Row("mbuf", TRUE, TRUE),
       Row("memp", TRUE, TRUE), Row("tcpapi", TRUE, TRUE), Row("ethdev", TRUE, FALSE),
       Row("migration", FALSE, TRUE), Row("dummy_dev", TRUE, TRUE), Row("io", TRUE, TRUE),
       Row("hw", TRUE, FALSE), Row("syscall", FALSE, TRUE), Row("init-net", FALSE, TRUE) >>

Special == {"cfg", "firstcpu", "ethdev", "hw"}    \* the rows modelled by actions of their own

-----------------------------------------------------------------------------
(* The configuration file.  A setting is abstracted to the list it adds,   *)
(* or to "bad" naming the setting that is missing or does not parse.       *)

Parsed(l) == [ok |-> TRUE, list |-> l]
Failed(r) == [r EXCEPT !.ok = FALSE]

add_cpu(r, c) ==
    IF ~r.ok \/ c \notin 0..(CPU_COUNT - 1) THEN Failed(r)
    ELSE IF Contains(r.list, c) THEN r
    ELSE IF Len(r.list) >= CFG_MAX_CPU THEN Failed(r)
    ELSE Parsed(Append(r.list, c))
\* A scalar is a list of one; an empty list reads as the scalar 0.
parse_cpu(l) == FoldLeft(add_cpu, Parsed(<<>>), IF l = <<>> THEN <<0>> ELSE l)

pci_str_to_addr(d) == d \in DOMAIN Device              \* of the form dddd:bb:ss.f
add_dev(r, d) ==
    IF ~r.ok \/ ~pci_str_to_addr(d) THEN Failed(r)
    ELSE IF Contains(r.list, d) THEN r
    ELSE IF Len(r.list) >= CFG_MAX_ETHDEV THEN Failed(r)
    ELSE Parsed(Append(r.list, d))
parse_devices(l) == FoldLeft(add_dev, Parsed(<<>>), l)

add_port(r, p) ==
    IF ~r.ok \/ p <= 0 \/ p > 65534 THEN Failed(r) ELSE Parsed(Append(r.list, p))

parse_port(l) ==                        \* the settings past CFG_MAX_PORTS are ignored
    FoldLeft(add_port, Parsed(<<>>), SubSeq(l, 1, Lesser(Len(l), CFG_MAX_PORTS)))

\* The other settings either parse or do not; arp may be missing, the others may not.
parse_host_addr(c) == c.bad # "host_addr"
parse_gateway_addr(c) == c.bad # "gateway_addr"
parse_arp(c) == c.bad # "arp"
parse_batch(c) == c.bad # "batch"
parse_loader_path(c) == c.bad # "loader_path"
parse_arguments(c) == c.bad # "arguments"

config_tbl(c) ==
    << parse_host_addr(c), parse_port(c.ports).ok, parse_gateway_addr(c), parse_arp(c),
       parse_devices(c.devices).ok, parse_cpu(c.cpus).ok, parse_batch(c), parse_loader_path(c) >>
parse_conf_file(c) ==
    [ok |-> \A i \in DOMAIN config_tbl(c) : config_tbl(c)[i],
     cfg |-> [cpu |-> parse_cpu(c.cpus).list, ethdev |-> parse_devices(c.devices).list,
              ports |-> parse_port(c.ports).list]]

-----------------------------------------------------------------------------
(* main(): one row of the table after the other.                           *)

Running == halt = "no"
Name == init_tbl[step].name
\* panic() and exit(): the process is gone.
Stop(how) == halt' = how

\* A global initializer that only sets up its own module, or fails.
InitModule ==
    /\ Running /\ pc[0] = "tbl" /\ step <= Len(init_tbl)
    /\ Name \notin Special
    /\ \/ step' = step + 1 /\ halt' = halt
       \/ init_tbl[step].f /\ Stop("panic") /\ step' = step
    /\ UNCHANGED <<conf, CFG, dev, fgs, pc, mi, started, rxq, txq, slot, percpu,
                   faults, spawnVars>>

cfg_init ==
    /\ Running /\ pc[0] = "tbl" /\ step <= Len(init_tbl) /\ Name = "cfg"
    /\ LET r == parse_conf_file(conf)
       IN IF parse_arguments(conf) /\ r.ok
          THEN CFG' = r.cfg /\ step' = step + 1 /\ halt' = halt
          ELSE CFG' = CFG /\ step' = step /\ Stop("panic")
    /\ UNCHANGED <<conf, dev, fgs, pc, mi, started, rxq, txq, slot, percpu, faults,
                   spawnVars>>

\* pci_alloc_dev: sysfs has the device's ids and its resources.
pci_scan_dev_info(d) == Device[d].info
pci_scan_dev_resources(d) == Device[d].bar # "none"
pci_alloc_dev(d) == pci_scan_dev_info(d) /\ pci_scan_dev_resources(d)
\* The register window, NULL when BAR 0 is read-only or empty.
pci_map_mem_bar(d) == IF Device[d].bar = "rw" THEN "regs" ELSE "NULL"

\* dpdk_devinit tries the drivers in turn; rte_eal_pci_probe_one_driver calls the one
\* that lists the device, with whatever pci_map_mem_bar returned.
rte_eal_pci_probe_one_driver(d) == Device[d].drv # "none"
dpdk_devinit(d) ==
    IF ~rte_eal_pci_probe_one_driver(d) THEN "panic"
    ELSE IF pci_map_mem_bar(d) = "NULL" THEN "crash" ELSE "ok"
ixgbe_init(d) == Device[d].drv = "ixgbevf" => NCPUS = 1       \* one core only on a VF

\* driver_init: what may become of the process.  Configuring the device may fail, and
\* eth_dev_alloc's NULL is not looked at.
driver_init(d) ==
    IF dpdk_devinit(d) # "ok" THEN {dpdk_devinit(d)}
    ELSE {"panic", "crash"} \union (IF ixgbe_init(d) THEN {"no"} ELSE {})

\* eth_dev_add sizes the queue arrays after what generic_dev_infos_get reports, with one
\* flow group for every entry of the redirection table.
generic_dev_infos_get(d) ==
    [maxrx |-> Device[d].maxrx, maxtx |-> Device[d].maxtx, nb_rx_fgs |-> Device[d].reta]
eth_dev_add(d) ==
    LET info == generic_dev_infos_get(d)
    IN [name |-> d, nrx |-> 0, ntx |-> 0, maxrx |-> Lesser(info.maxrx, ETH_RSS_RETA_MAX_QUEUE),
        maxtx |-> info.maxtx, started |-> FALSE, mac |-> d,
        reta |-> [i \in 1..info.nb_rx_fgs |-> -1]]

\* One device of the list; pci_enable_device, pci_set_master and eth_dev_add may fail.
init_ethdev ==
    /\ Running /\ pc[0] = "tbl" /\ step <= Len(init_tbl) /\ Name = "ethdev"
    /\ IF Len(dev) = Len(CFG.ethdev)
       THEN step' = step + 1 /\ UNCHANGED <<dev, halt>>
       ELSE LET d == CFG.ethdev[Len(dev) + 1]
            IN \/ /\ pci_alloc_dev(d) /\ halt' \in driver_init(d)
                  /\ dev' = IF halt' = "no" THEN Append(dev, eth_dev_add(d)) ELSE dev
                  /\ UNCHANGED step
               \/ Stop("panic") /\ UNCHANGED <<step, dev>>
    /\ UNCHANGED <<conf, CFG, fgs, pc, mi, started, rxq, txq, slot, percpu, faults,
                   spawnVars>>

-----------------------------------------------------------------------------
(* Bringing up a core.                                                     *)

\* cpu_init_one: bind the thread, allocate and zero the per-core area of the core
\* id, enter Dune.  The allocator reports failure with MAP_FAILED, which
\* cpu_init_percpu, testing for NULL, goes on to write to.
cpu_init_percpu(n) == [percpu EXCEPT ![CpuId(n)] = @ \union {n}]
cpu_init_one(n, fail) ==
    \/ percpu' = cpu_init_percpu(n) /\ halt' = halt
    \/ percpu' = percpu /\ (Stop(fail) \/ Stop("crash"))

init_firstcpu ==
    /\ Running /\ pc[0] = "tbl" /\ step <= Len(init_tbl) /\ Name = "firstcpu"
    /\ cpu_init_one(0, "panic")
    /\ step' = step + 1
    /\ UNCHANGED <<conf, CFG, dev, fgs, pc, mi, started, rxq, txq, slot, faults,
                   spawnVars>>

eth_dev_get_rx_queue(d) == d.nrx < d.maxrx        \* otherwise -EMFILE
eth_dev_get_tx_queue(d) == d.ntx <= d.maxtx       \* as the code has it: tx_idx > max

\* init_network_cpu, under assign_lock: the next RX and TX queue of every device.
init_network_cpu(n) ==
    /\ \A i \in 1..Len(dev) : eth_dev_get_rx_queue(dev[i]) /\ eth_dev_get_tx_queue(dev[i])
    /\ rxq' = [rxq EXCEPT ![n] = [i \in 1..Len(dev) |-> dev[i].nrx]]
    /\ txq' = [txq EXCEPT ![n] = [i \in 1..Len(dev) |-> dev[i].ntx]]
    /\ dev' = [i \in 1..Len(dev) |-> [dev[i] EXCEPT !.nrx = @ + 1, !.ntx = @ + 1]]

\* init_create_cpu: the per-core column of init_tbl; a failure is a panic, and so is
\* running out of queues or of memory for the rings.
init_create_cpu(n, next) ==
    \/ init_network_cpu(n) /\ pc' = [pc EXCEPT ![n] = next] /\ halt' = halt
    \/ Stop("panic") /\ UNCHANGED <<dev, rxq, txq, pc>>

\* init_hw on the first core: it takes command slot 0.
init_hw_first ==
    /\ Running /\ pc[0] = "tbl" /\ step <= Len(init_tbl) /\ Name = "hw" /\ mi = 0
    /\ init_create_cpu(0, "spawn")
    /\ slot' = [slot EXCEPT ![0] = 0]
    /\ mi' = 1
    /\ UNCHANGED <<conf, CFG, step, fgs, started, percpu, faults, spawnVars>>

\* The loop that creates the other cores' threads and waits for each to count itself.
init_hw_spawn ==
    /\ Running /\ pc[0] = "spawn"
    /\ IF mi = NCPUS
       THEN /\ pc' = [pc EXCEPT ![0] = "dev"] /\ mi' = 1
            /\ UNCHANGED <<halt, faults>>
       ELSE \/ /\ pc' = [pc EXCEPT ![0] = "await", ![mi] = "init"]
               /\ faults' = faults \union (IF \E n \in Active : pc[n] = "slot" THEN {"overtaken"} ELSE {})
               /\ UNCHANGED <<mi, halt>>
            \/ Stop("panic") /\ UNCHANGED <<pc, mi, faults>>   \* pthread_create
    /\ UNCHANGED <<conf, CFG, step, dev, fgs, started, rxq, txq, slot, percpu, spawnVars>>

init_hw_await ==
    /\ Running /\ pc[0] = "await" /\ started = mi
    /\ pc' = [pc EXCEPT ![0] = "spawn"] /\ mi' = mi + 1
    /\ UNCHANGED <<conf, CFG, step, halt, dev, fgs, started, rxq, txq, slot, percpu,
                   faults, spawnVars>>

start_cpu_init(n) ==
    /\ Running /\ pc[n] = "init"
    /\ cpu_init_one(n, "exit")
    /\ pc' = [pc EXCEPT ![n] = "fcpu"]
    /\ UNCHANGED <<conf, CFG, step, dev, fgs, mi, started, rxq, txq, slot, faults,
                   spawnVars>>

start_cpu_create(n) ==
    /\ Running /\ pc[n] = "fcpu"
    /\ init_create_cpu(n, "count")
    /\ UNCHANGED <<conf, CFG, step, fgs, mi, started, slot, percpu, faults, spawnVars>>

start_cpu_count(n) ==
    /\ Running /\ pc[n] = "count"
    /\ started' = started + 1
    /\ pc' = [pc EXCEPT ![n] = "slot"]
    /\ UNCHANGED <<conf, CFG, step, halt, dev, fgs, mi, rxq, txq, slot, percpu, faults,
                   spawnVars>>

\* The slot is read off the shared counter, which main() may let the next core move.
start_cpu_slot(n) ==
    /\ Running /\ pc[n] = "slot"
    /\ slot' = [slot EXCEPT ![n] = started]
    /\ pc' = [pc EXCEPT ![n] = "bar"]
    /\ UNCHANGED <<conf, CFG, step, halt, dev, fgs, mi, started, rxq, txq, percpu, faults,
                   spawnVars>>

\* The first device's MAC address becomes that of the others.
eth_dev_setup_mac == dev[1].mac
eth_dev_start(i) == [dev EXCEPT ![i].started = TRUE, ![i].mac = eth_dev_setup_mac]
eth_fg_init(i) ==
    [k \in 1..Len(dev[i].reta) |-> [dev |-> i, idx |-> k, cur |-> -1, inits |-> 0]]

\* eth_dev_start of device mi, and its flow groups, each of which gets its memory (or a
\* write to MAP_FAILED: eth_fg_init_cpu tests for NULL).
init_hw_dev ==
    /\ Running /\ pc[0] = "dev"
    /\ IF mi > Len(dev)
       THEN pc' = [pc EXCEPT ![0] = "bar"] /\ UNCHANGED <<dev, fgs, mi, halt>>
       ELSE /\ pc' = pc
            /\ \/ /\ dev' = eth_dev_start(mi) /\ fgs' = fgs \o eth_fg_init(mi)
                  /\ mi' = mi + 1 /\ halt' = halt
               \/ (Stop("panic") \/ Stop("crash")) /\ UNCHANGED <<dev, fgs, mi>>
    /\ UNCHANGED <<conf, CFG, step, started, rxq, txq, slot, percpu, faults, spawnVars>>

\* Mutant: no barrier.
start_barrier_None(n) ==
    /\ Running /\ pc[n] = "bar"
    /\ pc' = [pc EXCEPT ![n] = "assign"]
    /\ UNCHANGED <<conf, CFG, step, halt, dev, fgs, mi, started, rxq, txq, slot, percpu,
                   faults, spawnVars>>
\* Mutant: the barrier counts one core too many.
start_barrier_More(n) ==
    /\ Running /\ pc[n] = "bar"
    /\ pc' = [pc EXCEPT ![n] = "inbar"]
    /\ UNCHANGED <<conf, CFG, step, halt, dev, fgs, mi, started, rxq, txq, slot, percpu,
                   faults, spawnVars>>
\* pthread_barrier_wait: the last of the cores to arrive releases all.
start_barrier(n) ==
    /\ Running /\ pc[n] = "bar"
    /\ LET here == {m \in Active : pc[m] = "inbar"} \union {n}
       IN pc' = IF here = Active THEN [m \in Nr |-> IF m \in Active THEN "assign" ELSE pc[m]]
                                 ELSE [pc EXCEPT ![n] = "inbar"]
    /\ UNCHANGED <<conf, CFG, step, halt, dev, fgs, mi, started, rxq, txq, slot, percpu,
                   faults, spawnVars>>

Own(n) == {g \in 1..Len(fgs) : (g - 1) % NCPUS = n}

\* eth_fg_assign_to_cpu walks the ids in blocks of ETH_MAX_NUM_FG, one block per
\* device, and asserts that a block has one device.
OneDevicePerBlock(n) ==
    \A g, h \in Own(n) :
        (g - 1) \div ETH_MAX_NUM_FG = (h - 1) \div ETH_MAX_NUM_FG => fgs[g].dev = fgs[h].dev

\* Under the driver's lock: the entries of the core's groups, the others as they are.
reta_update(n, d) ==
    [i \in DOMAIN dev[d].reta |->
        IF \E g \in Own(n) : fgs[g].dev = d /\ fgs[g].idx = i THEN n ELSE dev[d].reta[i]]

\* The core marks its groups and points their entries of the devices' redirection
\* tables at the queue of its own sequence number.
eth_fg_assign_to_cpu(n) ==
    /\ Running /\ pc[n] = "assign"
    /\ IF OneDevicePerBlock(n)
       THEN /\ fgs' = [g \in 1..Len(fgs) |-> IF g \in Own(n) THEN [fgs[g] EXCEPT !.cur = CpuId(n)]
                                                         ELSE fgs[g]]
            /\ dev' = [d \in 1..Len(dev) |-> [dev[d] EXCEPT !.reta = reta_update(n, d)]]
            /\ pc' = [pc EXCEPT ![n] = "fginit"] /\ halt' = halt
       ELSE Stop("assert") /\ UNCHANGED <<fgs, dev, pc>>
    /\ UNCHANGED <<conf, CFG, step, mi, started, rxq, txq, slot, percpu, faults, spawnVars>>

\* tcp_init and tcp_api_init_fg of the core's own groups, and the group of its
\* outbound connections, which needs a device.  A failure ends the process on every
\* core but the first: init_hw does not look at the value returned, and goes on
\* with the groups from the failing one onwards uninitialized.
init_fg_cpu(n) ==
    /\ Running /\ pc[n] = "fginit"
    /\ \/ /\ Len(dev) = 0 /\ Stop("crash") /\ UNCHANGED <<fgs, pc, step, faults>>
       \/ /\ Len(dev) > 0
          /\ fgs' = [g \in 1..Len(fgs) |-> IF g \in Own(n) THEN [fgs[g] EXCEPT !.inits = @ + 1]
                                                         ELSE fgs[g]]
          /\ pc' = [pc EXCEPT ![n] = IF n = 0 THEN "tbl" ELSE "idle"]
          /\ step' = IF n = 0 THEN step + 1 ELSE step
          /\ UNCHANGED <<halt, faults>>
       \/ /\ Own(n) # {} /\ n > 0 /\ Stop("exit") /\ UNCHANGED <<fgs, pc, step, faults>>
       \/ /\ n = 0
          /\ \E f \in Own(0) :
                fgs' = [g \in 1..Len(fgs) |-> IF g \in Own(0) /\ g < f
                                              THEN [fgs[g] EXCEPT !.inits = @ + 1] ELSE fgs[g]]
          /\ pc' = [pc EXCEPT ![0] = "tbl"] /\ step' = step + 1
          /\ faults' = faults \union {"unchecked"} /\ halt' = halt
    /\ UNCHANGED <<conf, CFG, dev, mi, started, rxq, txq, slot, percpu, spawnVars>>

\* The table is done: sandbox_init loads the application and enters it.
sandbox_init ==
    /\ Running /\ pc[0] = "tbl" /\ step > Len(init_tbl)
    /\ \/ pc' = [pc EXCEPT ![0] = "app"] /\ halt' = halt
       \/ Stop("exit") /\ pc' = pc
    /\ UNCHANGED <<conf, CFG, step, dev, fgs, mi, started, rxq, txq, slot, percpu, faults,
                   spawnVars>>

-----------------------------------------------------------------------------
(* clone() in the application: thr[t] is the t-th call.  st is where the   *)
(* new thread is, pst where its caller is in dune_pthread_create; arg, the *)
(* record the two share, lives in the caller's frame until pst is "done".  *)

NoThread == [parent |-> 0, st |-> "none", pst |-> "none", tid |-> 0, core |-> 0, ret |-> 0]
Blocked(c) == \E t \in AppThreads : thr[t].parent = c /\ thr[t].pst \in {"check", "wait"}
InApp(c) == IF c = 0 THEN pc[0] = "app" ELSE thr[c].st = "user"
Next_t == {t \in AppThreads : thr[t].st = "none" /\ \A u \in 1..(t - 1) : thr[u].st # "none"}

sys_spawnmode ==
    /\ Running /\ InApp(0) /\ ~Blocked(0) /\ Next_t # {}
    /\ spawn_cores' = ~spawn_cores
    /\ UNCHANGED <<bootVars, spawn_reqs, thr, misled>>

\* dune_pthread_create up to the wait: queue the request for a core (the newest is
\* served first) or start a thread; either may fail, and clone() returns -1.
dune_pthread_create(c) ==
    /\ Running /\ InApp(c) /\ ~Blocked(c)
    /\ \E t \in Next_t :
          \/ /\ thr' = [thr EXCEPT ![t] = [NoThread EXCEPT !.parent = c, !.pst = "check",
                                               !.st = IF spawn_cores THEN "req" ELSE "entry"]]
             /\ spawn_reqs' = IF spawn_cores THEN <<t>> \o spawn_reqs ELSE spawn_reqs
          \/ /\ thr' = [thr EXCEPT ![t] = [NoThread EXCEPT !.parent = c, !.pst = "done",
                                                           !.st = "gone", !.ret = -1]]
             /\ spawn_reqs' = spawn_reqs
    /\ UNCHANGED <<bootVars, spawn_cores, misled>>

\* A waiting core takes the request at the head of the list.
wait_for_spawn(n) ==
    /\ Running /\ pc[n] = "idle" /\ spawn_reqs # <<>>
    /\ thr' = [thr EXCEPT ![spawn_reqs[1]].st = "entry", ![spawn_reqs[1]].core = n]
    /\ spawn_reqs' = Tail(spawn_reqs)
    /\ pc' = [pc EXCEPT ![n] = "user"]
    /\ UNCHANGED <<conf, CFG, step, halt, dev, fgs, mi, started, rxq, txq, slot, percpu,
                   faults, spawn_cores, misled>>

Thread(t, f) == thr' = [thr EXCEPT ![t] = f] /\ UNCHANGED <<bootVars, spawn_cores,
                                                           spawn_reqs>>

\* pthread_entry reads the caller's arg and trap frame, and copies the frame.
pthread_entry_copy(t) ==
    /\ Running /\ thr[t].st = "entry"
    /\ Thread(t, [thr[t] EXCEPT !.st = "copied"]) /\ UNCHANGED misled

\* The call whose arg is where t's caller had it: t's own, or, when that returned
\* early, the caller's next.
InFrameOf(t) ==
    {u \in AppThreads : thr[u].parent = thr[t].parent /\ thr[u].pst \in {"check", "wait"}}

\* Under arg.ta_mtx.
pthread_entry_tell(t) ==
    /\ Running /\ thr[t].st = "copied"
    /\ thr' = [u \in AppThreads |->
                 [thr[u] EXCEPT !.st = IF u = t THEN "told" ELSE @,
                                !.tid = IF u \in InFrameOf(t) THEN t ELSE @]]
    /\ misled' = misled \union (InFrameOf(t) \ {t})
    /\ UNCHANGED <<bootVars, spawn_cores, spawn_reqs>>

\* Mutant: no signal.
pthread_entry_signal_None(t) ==
    /\ Running /\ thr[t].st = "told"
    /\ Thread(t, [thr[t] EXCEPT !.st = "user"]) /\ UNCHANGED misled
\* The signal comes after the unlock: the caller may already have returned, and the
\* signal ends the wait of its next call.
Woken(t) == {u \in InFrameOf(t) : thr[u].pst = "wait"}
pthread_entry_signal(t) ==
    /\ Running /\ thr[t].st = "told"
    /\ thr' = [u \in AppThreads |->
                 [thr[u] EXCEPT !.st = IF u = t THEN "user" ELSE @,
                                !.pst = IF u \in Woken(t) THEN "done" ELSE @,
                                !.ret = IF u \in Woken(t) THEN thr[u].tid ELSE @]]
    /\ misled' = misled \union (Woken(t) \ {t})
    /\ UNCHANGED <<bootVars, spawn_cores, spawn_reqs>>

\* The caller tests the tid once, under arg.ta_mtx, and waits for the signal.
dune_pthread_wait(t) ==
    /\ Running /\ thr[t].pst = "check"
    /\ Thread(t, IF thr[t].tid = 0 THEN [thr[t] EXCEPT !.pst = "wait"]
                 ELSE [thr[t] EXCEPT !.pst = "done", !.ret = thr[t].tid])
    /\ UNCHANGED misled

\* pthread_cond_wait may return without a signal; the test is an if, not a loop.
SpuriousWakeup(t) ==
    /\ Running /\ thr[t].pst = "wait"
    /\ Thread(t, [thr[t] EXCEPT !.pst = "done", !.ret = thr[t].tid])
    /\ misled' = misled \union {t}

\* do_enter_thread: when the application's thread ends, so does the thread under it,
\* and with it the core's.
do_enter_thread(t) ==
    /\ Running /\ thr[t].st = "user" /\ ~Blocked(t)
    /\ thr' = [thr EXCEPT ![t].st = "gone"]
    /\ pc' = IF thr[t].core = 0 THEN pc ELSE [pc EXCEPT ![thr[t].core] = "gone"]
    /\ UNCHANGED <<conf, CFG, step, halt, dev, fgs, mi, started, rxq, txq, slot, percpu,
                   faults, spawn_cores, spawn_reqs, misled>>

-----------------------------------------------------------------------------
Init ==
    /\ conf \in Confs
    /\ CFG = [cpu |-> <<>>, ethdev |-> <<>>, ports |-> <<>>]
    /\ step = 1 /\ halt = "no" /\ dev = <<>> /\ fgs = <<>>
    /\ pc = [n \in Nr |-> IF n = 0 THEN "tbl" ELSE "none"]
    /\ mi = 0 /\ started = 0
    /\ rxq = [n \in Nr |-> <<>>] /\ txq = [n \in Nr |-> <<>>]
    /\ slot = [n \in Nr |-> -1] /\ percpu = [i \in Nr |-> {}] /\ faults = {}
    /\ spawn_cores = FALSE /\ spawn_reqs = <<>>
    /\ thr = [t \in AppThreads |-> NoThread] /\ misled = {}

MainStep ==
    \/ InitModule \/ cfg_init \/ init_firstcpu \/ init_ethdev
    \/ init_hw_first \/ init_hw_spawn \/ init_hw_await \/ init_hw_dev \/ sandbox_init
CoreStep(n) ==
    \/ start_cpu_init(n) \/ start_cpu_create(n) \/ start_cpu_count(n) \/ start_cpu_slot(n)
BothStep(n) == start_barrier(n) \/ eth_fg_assign_to_cpu(n) \/ init_fg_cpu(n)
ChildStep(t) ==
    \/ pthread_entry_copy(t) \/ pthread_entry_tell(t) \/ pthread_entry_signal(t)

Next ==
    \/ MainStep
    \/ \E n \in Nr \ {0} : CoreStep(n) \/ wait_for_spawn(n)
    \/ \E n \in Nr : BothStep(n)
    \/ sys_spawnmode
    \/ \E c \in {0} \union AppThreads : dune_pthread_create(c)
    \/ \E t \in AppThreads : \/ ChildStep(t) \/ dune_pthread_wait(t)
                             \/ SpuriousWakeup(t) \/ do_enter_thread(t)

\* Every thread is scheduled; whether an application calls clone(), a thread of it ends
\* or a wait wakes up by itself is left open.
Spec ==
    /\ Init /\ [][Next]_vars
    /\ WF_vars(MainStep)
    /\ \A n \in Nr : WF_vars(CoreStep(n)) /\ WF_vars(BothStep(n)) /\ WF_vars(wait_for_spawn(n))
    /\ \A t \in AppThreads : WF_vars(ChildStep(t)) /\ WF_vars(dune_pthread_wait(t))

-----------------------------------------------------------------------------
(* Properties.                                                             *)

Up == {"assign", "fginit", "tbl", "app", "idle", "user", "gone"}
Created(n) == slot[n] # -1                 \* past init_create_cpu and its slot
Served(n) == pc[n] \in {"idle", "user", "gone"} \/ (n = 0 /\ (pc[0] = "app" \/ step > Len(init_tbl)))

TypeOK ==
    /\ halt \in {"no", "panic", "exit", "crash", "assert"}
    /\ step \in 1..(Len(init_tbl) + 1)
    /\ pc \in [Nr -> Up \union {"none", "init", "fcpu", "count", "slot", "spawn", "await",
                                "dev", "bar", "inbar"}]
    /\ started \in 0..CPU_COUNT /\ mi \in 0..(CPU_COUNT + Len(dev))
    /\ Len(CFG.cpu) <= CFG_MAX_CPU /\ Len(CFG.ethdev) <= CFG_MAX_ETHDEV
    /\ Len(CFG.ports) <= CFG_MAX_PORTS
    /\ \A t \in AppThreads : /\ thr[t].st \in {"none", "req", "entry", "copied", "told",
                                               "user", "gone"}
                             /\ thr[t].pst \in {"none", "check", "wait", "done"}

\* init_tbl[i].fcpu runs on a core only after init_tbl[i].f, on which it builds, has run
\* (init.c:89-112: the rows are ordered so that "hw" comes after every f with an fcpu).
CoreAfterModules ==
    \A n \in Nr : rxq[n] # <<>> =>
        \A i \in DOMAIN init_tbl : init_tbl[i].f /\ init_tbl[i].fcpu => i < step

\* No two threads share a per-core area, and no per-core area is set up twice: cpu_init_one
\* is called once per core id although the file may name a core more than once.
PercpuOwned == \A i \in Nr : Cardinality(percpu[i]) <= 1

\* No core gets a queue past what the device has (eth_dev_get_rx_queue, ethdev.c:239), and
\* for a device with no fewer TX than RX queues this also bounds the TX queues; the TX
\* queues' own test (ethdev.c:285) lets one core take the queue after the last.
QueuesInBounds ==
    \A n \in Nr : \A i \in DOMAIN rxq[n] :
        /\ rxq[n][i] < dev[i].maxrx
        /\ txq[n][i] <= dev[i].maxtx
        /\ dev[i].maxtx >= dev[i].maxrx => txq[n][i] < dev[i].maxtx

\* A flow group's packets go to the queue its core polls: eth_fg_assign_to_cpu writes the
\* core's sequence number into the redirection table, and that must be the number of the
\* queue init_network_cpu gave the core.
SteeredToOwner ==
    \A n \in Active : pc[n] \in Up \ {"assign", "tbl"} =>
        \A g \in Own(n) : /\ fgs[g].cur = CpuId(n)
                          /\ dev[fgs[g].dev].reta[fgs[g].idx] = rxq[n][fgs[g].dev]

\* A core that has finished its start-up has initialized each of its flow groups, and no
\* group is initialized twice (init_fg_cpu); the first core's failure to, which init_hw
\* ignores, is the exception.
FgsServed ==
    /\ \A g \in 1..Len(fgs) : fgs[g].inits <= 1
    /\ \A n \in Active : Served(n) /\ ~(n = 0 /\ "unchecked" \in faults) =>
          \A g \in Own(n) : fgs[g].inits = 1

\* Two cores never take their commands from the same slot of the control plane's memory,
\* unless main() created the next core between a core's started_cpus++ and its reading the
\* counter back as its slot (init.c:376-381).
SlotsDistinct ==
    "overtaken" \notin faults =>
        \A m, n \in Active : m # n /\ Created(m) /\ Created(n) => slot[m] # slot[n]

\* eth_fg_assign_to_cpu's assert(first_eth == eth[i]) never stops the start-up when every
\* device but the last has exactly ETH_MAX_NUM_FG redirection entries.
AssertsHold ==
    (\A i \in 1..(Len(dev) - 1) : Len(dev[i].reta) = ETH_MAX_NUM_FG) => halt # "assert"

\* clone() returns the id of the thread it started, or -1 (dune_pthread_create), never the 0
\* that tells the caller it is the child nor the id of another: unless its wait, which is not
\* in a loop, ended without a signal, or a thread of the caller's previous clone() was late and
\* used the arg of this one.
TidReturned ==
    \A t \in AppThreads : thr[t].pst = "done" /\ t \notin misled => thr[t].ret \in {t, -1}

\* A new thread still to copy the trap frame finds it: its caller is inside
\* dune_pthread_create (pthread_entry reads arg and arg->ta_tf on the caller's stack), with
\* the same exception.
FrameAlive ==
    \A t \in AppThreads : thr[t].st \in {"req", "entry"} /\ t \notin misled =>
        thr[t].pst \in {"check", "wait"}

\* Each request is served by one core and each core serves one request.
OneCorePerThread ==
    /\ \A t \in AppThreads : thr[t].st = "req" <=> t \in ToSet(spawn_reqs)
    /\ IsInjective(spawn_reqs)
    /\ \A t, u \in AppThreads : thr[t].core # 0 /\ thr[t].core = thr[u].core => t = u

\* The start-up: cores, queues, flow groups, command slots and cloned threads are
\* set up in order and once.
StartupSafe ==
    /\ TypeOK /\ CoreAfterModules /\ PercpuOwned
    /\ QueuesInBounds /\ SteeredToOwner /\ FgsServed
    /\ SlotsDistinct /\ AssertsHold /\ TidReturned
    /\ FrameAlive /\ OneCorePerThread

\* The start-up ends: the process stops, or every configured core runs.
Booted == <>(~Running \/ (NCPUS > 0 /\ \A n \in Active : pc[n] \in {"app", "idle", "user", "gone"}))

\* clone() returns (or the process stops), unless its request is queued and no core is left to serve it.
CloneReturns ==
    \A t \in AppThreads :
        thr[t].pst \in {"check", "wait"} ~>
            (~Running \/ thr[t].pst = "done" \/ (thr[t].st = "req" /\ \A n \in Nr : pc[n] # "idle"))
=============================================================================
