----------------------------- MODULE Migration -----------------------------
(* Flow-group migration: the poll loop of every CPU (sys_bpoll), the receive
   queues of ethqueue, the flow-group hand-over of ethfg.c, the cross-CPU
   runlist of cpu.c, cp_idle and the commands of the control plane (ixcp.py).
   The NIC's redirection table and its hardware rings are external.

   A packet is <<f, n>>: the n-th packet of flow group f.  The steps of one CPU
   are cut where another CPU, the NIC or the control plane can act between
   them; pc[c] is the place in sys_bpoll.  What only measures (kstats, the
   SCRATCHPAD) is left out, and so are outbound flow groups (migrate_fdir). *)
EXTENDS Integers, Sequences, FiniteSets, SequencesExt

CONSTANTS
    num_cpus,          \* CFG.num_cpus
    nr_flow_groups,    \* flow groups of the NIC
    ETH_RX_MAX_DEPTH,  \* bound of a software receive queue
    MaxPkts,           \* bound: packets sent to the NIC
    MaxCmds            \* bound: migrate and idle commands of the control plane

NONE == -1             \* "no CPU" in cur_cpu, prev_cpu and target_cpu
Cpus == 0 .. num_cpus - 1
Fgs == 0 .. nr_flow_groups - 1

VARIABLES
    pc,        \* per CPU: where in sys_bpoll it is
    fgs,       \* struct eth_fg: cur_cpu, in_transition, prev_cpu, target_cpu
    info,      \* per CPU: migration_info; pend is timer_pending(transition_timeout)
    armed,     \* per CPU: its transition timeout is linked in its timer wheel
    rxq,       \* per CPU: eth_rx_queue
    localq, remoteq,     \* per CPU: local_mbuf_queue, remote_mbuf_queue
    wheel,     \* per flow group: the CPU whose wheel holds its timers, or NONE
    tlist,     \* per CPU: remote_timers_list, as the flow groups it has timers of
    todo, runlist,       \* per CPU: runners detached, runners posted
    hold,      \* per CPU: the packet between the test and the enqueue
    events,    \* per CPU: flow groups with an event in usys_arr
    cmd,       \* per CPU: cp_cmd (cmd_id, status, cpu_state, bitmap, target)
    reta, ring, sent,    \* NIC: redirection table, rings; packets sent per flow group
    seen,      \* per flow group: <<n, c>> in the order of eth_input
    cp,        \* ixcp: what it waits for, on which CPU, commands issued
    faults     \* ghost: the races that happened, of "late", "stale", "lost",
               \* "timers", "backlog"

cpuvars == <<pc, todo, hold, events>>
migvars == <<fgs, info, armed, remoteq, wheel, tlist>>
nicvars == <<reta, ring, sent>>
vars == <<pc, fgs, info, armed, rxq, localq, remoteq, wheel, tlist, todo,
          runlist, hold, events, cmd, reta, ring, sent, seen, cp, faults>>

Info0 == [prev |-> NONE, target |-> NONE, bitmap |-> {}, pend |-> FALSE]
Cmd0 == [cmd_id |-> "NOP", status |-> "READY", state |-> "RUNNING",
         bitmap |-> {}, target |-> NONE]

(* init_fg and cp_init: the flow groups are dealt to the CPUs, no command. *)
Init ==
    /\ pc = [c \in Cpus |-> "again"]
    /\ reta = [f \in Fgs |-> f % num_cpus]
    /\ wheel = reta
    /\ fgs = [f \in Fgs |-> [cur |-> reta[f], trans |-> FALSE,
                             prev |-> NONE, target |-> NONE]]
    /\ info = [c \in Cpus |-> Info0]
    /\ armed = [c \in Cpus |-> FALSE]
    /\ rxq = [c \in Cpus |-> <<>>]
    /\ localq = rxq /\ remoteq = rxq /\ runlist = rxq /\ ring = rxq
    /\ hold = rxq /\ todo = rxq
    /\ tlist = [c \in Cpus |-> {}]
    /\ events = tlist
    /\ cmd = [c \in Cpus |-> Cmd0]
    /\ sent = [f \in Fgs |-> 0]
    /\ seen = [f \in Fgs |-> <<>>]
    /\ cp = [wait |-> "none", cpu |-> NONE, n |-> 0]
    /\ faults = {}

----------------------------------------------------------------------------
(* Helpers *)

IsOf(f, p) == p[1] = f

\* The packets ps, run through eth_input on CPU c in this order.
Input(c, ps) ==
    /\ seen' = [f \in Fgs |-> seen[f] \o
                  [i \in DOMAIN SelectSeq(ps, LAMBDA p : IsOf(f, p)) |->
                      <<SelectSeq(ps, LAMBDA p : IsOf(f, p))[i][2], c>>]]
    /\ events' = [events EXCEPT ![c] = @ \cup {p[1] : p \in ToSet(ps)}]

\* cpu_run_on_one: push at the head of cpu's list; -1 is refused (-EINVAL).
cpu_run_on_one(lists, r, cpu) ==
    IF cpu = NONE THEN lists ELSE [lists EXCEPT ![cpu] = <<r>> \o @]

AtMostOne(s) == IF s = <<>> THEN s ELSE <<Head(s)>>
Goto(c, l) == pc' = [pc EXCEPT ![c] = l]

----------------------------------------------------------------------------
(* The poll loop *)

\* Return to user space when there are events; the next sys_bpoll dispatches
\* the calls the application made on those flow groups' handles.  An accept
\* raises the events of the data that waited for it; the answer to those
\* raises no more.
ReturnToUser(c) ==
    /\ events[c] # {}
    /\ \/ /\ pc[c] = "user"
          /\ \E left \in SUBSET events[c] :
                events' = [events EXCEPT ![c] = left]
       \/ /\ pc[c] = "again" /\ cmd[c].cmd_id \in {"MIGRATE", "IDLE"}
          /\ events' = [events EXCEPT ![c] = {}]
    /\ Goto(c, "again")
    /\ UNCHANGED <<migvars, rxq, localq, todo, runlist, hold, cmd, nicvars,
                   seen, cp, faults>>

\* eth_fg_assign_single_to_cpu, for each flow group of the bitmap: those that
\* are on another CPU than the target start their transition.
Moving(c) == {f \in cmd[c].bitmap : fgs[f].cur # cmd[c].target}

\* migrate_timers_to_remote re-initialises the target's list for every flow
\* group: only the timers of the last one stay on it.
CollectTimers(c, fs) ==
    /\ tlist' = [tlist EXCEPT ![cmd[c].target] =
                    {f \in {Max(fs)} : wheel[f] = c}]
    /\ wheel' = [f \in Fgs |-> IF f \in fs /\ wheel[f] = c THEN NONE
                               ELSE wheel[f]]

\* migrate_pkts_to_remote: the packets of the moving flow groups leave the
\* receive queue for the target's remote queue.
MovePkts(c, fs) ==
    LET t == cmd[c].target IN
    /\ remoteq' = [remoteq EXCEPT ![t] =
                     @ \o SelectSeq(rxq[c], LAMBDA p : p[1] \in fs)]
    /\ rxq' = [rxq EXCEPT ![c] = SelectSeq(@, LAMBDA p : p[1] \notin fs)]

\* eth_fg_assign_to_cpu up to its return; cmd_id is reset by the caller after.
Assign(c) ==
    LET t == cmd[c].target
        fs == Moving(c)
        mine == [prev |-> c, target |-> t, bitmap |-> fs, pend |-> TRUE]
    IN
    /\ pc[c] = "again" /\ cmd[c].cmd_id = "MIGRATE" /\ events[c] = {}
    /\ IF fs = {}
       THEN /\ cmd' = [cmd EXCEPT ![c].status = "READY"]
            /\ info' = [info EXCEPT ![c].bitmap = {}]
            /\ UNCHANGED <<fgs, rxq, remoteq, tlist, wheel, armed, reta, faults>>
       ELSE /\ fgs' = [f \in Fgs |->
                         IF f \in fs THEN [cur |-> NONE, trans |-> TRUE,
                                           prev |-> fgs[f].cur, target |-> t]
                         ELSE fgs[f]]
            /\ MovePkts(c, fs)
            /\ CollectTimers(c, fs)
            /\ info' = [info EXCEPT ![c] = mine, ![t] = mine]
            /\ armed' = [armed EXCEPT ![c] = TRUE]
            /\ reta' = [f \in Fgs |-> IF f \in fs THEN t ELSE reta[f]]
            /\ faults' = faults \cup {x \in {"timers"} : Cardinality(fs) > 1}
            /\ UNCHANGED cmd
    /\ Goto(c, "nop")
    /\ UNCHANGED <<localq, todo, runlist, hold, events, ring, sent, seen, cp>>

\* syscall.c:167, after the call returned.
ClearCommand(c) ==
    /\ pc[c] = "nop"
    /\ cmd' = [cmd EXCEPT ![c].cmd_id = "NOP"]
    /\ faults' = faults \cup
         {x \in {"lost"} : cmd[c].status = "RUNNING" /\ info[c].prev # c}
    /\ Goto(c, "book")
    /\ UNCHANGED <<migvars, rxq, localq, todo, runlist, hold, events, nicvars,
                   seen, cp>>

\* cp_idle up to the open of the fifo, which blocks until the writer opens it.
Idle(c) ==
    /\ pc[c] = "again" /\ cmd[c].cmd_id = "IDLE" /\ events[c] = {}
    /\ cmd' = [cmd EXCEPT ![c].cmd_id = "NOP", ![c].status = "READY",
                          ![c].state = "IDLE"]
    /\ Goto(c, "idle")
    /\ UNCHANGED <<migvars, rxq, localq, todo, runlist, hold, events, nicvars,
                   seen, cp, faults>>

\* cp_idle after the read: the control plane wrote the fifo.  timer_init_cpu moves
\* the wheel's position, which delays what is on the wheel (module TimerWheel)
\* and loses nothing; time is not modelled here.
Wake(c) ==
    /\ pc[c] = "idle" /\ cp.wait = "RUNNING" /\ cp.cpu = c
    /\ cmd' = [cmd EXCEPT ![c].state = "RUNNING"]
    /\ Goto(c, "book")
    /\ UNCHANGED <<migvars, rxq, localq, todo, runlist, hold, events, nicvars,
                   seen, cp, faults>>

----------------------------------------------------------------------------
(* Receiving *)

\* eth_recv_handle_fg_transition: what CPU c does with a packet of f.
AtOwner(c, f) == ~fgs[f].trans /\ fgs[f].cur = c
AtPrev(c, f) == fgs[f].trans /\ fgs[f].prev = c
AtTarget(c, f) == fgs[f].trans /\ fgs[f].prev # c /\ fgs[f].target = c

\* eth_recv_at_target: the first packet asks the previous CPU for an early
\* transition.
NeedEarly(c, ps) ==
    localq[c] = <<>> /\ \E p \in ToSet(ps) : AtTarget(c, p[1])

Early == [func |-> "early", info |-> NONE, prev |-> NONE]
Trans(c) == [func |-> "trans", info |-> c, prev |-> NONE]

AfterRecv(c, ps) ==
    IF NeedEarly(c, ps) THEN cpu_run_on_one(runlist, Early, info[c].prev)
    ELSE runlist

\* eth_recv for the packets ps, in order: kept for processing while the queue
\* has room, handed to the target's remote queue, kept for the transition, or
\* dropped.
eth_recv(c, ps) ==
    LET own == SelectSeq(ps, LAMBDA p : AtOwner(c, p[1]))
        room == ETH_RX_MAX_DEPTH - Len(rxq[c])
    IN
    /\ rxq' = [rxq EXCEPT ![c] =
                  @ \o IF Len(own) <= room THEN own ELSE SubSeq(own, 1, room)]
    /\ remoteq' = [t \in Cpus |-> remoteq[t] \o SelectSeq(ps,
                     LAMBDA p : AtPrev(c, p[1]) /\ fgs[p[1]].target = t)]
    /\ localq' = [localq EXCEPT ![c] =
                     @ \o SelectSeq(ps, LAMBDA p : AtTarget(c, p[1]))]
    /\ ring' = [ring EXCEPT ![c] = SubSeq(@, Len(ps) + 1, Len(@))]

\* The packets of the ring up to the first that came to the previous CPU.
Prefix(c) ==
    LET stop == {i \in DOMAIN ring[c] : AtPrev(c, ring[c][i][1])}
    IN SubSeq(ring[c], 1, IF stop = {} THEN Len(ring[c]) ELSE Min(stop) - 1)

\* eth_process_poll; a packet at the previous CPU is enqueued in a step of its
\* own, without a lock.
Poll(c) ==
    /\ pc[c] \in {"timer", "poll"}
    /\ \E ps \in {Prefix(c)} :
         IF ring[c] # <<>> /\ ps = <<>>
         THEN \E p \in {Head(ring[c])} :
              /\ hold' = [hold EXCEPT ![c] = <<p, fgs[p[1]].target>>]
              /\ ring' = [ring EXCEPT ![c] = Tail(@)]
              /\ Goto(c, "enq")
              /\ UNCHANGED <<rxq, remoteq, localq, runlist>>
         ELSE /\ eth_recv(c, ps)
              /\ runlist' = AfterRecv(c, ps)
              /\ Goto(c, "recv")
              /\ UNCHANGED hold
    /\ UNCHANGED <<fgs, info, armed, wheel, tlist, todo, events, cmd, reta,
                   sent, seen, cp, faults>>

\* eth_recv_at_prev.  When the transition ended since the test, target_cpu was
\* read before, or is read now and may be -1: a write through a wild queue.
Enqueue(c) ==
    /\ pc[c] = "enq"
    /\ \E p \in {hold[c][1]}, t \in {hold[c][2], fgs[hold[c][1][1]].target} :
         /\ remoteq' = IF t = NONE THEN remoteq
                       ELSE [remoteq EXCEPT ![t] = Append(@, p)]
         /\ faults' = faults \cup {x \in {"late"} :
                          ~(AtPrev(c, p[1]) /\ fgs[p[1]].target = hold[c][2])}
    /\ hold' = [hold EXCEPT ![c] = <<>>]
    /\ Goto(c, "recv")
    /\ UNCHANGED <<fgs, info, armed, rxq, localq, wheel, tlist, todo, runlist,
                   events, cmd, nicvars, seen, cp>>

\* eth_process_recv for one packet, then the test at the end of the loop.
Recv(c) ==
    /\ pc[c] = "recv"
    /\ Input(c, AtMostOne(rxq[c]))
    /\ rxq' = [rxq EXCEPT ![c] = IF @ = <<>> THEN @ ELSE Tail(@)]
    /\ Goto(c, IF events'[c] = {} THEN "again" ELSE "user")
    /\ UNCHANGED <<migvars, localq, todo, runlist, hold, cmd, nicvars, cp,
                   faults>>

----------------------------------------------------------------------------
(* Runners and the transition *)

\* cpu_do_bookkeeping, after the command or at once when there is none (NOP):
\* detaches the whole list.
Bookkeeping(c) ==
    /\ pc[c] = "book" \/ (pc[c] = "again" /\ cmd[c].cmd_id = "NOP")
    /\ todo' = [todo EXCEPT ![c] = runlist[c]]
    /\ runlist' = [runlist EXCEPT ![c] = <<>>]
    /\ Goto(c, IF runlist[c] = <<>> THEN "timer" ELSE "run")
    /\ UNCHANGED <<migvars, rxq, localq, hold, events, cmd, nicvars, seen, cp,
                   faults>>

NextRunner(c) ==
    /\ todo' = [todo EXCEPT ![c] = Tail(@)]
    /\ Goto(c, IF Len(todo[c]) = 1 THEN "timer" ELSE "run")

\* Mutant: disarms the timeout and does not start the transition
EarlyTransition_NoRun(c) ==
    /\ pc[c] = "run" /\ Head(todo[c]).func = "early"
    /\ IF ~info[c].pend
       THEN UNCHANGED <<info, armed, rxq, remoteq, localq, ring, runlist,
                        faults>>
       ELSE /\ info' = [info EXCEPT ![c].pend = FALSE]
            /\ armed' = [x \in Cpus |->
                            armed[x] /\ x # c /\ x # info[c].prev]
            /\ eth_recv(c, ring[c])
            /\ runlist' = AfterRecv(c, ring[c])
            /\ faults' = faults \cup {x \in {"stale"} : info[c].prev # c}
    /\ NextRunner(c)
    /\ UNCHANGED <<fgs, wheel, tlist, hold, events, cmd, reta, sent, seen, cp>>

\* early_transition_handler_prev: only while the timeout is pending.  The copy
\* of migration_info that a target holds looks pending too: deleting it
\* unlinks the timeout of the CPU it was copied from.
EarlyTransition(c) ==
    /\ pc[c] = "run" /\ Head(todo[c]).func = "early"
    /\ IF ~info[c].pend
       THEN UNCHANGED <<info, armed, rxq, remoteq, localq, ring, runlist,
                        faults>>
       ELSE /\ info' = [info EXCEPT ![c].pend = FALSE]
            /\ armed' = [x \in Cpus |->
                            armed[x] /\ x # c /\ x # info[c].prev]
            /\ eth_recv(c, ring[c])
            /\ runlist' = cpu_run_on_one(AfterRecv(c, ring[c]), Trans(c),
                                         info[c].target)
            /\ faults' = faults \cup {x \in {"stale"} : info[c].prev # c}
    /\ NextRunner(c)
    /\ UNCHANGED <<fgs, wheel, tlist, hold, events, cmd, reta, sent, seen, cp>>

\* timer_run: the transition timeout expires (transition_handler_prev); until
\* it does, the loop goes on to Poll.  The ring is not polled first: packets
\* of the flow groups may still be in it when the CPU was away that long.
TimerRun(c) ==
    /\ pc[c] = "timer" /\ armed[c]
    /\ armed' = [armed EXCEPT ![c] = FALSE]
    /\ info' = [info EXCEPT ![c].pend = FALSE]
    /\ runlist' = cpu_run_on_one(runlist, Trans(c), info[c].target)
    /\ faults' = faults \cup {x \in {"backlog"} :
                     \E p \in ToSet(ring[c]) : p[1] \in info[c].bitmap}
    /\ Goto(c, "poll")
    /\ UNCHANGED <<fgs, rxq, localq, remoteq, wheel, tlist, todo, hold, events,
                   cmd, nicvars, seen, cp>>

\* transition_handler_target, first loop: the flow groups change hands.
TransOwn(c) ==
    /\ pc[c] = "run" /\ Head(todo[c]).func = "trans"
    /\ \E i \in {info[Head(todo[c]).info]} :
         /\ fgs' = [f \in Fgs |->
                       IF f \in i.bitmap
                       THEN [cur |-> fgs[f].target, trans |-> FALSE,
                             prev |-> NONE, target |-> NONE]
                       ELSE fgs[f]]
         /\ todo' = [todo EXCEPT ![c][1].prev = i.prev]
    /\ Goto(c, "remote")
    /\ UNCHANGED <<info, armed, rxq, localq, remoteq, wheel, tlist, runlist,
                   hold, events, cmd, nicvars, seen, cp, faults>>

\* Mutant: the packets of the target first
TransRemote_LocalFirst(c) ==
    /\ pc[c] = "remote"
    /\ Input(c, localq[c] \o remoteq[c])
    /\ localq' = [localq EXCEPT ![c] = <<>>]
    /\ Goto(c, "local")
    /\ UNCHANGED <<migvars, rxq, todo, runlist, hold, cmd, nicvars, cp,
                   faults>>

\* Second loop: the packets that arrived at the previous CPU.
TransRemote(c) ==
    /\ pc[c] = "remote"
    /\ Input(c, remoteq[c])
    /\ Goto(c, "local")
    /\ UNCHANGED <<migvars, rxq, localq, todo, runlist, hold, cmd, nicvars, cp,
                   faults>>

\* The remote queue is reset; then the packets that arrived here, the timers,
\* and the answer to the control plane.
TransLocal(c) ==
    LET r == Head(todo[c]) IN
    /\ pc[c] = "local"
    /\ Input(c, localq[c])
    /\ remoteq' = [remoteq EXCEPT ![c] = <<>>]
    /\ localq' = [localq EXCEPT ![c] = <<>>]
    /\ wheel' = [f \in Fgs |-> IF f \in tlist[c] THEN c ELSE wheel[f]]
    /\ info' = [info EXCEPT ![c].prev = NONE, ![r.info].prev = NONE]
    /\ cmd' = [x \in Cpus |-> IF x = r.prev
                              THEN [cmd[x] EXCEPT !.status = "READY"]
                              ELSE cmd[x]]
    /\ NextRunner(c)
    /\ UNCHANGED <<fgs, armed, rxq, tlist, runlist, hold, nicvars, cp, faults>>

----------------------------------------------------------------------------
(* The NIC and the control plane *)

Arrive(f) ==
    /\ MapThenSumSet(LAMBDA g : sent[g], Fgs) < MaxPkts
    /\ sent' = [sent EXCEPT ![f] = @ + 1]
    /\ ring' = [ring EXCEPT ![reta[f]] = Append(@, <<f, sent[f] + 1>>)]
    /\ UNCHANGED <<migvars, cpuvars, rxq, localq, runlist, cmd, reta, seen, cp,
                   faults>>

CpCommand(c, wait) ==
    /\ cp.wait = "none" /\ cp.n < MaxCmds
    /\ cp' = [wait |-> wait, cpu |-> c, n |-> cp.n + 1]

\* migrate: a source that runs and some of the flow groups it has (none only
\* when it has none, --single-cpu), to a target that wake_up left running.
CpMigrate(s, t, fs) ==
    /\ CpCommand(s, "READY")
    /\ s # t /\ cmd[s].state = "RUNNING" /\ cmd[t].state = "RUNNING"
    /\ fs \subseteq {f \in Fgs : reta[f] = s}
    /\ fs = {} => \A f \in Fgs : reta[f] # s
    /\ cmd' = [cmd EXCEPT ![s] = [cmd_id |-> "MIGRATE", status |-> "RUNNING",
                                  state |-> @.state, bitmap |-> fs,
                                  target |-> t]]
    /\ UNCHANGED <<migvars, cpuvars, rxq, localq, runlist, nicvars, seen,
                   faults>>

\* idle: a CPU without flow groups.
CpIdle(c) ==
    /\ CpCommand(c, "READY")
    /\ cmd[c].state = "RUNNING"
    /\ \A f \in Fgs : reta[f] # c
    /\ cmd' = [cmd EXCEPT ![c].cmd_id = "IDLE", ![c].status = "RUNNING"]
    /\ UNCHANGED <<migvars, cpuvars, rxq, localq, runlist, nicvars, seen,
                   faults>>

\* wake_up: writes the fifo of an idle CPU.
CpWake(c) ==
    /\ cp.wait = "none" /\ cmd[c].state = "IDLE"
    /\ cp' = [cp EXCEPT !.wait = "RUNNING", !.cpu = c]
    /\ UNCHANGED <<migvars, cpuvars, rxq, localq, runlist, nicvars, cmd, seen,
                   faults>>

Done ==
    \/ cp.wait = "READY" /\ cmd[cp.cpu].status = "READY"
    \/ cp.wait = "RUNNING" /\ cmd[cp.cpu].state = "RUNNING"
CpDone ==
    /\ Done
    /\ cp' = [cp EXCEPT !.wait = "none", !.cpu = NONE]
    /\ UNCHANGED <<migvars, cpuvars, rxq, localq, runlist, nicvars, cmd, seen,
                   faults>>

Step(c) ==
    \/ ReturnToUser(c) \/ Assign(c) \/ ClearCommand(c)
    \/ Idle(c) \/ Wake(c)
    \/ Bookkeeping(c) \/ EarlyTransition(c) \/ TransOwn(c) \/ TransRemote(c)
    \/ TransLocal(c) \/ TimerRun(c)
    \/ Poll(c) \/ Enqueue(c) \/ Recv(c)

Cp ==
    \/ \E s, t \in Cpus, fs \in SUBSET Fgs : CpMigrate(s, t, fs)
    \/ \E c \in Cpus : CpIdle(c) \/ CpWake(c)

Next ==
    \/ \E c \in Cpus : Step(c)
    \/ \E f \in Fgs : Arrive(f)
    \/ Cp
    \/ CpDone

Spec == Init /\ [][Next]_vars

(* Every CPU runs its loop (sys_bpoll blocks only in cp_idle), a timeout that
   stays linked expires, and ixcp polls until it is answered. *)
Blocked(c) == pc[c] = "idle" /\ ~(cp.wait = "RUNNING" /\ cp.cpu = c)
Fairness ==
    /\ \A c \in Cpus :
          /\ []<>Blocked(c) \/ []<><<Step(c)>>_vars
          /\ <>[]~(pc[c] = "timer" /\ armed[c]) \/ []<><<TimerRun(c)>>_vars
    /\ []<>~Done \/ []<><<CpDone>>_vars

FairSpec == Spec /\ Fairness

----------------------------------------------------------------------------
(* Properties *)

\* The type of every variable.
TypeOK ==
    /\ pc \in [Cpus -> {"again", "nop", "idle", "book", "run", "remote", "local",
                        "timer", "poll", "enq", "recv", "user"}]
    /\ fgs \in [Fgs -> [cur : Cpus \cup {NONE}, trans : BOOLEAN,
                        prev : Cpus \cup {NONE}, target : Cpus \cup {NONE}]]
    /\ info \in [Cpus -> [prev : Cpus \cup {NONE}, target : Cpus \cup {NONE},
                          bitmap : SUBSET Fgs, pend : BOOLEAN]]
    /\ armed \in [Cpus -> BOOLEAN]
    /\ \A q \in {rxq, localq, remoteq, ring} :
          q \in [Cpus -> Seq(Fgs \X (1 .. MaxPkts))]
    /\ \A c \in Cpus : Len(rxq[c]) <= ETH_RX_MAX_DEPTH
    /\ wheel \in [Fgs -> Cpus \cup {NONE}]
    /\ tlist \in [Cpus -> SUBSET Fgs] /\ events \in [Cpus -> SUBSET Fgs]
    /\ \A l \in {todo, runlist} :
          l \in [Cpus -> Seq([func : {"early", "trans"},
                             info : Cpus \cup {NONE}, prev : Cpus \cup {NONE}])]
    /\ cmd \in [Cpus -> [cmd_id : {"NOP", "MIGRATE", "IDLE"},
                         status : {"READY", "RUNNING"},
                         state : {"RUNNING", "IDLE"},
                         bitmap : SUBSET Fgs, target : Cpus \cup {NONE}]]
    /\ reta \in [Fgs -> Cpus] /\ sent \in [Fgs -> 0 .. MaxPkts]
    /\ seen \in [Fgs -> Seq((1 .. MaxPkts) \X Cpus)]
    /\ faults \subseteq {"late", "stale", "lost", "timers", "backlog"}

\* The assertions of eth_fg_assign_to_cpu and eth_fg_assign_single_to_cpu
\* (ethfg.c:135, 143, 230, 231): when a CPU takes a migration command, neither
\* it nor the target is in a migration, and the flow groups are its own and at
\* rest.
AssertsAt(c) ==
    pc[c] = "again" /\ cmd[c].cmd_id = "MIGRATE" /\ events[c] = {} =>
       /\ info[c].prev = NONE /\ info[cmd[c].target].prev = NONE
       /\ \A f \in cmd[c].bitmap :
             ~fgs[f].trans /\ fgs[f].cur \in {c, cmd[c].target}

AssignAsserts == \A c \in Cpus : AssertsAt(c)

\* The same, until an early-transition request outlived its migration and
\* acted on the copy of migration_info.
AssignAssertsOnTime == "stale" \in faults \/ AssignAsserts

\* A flow group's state is touched by one CPU at a time (eth_fg_set_current's
\* assertion, ethfg.h:116): eth_input raises events only on the CPU that owns
\* the flow group, at rest, and that CPU still owns it when the application
\* answers them.
EventsOwned ==
    \/ faults \cap {"late", "stale", "backlog"} # {}
    \/ \A c \in Cpus : \A f \in events[c] : ~fgs[f].trans /\ fgs[f].cur = c

\* A migration never reorders a flow: what the previous CPU received is input
\* before what the target received, and a packet is input at most once.
Ordered ==
    \A f \in Fgs : \A i, j \in DOMAIN seen[f] :
        i < j => seen[f][i][1] < seen[f][j][1]

\* The same, unless the previous CPU put a packet in the remote queue after the
\* hand-over, a stale request ended a migration, or packets were still in the
\* previous CPU's ring when the timeout expired.
OrderedOnTime == faults \cap {"late", "stale", "backlog"} # {} \/ Ordered

\* No packet is forgotten in a migration queue: with no transition under way
\* both queues of every CPU are empty.
NothingStranded ==
    /\ faults \cap {"late", "stale"} = {}
    /\ \A f \in Fgs : ~fgs[f].trans
    /\ \A c \in Cpus : pc[c] \notin {"remote", "local"}
    => \A c \in Cpus : remoteq[c] = <<>> /\ localq[c] = <<>>

\* The timers of a flow group follow it: at rest, with no transition being
\* finished, they are in the wheel of the CPU that owns it.
TimersKept ==
    \A f \in Fgs :
       ~fgs[f].trans /\ (\A c \in Cpus : pc[c] \notin {"remote", "local"})
       => wheel[f] = fgs[f].cur

\* The same as long as every migration is of one flow group.
TimersFollow == faults \cap {"timers", "stale"} # {} \/ TimersKept

\* A flow group has one owner, its packets stay in order and its timers go with it.
FlowGroupsSafe ==
    /\ TypeOK /\ AssignAssertsOnTime /\ EventsOwned
    /\ OrderedOnTime /\ NothingStranded /\ TimersFollow

\* Every command of the control plane is answered, unless it was overwritten by
\* the NOP of an empty migration or a stale request ended a migration.
Answered ==
    cp.wait # "none" ~> cp.wait = "none" \/ faults \cap {"lost", "stale"} # {}
=============================================================================
