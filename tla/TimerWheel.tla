------------------------------ MODULE TimerWheel ------------------------------
(***************************************************************************)
(* The hierarchical timer wheels of dp/core/timer.c, one per CPU, with the *)
(* hand-over of a flow group's timers from one CPU's wheel to another's.   *)
(*                                                                         *)
(* Time (rdtsc() / cycles_per_us) advances on its own.  timer_run is a     *)
(* loop that calls handlers, and a handler adds and removes timers: one    *)
(* pass is therefore a sequence of steps, with run[c] the loop's local     *)
(* state.  A bucket is the sequence of the timers of its hlist, head first.*)
(***************************************************************************)
EXTENDS Integers, Sequences, FiniteSets, SequencesExt, FiniteSetsExt

CONSTANTS Cpus, Timers,
          FgTimers,        \* the timers that belong to the migrating flow group
          WHEEL_SIZE, WHEEL_COUNT, MIN_DELAY_US,
          AddDelays,       \* the delays given to timer_add
          HandlerDelays,   \* the delays with which a handler re-adds its timer
          DeleteSuccessor, \* whether a handler may delete the timer its walk visits next
          MaxIdles,        \* bound: how often a CPU goes to cp_idle
          MaxMigrations,   \* bound: how often the flow group changes its CPU
          MaxLag,          \* bound: how long a CPU goes without a timer pass
          Start,           \* the time at which the CPUs start
          Horizon          \* bound: the last moment explored

VARIABLES now,      \* rdtsc() / cycles_per_us
          tw,       \* per CPU: the cached now_us and timer_pos
          wheels,   \* the buckets: wheels[<<cpu, wheel, offset>>]
          timer,    \* per timer: expires, and pending (link.prev # NULL)
          run,      \* per CPU: where timer_run is
          fg,       \* the flow group: its CPU, and the timers under way to it
          idle,     \* the CPUs in cp_idle
          idles,    \* how often one went there
          missed,   \* per timer: 0, or when the bucket that timer_init_cpu jumped
                    \* over comes round again
          dropped   \* per timer: 0, or the position of the pass that dropped it

vars == <<now, tw, wheels, timer, run, fg, idle, idles, missed, dropped>>

ASSUME WheelAssumption ==
    /\ WHEEL_SIZE \in Nat /\ WHEEL_SIZE >= 2
    /\ WHEEL_COUNT \in Nat \ {0}
    /\ MIN_DELAY_US \in Nat \ {0}
    /\ FgTimers \subseteq Timers

Width(i) == MIN_DELAY_US * WHEEL_SIZE ^ i

MAX_DELAY_US == Width(WHEEL_COUNT)

WHEEL_OFFSET(us, i) == (us \div Width(i)) % WHEEL_SIZE

Buckets == Cpus \X (0 .. WHEEL_COUNT - 1) \X (0 .. WHEEL_SIZE - 1)

Idle == [on |-> FALSE, pos |-> 0, wheel |-> 0, todo |-> <<>>]

\* A CPU's pass touches only its own wheel, so passes and the other operations
\* of different CPUs commute; a pass, which reads the clock once, is explored
\* without other steps in between.  Nothing is explored after a pass dropped a
\* pending timer: removing that one would overwrite the head of its old bucket.
Intact == \A t \in Timers : dropped[t] = 0
NoPass == Intact /\ \A c \in Cpus : ~run[c].on

timer_expired(c, t) == timer[t].expires <= tw[c].now_us

(***************************************************************************)
(* timer_insert: the clz64 arithmetic selects the wheel whose bucket width *)
(* is the largest one not above the delay.                                 *)
(***************************************************************************)

WheelIndex(delay) == Max({i \in 0 .. WHEEL_COUNT : Width(i) <= delay})

BucketFor(c, expires, now_us) ==
    LET expire_us == expires + MIN_DELAY_US
        index == WheelIndex(expire_us - now_us)
    IN  <<c, index, WHEEL_OFFSET(expire_us, index)>>

Inserted(w, t, b) == [w EXCEPT ![b] = <<t>> \o @]

Unlinked(w, t) == [b \in Buckets |-> SelectSeq(w[b], LAMBDA u : u # t)]

Armed(t, expires) == [timer EXCEPT ![t] = [expires |-> expires, pending |-> TRUE]]

\* Nothing reads the expires of a timer that is not pending.
NotArmed == [expires |-> 0, pending |-> FALSE]
Disarmed(t) == [timer EXCEPT ![t] = NotArmed]

(***************************************************************************)
(* Arming and disarming outside a timer pass: timer_add and timer_add_abs  *)
(* (which differ in who adds the delay to the time), timer_mod and         *)
(* timer_del.  The callers arm only a timer that is not pending.           *)
(***************************************************************************)
\* A flow group's timers are armed by the CPU that serves it, the others by the
\* CPU they belong to.
Home == CHOOSE c \in Cpus : TRUE

MayArm(c, t) ==
    /\ c \notin idle
    /\ IF t \in FgTimers THEN fg.cpu = c /\ ~fg.moving ELSE c = Home

OnCpu(c, t) == \E i \in 0 .. WHEEL_COUNT - 1, o \in 0 .. WHEEL_SIZE - 1 :
                  Contains(wheels[<<c, i, o>>], t)

timer_add(c, t, delay) ==
    /\ NoPass /\ ~timer[t].pending /\ MayArm(c, t)
    /\ delay \in 1 .. MAX_DELAY_US - 1
    /\ timer' = Armed(t, now + delay)
    /\ wheels' = Inserted(wheels, t, BucketFor(c, now + delay, tw[c].now_us))
    /\ missed' = [missed EXCEPT ![t] = 0]
    /\ UNCHANGED <<now, tw, run, fg, idle, idles, dropped>>

timer_add_abs(c, t, abs_usecs) ==
    /\ NoPass /\ ~timer[t].pending /\ MayArm(c, t)
    /\ abs_usecs > tw[c].timer_pos
    /\ timer' = Armed(t, abs_usecs)
    /\ wheels' = Inserted(wheels, t, BucketFor(c, abs_usecs, tw[c].now_us))
    /\ missed' = [missed EXCEPT ![t] = 0]
    /\ UNCHANGED <<now, tw, run, fg, idle, idles, dropped>>

timer_mod(c, t, delay) ==
    /\ NoPass /\ c \notin idle /\ OnCpu(c, t)
    /\ timer' = Armed(t, now + delay)
    /\ wheels' = Inserted(Unlinked(wheels, t), t, BucketFor(c, now + delay, tw[c].now_us))
    /\ missed' = [missed EXCEPT ![t] = 0]
    /\ UNCHANGED <<now, tw, run, fg, idle, idles, dropped>>

timer_del(c, t) ==
    /\ NoPass /\ c \notin idle /\ OnCpu(c, t)
    /\ timer' = Disarmed(t)
    /\ wheels' = Unlinked(wheels, t)
    /\ missed' = [missed EXCEPT ![t] = 0]
    /\ UNCHANGED <<now, tw, run, fg, idle, idles, dropped>>

(***************************************************************************)
(* timer_run.  RunStart reads the clock and enters the first bucket; Visit *)
(* takes the walk's next timer off its list and fires it, or moves it to   *)
(* the wheel of its remaining delay; RunLeave ends the walk of one bucket  *)
(* and enters the next, or ends the pass.                                  *)
(***************************************************************************)
BucketAt(c, pos, wheel) == <<c, wheel, WHEEL_OFFSET(pos, wheel)>>

\* At one position timer_collapse comes first, wheel after wheel.
Turn(wheel) == IF wheel = 0 THEN WHEEL_COUNT ELSE wheel

\* The buckets of w from position pos on that are not empty: timer_collapse goes
\* on to the next wheel only where this one wraps.
Stops(c, w, pos, now_us) ==
    {s \in (pos .. now_us) \X (0 .. WHEEL_COUNT - 1) :
       /\ (s[1] - pos) % MIN_DELAY_US = 0
       /\ \A j \in 0 .. s[2] - 1 : WHEEL_OFFSET(s[1], j) = 0
       /\ w[BucketAt(c, s[1], s[2])] # <<>>}

\* Mutant: the next pass begins one bucket width after the time this one read.
NextPos_FromNow(pos, now_us) == now_us + MIN_DELAY_US
\* The first position of the loop that is not past.
NextPos(pos, now_us) ==
    Min({p \in pos .. Max({pos, now_us + MIN_DELAY_US}) :
           p > now_us /\ (p - pos) % MIN_DELAY_US = 0})

\* The loop goes on behind (pos, turn), or ends.
Proceed(c, w, pos, turn, now_us) ==
    \E stops \in {{s \in Stops(c, w, pos, now_us) : s[1] = pos => Turn(s[2]) > turn}} :
      IF stops = {}
      THEN /\ tw' = [tw EXCEPT ![c] = [now_us |-> now_us, timer_pos |-> NextPos(pos, now_us)]]
           /\ run' = [run EXCEPT ![c] = Idle]
      ELSE /\ tw' = [tw EXCEPT ![c].now_us = now_us]
           /\ \E s \in stops :
                 /\ \A r \in stops : \/ s[1] < r[1]
                                     \/ s[1] = r[1] /\ Turn(s[2]) <= Turn(r[2])
                 /\ run' = [run EXCEPT ![c] = [on |-> TRUE, pos |-> s[1], wheel |-> s[2],
                                              todo |-> w[BucketAt(c, s[1], s[2])]]]

RunStart(c) ==
    /\ NoPass /\ c \notin idle
    /\ Proceed(c, wheels, tw[c].timer_pos, 0, now)
    /\ UNCHANGED <<now, wheels, timer, fg, idle, idles, missed, dropped>>

\* The list walk saved the successor before the handler ran: a deleted
\* successor is still visited, a timer deleted further on is not.
StillToVisit(todo, t) ==
    IF todo = <<>> THEN <<>>
    ELSE <<Head(todo)>> \o SelectSeq(Tail(todo), LAMBDA u : u # t)

Successor(todo) == IF Len(todo) > 1 THEN todo[2] ELSE <<>>

Handler(c, t, w) ==
    \/ /\ timer' = Disarmed(t)
       /\ wheels' = w
       /\ run' = [run EXCEPT ![c].todo = Tail(@)]
    \/ \E delay \in HandlerDelays :
          /\ timer' = Armed(t, now + delay)
          /\ wheels' = Inserted(w, t, BucketFor(c, now + delay, tw[c].now_us))
          /\ run' = [run EXCEPT ![c].todo = Tail(@)]
    \/ \E u \in Timers \ {t} :
          /\ OnCpu(c, u)
          /\ DeleteSuccessor \/ u # Successor(run[c].todo)
          /\ timer' = [timer EXCEPT ![t] = NotArmed, ![u] = NotArmed]
          /\ wheels' = Unlinked(w, u)
          /\ run' = [run EXCEPT ![c].todo = StillToVisit(Tail(@), u)]

Reinsert(c, t, w) ==
    /\ wheels' = Inserted(w, t, BucketFor(c, timer[t].expires, tw[c].now_us))
    /\ run' = [run EXCEPT ![c].todo = Tail(@)]
    /\ UNCHANGED timer

Visit(c) ==
    /\ Intact /\ run[c].on /\ run[c].todo # <<>>
    /\ timer[Head(run[c].todo)].pending    \* else __timer_del follows a NULL link
    /\ LET t == Head(run[c].todo)
       IN  IF run[c].wheel = 0 \/ timer_expired(c, t)
           THEN Handler(c, t, Unlinked(wheels, t))
           ELSE Reinsert(c, t, Unlinked(wheels, t))
    /\ missed' = [missed EXCEPT ![Head(run[c].todo)] = 0]
    /\ UNCHANGED <<now, tw, fg, idle, idles, dropped>>

\* A handler may have put a timer into the bucket whose walk it is called from:
\* timer_run_bucket empties the list without looking.
Cleared(c, b) ==
    /\ wheels' = [wheels EXCEPT ![b] = <<>>]
    /\ dropped' = [t \in Timers |-> IF Contains(wheels[b], t) THEN run[c].pos ELSE 0]

RunLeave(c) ==
    /\ Intact /\ run[c].on /\ run[c].todo = <<>>
    /\ IF run[c].wheel = 0 THEN Cleared(c, BucketAt(c, run[c].pos, 0))
       ELSE UNCHANGED <<wheels, dropped>>
    /\ Proceed(c, wheels', run[c].pos, Turn(run[c].wheel), tw[c].now_us)
    /\ UNCHANGED <<now, timer, fg, idle, idles, missed>>

(***************************************************************************)
(* cp_idle.  The wheel of the CPU keeps its timers and nobody runs it; on  *)
(* the wake-up timer_init_cpu moves its position to the present, over the  *)
(* buckets that were not run or collapsed in the meantime.                 *)
(* set_cpus (ixcp.py) idles a CPU that serves no flow group, and wakes the *)
(* target of a migration first.                                            *)
(***************************************************************************)
BucketTime(t, i) == ((timer[t].expires + MIN_DELAY_US) \div Width(i)) * Width(i)

JumpedOver(c, t, i) ==
    /\ \E o \in 0 .. WHEEL_SIZE - 1 : Contains(wheels[<<c, i, o>>], t)
    /\ BucketTime(t, i) \div MIN_DELAY_US < now \div MIN_DELAY_US

\* When the bucket comes round again, on the wheel of the given turn.
NextTime(time, turn) == time + turn * ((now - time + turn - MIN_DELAY_US) \div turn)

timer_init_cpu(c) ==
    /\ tw' = [tw EXCEPT ![c] = [now_us |-> now, timer_pos |-> now]]
    /\ missed' = [t \in Timers |->
                    IF \E i \in 0 .. WHEEL_COUNT - 1 : JumpedOver(c, t, i)
                    THEN LET i == CHOOSE i \in 0 .. WHEEL_COUNT - 1 : JumpedOver(c, t, i)
                         IN  NextTime(BucketTime(t, i), Width(i + 1))
                    ELSE missed[t]]

cp_idle(c) ==
    /\ NoPass /\ c \notin idle /\ fg.cpu # c /\ idles < MaxIdles
    /\ idle' = idle \cup {c} /\ idles' = idles + 1
    /\ UNCHANGED <<now, tw, wheels, timer, run, fg, missed, dropped>>

Wake(c) ==
    /\ NoPass /\ c \in idle
    /\ idle' = idle \ {c}
    /\ timer_init_cpu(c)
    /\ UNCHANGED <<now, wheels, timer, run, fg, idles, dropped>>

(***************************************************************************)
(* Migration: the timers of the flow group leave the wheel of one CPU for  *)
(* a list, and the other CPU inserts them with the delay they had left     *)
(* when they were collected.                                               *)
(***************************************************************************)

timer_collect_fgs(c, dest) ==
    /\ NoPass /\ c \notin idle /\ dest \notin idle /\ fg.cpu = c /\ ~fg.moving /\ c # dest
    /\ fg.moves < MaxMigrations
    /\ LET list == {t \in FgTimers : OnCpu(c, t)}
       IN  /\ fg' = [cpu |-> dest, moving |-> TRUE, list |-> list,
                     timer_pos |-> tw[c].timer_pos, moves |-> fg.moves + 1]
           /\ wheels' = [b \in Buckets |->
                           IF b[1] = c THEN SelectSeq(wheels[b], LAMBDA t : t \notin list)
                                       ELSE wheels[b]]
    /\ UNCHANGED <<now, tw, timer, run, idle, idles, missed, dropped>>

\* Mutant: the remaining delay is measured from the collecting CPU's position
\* and added to the destination's cached time.
NewExpires_CachedClock(c, t, t_base) ==
    tw[c].now_us + Max({MIN_DELAY_US, timer[t].expires - fg.timer_pos})

NewExpires(c, t, t_base) ==
    IF timer[t].expires <= t_base THEN tw[c].now_us + MIN_DELAY_US
    ELSE now + (timer[t].expires - t_base)

timer_reinject_fgs(c) ==
    /\ NoPass /\ c \notin idle /\ fg.moving /\ fg.cpu = c
    /\ \E expires \in {[t \in fg.list |->
                          NewExpires(c, t, Min({fg.timer_pos, tw[c].timer_pos}))]} :
          /\ timer' = [t \in Timers |-> IF t \in fg.list
                                        THEN [timer[t] EXCEPT !.expires = expires[t]]
                                        ELSE timer[t]]
          /\ wheels' = [b \in Buckets |->
                          SetToSeq({t \in fg.list : BucketFor(c, expires[t], tw[c].now_us) = b})
                          \o wheels[b]]
    /\ fg' = [fg EXCEPT !.moving = FALSE, !.list = {}, !.timer_pos = 0]
    /\ missed' = [t \in Timers |-> IF t \in fg.list THEN 0 ELSE missed[t]]
    /\ UNCHANGED <<now, tw, run, idle, idles, dropped>>

-------------------------------------------------------------------------------
Init ==
    /\ now = Start
    /\ tw = [c \in Cpus |-> [now_us |-> Start, timer_pos |-> Start]]
    /\ wheels = [b \in Buckets |-> <<>>]
    /\ timer = [t \in Timers |-> NotArmed]
    /\ run = [c \in Cpus |-> Idle]
    /\ fg = [cpu |-> Home, moving |-> FALSE, list |-> {}, timer_pos |-> 0, moves |-> 0]
    /\ idle = {} /\ idles = 0
    /\ missed = [t \in Timers |-> 0] /\ dropped = [t \in Timers |-> 0]

Tick ==
    /\ NoPass /\ now < Horizon
    /\ \A c \in Cpus \ idle : now - tw[c].now_us < MaxLag
    /\ now' = now + 1
    /\ UNCHANGED <<tw, wheels, timer, run, fg, idle, idles, missed, dropped>>

timer_run(c) == RunStart(c) \/ Visit(c) \/ RunLeave(c)

Next ==
    \/ Tick
    \/ \E c \in Cpus :
          \/ timer_run(c) \/ cp_idle(c) \/ Wake(c)
          \/ \E dest \in Cpus : timer_collect_fgs(c, dest)
          \/ timer_reinject_fgs(c)
          \/ \E t \in Timers :
                \/ timer_del(c, t)
                \/ \E delay \in AddDelays :
                      \/ timer_add(c, t, delay)
                      \/ timer_add_abs(c, t, now + delay)
                      \/ timer_mod(c, t, delay)

Spec == Init /\ [][Next]_vars
-------------------------------------------------------------------------------
(***************************************************************************)
(* Properties.                                                             *)
(***************************************************************************)

\* Types: the state has the shape of struct timerwheel and struct timer.
TypeOK ==
    /\ now \in Start .. Horizon
    /\ tw \in [Cpus -> [now_us : Start .. Horizon,
                       timer_pos : Start .. Horizon + MIN_DELAY_US]]
    /\ DOMAIN wheels = Buckets
    /\ \A b \in Buckets : wheels[b] \in Seq(Timers)
    /\ timer \in [Timers -> [expires : Nat, pending : BOOLEAN]]
    /\ fg.list \subseteq FgTimers /\ idle \subseteq Cpus
    /\ missed \in [Timers -> Nat] /\ dropped \in [Timers -> Nat]

Places(t) == {b \in Buckets : Contains(wheels[b], t)}

\* A timer for which timer_pending answers true is on exactly one bucket list
\* of exactly one CPU, or on the list of a migration: no collapse, re-add from a
\* handler or migration loses or duplicates a pending timer.  A pass that empties
\* a bucket (timer.c:230) drops one only when a handler of that very walk armed
\* it a whole turn of the wheel after the bucket.
PendingIsQueued ==
    \A t \in Timers :
       /\ Cardinality(Places(t)) + (IF t \in fg.list \/ dropped[t] # 0 THEN 1 ELSE 0)
             = (IF timer[t].pending THEN 1 ELSE 0)
       /\ \A b \in Places(t) : IsInjective(wheels[b])
       /\ dropped[t] # 0 => timer[t].expires + 2 * MIN_DELAY_US > dropped[t] + Width(1)

\* When a pass of timer_run is over, no timer that was due two bucket widths
\* before the time the pass read is still waiting on that CPU's wheel, however
\* far the pass had fallen behind and whichever wheel the timer started on.  A
\* timer that a CPU jumped over when it left cp_idle (control_plane.c:86) waits
\* for its bucket to come round again, and no longer.
Due(t) == IF missed[t] = 0 THEN timer[t].expires + MIN_DELAY_US ELSE missed[t]
NotLate ==
    \A c \in Cpus, t \in Timers :
       ~run[c].on /\ c \notin idle /\ OnCpu(c, t) => Due(t) + MIN_DELAY_US > tw[c].now_us

\* A timer that a pass fires from the first wheel is due within one turn of
\* that wheel: the bucket alone decides (timer_run_bucket does not look at
\* expires), and no placement is off by more than that.
DueWithinATurn ==
    \A c \in Cpus :
       run[c].on /\ run[c].wheel = 0 /\ run[c].todo # <<>> =>
          timer[Head(run[c].todo)].expires < tw[c].now_us + Width(1)

\* Timers are neither lost nor late nor fired from the wrong turn of a wheel.
WheelSafe == TypeOK /\ PendingIsQueued /\ NotLate /\ DueWithinATurn

\* Migration does not shorten a timer: timer_reinject_fgs brings an expiry
\* forward by no more than one bucket width, however far the wheels of the two
\* CPUs are apart and however long the flow group was under way.
MigrationNotEarlier ==
    [][\A t \in fg.list : t \notin fg'.list =>
          timer'[t].expires + MIN_DELAY_US >= timer[t].expires]_vars
===============================================================================
