------------------------------- MODULE KVAbs -------------------------------
(***************************************************************************)
(* What the key-value store promises an application that waits for `wrote' *)
(* before its next put: a durable map, and a readable one that never lags  *)
(* behind an acknowledged put.                                             *)
(***************************************************************************)
EXTENDS Integers

CONSTANTS Keys, MaxPuts

Missing == 0
Value == 1 .. MaxPuts       \* a put is named by its number

VARIABLES
    db,     \* what survives a crash: Keys -> Value or Missing
    view,   \* what a get returns, while the store is live
    pend,   \* the put that is not acknowledged yet: a set of at most one
    mode    \* "live", "down", or "broken" (the device is full)

absVars == <<db, view, pend, mode>>

Empty == [k \in Keys |-> Missing]
With(m, p) == [m EXCEPT ![p.key] = p.val]

Init ==
    /\ db = Empty
    /\ view = Empty
    /\ pend = {}
    /\ mode = "down"

\* A put is taken in; it may become durable at once or later.
Submit(p) ==
    /\ mode = "live" /\ pend = {}
    /\ pend' = {p}
    /\ db' \in {db, With(db, p)}
    /\ UNCHANGED <<view, mode>>

Persist(p) ==
    /\ mode = "live" /\ p \in pend
    /\ db' = With(db, p)
    /\ UNCHANGED <<view, pend, mode>>

\* An acknowledged put is durable and readable.
Ack(p) ==
    /\ mode = "live" /\ p \in pend
    /\ db[p.key] = p.val
    /\ view' = With(view, p)
    /\ pend' = {}
    /\ UNCHANGED <<db, mode>>

\* A crash loses nothing that was durable; the put it interrupts is durable
\* after it or has never happened.
Crash(p) ==
    /\ mode = "live"
    /\ pend \subseteq {p}
    /\ db' \in {db, With(db, p)}
    /\ view' = Empty
    /\ pend' = {}
    /\ mode' = "down"

Recover ==
    /\ mode = "down"
    /\ mode' = "live"
    /\ view' = db
    /\ UNCHANGED <<db, pend>>

\* Nothing is promised once a put did not fit on the device.
Break ==
    /\ mode = "live"
    /\ mode' = "broken"
    /\ view' = Empty
    /\ pend' = {}
    /\ UNCHANGED db

Next ==
    \/ \E p \in [key : Keys, val : Value] : Submit(p) \/ Persist(p) \/ Ack(p) \/ Crash(p)
    \/ Recover
    \/ Break

Spec == Init /\ [][Next]_absVars
=============================================================================
