--------------------------- MODULE TcpPortsProofs ---------------------------
(***************************************************************************)
(* The source ports of two CPUs are apart and tuples are held once, for    *)
(* any number of CPUs, size of a range and number of objects.              *)
(***************************************************************************)
EXTENDS TcpPorts, FiniteSetTheorems, WellFoundedInduction, TLAPS

(* Most leaves are first-order and go to Zenon; the ones that need arithmetic,
   records or sequences name the SMT solver. *)
USE ZenonT(20), SMTT(30)

\* A range of one port has none to go back to.
PortsAssumption ==
    /\ NCpu \in Nat /\ Ranges \in Nat \ {0} /\ NObj \in Nat /\ NULL \notin Nat
    /\ PORTS_PER_CPU \in Nat \ {0, 1}

\* The ports of CPU c: the first of its range belongs to the CPU before it.
First(c) == c * PORTS_PER_CPU + 1
Beyond(c) == (c + 1) * PORTS_PER_CPU
Own(c) == First(c) .. Beyond(c)

----------------------------------------------------------------------------
(* Ranges.                                                                 *)

LEMMA OwnFacts ==
    ASSUME PortsAssumption, NCpu < Ranges, NEW c \in Cpu
    PROVE  /\ c * PORTS_PER_CPU \in Nat /\ First(c) \in Nat /\ Beyond(c) \in Nat
           /\ Wrap \in Nat /\ Beyond(c) = c * PORTS_PER_CPU + PORTS_PER_CPU
           /\ First(c) < Beyond(c) /\ Beyond(c) + 1 < Wrap
<1>1. c \in Nat /\ c + 2 <= Ranges /\ PORTS_PER_CPU \in Nat /\ PORTS_PER_CPU >= 2
      /\ Ranges \in Nat
  BY SMTT(30) DEF PortsAssumption, Cpu
<1>2. c * PORTS_PER_CPU \in Nat /\ Ranges * PORTS_PER_CPU \in Nat
      /\ (c + 1) * PORTS_PER_CPU = c * PORTS_PER_CPU + PORTS_PER_CPU
      /\ (c + 2) * PORTS_PER_CPU = c * PORTS_PER_CPU + PORTS_PER_CPU + PORTS_PER_CPU
  BY <1>1, SMTT(30)
<1>3. (c + 2) * PORTS_PER_CPU <= Ranges * PORTS_PER_CPU
  BY <1>1, SMTT(30)
<1>4. QED
  BY <1>1, <1>2, <1>3, SMTT(30) DEF First, Beyond, Wrap

LEMMA OwnApart ==
    ASSUME PortsAssumption, NEW c \in Cpu, NEW d \in Cpu, c # d
    PROVE  Own(c) \cap Own(d) = {}
<1>1. c \in Nat /\ d \in Nat /\ PORTS_PER_CPU \in Nat
  BY SMTT(30) DEF PortsAssumption, Cpu
<1>2. ASSUME NEW a \in Nat, NEW b \in Nat, a < b PROVE Beyond(a) < First(b)
  <2>1. (a + 1) * PORTS_PER_CPU <= b * PORTS_PER_CPU
    BY <1>1, <1>2, SMTT(30)
  <2>2. (a + 1) * PORTS_PER_CPU \in Nat /\ b * PORTS_PER_CPU \in Nat
    BY <1>1, SMTT(30)
  <2>3. QED
    BY <2>1, <2>2, SMTT(30) DEF Beyond, First
<1>3. \A a \in Nat : First(a) \in Nat /\ Beyond(a) \in Nat
  BY <1>1, SMTT(30) DEF First, Beyond
<1>4. c < d \/ d < c
  BY <1>1, SMTT(30)
<1>5. QED
  BY <1>1, <1>2, <1>3, <1>4, SMTT(30) DEF Own

\* A turn of the loop stays among the CPU's own ports.
LEMMA TurnStays ==
    ASSUME PortsAssumption, NCpu < Ranges, NEW c \in Cpu, NEW lp \in Own(c)
    PROVE  /\ Again(c, lp) \in First(c) .. (Beyond(c) - 1)
           /\ U16(Again(c, lp) + 1) \in Own(c)
<1>1. /\ c * PORTS_PER_CPU \in Nat /\ First(c) \in Nat /\ Beyond(c) \in Nat
      /\ Wrap \in Nat /\ First(c) < Beyond(c) /\ Beyond(c) + 1 < Wrap
      /\ First(c) = c * PORTS_PER_CPU + 1 /\ Beyond(c) = (c + 1) * PORTS_PER_CPU
  BY OwnFacts DEF First, Beyond
<1>2. \A n \in Nat : n < Wrap => U16(n) = n
  BY <1>1, SMTT(30) DEF U16
<1>3. U16(First(c)) = First(c) /\ U16(c * PORTS_PER_CPU + 1) = First(c)
  BY <1>1, <1>2, SMTT(30)
<1>4. lp \in Nat /\ First(c) <= lp /\ lp <= Beyond(c)
  BY <1>1, SMTT(30) DEF Own
<1>5. Again(c, lp) = IF lp >= Beyond(c) THEN First(c) ELSE lp
  BY <1>1, <1>3 DEF Again
<1>6. Again(c, lp) \in First(c) .. (Beyond(c) - 1)
  BY <1>1, <1>4, <1>5, SMTT(30)
<1>7. Again(c, lp) + 1 \in Nat /\ Again(c, lp) + 1 < Wrap
      /\ First(c) <= Again(c, lp) + 1 /\ Again(c, lp) + 1 <= Beyond(c)
  BY <1>1, <1>6, SMTT(30)
<1>8. QED
  BY <1>1, <1>2, <1>6, <1>7, SMTT(30) DEF Own

LEMMA CountedStays ==
    ASSUME PortsAssumption, NCpu < Ranges, NEW c \in Cpu,
           local_port[c] \in {0} \cup First(c) .. (Beyond(c) - 1)
    PROVE  Counted(c) \in Own(c)
<1>1. /\ c * PORTS_PER_CPU \in Nat /\ First(c) \in Nat /\ Beyond(c) \in Nat
      /\ Wrap \in Nat /\ First(c) < Beyond(c) /\ Beyond(c) + 1 < Wrap
      /\ First(c) = c * PORTS_PER_CPU + 1
  BY OwnFacts DEF First
<1>2. \A n \in Nat : n < Wrap => U16(n) = n
  BY <1>1, SMTT(30) DEF U16
<1>3. U16(c * PORTS_PER_CPU) = c * PORTS_PER_CPU
  BY <1>1, <1>2, SMTT(30)
<1>4. CASE local_port[c] = 0
  BY <1>1, <1>2, <1>3, <1>4, SMTT(30) DEF Counted, Own
<1>5. CASE local_port[c] \in First(c) .. (Beyond(c) - 1)
  <2>1. local_port[c] # 0 /\ local_port[c] + 1 \in Nat /\ local_port[c] + 1 < Wrap
        /\ First(c) <= local_port[c] + 1 /\ local_port[c] + 1 <= Beyond(c)
    BY <1>1, <1>5, SMTT(30)
  <2>2. Counted(c) = local_port[c] + 1
    BY <1>2, <2>1 DEF Counted
  <2>3. QED
    BY <1>1, <2>1, <2>2, SMTT(30) DEF Own
<1>6. QED
  BY <1>4, <1>5

----------------------------------------------------------------------------
(* The ports the loop tries.                                               *)

\* f lists the ports of the first n turns.
Turn(c, f, k) == IF k = 0 THEN Counted(c) ELSE U16(Again(c, f[k - 1]) + 1)
Turns(c, f, n) == f = [k \in 0..n |-> Turn(c, f, k)]

\* A nonempty set of naturals has a least element.
LEMMA LeastOf ==
    ASSUME NEW S \in SUBSET Nat, S # {}
    PROVE  \E m \in S : \A k \in S : m <= k
<1> DEFINE R == OpToRel(<, Nat)
<1>1. IsWellFoundedOn(R, Nat)
  BY NatLessThanWellFounded
<1>2. \A m, k \in Nat : k < m => <<k, m>> \in R
  BY DEF OpToRel
<1> HIDE DEF R
<1>3. PICK m \in S : \A k \in S : ~ (<<k, m>> \in R)
  BY <1>1, WFMin
<1>4. ASSUME NEW k \in S PROVE m <= k
  <2>1. m \in Nat /\ k \in Nat
    OBVIOUS
  <2>2. ~ (k < m)
    BY <1>2, <1>3, <2>1
  <2>3. QED
    BY <2>1, <2>2, SMTT(30)
<1>5. QED
  BY <1>4

LEMMA TurnsExist ==
    ASSUME NEW c, NEW n \in Nat
    PROVE  \E f : Turns(c, f, n)
<1> DEFINE Bad == {m \in Nat : ~ \E f : Turns(c, f, m)}
<1>1. SUFFICES ASSUME Bad # {} PROVE FALSE
  OBVIOUS
<1>2. PICK m \in Bad : \A k \in Bad : m <= k
  BY <1>1, LeastOf
<1>3. m # 0
  <2> DEFINE f == [k \in 0..0 |-> Counted(c)]
  <2>1. Turns(c, f, 0)
    BY SMTT(30) DEF Turns, Turn
  <2>2. QED
    BY <2>1
<1>4. m - 1 \in Nat /\ m - 1 \notin Bad
  BY <1>2, <1>3, SMTT(30)
<1>5. PICK f : Turns(c, f, m - 1)
  BY <1>4
<1> DEFINE g == [k \in 0..m |-> IF k = m THEN U16(Again(c, f[m - 1]) + 1) ELSE f[k]]
<1>6. ASSUME NEW k \in 0..m PROVE g[k] = Turn(c, g, k)
  <2>1. CASE k = m
    <3>1. m - 1 \in 0..m /\ m - 1 # m
      BY <1>3, SMTT(30)
    <3>2. g[m - 1] = f[m - 1]
      BY <3>1
    <3>3. QED
      BY <2>1, <1>3, <3>2 DEF Turn
  <2>2. CASE k # m
    <3>1. k \in 0..(m - 1)
      BY <2>2, SMTT(30)
    <3>2. f[k] = Turn(c, f, k)
      BY <3>1, <1>5 DEF Turns
    <3>3. k # 0 => k - 1 \in 0..m /\ k - 1 # m
      BY <3>1, SMTT(30)
    <3>4. k # 0 => g[k - 1] = f[k - 1]
      BY <3>3
    <3>5. g[k] = f[k]
      BY <2>2
    <3>6. QED
      BY <3>2, <3>4, <3>5 DEF Turn
  <2>3. QED
    BY <2>1, <2>2
<1>7. Turns(c, g, m)
  <2> HIDE DEF g
  <2>1. g = [k \in 0..m |-> g[k]]
    BY DEF g
  <2>2. QED
    BY <2>1, <1>6 DEF Turns
<1>8. QED
  BY <1>2, <1>7

\* What holds of the first port and is kept by a turn holds of every port.
LEMMA TurnsStay ==
    ASSUME NEW c, NEW S, Counted(c) \in S, \A lp \in S : U16(Again(c, lp) + 1) \in S,
           NEW n \in Nat, NEW f, Turns(c, f, n), NEW k \in 0..n
    PROVE  f[k] \in S
<1> DEFINE Bad == {j \in 0..n : f[j] \notin S}
<1>1. SUFFICES ASSUME Bad # {} PROVE FALSE
  OBVIOUS
<1>2. Bad \in SUBSET Nat
  BY SMTT(30)
<1>3. PICK m \in Bad : \A j \in Bad : m <= j
  BY <1>1, <1>2, LeastOf
<1>4. m \in 0..n /\ f[m] = Turn(c, f, m)
  BY DEF Turns
<1>5. m # 0
  BY <1>4, <1>3 DEF Turn
<1>6. m - 1 \in 0..n /\ m - 1 \notin Bad
  BY <1>3, <1>4, <1>5, SMTT(30)
<1>7. f[m - 1] \in S
  BY <1>6
<1>8. U16(Again(c, f[m - 1]) + 1) \in S
  BY <1>7
<1>9. QED
  BY <1>3, <1>4, <1>5, <1>8 DEF Turn

\* get_port_with_rss returns such a port, or none at all.
LEMMA RssStays ==
    ASSUME PortsAssumption, NEW c, NEW S, Counted(c) \in S,
           \A lp \in S : U16(Again(c, lp) + 1) \in S, NEW g \in WithRss(c)
    PROVE  \/ g.port \in S /\ g.next = Again(c, g.port)
           \/ g.port = NULL /\ g.next = Counted(c)
<1> DEFINE n == 2 * PORTS_PER_CPU
           W == CHOOSE f : f = [k \in 0..n |-> Turn(c, f, k)]
<1>1. n \in Nat
  BY SMTT(30) DEF PortsAssumption
<1>2. \E f : f = [k \in 0..n |-> Turn(c, f, k)]
  <2> HIDE DEF n
  <2>1. QED
    BY <1>1, TurnsExist DEF Turns
<1>3. Turns(c, W, n)
  <2> HIDE DEF n
  <2>1. QED
    BY <1>2 DEF Turns
<1>4. DOMAIN W = 0..n
  <2> HIDE DEF W, n
  <2>1. QED
    BY <1>3 DEF Turns
<1>5. WithRss(c) = {[port |-> W[k], next |-> Again(c, W[k])] : k \in DOMAIN W}
                     \cup {[port |-> NULL, next |-> Counted(c)]}
  BY DEF WithRss, Turn
<1>6. CASE g = [port |-> NULL, next |-> Counted(c)]
  BY <1>6
<1>7. CASE g \in {[port |-> W[k], next |-> Again(c, W[k])] : k \in DOMAIN W}
  <2> HIDE DEF W, n
  <2>1. PICK k \in 0..n : g = [port |-> W[k], next |-> Again(c, W[k])]
    BY <1>7, <1>4
  <2>2. W[k] \in S
    BY <1>1, <1>3, TurnsStay
  <2>3. QED
    BY <2>1, <2>2
<1>8. QED
  <2> HIDE DEF W, n
  <2>1. QED
    BY <1>5, <1>6, <1>7

----------------------------------------------------------------------------
(* The inductive invariant.                                                *)

Api == [used : BOOLEAN, id : Obj \cup {NULL}, port : Nat]

PortsType ==
    /\ api \in [Cpu -> [Obj -> Api]] /\ ids \in [Cpu -> SUBSET Obj]
    /\ local_port \in [Cpu -> Nat]

\* Every port in use is of its CPU's range, and so is the counter, short of the
\* end, for the next call.
PortsOwned ==
    ("left" \notin faults /\ NCpu < Ranges) =>
        /\ "zero" \notin faults
        /\ \A c \in Cpu :
              /\ \A o \in Obj : api[c][o].used => api[c][o].port \in {0} \cup Own(c)
              /\ Running => local_port[c] \in {0} \cup First(c) .. (Beyond(c) - 1)

\* The tuples of the connections of a CPU are those not free, one each.
IdsExact ==
    "stale" \notin faults =>
        /\ "twice" \notin faults
        /\ \A c \in Cpu :
              /\ \A o \in Obj : api[c][o].used => api[c][o].id \notin ids[c]
              /\ \A o, x \in Obj :
                    api[c][o].used /\ api[c][x].used /\ o # x
                      => api[c][o].id = NULL \/ api[c][o].id # api[c][x].id
              /\ \A i \in Obj \ ids[c] : \E o \in Obj : api[c][o].used /\ api[c][o].id = i

PortsInv == PortsType /\ PortsOwned /\ IdsExact

LEMMA InitPorts ==
    ASSUME PortsAssumption, Init
    PROVE  PortsInv
BY DEF PortsAssumption, Init, PortsInv, PortsType, PortsOwned, IdsExact, Api, NoApi, Obj

\* The connections of a step are those there were and one of c from this port.
Takes(c, port) ==
    \A d \in Cpu, o \in Obj : api'[d][o].used =>
        \/ api[d][o].used /\ api'[d][o].port = api[d][o].port
        \/ d = c /\ api'[d][o].port = port

\* The port and the counter are in the range of c.
Fits(c, port, next) ==
    NCpu < Ranges => /\ port \in {0} \cup Own(c)
                     /\ next \in {0} \cup First(c) .. (Beyond(c) - 1)

LEMMA ConnectedKeeps ==
    ASSUME PortsAssumption, PortsInv, Running, NEW c \in Cpu, NEW port \in Nat,
           Connected(c, port), UNCHANGED ids
    PROVE  /\ api' \in [Cpu -> [Obj -> Api]]
           /\ IdsExact'
           /\ faults' \subseteq {"stale"}
           /\ Takes(c, port)
<1>1. CASE UNCHANGED <<api, faults>>
  BY <1>1, SMTT(30) DEF PortsInv, PortsType, IdsExact, Running, Takes
<1>2. CASE \E o \in Obj :
            /\ ~api[c][o].used
            /\ api' = [api EXCEPT ![c][o].used = TRUE, ![c][o].port = port]
            /\ faults' = faults \cup (IF api[c][o].id = NULL THEN {} ELSE {"stale"})
  <2>1. PICK o \in Obj :
            /\ ~api[c][o].used
            /\ api' = [api EXCEPT ![c][o].used = TRUE, ![c][o].port = port]
            /\ faults' = faults \cup (IF api[c][o].id = NULL THEN {} ELSE {"stale"})
    BY <1>2
  <2>2. api \in [Cpu -> [Obj -> Api]] /\ ids \in [Cpu -> SUBSET Obj]
    BY DEF PortsInv, PortsType
  <2>3. /\ api' \in [Cpu -> [Obj -> Api]]
        /\ api'[c][o].used /\ api'[c][o].port = port /\ api'[c][o].id = api[c][o].id
        /\ \A d \in Cpu, x \in Obj : d # c \/ x # o => api'[d][x] = api[d][x]
    <3> DEFINE e == [api[c][o] EXCEPT !.used = TRUE, !.port = port]
    <3>1. api[c] \in [Obj -> Api] /\ api[c][o] \in Api
      BY <2>2
    <3>2. e \in Api /\ e.used /\ e.port = port /\ e.id = api[c][o].id
      BY <3>1 DEF Api
    <3>3. api' = [api EXCEPT ![c] = [api[c] EXCEPT ![o] = e]]
      BY <2>1, <2>2, <3>1
    <3> HIDE DEF e
    <3>4. api'[c] = [api[c] EXCEPT ![o] = e] /\ api'[c][o] = e
      BY <2>2, <3>1, <3>3
    <3>5. QED
      BY <2>2, <3>1, <3>2, <3>3, <3>4
  <2>4. ASSUME "stale" \notin faults' PROVE IdsExact'
    <3>1. "stale" \notin faults /\ faults' = faults /\ api[c][o].id = NULL
      BY <2>1, <2>4
    <3>2. NULL \notin Obj
      BY SMTT(30) DEF PortsAssumption, Obj
    <3>3. api'[c][o].id = NULL /\ NULL \notin ids[c]
      BY <2>2, <2>3, <3>1, <3>2
    <3>4. \A d \in Cpu : \A x \in Obj : api'[d][x].used => api'[d][x].id \notin ids'[d]
      BY <2>3, <3>1, <3>3, SMTT(30) DEF PortsInv, IdsExact
    <3>5. \A d \in Cpu : \A x, y \in Obj :
              api'[d][x].used /\ api'[d][y].used /\ x # y
                => api'[d][x].id = NULL \/ api'[d][x].id # api'[d][y].id
      BY <2>3, <3>1, <3>3, SMTT(30) DEF PortsInv, IdsExact
    <3>6. \A d \in Cpu : \A i \in Obj \ ids'[d] :
              \E x \in Obj : api'[d][x].used /\ api'[d][x].id = i
      BY <2>1, <2>3, <3>1, <3>2, <3>3, SMTT(30) DEF PortsInv, IdsExact
    <3>7. QED
      BY <3>1, <3>4, <3>5, <3>6 DEF PortsInv, IdsExact
  <2>5. IdsExact'
    BY <2>4 DEF IdsExact
  <2>6. faults' \subseteq {"stale"}
    BY <2>1 DEF Running
  <2>7. Takes(c, port)
    BY <2>3 DEF Takes
  <2>8. QED
    BY <2>3, <2>5, <2>6, <2>7
<1>3. QED
  BY <1>1, <1>2 DEF Connected

----------------------------------------------------------------------------
(* One lemma per operation.                                                *)

\* A port taken from the range of the CPU leaves the ranges apart.
LEMMA OwnedAfter ==
    ASSUME PortsAssumption, PortsInv, Running, NEW c \in Cpu, NEW port,
           NEW next \in Nat, local_port' = [local_port EXCEPT ![c] = next],
           faults' \subseteq {"stale"},
           Takes(c, port), Fits(c, port, next)
    PROVE  PortsOwned'
<1>1. SUFFICES ASSUME NCpu < Ranges
               PROVE  \A d \in Cpu :
                  /\ \A o \in Obj : api'[d][o].used => api'[d][o].port \in {0} \cup Own(d)
                  /\ local_port'[d] \in {0} \cup First(d) .. (Beyond(d) - 1)
  BY DEF PortsOwned
<1>2. "left" \notin faults
  BY DEF Running
<1>3. \A d \in Cpu : \A o \in Obj : api[d][o].used => api[d][o].port \in {0} \cup Own(d)
  BY <1>1, <1>2 DEF PortsInv, PortsOwned
<1>4. \A d \in Cpu : local_port[d] \in {0} \cup First(d) .. (Beyond(d) - 1)
  BY <1>1, <1>2 DEF PortsInv, PortsOwned
<1>5. \A d \in Cpu : local_port'[d] = IF d = c THEN next ELSE local_port[d]
  BY DEF PortsInv, PortsType
<1>6. QED
  BY <1>1, <1>3, <1>4, <1>5 DEF Takes, Fits

\* The ports the loop tries are 16 bits wide, and the CPU's own.
LEMMA RssPort ==
    ASSUME PortsAssumption, NEW c \in Cpu, local_port[c] \in Nat, NEW g \in WithRss(c)
    PROVE  /\ g.next \in Nat
           /\ g.port = NULL \/ g.port \in Nat
           /\ \/ NCpu >= Ranges
              \/ local_port[c] \notin {0} \cup First(c) .. (Beyond(c) - 1)
              \/ g.port = NULL
              \/ g.port \in Own(c) /\ g.next \in First(c) .. (Beyond(c) - 1)
<1>1. Wrap \in Nat \ {0} /\ PORTS_PER_CPU \in Nat /\ c \in Nat
      /\ NCpu \in Nat /\ Ranges \in Nat
  BY SMTT(30) DEF PortsAssumption, Wrap, Cpu
<1>2. \A n \in Nat : U16(n) \in Nat
  BY <1>1, SMTT(30) DEF U16
<1>3. c * PORTS_PER_CPU \in Nat /\ c * PORTS_PER_CPU + 1 \in Nat
  BY <1>1, SMTT(30)
<1>4. Counted(c) \in Nat
  BY <1>2, <1>3, SMTT(30) DEF Counted
<1>5. \A lp \in Nat : Again(c, lp) \in Nat /\ U16(Again(c, lp) + 1) \in Nat
  BY <1>2, <1>3, SMTT(30) DEF Again
<1>6. \/ g.port \in Nat /\ g.next = Again(c, g.port)
      \/ g.port = NULL /\ g.next = Counted(c)
  BY <1>4, <1>5, RssStays
<1>7. ASSUME NCpu < Ranges, local_port[c] \in {0} \cup First(c) .. (Beyond(c) - 1)
      PROVE  \/ g.port = NULL
             \/ g.port \in Own(c) /\ g.next \in First(c) .. (Beyond(c) - 1)
  <2>1. Counted(c) \in Own(c)
    BY <1>7, CountedStays
  <2>2. \A lp \in Own(c) : /\ Again(c, lp) \in First(c) .. (Beyond(c) - 1)
                           /\ U16(Again(c, lp) + 1) \in Own(c)
    BY <1>7, TurnStays
  <2>3. \/ g.port \in Own(c) /\ g.next = Again(c, g.port)
        \/ g.port = NULL
    BY <2>1, <2>2, RssStays
  <2>4. QED
    BY <2>2, <2>3
<1>8. NCpu < Ranges \/ NCpu >= Ranges
  BY <1>1, SMTT(30)
<1>9. QED
  BY <1>4, <1>5, <1>6, <1>7, <1>8

LEMMA ConnectKeeps ==
    ASSUME PortsAssumption, PortsInv, Running, NEW c \in Cpu, bsys_tcp_connect(c)
    PROVE  PortsInv'
<1>1. PortsType /\ PortsOwned /\ IdsExact /\ ids' = ids /\ "left" \notin faults
  BY DEF PortsInv, bsys_tcp_connect, Running
<1>2. NCpu < Ranges => local_port[c] \in {0} \cup First(c) .. (Beyond(c) - 1)
  BY <1>1 DEF PortsOwned
<1>3. local_port[c] \in Nat /\ NULL # 0 /\ NCpu \in Nat /\ Ranges \in Nat
  BY <1>1, SMTT(30) DEF PortsType, PortsAssumption
<1>4. ASSUME NEW g \in WithRss(c), local_port' = [local_port EXCEPT ![c] = g.next],
             g.port \in {0, NULL},
             faults' = faults \cup {IF g.port = 0 THEN "zero" ELSE "spins"},
             UNCHANGED api
      PROVE  PortsInv'
  <2>1. g.next \in Nat
    BY <1>3, RssPort
  <2>2. NCpu < Ranges => g.port # 0
    <3>1. SUFFICES ASSUME NCpu < Ranges, g.port = 0 PROVE FALSE
      OBVIOUS
    <3>2. 0 \in Own(c)
      BY <1>2, <1>3, <3>1, RssPort, SMTT(30)
    <3>3. First(c) \in Nat /\ First(c) > 0
      BY <3>1, OwnFacts, SMTT(30) DEF First
    <3>4. QED
      BY <3>1, <3>2, <3>3, OwnFacts, SMTT(30) DEF Own
  <2>3. PortsType'
    BY <1>1, <1>4, <2>1 DEF PortsType
  <2>4. PortsOwned'
    <3>1. ~ Running'
      BY <1>4 DEF Running
    <3>2. NCpu < Ranges => faults' = faults \cup {"spins"}
      BY <1>4, <2>2
    <3>3. QED
      BY <1>1, <1>4, <3>1, <3>2 DEF PortsOwned
  <2>5. IdsExact'
    BY <1>1, <1>4, SMTT(30) DEF IdsExact
  <2>6. QED
    BY <2>3, <2>4, <2>5 DEF PortsInv
<1>5. ASSUME NEW g \in WithRss(c), local_port' = [local_port EXCEPT ![c] = g.next],
             g.port \notin {0, NULL}, Connected(c, g.port)
      PROVE  PortsInv'
  <2>1. g.next \in Nat /\ g.port \in Nat
    BY <1>3, <1>5, RssPort
  <2>2. Fits(c, g.port, g.next)
    BY <1>2, <1>3, <1>5, RssPort, SMTT(30) DEF Fits
  <2>3. /\ api' \in [Cpu -> [Obj -> Api]] /\ IdsExact' /\ faults' \subseteq {"stale"}
        /\ Takes(c, g.port)
    BY <1>1, <1>5, <2>1, ConnectedKeeps
  <2>4. PortsOwned'
    BY <1>5, <2>1, <2>2, <2>3, OwnedAfter
  <2>5. PortsType'
    BY <1>1, <1>5, <2>1, <2>3 DEF PortsType
  <2>6. QED
    BY <2>3, <2>4, <2>5 DEF PortsInv
<1>6. Counted(c) \in Nat
  <2>1. Wrap \in Nat \ {0} /\ c * PORTS_PER_CPU \in Nat
    BY SMTT(30) DEF PortsAssumption, Wrap, Cpu
  <2>2. \A n \in Nat : U16(n) \in Nat
    BY <2>1, SMTT(30) DEF U16
  <2>3. QED
    BY <1>3, <2>1, <2>2, SMTT(30) DEF Counted
<1>7. ASSUME local_port' = [local_port EXCEPT ![c] = Counted(c)],
             InRange(c, Counted(c)), Connected(c, Counted(c))
      PROVE  PortsInv'
  <2>1. Fits(c, Counted(c), Counted(c))
    BY <1>2, <1>6, <1>7, CountedStays, OwnFacts, SMTT(30) DEF Fits, InRange, Own, Beyond
  <2>2. /\ api' \in [Cpu -> [Obj -> Api]] /\ IdsExact' /\ faults' \subseteq {"stale"}
        /\ Takes(c, Counted(c))
    BY <1>1, <1>6, <1>7, ConnectedKeeps
  <2>3. PortsOwned'
    BY <1>6, <1>7, <2>1, <2>2, OwnedAfter
  <2>4. PortsType'
    BY <1>1, <1>6, <1>7, <2>2 DEF PortsType
  <2>5. QED
    BY <2>2, <2>3, <2>4 DEF PortsInv
<1>8. ASSUME local_port' = [local_port EXCEPT ![c] = Counted(c)],
             faults' = faults \cup {"left"}, UNCHANGED api
      PROVE  PortsInv'
  <2>1. PortsType'
    BY <1>1, <1>6, <1>8 DEF PortsType
  <2>2. PortsOwned' /\ IdsExact'
    BY <1>1, <1>8, SMTT(30) DEF PortsOwned, IdsExact
  <2>3. QED
    BY <2>1, <2>2 DEF PortsInv
<1>9. QED
  BY <1>4, <1>5, <1>7, <1>8 DEF bsys_tcp_connect, WithFdir

LEMMA AcceptedKeeps ==
    ASSUME PortsAssumption, PortsInv, Running, NEW c \in Cpu, on_accept(c)
    PROVE  PortsInv'
<1>1. PortsType /\ PortsOwned /\ IdsExact
  BY DEF PortsInv
<1>2. PICK o \in Obj, i \in ids[c] :
        /\ ~api[c][o].used
        /\ api' = [api EXCEPT ![c][o] = [used |-> TRUE, id |-> i, port |-> 0]]
        /\ ids' = [ids EXCEPT ![c] = @ \ {i}]
        /\ UNCHANGED <<local_port, faults>>
  BY DEF on_accept
<1> DEFINE e == [used |-> TRUE, id |-> i, port |-> 0]
<1>3. api \in [Cpu -> [Obj -> Api]] /\ ids \in [Cpu -> SUBSET Obj] /\ i \in Obj
  BY <1>1 DEF PortsType
<1>4. e \in Api /\ e.used /\ e.id = i /\ e.port = 0
  BY <1>3 DEF Api
<1>5. api' = [api EXCEPT ![c] = [api[c] EXCEPT ![o] = e]]
  BY <1>2
<1> HIDE DEF e
<1>6. /\ api' \in [Cpu -> [Obj -> Api]] /\ api'[c][o] = e
      /\ \A d \in Cpu, x \in Obj : d # c \/ x # o => api'[d][x] = api[d][x]
  BY <1>3, <1>4, <1>5
<1>7. ids' \in [Cpu -> SUBSET Obj] /\ ids'[c] = ids[c] \ {i}
      /\ \A d \in Cpu : d # c => ids'[d] = ids[d]
  BY <1>2, <1>3
<1>8. PortsType'
  BY <1>1, <1>2, <1>6, <1>7 DEF PortsType
<1>9. PortsOwned'
  <2>1. \A d \in Cpu, x \in Obj : api'[d][x].used =>
            api'[d][x].port = 0 \/ (api[d][x].used /\ api'[d][x].port = api[d][x].port)
    BY <1>4, <1>6
  <2>2. QED
    BY <1>1, <1>2, <2>1, SMTT(30) DEF PortsOwned, Running
<1>10. IdsExact'
  <2>1. SUFFICES ASSUME "stale" \notin faults PROVE IdsExact'
    BY <1>2 DEF IdsExact
  <2>2. NULL \notin Obj
    BY SMTT(30) DEF PortsAssumption, Obj
  <2>3. /\ "twice" \notin faults
        /\ \A d \in Cpu : \A x \in Obj : api[d][x].used => api[d][x].id \notin ids[d]
        /\ \A d \in Cpu : \A x, y \in Obj : api[d][x].used /\ api[d][y].used /\ x # y
              => api[d][x].id = NULL \/ api[d][x].id # api[d][y].id
        /\ \A d \in Cpu : \A j \in Obj \ ids[d] :
              \E x \in Obj : api[d][x].used /\ api[d][x].id = j
    BY <1>1, <2>1 DEF IdsExact
  <2>4. \A d \in Cpu : \A x \in Obj : api'[d][x].used => api'[d][x].id \notin ids'[d]
    BY <1>4, <1>6, <1>7, <2>3, SMTT(30)
  <2>5. \A d \in Cpu : \A x, y \in Obj : api'[d][x].used /\ api'[d][y].used /\ x # y
              => api'[d][x].id = NULL \/ api'[d][x].id # api'[d][y].id
    BY <1>4, <1>6, <2>3, SMTT(30)
  <2>6. \A d \in Cpu : \A j \in Obj \ ids'[d] :
              \E x \in Obj : api'[d][x].used /\ api'[d][x].id = j
    BY <1>2, <1>4, <1>6, <1>7, <2>3, SMTT(30)
  <2>7. QED
    BY <1>2, <2>3, <2>4, <2>5, <2>6, SMTT(30) DEF IdsExact
<1>11. QED
  BY <1>8, <1>9, <1>10 DEF PortsInv

\* Accepting and closing give the tuple back and leave the object without it,
\* or out of use.
LEMMA GivenBack ==
    ASSUME PortsAssumption, PortsInv, Running, NEW c \in Cpu, NEW o \in Obj,
           api[c][o].used, FreeId(c, o), NEW e \in Api, e.used => e.id = NULL,
           e.port \in {0, api[c][o].port}, UNCHANGED local_port,
           api' = [api EXCEPT ![c] = [api[c] EXCEPT ![o] = e]]
    PROVE  PortsInv'
<1> DEFINE i == api[c][o].id
<1>1. PortsType /\ PortsOwned /\ IdsExact
  BY DEF PortsInv
<1>2. api \in [Cpu -> [Obj -> Api]] /\ ids \in [Cpu -> SUBSET Obj]
      /\ NULL \notin Obj /\ i \in Obj \cup {NULL}
  BY <1>1, SMTT(30) DEF PortsType, PortsAssumption, Obj, Api
<1>3. /\ api' \in [Cpu -> [Obj -> Api]] /\ api'[c][o] = e
      /\ \A d \in Cpu, x \in Obj : d # c \/ x # o => api'[d][x] = api[d][x]
  BY <1>2
<1>4. /\ ids' = [ids EXCEPT ![c] = IF i = NULL THEN ids[c] ELSE ids[c] \cup {i}]
      /\ faults' = IF i # NULL /\ NotIts(c, o, i) THEN faults \cup {"twice"} ELSE faults
  BY DEF FreeId
<1>5. ids' \in [Cpu -> SUBSET Obj] /\ (\A d \in Cpu : d # c => ids'[d] = ids[d])
      /\ ids'[c] = IF i = NULL THEN ids[c] ELSE ids[c] \cup {i}
  BY <1>2, <1>4, SMTT(30)
<1>6. PortsType'
  BY <1>1, <1>3, <1>5 DEF PortsType
<1>7. PortsOwned'
  <2>1. \A d \in Cpu, x \in Obj : api'[d][x].used =>
            api'[d][x].port = 0 \/ (api[d][x].used /\ api'[d][x].port = api[d][x].port)
    BY <1>3, SMTT(30)
  <2>2. faults \subseteq faults' /\ ("zero" \in faults' => "zero" \in faults)
    BY <1>4
  <2>3. Running' => Running
    BY <2>2 DEF Running
  <2>4. QED
    BY <1>1, <2>1, <2>2, <2>3 DEF PortsOwned
<1>8. IdsExact'
  <2>1. SUFFICES ASSUME "stale" \notin faults PROVE IdsExact'
    BY <1>4 DEF IdsExact
  <2>2. /\ "twice" \notin faults
        /\ \A d \in Cpu : \A x \in Obj : api[d][x].used => api[d][x].id \notin ids[d]
        /\ \A d \in Cpu : \A x, y \in Obj : api[d][x].used /\ api[d][y].used /\ x # y
              => api[d][x].id = NULL \/ api[d][x].id # api[d][y].id
        /\ \A d \in Cpu : \A j \in Obj \ ids[d] :
              \E x \in Obj : api[d][x].used /\ api[d][x].id = j
    BY <1>1, <2>1 DEF IdsExact
  <2>3. i # NULL => ~ NotIts(c, o, i)
    BY <2>2 DEF NotIts
  <2>4. faults' = faults
    BY <1>4, <2>3
  <2> HIDE DEF i
  <2>5. \A x \in Obj \ {o} : api[c][x].used => api[c][x].id # i \/ i = NULL
    BY <2>2, SMTT(30) DEF i
  <2>6. \A d \in Cpu : \A x \in Obj : api'[d][x].used => api'[d][x].id \notin ids'[d]
    BY <1>2, <1>3, <1>5, <2>2, <2>5, SMTT(30)
  <2>7. \A d \in Cpu : \A x, y \in Obj : api'[d][x].used /\ api'[d][y].used /\ x # y
              => api'[d][x].id = NULL \/ api'[d][x].id # api'[d][y].id
    BY <1>3, <2>2, SMTT(30)
  <2>8. ASSUME NEW d \in Cpu, NEW j \in Obj \ ids'[d]
        PROVE  \E x \in Obj : api'[d][x].used /\ api'[d][x].id = j
    <3>1. j \in Obj \ ids[d] /\ (d = c => j # i)
      BY <1>2, <1>5
    <3>2. PICK x \in Obj : api[d][x].used /\ api[d][x].id = j
      BY <2>2, <3>1, SMTT(30)
    <3>3. d # c \/ x # o
      BY <3>1, <3>2 DEF i
    <3>4. QED
      BY <1>3, <3>2, <3>3, SMTT(30)
  <2>9. QED
    BY <2>2, <2>4, <2>6, <2>7, <2>8, SMTT(30) DEF IdsExact
<1>9. QED
  BY <1>6, <1>7, <1>8 DEF PortsInv

LEMMA AcceptAndCloseKeep ==
    ASSUME PortsAssumption, PortsInv, Running, NEW c \in Cpu, NEW o \in Obj,
           bsys_tcp_accept(c, o) \/ bsys_tcp_close(c, o)
    PROVE  PortsInv'
<1>1. api \in [Cpu -> [Obj -> Api]] /\ api[c] \in [Obj -> Api] /\ api[c][o] \in Api
  BY DEF PortsInv, PortsType
<1>2. CASE bsys_tcp_accept(c, o)
  <2> DEFINE e == [api[c][o] EXCEPT !.id = NULL]
  <2>1. e \in Api /\ (e.used => e.id = NULL) /\ e.port \in {0, api[c][o].port}
    BY <1>1 DEF Api
  <2>2. api' = [api EXCEPT ![c] = [api[c] EXCEPT ![o] = e]]
    BY <1>1, <1>2 DEF bsys_tcp_accept
  <2>3. api[c][o].used /\ FreeId(c, o) /\ UNCHANGED local_port
    BY <1>2 DEF bsys_tcp_accept
  <2> HIDE DEF e
  <2>4. QED
    BY <2>1, <2>2, <2>3, GivenBack
<1>3. CASE bsys_tcp_close(c, o)
  <2> DEFINE e == [api[c][o] EXCEPT !.used = FALSE, !.port = 0]
  <2>1. e \in Api /\ (e.used => e.id = NULL) /\ e.port \in {0, api[c][o].port}
    BY <1>1 DEF Api
  <2>2. api' = [api EXCEPT ![c] = [api[c] EXCEPT ![o] = e]]
    BY <1>1, <1>3 DEF bsys_tcp_close
  <2>3. api[c][o].used /\ FreeId(c, o) /\ UNCHANGED local_port
    BY <1>3 DEF bsys_tcp_close
  <2> HIDE DEF e
  <2>4. QED
    BY <2>1, <2>2, <2>3, GivenBack
<1>4. QED
  BY <1>2, <1>3

----------------------------------------------------------------------------
(* The properties.                                                         *)

LEMMA InvIsSafe ==
    ASSUME PortsAssumption, PortsInv
    PROVE  PortsSafe
<1>1. PortsApart
  <2>1. SUFFICES ASSUME "left" \notin faults, NCpu < Ranges PROVE PortsApart
    BY DEF PortsApart
  <2>2. \A c \in Cpu : Outbound(c) \subseteq Own(c)
    BY <2>1, SMTT(30) DEF PortsInv, PortsOwned, Outbound
  <2>3. \A c, d \in Cpu : c # d => Outbound(c) \cap Outbound(d) = {}
    BY <2>2, OwnApart
  <2>4. QED
    BY <2>1, <2>3 DEF PortsInv, PortsOwned, PortsApart
<1>2. TuplesHeldOnce
  <2>1. SUFFICES ASSUME "stale" \notin faults PROVE TuplesHeldOnce
    BY DEF TuplesHeldOnce
  <2>2. ASSUME NEW c \in Cpu, NEW i \in Obj
        PROVE  Cardinality({o \in Obj : api[c][o].used /\ api[c][o].id = i})
                 = (IF i \in ids[c] THEN 0 ELSE 1)
    <3> DEFINE H == {o \in Obj : api[c][o].used /\ api[c][o].id = i}
    <3>1. CASE i \in ids[c]
      <4>1. H = {}
        BY <2>1, <3>1, SMTT(30) DEF PortsInv, IdsExact
      <4>2. QED
        BY <3>1, <4>1, FS_EmptySet
    <3>2. CASE i \notin ids[c]
      <4>1. PICK o \in Obj : api[c][o].used /\ api[c][o].id = i
        BY <2>1, <3>2, SMTT(30) DEF PortsInv, IdsExact
      <4>2. i # NULL
        BY SMTT(30) DEF PortsAssumption, Obj
      <4>3. H = {o}
        BY <2>1, <4>1, <4>2, SMTT(30) DEF PortsInv, IdsExact
      <4>4. QED
        BY <3>2, <4>3, FS_Singleton
    <3>3. QED
      BY <3>1, <3>2
  <2>3. QED
    BY <2>1, <2>2 DEF PortsInv, IdsExact, TuplesHeldOnce
<1>3. QED
  BY <1>1, <1>2 DEF PortsSafe

\* However many CPUs connect, accept and close in whatever order, two of them
\* never connect from the same port while get_local_port_and_set_queue keeps to
\* the ranges, and an ip_tuple has one user until a connect takes over a
\* tcpapi_pcb that still points at one.
THEOREM PortsHaveOneUser ==
    ASSUME PortsAssumption
    PROVE  Spec => []PortsSafe
<1>1. Init => PortsInv
  BY InitPorts
<1>2. PortsInv /\ [Next]_vars => PortsInv'
  <2>1. SUFFICES ASSUME PortsInv, [Next]_vars PROVE PortsInv'
    OBVIOUS
  <2>2. CASE UNCHANGED vars
    BY <2>1, <2>2, SMTT(30) DEF PortsInv, PortsType, PortsOwned, IdsExact, Running, vars
  <2>3. CASE Next
    BY <2>1, <2>3, ConnectKeeps, AcceptedKeeps, AcceptAndCloseKeep DEF Next
  <2>4. QED
    BY <2>1, <2>2, <2>3
<1>3. PortsInv => PortsSafe
  BY InvIsSafe
<1>4. QED
  BY <1>1, <1>2, <1>3, PTL DEF Spec
=============================================================================
