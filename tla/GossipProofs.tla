---------------------------- MODULE GossipProofs ----------------------------
(***************************************************************************)
(* isPinging keeps every caller of pingMemberNow from having two pings in  *)
(* progress, and one rate interval runs while gossip does: for any number  *)
(* of starts, and of loops that stop() has left behind.                    *)
(***************************************************************************)
EXTENDS Gossip, FiniteSetTheorems, TLAPS

\* The pings in progress: some slots, each with its ping.
PingMaps == UNION {[S -> Ping] : S \in SUBSET PingSlots}

Loops ==
  [isStopped : BOOLEAN, held : BOOLEAN, stray : Nat, rate : {0, 1},
   isPinging : BOOLEAN, pings : PingMaps, periods : {0, 1}]

\* One rate interval while gossip runs, at most one ping, and none while the
\* flag is down.
IsLoop(g) ==
  /\ g \in Loops
  /\ g.rate = IF g.isStopped THEN 0 ELSE 1
  /\ \A p, q \in DOMAIN g.pings : p = q
  /\ DOMAIN g.pings # {} => g.isPinging

GInv ==
  /\ IsLoop(loop)
  /\ life \in {"new", "joining", "failed", "ready"}
  /\ left \in BOOLEAN
  /\ destroyed \in BOOLEAN
  /\ starts \in 0..MaxStarts

----------------------------------------------------------------------------
(* The functions of the loop *)

LEMMA PingMapFacts ==
  ASSUME NEW f \in PingMaps
  PROVE  DOMAIN f \subseteq PingSlots /\ \A p \in DOMAIN f : f[p] \in Ping
BY DEF PingMaps

LEMMA IsPingMap ==
  ASSUME NEW S \in SUBSET PingSlots, NEW f \in [S -> Ping]
  PROVE  f \in PingMaps
BY DEF PingMaps

LEMMA SlotsExist == PingSlots # {}
BY PingSlotsAssumption, FS_EmptySet

LEMMA RunIsLoop ==
  ASSUME NEW g, IsLoop(g)
  PROVE  IsLoop(Run(g)) /\ Run(g).isStopped = g.isStopped
<1> DEFINE stray == IF g.held THEN g.stray + 1 ELSE g.stray
           m == [g EXCEPT !.held = TRUE, !.stray = stray]
<1>1. g \in Loops /\ stray \in Nat
  BY DEF IsLoop, Loops
<1>2. Run(g) = m
  BY <1>1 DEF Run, Loops
<1> HIDE DEF stray
<1>3. /\ m \in Loops /\ m.rate = g.rate /\ m.isStopped = g.isStopped
      /\ m.pings = g.pings /\ m.isPinging = g.isPinging
  BY <1>1 DEF Loops
<1> QED BY <1>2, <1>3 DEF IsLoop

LEMMA StartIsLoop ==
  ASSUME NEW g, IsLoop(g)
  PROVE  IsLoop(Start(g))
<1> DEFINE r == Run(g)
           m == [r EXCEPT !.rate = 1, !.isStopped = FALSE]
<1>1. IsLoop(r) /\ r.isStopped = g.isStopped
  BY RunIsLoop
<1>2. Start(g) = IF g.isStopped THEN [r EXCEPT !.rate = @ + 1, !.isStopped = FALSE]
                               ELSE g
  BY DEF Start
<1> HIDE DEF r
<1>3. CASE g.isStopped
  <2>1. r \in Loops /\ r.rate = 0
    BY <1>1, <1>3 DEF IsLoop
  <2>2. /\ m \in Loops /\ m.rate = 1 /\ m.isStopped = FALSE
        /\ m.pings = r.pings /\ m.isPinging = r.isPinging
    BY <2>1 DEF Loops
  <2>3. /\ \A p, q \in DOMAIN r.pings : p = q
        /\ DOMAIN r.pings # {} => r.isPinging
    BY <1>1 DEF IsLoop
  <2> HIDE DEF m
  <2>4. m.rate = IF m.isStopped THEN 0 ELSE 1
    BY <2>2
  <2>5. IsLoop(m)
    BY <2>2, <2>3, <2>4 DEF IsLoop
  <2>6. Start(g) = m
    BY <1>2, <1>3, <2>1 DEF Loops, m
  <2> QED BY <2>5, <2>6
<1>4. CASE ~g.isStopped
  BY <1>2, <1>4
<1> QED BY <1>3, <1>4

LEMMA StopIsLoop ==
  ASSUME NEW g, IsLoop(g)
  PROVE  IsLoop(Stop(g))
<1>1. CASE g.isStopped
  BY <1>1 DEF Stop
<1>2. CASE ~g.isStopped
  <2> DEFINE m == [g EXCEPT !.held = FALSE, !.rate = 0, !.isStopped = TRUE]
  <2>1. g \in Loops /\ g.rate = 1
    BY <1>2 DEF IsLoop
  <2>2. /\ m \in Loops /\ m.rate = 0 /\ m.isStopped = TRUE
        /\ m.pings = g.pings /\ m.isPinging = g.isPinging
    BY <2>1 DEF Loops
  <2>3. Stop(g) = m
    BY <1>2, <2>1 DEF Stop, Loops
  <2>4. /\ \A p, q \in DOMAIN g.pings : p = q
        /\ DOMAIN g.pings # {} => g.isPinging
    BY DEF IsLoop
  <2> HIDE DEF m
  <2>5. m.rate = IF m.isStopped THEN 0 ELSE 1
    BY <2>2
  <2>6. IsLoop(m)
    BY <2>2, <2>4, <2>5 DEF IsLoop
  <2> QED BY <2>3, <2>6
<1> QED BY <1>1, <1>2

LEMMA CallbackIsLoop ==
  ASSUME NEW g, IsLoop(g), NEW owner
  PROVE  IsLoop(Callback(g, owner))
<1> DEFINE counted == [g EXCEPT !.periods = 1 - @]
<1>1. IsLoop(counted)
  BY DEF IsLoop, Loops
<1>2. Callback(g, owner) = IF owner = "tick" THEN g
                           ELSE IF g.isStopped THEN counted ELSE Run(counted)
  BY DEF Callback
<1> HIDE DEF counted
<1> QED BY <1>1, <1>2, RunIsLoop

LEMMA PingMemberNowIsLoop ==
  ASSUME NEW g, IsLoop(g), NEW owner \in {"loop", "tick"}, NEW ready \in BOOLEAN,
         NEW found \in BOOLEAN
  PROVE  IsLoop(PingMemberNow(g, owner, ready, found))
<1>1. CASE g.isPinging \/ ~ready \/ ~found
  BY <1>1, CallbackIsLoop DEF PingMemberNow
<1>2. CASE ~(g.isPinging \/ ~ready \/ ~found)
  <2> DEFINE free == CHOOSE s \in PingSlots : s \notin DOMAIN g.pings
             new == [s \in DOMAIN g.pings \cup {free} |->
                       IF s = free THEN [stage |-> "ping", owner |-> owner]
                                   ELSE g.pings[s]]
             m == [g EXCEPT !.isPinging = TRUE, !.pings = new]
  <2>1. g \in Loops /\ DOMAIN g.pings = {}
    BY <1>2 DEF IsLoop
  <2>2. free \in PingSlots
    BY <2>1, SlotsExist
  <2> HIDE DEF free
  <2>3. DOMAIN new = {free}
    BY <2>1
  <2>4. new \in [{free} -> Ping]
    BY <2>1 DEF Ping
  <2>5. new \in PingMaps
    BY <2>2, <2>4, IsPingMap
  <2> HIDE DEF new
  <2>6. IsLoop(m)
    BY <2>1, <2>3, <2>5 DEF IsLoop, Loops
  <2>7. PingMemberNow(g, owner, ready, found) = m
    BY <1>2, <2>1 DEF PingMemberNow, Loops, free, new
  <2> QED BY <2>6, <2>7
<1> QED BY <1>1, <1>2

\* Without the only ping there is none.
LEMMA WithoutPingIsLoop ==
  ASSUME NEW g, IsLoop(g), NEW p \in DOMAIN g.pings
  PROVE  /\ IsLoop(WithoutPing(g, p))
         /\ IsLoop([WithoutPing(g, p) EXCEPT !.isPinging = FALSE])
<1> DEFINE f == [s \in DOMAIN g.pings \ {p} |-> g.pings[s]]
<1>1. DOMAIN f = {}
  BY DEF IsLoop
<1>2. f \in PingMaps
  <2>1. f \in [{} -> Ping]
    BY <1>1
  <2> QED BY <2>1, IsPingMap
<1>3. WithoutPing(g, p) = [g EXCEPT !.pings = f]
  BY DEF WithoutPing, IsLoop, Loops
<1> HIDE DEF f
<1> QED BY <1>1, <1>2, <1>3 DEF IsLoop, Loops

LEMMA FinishIsLoop ==
  ASSUME NEW g, IsLoop(g), NEW p \in DOMAIN g.pings
  PROVE  IsLoop(Finish(g, p))
BY WithoutPingIsLoop, CallbackIsLoop DEF Finish

----------------------------------------------------------------------------
(* The steps *)

LEMMA PeriodTimerInv ==
  ASSUME GInv, PeriodTimer
  PROVE  GInv'
<1>1. PICK found \in BOOLEAN, stray \in BOOLEAN :
        /\ IF stray THEN loop.stray > 0 ELSE loop.held
        /\ loop' = PingMemberNow(IF stray THEN [loop EXCEPT !.stray = @ - 1]
                                          ELSE [loop EXCEPT !.held = FALSE],
                                 "loop", life = "ready", found)
  BY DEF PeriodTimer
<1> DEFINE fired == IF stray THEN [loop EXCEPT !.stray = @ - 1]
                             ELSE [loop EXCEPT !.held = FALSE]
<1>2. IsLoop(fired)
  <2>1. IsLoop(loop) /\ loop \in Loops
    BY DEF GInv, IsLoop
  <2>2. stray => loop.stray - 1 \in Nat
    BY <1>1, <2>1 DEF Loops
  <2>3. /\ fired \in Loops /\ fired.rate = loop.rate /\ fired.isStopped = loop.isStopped
        /\ fired.pings = loop.pings /\ fired.isPinging = loop.isPinging
    BY <2>1, <2>2 DEF Loops
  <2> HIDE DEF fired
  <2> QED BY <2>1, <2>3 DEF IsLoop
<1>3. loop' = PingMemberNow(fired, "loop", life = "ready", found)
  BY <1>1
<1> HIDE DEF fired
<1>4. IsLoop(loop')
  BY <1>2, <1>3, PingMemberNowIsLoop
<1> QED BY <1>4 DEF GInv, PeriodTimer

LEMMA PingStepInv ==
  ASSUME GInv, NEW p \in PingSlots, PingStep(p)
  PROVE  GInv'
<1>1. IsLoop(loop) /\ p \in DOMAIN loop.pings
  BY DEF GInv, PingStep, PingAnswered, PingFailed, PingReqDone
<1>2. IsLoop(Finish(loop, p)) /\ IsLoop(Callback(WithoutPing(loop, p), loop.pings[p].owner))
  BY <1>1, FinishIsLoop, WithoutPingIsLoop, CallbackIsLoop
<1>3. IsLoop([loop EXCEPT !.pings[p].stage = "pingReq"])
  <2> DEFINE f == [loop.pings EXCEPT ![p].stage = "pingReq"]
  <2>1. loop \in Loops /\ loop.pings \in PingMaps
    BY <1>1 DEF IsLoop, Loops
  <2>2. loop.pings \in [DOMAIN loop.pings -> Ping] /\ DOMAIN loop.pings \subseteq PingSlots
    BY <2>1 DEF PingMaps
  <2>3. f \in [DOMAIN loop.pings -> Ping] /\ DOMAIN f = DOMAIN loop.pings
    BY <1>1, <2>2 DEF Ping
  <2>4. f \in PingMaps
    BY <2>2, <2>3, IsPingMap
  <2>5. [loop EXCEPT !.pings[p].stage = "pingReq"] = [loop EXCEPT !.pings = f]
    BY <2>1 DEF Loops
  <2> HIDE DEF f
  <2> QED BY <1>1, <2>1, <2>3, <2>4, <2>5 DEF IsLoop, Loops
<1>4. IsLoop(loop')
  BY <1>2, <1>3 DEF PingStep, PingAnswered, PingFailed, PingReqDone
<1>5. UNCHANGED <<life, left, destroyed, starts>>
  BY DEF PingStep, PingAnswered, PingFailed, PingReqDone
<1> QED BY <1>4, <1>5 DEF GInv

LEMMA StartBoundedInv ==
  ASSUME GInv, StartBounded
  PROVE  IsLoop(loop') /\ starts' \in 0..MaxStarts
<1>1. IsLoop(loop) /\ IsLoop(loop')
  BY StartIsLoop DEF GInv, StartBounded
<1>2. starts' \in 0..MaxStarts
  BY <1>1, MaxStartsAssumption DEF GInv, StartBounded, IsLoop, Loops
<1> QED BY <1>1, <1>2

\* What the node and its operator do.
LEMMA OperatorInv ==
  ASSUME GInv,
         \/ Bootstrap \/ BootstrapFails \/ BootstrapDone \/ AdminLeave \/ AdminJoin
         \/ Refute \/ AdminGossip \/ AdminTick \/ Destroy
  PROVE  GInv'
<1>1. CASE Bootstrap \/ BootstrapFails \/ Refute
  BY <1>1 DEF GInv, Bootstrap, BootstrapFails, Refute
<1>2. CASE BootstrapDone
  BY <1>2, StartBoundedInv DEF GInv, BootstrapDone
<1>3. CASE AdminJoin \/ AdminGossip
  BY <1>3, StartBoundedInv DEF GInv, AdminJoin, AdminGossip
<1>4. CASE AdminLeave
  BY <1>4, StopIsLoop DEF GInv, AdminLeave
<1>5. CASE AdminTick
  BY <1>5, PingMemberNowIsLoop DEF GInv, AdminTick
<1>6. CASE Destroy
  BY <1>6, StopIsLoop DEF GInv, Destroy
<1> QED BY <1>1, <1>2, <1>3, <1>4, <1>5, <1>6

LEMMA Invariance == Spec => []GInv
<1>1. Init => GInv
  <2> SUFFICES ASSUME Init PROVE GInv
    OBVIOUS
  <2>1. [s \in {} |-> 0] \in PingMaps
    <3>1. [s \in {} |-> 0] \in [{} -> Ping]
      OBVIOUS
    <3> QED BY <3>1, IsPingMap
  <2>2. IsLoop(loop)
    BY <2>1 DEF Init, IsLoop, Loops
  <2>3. 0 \in 0..MaxStarts
    BY MaxStartsAssumption
  <2> QED BY <2>2, <2>3 DEF Init, GInv
<1>2. GInv /\ [Next]_vars => GInv'
  <2> SUFFICES ASSUME GInv, [Next]_vars PROVE GInv'
    OBVIOUS
  <2>1. CASE UNCHANGED vars
    BY <2>1 DEF vars, GInv
  <2>2. CASE Next
    BY <2>2, PeriodTimerInv, PingStepInv, OperatorInv DEF Next, PingStep
  <2> QED BY <2>1, <2>2
<1> QED BY <1>1, <1>2, PTL DEF Spec

\* The types, and one rate interval while gossip runs, none while it does not:
\* start() and stop() look at isStopped before they touch it.
THEOREM TypeCorrect == Spec => []TypeOK
<1>1. GInv => TypeOK
  <2> SUFFICES ASSUME GInv PROVE TypeOK
    OBVIOUS
  <2>1. loop.pings \in PingMaps
    BY DEF GInv, IsLoop, Loops
  <2>2. DOMAIN loop.pings \subseteq PingSlots /\ \A p \in DOMAIN loop.pings : loop.pings[p] \in Ping
    BY <2>1, PingMapFacts
  <2> QED BY <2>2 DEF GInv, IsLoop, Loops, TypeOK
<1> QED BY <1>1, Invariance, PTL

\* However many loops stop() has left running and however often an operator
\* asks for a ping, the node has at most one in progress.
THEOREM OnePingHolds == Spec => []OnePing
<1>1. GInv => OnePing
  <2> SUFFICES ASSUME GInv PROVE OnePing
    OBVIOUS
  <2>1. \A p, q \in DOMAIN loop.pings : p = q
    BY DEF GInv, IsLoop
  <2>2. CASE DOMAIN loop.pings = {}
    <3>1. Cardinality(DOMAIN loop.pings) = 0
      BY <2>2, FS_EmptySet
    <3> QED BY <3>1 DEF OnePing
  <2>3. CASE DOMAIN loop.pings # {}
    <3>1. PICK p : p \in DOMAIN loop.pings
      BY <2>3
    <3>2. DOMAIN loop.pings = {p}
      BY <2>1, <3>1
    <3>3. Cardinality({p}) = 1
      BY FS_Singleton
    <3> QED BY <3>2, <3>3 DEF OnePing
  <2> QED BY <2>2, <2>3
<1> QED BY <1>1, Invariance, PTL
=============================================================================
