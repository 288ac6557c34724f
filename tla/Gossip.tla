------------------------------- MODULE Gossip -------------------------------
(***************************************************************************)
(* The gossip protocol loop of one node (lib/swim/gossip.js) and the ping  *)
(* it makes every protocol period (RingPop.prototype.pingMemberNow): a     *)
(* chain of timer, ping, callback, next timer, that an operator may stop   *)
(* and start again at any moment, and that competes for the right to ping  *)
(* with the pings an operator asks for.                                    *)
(*                                                                         *)
(* The loop is a record:                                                   *)
(*   isStopped   gossip.isStopped                                          *)
(*   held        gossip.protocolPeriodTimer is a timer that is pending     *)
(*   stray       the other pending period timers: their handle was         *)
(*               overwritten, so that nobody can clear them                *)
(*   rate        the running protocol rate intervals                       *)
(*   isPinging   ringpop.isPinging                                         *)
(*   pings       the pings that wait for an answer: for each, its stage    *)
(*               and who is called back in the end                         *)
(*   periods     gossip.numProtocolPeriods, bounded by taking it modulo 2  *)
(***************************************************************************)
EXTENDS Integers, FiniteSets

CONSTANTS
  MaxStarts,    \* bound on the number of times gossip is started
  PingSlots     \* names for the pings in progress

ASSUME MaxStartsAssumption == MaxStarts \in Nat
ASSUME PingSlotsAssumption == Cardinality(PingSlots) >= 2

VARIABLES
  loop,       \* the gossip loop, as above
  life,       \* how far the bootstrap of the node has come
  left,       \* the local member has status leave
  destroyed,  \* ringpop.destroyed
  starts      \* how often gossip was started

vars == <<loop, life, left, destroyed, starts>>

Ping == [stage : {"ping", "pingReq"}, owner : {"loop", "tick"}]

Init ==
  /\ loop = [isStopped |-> TRUE, held |-> FALSE, stray |-> 0, rate |-> 0,
             isPinging |-> FALSE, pings |-> [s \in {} |-> 0], periods |-> 0]
  /\ life = "new"
  /\ left = FALSE
  /\ destroyed = FALSE
  /\ starts = 0

----------------------------------------------------------------------------
(* The functions of the loop *)

\* run(): a new timer, whose handle replaces the handle kept so far.
Run(g) ==
  [g EXCEPT !.held = TRUE, !.stray = IF g.held THEN @ + 1 ELSE @]

\* start()
Start(g) ==
  IF g.isStopped THEN [Run(g) EXCEPT !.rate = @ + 1, !.isStopped = FALSE]
                 ELSE g

\* Fault: stop() does not look whether gossip is stopped already.
StopAgain(g) == [g EXCEPT !.held = FALSE, !.rate = @ - 1, !.isStopped = TRUE]

\* stop(): one handle to clear.
Stop(g) ==
  IF g.isStopped THEN g
                 ELSE [g EXCEPT !.held = FALSE, !.rate = @ - 1, !.isStopped = TRUE]

\* Fault: the loop goes on after it was stopped.
CallbackRuns(g, owner) ==
  IF owner = "loop" THEN Run([g EXCEPT !.periods = 1 - @]) ELSE g

\* The callback of pingMemberNow: the loop's is onMemberPinged, an operator's
\* only answers the request.
Callback(g, owner) ==
  LET counted == [g EXCEPT !.periods = 1 - @]
  IN  IF owner = "tick" THEN g
      ELSE IF g.isStopped THEN counted
      ELSE Run(counted)

\* Fault: a second ping is begun while one is in progress.
PingMemberNowTwice(g, owner, ready, found) ==
  IF ~ready \/ ~found THEN Callback(g, owner)
  ELSE LET free == CHOOSE s \in PingSlots : s \notin DOMAIN g.pings
       IN  [g EXCEPT !.isPinging = TRUE,
                     !.pings = [s \in DOMAIN @ \cup {free} |->
                                  IF s = free THEN [stage |-> "ping", owner |-> owner]
                                              ELSE @[s]]]

\* pingMemberNow(): nothing is pinged while another ping is in progress,
\* before the node is ready, or when the iterator finds nobody pingable.
PingMemberNow(g, owner, ready, found) ==
  IF g.isPinging \/ ~ready \/ ~found THEN Callback(g, owner)
  ELSE LET free == CHOOSE s \in PingSlots : s \notin DOMAIN g.pings
       IN  [g EXCEPT !.isPinging = TRUE,
                     !.pings = [s \in DOMAIN @ \cup {free} |->
                                  IF s = free THEN [stage |-> "ping", owner |-> owner]
                                              ELSE @[s]]]

WithoutPing(g, p) ==
  [g EXCEPT !.pings = [s \in DOMAIN @ \ {p} |-> @[s]]]

\* Ping p is over: the flag is lowered, then its owner called back.
Finish(g, p) ==
  Callback([WithoutPing(g, p) EXCEPT !.isPinging = FALSE], g.pings[p].owner)

----------------------------------------------------------------------------
(* The timers and the answers *)

\* onGossipTimer, of the timer that is held or of a stray one.
PeriodTimer ==
  /\ \/ loop.held
     \/ loop.stray > 0
  /\ \E found \in BOOLEAN, stray \in BOOLEAN :
       /\ IF stray THEN loop.stray > 0 ELSE loop.held
       /\ LET fired == IF stray THEN [loop EXCEPT !.stray = @ - 1]
                                ELSE [loop EXCEPT !.held = FALSE]
          IN  loop' = PingMemberNow(fired, "loop", life = "ready", found)
  /\ UNCHANGED <<life, left, destroyed, starts>>

\* The ping was answered.
PingAnswered(p) ==
  /\ p \in DOMAIN loop.pings
  /\ loop.pings[p].stage = "ping"
  /\ loop' = Finish(loop, p)
  /\ UNCHANGED <<life, left, destroyed, starts>>

\* Fault: when there is nobody to send a ping-req to, the ping is dropped.
PingFailedDropped(p) ==
  /\ p \in DOMAIN loop.pings
  /\ loop.pings[p].stage = "ping"
  /\ IF destroyed
       THEN loop' = Callback(WithoutPing(loop, p), loop.pings[p].owner)
       ELSE \/ loop' = WithoutPing(loop, p)
            \/ loop' = [loop EXCEPT !.pings[p].stage = "pingReq"]
  /\ UNCHANGED <<life, left, destroyed, starts>>

\* The ping failed or timed out.  A destroyed node gives up, and leaves its
\* flag raised; any other goes on to ping-req, which is over at once when
\* there is nobody to ask.
PingFailed(p) ==
  /\ p \in DOMAIN loop.pings
  /\ loop.pings[p].stage = "ping"
  /\ IF destroyed
       THEN loop' = Callback(WithoutPing(loop, p), loop.pings[p].owner)
       ELSE \/ loop' = Finish(loop, p)
            \/ loop' = [loop EXCEPT !.pings[p].stage = "pingReq"]
  /\ UNCHANGED <<life, left, destroyed, starts>>

\* The ping-req came to a conclusion, or is inconclusive.
PingReqDone(p) ==
  /\ p \in DOMAIN loop.pings
  /\ loop.pings[p].stage = "pingReq"
  /\ loop' = Finish(loop, p)
  /\ UNCHANGED <<life, left, destroyed, starts>>

----------------------------------------------------------------------------
(* The node and its operator *)

\* Gossip is started, if the bound on that allows it.
StartBounded ==
  /\ loop.isStopped => starts < MaxStarts
  /\ loop' = Start(loop)
  /\ starts' = IF loop.isStopped THEN starts + 1 ELSE starts

Bootstrap ==
  /\ life \in {"new", "failed"}
  /\ life' = "joining"
  /\ UNCHANGED <<loop, left, destroyed, starts>>

BootstrapFails ==
  /\ life = "joining"
  /\ life' = "failed"
  /\ UNCHANGED <<loop, left, destroyed, starts>>

BootstrapDone ==
  /\ life = "joining"
  /\ ~destroyed
  /\ StartBounded
  /\ life' = "ready"
  /\ UNCHANGED <<left, destroyed>>

\* Before the node is ready, its leave is stashed and has no effect.
AdminLeave ==
  /\ ~destroyed
  /\ life # "new"
  /\ ~left
  /\ left' = (life = "ready")
  /\ loop' = Stop(loop)
  /\ UNCHANGED <<life, destroyed, starts>>

AdminJoin ==
  /\ ~destroyed
  /\ left
  /\ left' = FALSE
  /\ StartBounded
  /\ UNCHANGED <<life, destroyed>>

\* Somebody believes the local member suspect or faulty, and it refutes.
Refute ==
  /\ left
  /\ left' = FALSE
  /\ UNCHANGED <<loop, life, destroyed, starts>>

AdminGossip ==
  /\ ~destroyed
  /\ StartBounded
  /\ UNCHANGED <<life, left, destroyed>>

\* adminTick: a ping out of turn.
AdminTick ==
  /\ ~destroyed
  /\ \E found \in BOOLEAN :
       loop' = PingMemberNow(loop, "tick", life = "ready", found)
  /\ UNCHANGED <<life, left, destroyed, starts>>

Destroy ==
  /\ destroyed' = TRUE
  /\ loop' = Stop(loop)
  /\ UNCHANGED <<life, left, starts>>

----------------------------------------------------------------------------
PingStep(p) == PingAnswered(p) \/ PingFailed(p) \/ PingReqDone(p)

Next ==
  \/ PeriodTimer
  \/ \E p \in PingSlots : PingAnswered(p)
  \/ \E p \in PingSlots : PingFailed(p)
  \/ \E p \in PingSlots : PingReqDone(p)
  \/ Bootstrap
  \/ BootstrapFails
  \/ BootstrapDone
  \/ AdminLeave
  \/ AdminJoin
  \/ Refute
  \/ AdminGossip
  \/ AdminTick
  \/ Destroy

Spec == Init /\ [][Next]_vars

\* Timers fire, and each request is answered, fails or times out: pingTimeout
\* and pingReqTimeout are passed with every request.
Fairness ==
  /\ WF_vars(PeriodTimer)
  /\ \A p \in PingSlots : WF_vars(PingStep(p))

FairSpec == Spec /\ Fairness

----------------------------------------------------------------------------
(* Properties *)

LoopPings == {p \in DOMAIN loop.pings : loop.pings[p].owner = "loop"}

\* The variables keep their types, and exactly one rate interval runs while
\* gossip does, none while it is stopped, so that stop() never loses one.
TypeOK ==
  /\ loop.isStopped \in BOOLEAN
  /\ loop.held \in BOOLEAN
  /\ loop.stray \in Nat
  /\ loop.rate = IF loop.isStopped THEN 0 ELSE 1
  /\ loop.isPinging \in BOOLEAN
  /\ DOMAIN loop.pings \subseteq PingSlots
  /\ \A p \in DOMAIN loop.pings : loop.pings[p] \in Ping
  /\ loop.periods \in {0, 1}
  /\ life \in {"new", "joining", "failed", "ready"}
  /\ left \in BOOLEAN
  /\ destroyed \in BOOLEAN
  /\ starts \in 0..MaxStarts

\* However many loops and operators ask for pings, isPinging keeps them from
\* having two in progress (pingMemberNow).
OnePing == Cardinality(DOMAIN loop.pings) <= 1

\* Gossip that is not stopped again completes protocol periods for ever: a
\* ping of the loop or of an operator never holds the loop up for good.
PeriodsRecur ==
  <>[](~loop.isStopped) => []<><<loop'.periods # loop.periods>>_vars

\* Gossip that is not started again falls silent, the loops that stop()
\* cannot clear included: each finds isStopped after its next ping.
StoppedDiesOut ==
  <>[](loop.isStopped) =>
    <>[](~loop.held /\ loop.stray = 0 /\ LoopPings = {})
=============================================================================
