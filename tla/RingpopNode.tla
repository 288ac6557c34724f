---------------------------- MODULE RingpopNode ----------------------------
(***************************************************************************)
(* One ringpop node, Self, in an open environment: other nodes, an         *)
(* operator and the application call it in any order.  Each action is one  *)
(* call that JavaScript runs to completion: a request handler, the         *)
(* callback of a response, or a timer.                                     *)
(*                                                                         *)
(* What is assumed of the environment:                                     *)
(*  - Date.now() never goes back; several calls may read the same value;   *)
(*  - nobody asserts an incarnation of Self that is later than the one     *)
(*    Self has assigned itself (proved of the nodes of module Cluster);    *)
(*  - the application does not start a second bootstrap during the first;  *)
(*  - a destroyed node's closed channel delivers no more requests, though  *)
(*    a response that was under way still may arrive.                      *)
(***************************************************************************)
EXTENDS NodeState

CONSTANTS
  Self,       \* ringpop.whoami()
  Batches,    \* the changesets that arrive in requests and responses
  MaxTime     \* bound on the clock, so that TLC's state space is finite

ASSUME SelfAssumption == Self \in Addr
ASSUME TimeAssumption == MaxTime \in Nat \ {0}
ASSUME BatchesAssumption == \A b \in Batches : IsMap(b, Change)

VARIABLES
  node,       \* the state of the node, see NodeState
  joining,    \* a bootstrap is waiting for its join
  rejoining,  \* an admin join is waiting for its join
  destroyed,  \* ringpop.destroyed
  now         \* Date.now()

vars == <<node, joining, rejoining, destroyed, now>>

Times == 1..MaxTime
Others == Addr \ {Self}

Init ==
  /\ node = NewNode
  /\ joining = FALSE
  /\ rejoining = FALSE
  /\ destroyed = FALSE
  /\ now = 1

\* The changesets that a consistent environment may deliver now.
Deliverable ==
  {b \in Batches : Self \in DOMAIN b =>
     b[Self].inc <= IF HasMember(node, Self) THEN node.members[Self].inc
                                             ELSE now}

----------------------------------------------------------------------------
(* Lifecycle *)

\* bootstrap(): the local member is added at once, then the join is sent.
Bootstrap ==
  /\ ~node.ready
  /\ ~joining
  /\ node' = MakeUpdate(Self, node, Self, "alive", now, now)
  /\ joining' = TRUE
  /\ UNCHANGED <<rejoining, destroyed, now>>

\* Fault: a node destroyed during its bootstrap becomes ready.
JoinCompleteDestroyed(b) ==
  /\ joining
  /\ node' = BecomeReady(Self, Update(Self, node, b, now))
  /\ joining' = FALSE
  /\ UNCHANGED <<rejoining, destroyed, now>>

\* The join succeeded: its merged responses are stashed, the stash becomes
\* the membership, gossip starts, the node is ready.
JoinComplete(b) ==
  /\ joining
  /\ ~destroyed
  /\ node' = BecomeReady(Self, Update(Self, node, b, now))
  /\ joining' = FALSE
  /\ UNCHANGED <<rejoining, destroyed, now>>

\* The join failed, or completed after the node was destroyed.
JoinFail ==
  /\ joining
  /\ joining' = FALSE
  /\ UNCHANGED <<node, rejoining, destroyed, now>>

Destroy ==
  /\ node' = StopProtocols(node)
  /\ destroyed' = TRUE
  /\ UNCHANGED <<joining, rejoining, now>>

Tick ==
  /\ now < MaxTime
  /\ now' = now + 1
  /\ UNCHANGED <<node, joining, rejoining, destroyed>>

----------------------------------------------------------------------------
(* The protocol *)

\* The response to a ping or to a ping-req.  A ping's is applied twice, by
\* PingSender.onPing and again by pingMemberNow or handlePingReq: the second
\* update of the same call and the same millisecond accepts nothing.
ReceiveResponse(b) ==
  /\ node' = Update(Self, node, b, now)
  /\ UNCHANGED <<joining, rejoining, destroyed, now>>

\* handlePing, and the end of handlePingReq once the relayed ping is over:
\* apply the changes that came, then issue changes to the sender.
ReceivePing(b, sender, senderInc) ==
  /\ ~destroyed
  /\ node' = IssueAsReceiver(Update(Self, node, b, now), sender, senderInc)
  /\ UNCHANGED <<joining, rejoining, destroyed, now>>

\* The beginning of handlePingReq: apply the changes, send the relayed ping.
ReceivePingReq(b) ==
  /\ ~destroyed
  /\ node' = IssueAsSender(Update(Self, node, b, now))
  /\ UNCHANGED <<joining, rejoining, destroyed, now>>

\* pingMemberNow sends a ping, or sendPingReq one of its ping-reqs.
SendPing ==
  /\ node.ready
  /\ \E a \in Addr : IsPingable(Self, node, a)
  /\ node' = IssueAsSender(node)
  /\ UNCHANGED <<joining, rejoining, destroyed, now>>

\* handleJoin of a valid request: the joiner is declared alive.
ReceiveJoin(a, inc) ==
  /\ ~destroyed
  /\ a # Self
  /\ node' = MakeUpdate(Self, node, a, "alive", inc, now)
  /\ UNCHANGED <<joining, rejoining, destroyed, now>>

\* sendPingReq found the member unreachable.  The Member object is read now,
\* when the last response is in, not when the ping failed.
SuspectMember(a) ==
  /\ node.ready
  /\ HasMember(node, a)
  /\ a # Self
  /\ node' = MakeUpdate(Self, node, a, "suspect", node.members[a].inc, now)
  /\ UNCHANGED <<joining, rejoining, destroyed, now>>

\* The suspect period of a is over.
SuspicionTimeout(a) ==
  /\ a \in DOMAIN node.timers
  /\ node' = MakeUpdate(Self, node, a, "faulty", node.timers[a], now)
  /\ UNCHANGED <<joining, rejoining, destroyed, now>>

----------------------------------------------------------------------------
(* The operator *)

\* handleAdminLeave.  Before the node is ready makeLeave is only stashed.
AdminLeave ==
  /\ ~destroyed
  /\ HasMember(node, Self)
  /\ node.members[Self].status # "leave"
  /\ node' = StopProtocols(MakeUpdate(Self, node, Self, "leave",
                                      node.members[Self].inc, now))
  /\ UNCHANGED <<joining, rejoining, destroyed, now>>

\* handleAdminJoin.  A node that left revives itself; any other node sends
\* a join again.
AdminJoin ==
  /\ ~destroyed
  /\ HasMember(node, Self)
  /\ \/ /\ node.members[Self].status = "leave"
        /\ node' = Reenable(StartGossip(
                     MakeUpdate(Self, node, Self, "alive", now, now)))
        /\ UNCHANGED rejoining
     \/ /\ node.members[Self].status # "leave"
        /\ rejoining' = TRUE
        /\ UNCHANGED node
  /\ UNCHANGED <<joining, destroyed, now>>

\* The join an operator asked for completes: its responses are an update.
AdminJoinComplete(b) ==
  /\ rejoining
  /\ ~destroyed
  /\ node' = Update(Self, node, b, now)
  /\ rejoining' = FALSE
  /\ UNCHANGED <<joining, destroyed, now>>

AdminJoinFail ==
  /\ rejoining
  /\ rejoining' = FALSE
  /\ UNCHANGED <<node, joining, destroyed, now>>

\* adminGossip
AdminGossip ==
  /\ ~destroyed
  /\ node' = StartGossip(node)
  /\ UNCHANGED <<joining, rejoining, destroyed, now>>

----------------------------------------------------------------------------
Next ==
  \/ Bootstrap
  \/ \E b \in Deliverable : JoinComplete(b)
  \/ JoinFail
  \/ Destroy
  \/ Tick
  \/ \E b \in Deliverable : ReceiveResponse(b)
  \/ \E b \in Deliverable, s \in Others, i \in Times : ReceivePing(b, s, i)
  \/ \E b \in Deliverable : ReceivePingReq(b)
  \/ SendPing
  \/ \E a \in Addr, i \in Times : ReceiveJoin(a, i)
  \/ \E a \in Addr : SuspectMember(a)
  \/ \E a \in Addr : SuspicionTimeout(a)
  \/ AdminLeave
  \/ AdminJoin
  \/ \E b \in Deliverable : AdminJoinComplete(b)
  \/ AdminJoinFail
  \/ AdminGossip

Spec == Init /\ [][Next]_vars

\* A timer that is not cleared fires: setTimeout is the only fairness.
Fairness == \A a \in Addr : WF_vars(SuspicionTimeout(a))

FairSpec == Spec /\ Fairness

----------------------------------------------------------------------------
(* Properties *)

\* The variables keep their types: the maps hold records of the right form,
\* and the ring, the timers and the rumours are about known addresses.
TypeOK ==
  /\ IsNode(node)
  /\ joining \in BOOLEAN
  /\ rejoining \in BOOLEAN
  /\ destroyed \in BOOLEAN
  /\ now \in Nat

\* The local member never believes itself suspect or faulty, whatever it is
\* told, and its incarnation number is a time that has passed (the local
\* override in Membership.prototype.update).  A ready node is a member of its
\* own list, and a node that is not ready knows nobody else.
LocalView ==
  /\ LocalMemberIsSound(Self, node, now)
  /\ joining => HasMember(node, Self)

\* A running suspect period is about a record that is suspect at the very
\* incarnation the timer will declare faulty: no update of the member leaves
\* a timer behind that could condemn a later incarnation of it.
TimersGuardSuspects == TimersAreSound(Self, node)

\* The hash ring holds every alive member and no faulty member or member that
\* left, through updates, set() and the members' returns.
RingFollowsMembership == RingIsSound(node)

\* What the node spreads about a member is what it holds of it: no entry of
\* the dissemination table is older than the membership list.
RumoursAreCurrent == RumoursAreSound(node)

\* While the suspicion subprotocol is stopped (left or destroyed) no suspect
\* period runs and none can be started, by any of the listeners.
StoppedMeansNoTimers == node.stoppedAll => DOMAIN node.timers = {}

\* Destroying the node is final: neither a join that completes late nor a
\* response that arrives late restarts gossip or a suspect period.
DestroyedIsQuiet ==
  destroyed => ~node.gossiping /\ DOMAIN node.timers = {}

\* Nobody is forgotten, incarnation numbers never go back, and at one
\* incarnation a remote member's status only gets worse: only a higher
\* incarnation number, which only the member itself assigns, revives it.
\* (ImplementsDetection says more of each step.)
NoRegress == [][OnlyForward(Self, node, node')]_vars

\* Each suspect member has a suspect period, as long as the subprotocol is
\* not stopped and enabled again: no other call creates a suspect without a
\* timer or loses the timer of a suspect.
SuspectPeriodKept == [][PeriodsKept(node, node')]_vars

\* What the node makes of all it hears is what FailureDetection promises: of
\* every peer its list, its suspect period and its place in the ring move
\* together, by news of that peer alone, and a leave is final until the peer
\* itself comes back.
Detection ==
  INSTANCE FailureDetection WITH
    view <- node.members, periods <- DOMAIN node.timers,
    ring <- node.ring, enabled <- ~node.stoppedAll

ImplementsDetection == Detection!Spec

\* A suspect period that runs comes to an end, however many rumours restart it.
SuspectPeriodEnds ==
  \A a \in Addr : a \in DOMAIN node.timers ~> a \notin DOMAIN node.timers

\* The node takes part in the failure detection.
Participating ==
  node.ready /\ node.gossiping /\ ~node.stoppedAll /\ ~destroyed

\* docs/references.md:73: "If nodes stay suspect during the pre-defined
\* suspect period without recovering, it will then be considered faulty".
SuspectBecomesFaulty ==
  \A a \in Addr :
    a \in Suspects(node) ~> a \notin Suspects(node) \/ ~Participating
=============================================================================
