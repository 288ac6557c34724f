--------------------------- MODULE RequestProxy ---------------------------
(***************************************************************************)
(* Forwarding of one request (RingPop.handleOrProxy, handleOrProxyAll and  *)
(* lib/request-proxy): the keys of the request are grouped by the node     *)
(* that owns them in the ring of the sender, and every group is sent to    *)
(* its node, again after a delay when that fails, elsewhere when the ring  *)
(* of the sender has changed.  The receiver compares ring checksums.       *)
(*                                                                         *)
(* A ring is its servers and its points.  Servers may hash to the same     *)
(* point, which stays with the one that came first and goes when any of    *)
(* them leaves, so rings with the same servers may map a key differently.  *)
(* The checksum is that of the names of the servers, and stands for them.  *)
(***************************************************************************)
EXTENDS Integers, FiniteSets

CONSTANTS
  Nodes,        \* host ports
  Self,         \* the node that has the request
  Keys,         \* keys of requests
  Points,       \* hashes that are points of rings
  PointsOf,     \* the points that a server hashes to, one per replica
  First,        \* First[P, k]: the first of the points P from the hash of k on
  MaxRetries,   \* requestProxyMaxRetries
  Enforce,      \* enforceConsistency
  MaxChanges    \* bound on the changes of rings

ASSUME NodesAssumption == Self \in Nodes /\ IsFiniteSet(Nodes)
ASSUME PointsAssumption == PointsOf \in [Nodes -> SUBSET Points]

\* The first of P is the first of every part of P that it is in.
ASSUME FirstAssumption ==
  \A P \in SUBSET Points \ {{}}, k \in Keys :
    /\ First[P, k] \in P
    /\ \A Q \in SUBSET P : First[P, k] \in Q => First[Q, k] = First[P, k]
ASSUME RetriesAssumption ==
  MaxRetries \in Nat /\ Enforce \in BOOLEAN /\ MaxChanges \in Nat

----------------------------------------------------------------------------
(* Rings *)

Rings == [servers : SUBSET Nodes, points : UNION {[P -> Nodes] : P \in SUBSET Points}]

Claimants(p) == {n \in Nodes : p \in PointsOf[n]}

\* addServerReplicas: a point that is taken stays with its owner.
AddServerReplicas(r, server) ==
  [servers |-> r.servers \cup {server},
   points  |-> [p \in DOMAIN r.points \cup PointsOf[server] |->
                  IF p \in DOMAIN r.points THEN r.points[p] ELSE server]]

\* removeServerReplicas: the points of the server go, whoever owns them.
RemoveServerReplicas(r, server) ==
  [servers |-> r.servers \ {server},
   points  |-> [p \in DOMAIN r.points \ PointsOf[server] |-> r.points[p]]]

\* computeChecksum: from the names of the servers alone.
Checksum(r) == r.servers

\* The rings that all nodes have joined, one after the other.
JoinedRings ==
  {r \in Rings :
     /\ r.servers = Nodes
     /\ DOMAIN r.points = UNION {PointsOf[n] : n \in Nodes}
     /\ \E turn \in [Nodes -> 1..Cardinality(Nodes)] :
          /\ \A n, m \in Nodes : turn[n] = turn[m] => n = m
          /\ \A p \in DOMAIN r.points :
               /\ r.points[p] \in Claimants(p)
               /\ \A n \in Claimants(p) : turn[r.points[p]] <= turn[n]}

\* RingPop.lookup at node n, whose ring is r: n itself where there is no point.
LookupIn(r, n, k) ==
  IF DOMAIN r.points = {} THEN n ELSE r.points[First[DOMAIN r.points, k]]

----------------------------------------------------------------------------
VARIABLES
  ring,        \* the ring of every node
  changes,     \* how many changes of rings there were
  asked,       \* the request has arrived
  parts,       \* the request of every destination of the keys
  sends,       \* the destinations whose request is in RequestProxy.sends
  wire,        \* what was sent and not received
  handled,     \* who was given which request to handle, and owned which of its keys
  pending,     \* pending of handleOrProxyAll, the responses that are missing
  cb,          \* its callback is still to be called
  callbacks,   \* how often it was called
  destroyed    \* the sender was destroyed, and its channel closed

vars == <<ring, changes, asked, parts, sends, wire, handled, pending, cb,
          callbacks, destroyed>>

\* A part with keys that go to the node to, as a ring with checksum looked has it.
NewPart(phase, keys, to, looked) ==
  [keys |-> keys, phase |-> phase, to |-> to, numRetries |-> 0,
   sent |-> 0, looked |-> looked, answers |-> 0]

NoPart == NewPart("none", {}, Self, {})

Init ==
  /\ ring \in [Nodes -> JoinedRings]
  /\ changes = 0
  /\ asked = FALSE
  /\ parts = [d \in Nodes |-> NoPart]
  /\ sends = {}
  /\ wire = {}
  /\ handled = {}
  /\ pending = 0
  /\ cb = FALSE
  /\ callbacks = 0
  /\ destroyed = FALSE

Lookup(n, k) == LookupIn(ring[n], n, k)

\* getStrHead: the checksum of the ring at the time of sending.
SentChecksum == Checksum(ring[Self])

----------------------------------------------------------------------------
(* The request arrives *)

\* handleOrProxyAll: every group of keys with one owner is a part; the part of
\* the node itself goes to the application with no checksum compared.
HandleOrProxyAll(keys) ==
  LET group(d) == {k \in keys : Lookup(Self, k) = d}
      dests    == {d \in Nodes : group(d) # {}}
  IN  /\ ~asked
      /\ ~destroyed
      /\ asked' = TRUE
      /\ parts' = [d \in Nodes |->
                     IF d \notin dests THEN NoPart
                     ELSE NewPart(IF d = Self THEN "application" ELSE "body",
                                  group(d), d, SentChecksum)]
      /\ pending' = Cardinality(dests)
      /\ cb' = (dests # {})
      /\ callbacks' = IF dests = {} THEN 1 ELSE 0
      /\ UNCHANGED <<ring, changes, sends, wire, handled, destroyed>>

\* handleOrProxy: the caller handles the key itself, or it is proxied.
HandleOrProxy(k) ==
  /\ ~asked
  /\ ~destroyed
  /\ asked' = TRUE
  /\ IF Lookup(Self, k) = Self
     THEN UNCHANGED parts
     ELSE parts' = [parts EXCEPT ![Lookup(Self, k)] =
                      NewPart("body", {k}, Lookup(Self, k), SentChecksum)]
  /\ pending' = IF Lookup(Self, k) = Self THEN 0 ELSE 1
  /\ UNCHANGED <<ring, changes, sends, wire, handled, cb, callbacks, destroyed>>

\* Fault: an error does not use the callback up.
RespondTwice(err) ==
  /\ pending' = pending - 1
  /\ IF cb /\ (pending = 1 \/ err)
     THEN callbacks' = callbacks + 1 /\ UNCHANGED cb
     ELSE UNCHANGED <<cb, callbacks>>

\* onResponse of handleOrProxyAll, for one part.
Respond(err) ==
  /\ pending' = pending - 1
  /\ IF cb /\ (pending = 1 \/ err)
     THEN cb' = FALSE /\ callbacks' = callbacks + 1
     ELSE UNCHANGED <<cb, callbacks>>

----------------------------------------------------------------------------
(* The send of the part with destination d, which is p by now *)

\* onProxy: the send is removed, and the response ends, with an error's text if
\* it was one.
Answer(d, p) ==
  /\ parts' = [parts EXCEPT ![d] = [p EXCEPT !.phase = "answered", !.answers = @ + 1]]
  /\ sends' = sends \ {d}
  /\ Respond(FALSE)

\* The application of the sender has answered the part of the sender itself,
\* where an error is passed on, or a request that came to it by a retry.
ApplicationAnswers(d, err) ==
  /\ parts[d].phase = "application"
  /\ IF d = Self
     THEN /\ parts' = [parts EXCEPT ![d].phase = "answered", ![d].answers = @ + 1]
          /\ Respond(err)
          /\ UNCHANGED sends
     ELSE Answer(d, parts[d])
  /\ UNCHANGED <<ring, changes, asked, wire, handled, destroyed>>

\* send: to the node p.to that the ring p.looked gave.
Send(d, p) ==
  IF destroyed
  THEN Answer(d, p)
  ELSE /\ parts' = [parts EXCEPT ![d] = [p EXCEPT !.phase = "identify"]]
       /\ sends' = sends \cup {d}
       /\ UNCHANGED <<pending, cb, callbacks>>

\* onBody: the body of the request has been read, or it is malformed.
Body(d, ok) ==
  /\ parts[d].phase = "body"
  /\ IF ok THEN Send(d, parts[d]) ELSE Answer(d, parts[d])
  /\ UNCHANGED <<ring, changes, asked, wire, handled, destroyed>>

\* onRequest: the connection is identified, and the request leaves.
Identified(d) ==
  LET p == parts[d]
  IN  /\ p.phase = "identify"
      /\ ~destroyed
      /\ parts' = [parts EXCEPT ![d] = [p EXCEPT !.phase = "sent", !.sent = @ + 1]]
      /\ wire' = wire \cup {[part |-> d, num |-> p.sent + 1, to |-> p.to, keys |-> p.keys,
                             looked |-> p.looked, head |-> SentChecksum]}
      /\ UNCHANGED <<ring, changes, asked, sends, handled, pending, cb, callbacks, destroyed>>

\* An error here is the answer, whatever retries are left.
IdentifyFails(d) ==
  /\ parts[d].phase = "identify"
  /\ Answer(d, parts[d])
  /\ UNCHANGED <<ring, changes, asked, wire, handled, destroyed>>

\* scheduleRetry does not look whether the node was destroyed; the list of sends
\* stays as it is.
ScheduleRetry(d, p) ==
  /\ parts' = [parts EXCEPT ![d] = [p EXCEPT !.phase = "delay"]]
  /\ UNCHANGED <<sends, pending, cb, callbacks>>

\* Fault: one retry too many.
OnErrorOneMore(d, p) ==
  IF p.numRetries > MaxRetries
  THEN Answer(d, p) ELSE ScheduleRetry(d, p)

\* Fault: when the retries are used up, nobody is told.
OnErrorSilent(d, p) ==
  /\ parts' = [parts EXCEPT ![d] =
                 [p EXCEPT !.phase = IF p.numRetries >= MaxRetries THEN "given-up" ELSE "delay"]]
  /\ UNCHANGED <<sends, pending, cb, callbacks>>

\* onSend with an error.
OnError(d, p) ==
  IF p.numRetries >= MaxRetries
  THEN Answer(d, p) ELSE ScheduleRetry(d, p)

\* The request times out, or the connection is lost; the receiver may have
\* handled the request, or handle it later.
SendFails(d) ==
  /\ parts[d].phase = "sent"
  /\ OnError(d, parts[d])
  /\ UNCHANGED <<ring, changes, asked, wire, handled, destroyed>>

----------------------------------------------------------------------------
(* The receiver *)

\* Fault: the checksum is compared for the record only.
AcceptsAll(n, head) == TRUE

\* handleRequest: another checksum is refused, where consistency is enforced.
Accepts(n, head) == ~Enforce \/ head = Checksum(ring[n])

\* The keys among keys that node n owns in its own ring.
Owned(n, keys) == {k \in keys : Lookup(n, k) = n}

Handling(m) == [part |-> m.part, num |-> m.num, by |-> m.to, keys |-> m.keys,
                looked |-> m.looked, head |-> m.head, owned |-> Owned(m.to, m.keys)]

\* Fault: an answer that comes late counts as well.
AwaitedLate(m) == ~destroyed

\* The sender still waits for the answer to m.
Awaited(m) ==
  /\ ~destroyed
  /\ parts[m.part].phase = "sent"
  /\ parts[m.part].sent = m.num

\* The receiver of m handles it, if it accepts it, and the application answers.
HandleRequest(m, answer) ==
  LET accepted == Accepts(m.to, m.head)
      p        == parts[m.part]
  IN  /\ m \in wire
      /\ wire' = wire \ {m}
      /\ handled' = IF accepted THEN handled \cup {Handling(m)} ELSE handled
      /\ CASE ~Awaited(m) \/ answer = "lost" ->
                UNCHANGED <<parts, sends, pending, cb, callbacks>>
           [] Awaited(m) /\ answer = "ok" /\ accepted -> Answer(m.part, p)
           [] OTHER -> OnError(m.part, p)
      /\ UNCHANGED <<ring, changes, asked, destroyed>>

----------------------------------------------------------------------------
(* Retries *)

\* Fault: the retry goes where the request went first.
NewDestSame(d, p) == d

\* What the keys of p map to by now.
NewDest(d, p) == CHOOSE n \in Nodes : \E k \in p.keys : Lookup(Self, k) = n

\* rerouteRetry, to the node itself: handleRequest finds its own checksum, and
\* its answer is the last.
Reroute(d, p) ==
  /\ handled' = handled \cup
       {[part |-> d, num |-> p.sent + 1, by |-> Self, keys |-> p.keys,
         looked |-> SentChecksum, head |-> SentChecksum, owned |-> Owned(Self, p.keys)]}
  /\ parts' = [parts EXCEPT ![d] = [p EXCEPT !.phase = "application"]]
  /\ UNCHANGED <<sends, pending, cb, callbacks>>

\* attemptRetry: abort if the keys diverged; otherwise send to where they map to
\* now, rerouted or not.
AttemptRetry(d) ==
  LET p   == [parts[d] EXCEPT !.numRetries = @ + 1]
      new == NewDest(d, p)
  IN  /\ p.phase = "delay"
      /\ IF Cardinality({Lookup(Self, k) : k \in p.keys}) > 1
         THEN Answer(d, p) /\ UNCHANGED handled
         ELSE IF new = Self
         THEN Reroute(d, p)
         ELSE /\ Send(d, [p EXCEPT !.to = new, !.looked = SentChecksum])
              /\ UNCHANGED handled
      /\ UNCHANGED <<ring, changes, asked, wire, destroyed>>

----------------------------------------------------------------------------
(* The environment *)

\* A server joins or leaves the ring of node n.
RingChanges(n, server) ==
  /\ changes < MaxChanges
  /\ changes' = changes + 1
  /\ ring' = [ring EXCEPT ![n] = IF server \in @.servers
                                   THEN RemoveServerReplicas(@, server)
                                   ELSE AddServerReplicas(@, server)]
  /\ UNCHANGED <<asked, parts, sends, wire, handled, pending, cb, callbacks, destroyed>>

\* A send whose timer RequestProxy.destroy clears.
Cleared(d) == d \in sends /\ parts[d].phase = "delay"

\* RingPop.destroy: the timers of the sends are cleared, and nothing answers
\* the requests that waited for them; the channel is closed.
Destroy ==
  /\ ~destroyed
  /\ destroyed' = TRUE
  /\ parts' = [d \in Nodes |->
                 IF Cleared(d) THEN [parts[d] EXCEPT !.phase = "cleared"] ELSE parts[d]]
  /\ sends' = {}
  /\ UNCHANGED <<ring, changes, asked, wire, handled, pending, cb, callbacks>>
----------------------------------------------------------------------------
Next ==
  \/ \E keys \in SUBSET Keys : HandleOrProxyAll(keys)
  \/ \E k \in Keys : HandleOrProxy(k)
  \/ \E d \in Nodes, err \in BOOLEAN : ApplicationAnswers(d, err)
  \/ \E d \in Nodes, ok \in BOOLEAN : Body(d, ok)
  \/ \E d \in Nodes : Identified(d) \/ IdentifyFails(d) \/ SendFails(d) \/ AttemptRetry(d)
  \/ \E m \in wire, answer \in {"ok", "error", "lost"} : HandleRequest(m, answer)
  \/ \E n, server \in Nodes : RingChanges(n, server)
  \/ Destroy

Spec == Init /\ [][Next]_vars

\* Bodies are read, connections are identified or not, requests time out, the
\* timers of retries fire, the application answers.
PartMoves(d) ==
  \/ \E ok \in BOOLEAN : Body(d, ok)
  \/ Identified(d) \/ IdentifyFails(d) \/ SendFails(d) \/ AttemptRetry(d)
  \/ \E err \in BOOLEAN : ApplicationAnswers(d, err)

FairSpec == Spec /\ \A d \in Nodes : WF_vars(PartMoves(d))

----------------------------------------------------------------------------
(* Properties *)

Phases == {"none", "application", "body", "identify", "sent", "delay", "answered", "cleared"}

\* The variables keep their types.
TypeOK ==
  /\ ring \in [Nodes -> Rings]
  /\ changes \in 0..MaxChanges
  /\ asked \in BOOLEAN
  /\ parts \in [Nodes -> [keys : SUBSET Keys, phase : Phases, to : Nodes, numRetries : Nat,
                         sent : Nat, looked : SUBSET Nodes, answers : Nat]]
  /\ sends \subseteq Nodes
  /\ wire \subseteq [part : Nodes, num : Nat, to : Nodes, keys : SUBSET Keys,
                     looked : SUBSET Nodes, head : SUBSET Nodes]
  /\ handled \subseteq [part : Nodes, num : Nat, by : Nodes, keys : SUBSET Keys,
                        looked : SUBSET Nodes, head : SUBSET Nodes, owned : SUBSET Keys]
  /\ pending \in Nat
  /\ cb \in BOOLEAN
  /\ callbacks \in Nat
  /\ destroyed \in BOOLEAN

Unanswered == {d \in Nodes : parts[d].phase \notin {"none", "answered"}}

\* Whatever retries, late answers and errors there are, no response ends twice,
\* and the callback of handleOrProxyAll is called once: by the last response,
\* or earlier by an error of the application of the node itself.
AnsweredOnce ==
  /\ \A d \in Nodes : parts[d].answers <= 1
  /\ pending = Cardinality(Unanswered)
  /\ callbacks <= 1
  /\ cb => callbacks = 0 /\ Unanswered # {}

\* A request is sent at most once more than there are retries, and no more
\* often given to an application, though a receiver may handle it after the
\* sender gave up on that attempt.
AttemptsBounded ==
  \A d \in Nodes :
    /\ parts[d].numRetries <= MaxRetries
    /\ Cardinality({h \in handled : h.part = d}) <= MaxRetries + 1

AllPoints(servers) == UNION {PointsOf[n] : n \in servers}

\* The key k is mapped by a point of the servers that no other node claims.
Settled(servers, k) ==
  AllPoints(servers) # {} /\ Cardinality(Claimants(First[AllPoints(servers), k])) = 1

\* Where consistency is enforced, whoever handles a request owns its keys in its
\* own ring, if the servers in the ring of the sender did not change between the
\* lookup and the sending: all keys but those at points that several nodes
\* claim, whose owner the checksum does not show.
OwnerIfSettled ==
  \A h \in handled :
    Enforce /\ h.looked = h.head =>
      \A k \in h.keys : Settled(h.head, k) => k \in h.owned

\* Every request ends: all of its parts are answered, but for those whose retry
\* waited for a timer that destroy cleared.
Concludes ==
  asked ~> \A d \in Nodes : parts[d].phase \in {"none", "answered", "cleared"}
=============================================================================
