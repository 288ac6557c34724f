------------------------ MODULE RequestProxyProofs ------------------------
(***************************************************************************)
(* Who is given a forwarded request, how often, and how often the client   *)
(* is answered: OwnerIfSettled, AttemptsBounded and AnsweredOnce of        *)
(* RequestProxy hold for any nodes and keys, wherever they hash to, any    *)
(* number of retries, and however often the rings change.                  *)
(***************************************************************************)
EXTENDS RequestProxy, FiniteSetTheorems, TLAPS

PartSet == [keys : SUBSET Keys, phase : Phases, to : Nodes, numRetries : Nat,
            sent : Nat, looked : SUBSET Nodes, answers : Nat]

Messages == [part : Nodes, num : Nat, to : Nodes, keys : SUBSET Keys,
             looked : SUBSET Nodes, head : SUBSET Nodes]

Handlings == [part : Nodes, num : Nat, by : Nodes, keys : SUBSET Keys,
              looked : SUBSET Nodes, head : SUBSET Nodes, owned : SUBSET Keys]

\* Every point belongs to a server of the ring that claims it, and no point that
\* only one node claims is missing.
SoundRings ==
  {r \in Rings :
     /\ \A p \in DOMAIN r.points :
          r.points[p] \in r.servers /\ p \in PointsOf[r.points[p]]
     /\ \A n \in r.servers : \A p \in PointsOf[n] :
          Claimants(p) = {n} => p \in DOMAIN r.points}

\* The node n is the only one that claims the point that maps a settled key.
OwnedBy(servers, n, keys) ==
  \A k \in keys :
    Settled(servers, k) => Claimants(First[AllPoints(servers), k]) = {n}

\* A part has keys, goes to their owner in the ring that was looked at, and was
\* sent once for every retry and once before, but for the send to come.
SoundPart(p) ==
  /\ p \in PartSet
  /\ p.phase # "none" => p.keys # {}
  /\ OwnedBy(p.looked, p.to, p.keys)
  /\ p.numRetries <= MaxRetries
  /\ p.sent <= p.numRetries + 1
  /\ p.phase \in {"body", "identify", "application"} => p.sent <= p.numRetries

\* One that waits for a retry has it left.
GoodPart(p) == SoundPart(p) /\ (p.phase = "delay" => p.numRetries < MaxRetries)

GoodMessage(m) == m \in Messages /\ OwnedBy(m.looked, m.to, m.keys)

\* Where consistency is enforced, who handled a request owned the settled keys
\* that the servers it was sent for map to it.
GoodHandling(h) ==
  /\ h \in Handlings
  /\ OwnedBy(h.looked, h.by, h.keys)
  /\ Enforce =>
       \A k \in h.keys :
         Settled(h.head, k) /\ Claimants(First[AllPoints(h.head), k]) = {h.by}
           => k \in h.owned

\* The phases of a part that is not sent again.
Ended == {"application", "answered"}

\* The attempt that h belongs to is one that p made; the last one of all may
\* have been given to the node's own application.
AttemptOf(h, p) ==
  /\ h.num \in 1..(MaxRetries + 1)
  /\ h.num <= p.sent \/ (h.num = p.sent + 1 /\ p.phase \in Ended)

SameAttempt(a, b) == a.part = b.part /\ a.num = b.num

\* No attempt is on the wire twice, or handled twice, or both.
AttemptsApart(w, done) ==
  /\ \A m1, m2 \in w : SameAttempt(m1, m2) => m1 = m2
  /\ \A h1, h2 \in done : SameAttempt(h1, h2) => h1 = h2
  /\ \A m \in w, h \in done : ~SameAttempt(m, h)

PartsGood(f) == f \in [Nodes -> PartSet] /\ \A d \in Nodes : GoodPart(f[d])

\* Every attempt belongs to the part it names.
Attempts(f, w, done) ==
  /\ \A m \in w : m.num \in 1..f[m.part].sent
  /\ \A h \in done : AttemptOf(h, f[h.part])

\* The inductive invariant.
IInv ==
  /\ ring \in [Nodes -> SoundRings]
  /\ ~asked => \A d \in Nodes : parts[d] = NoPart
  /\ PartsGood(parts)
  /\ \A m \in wire : GoodMessage(m)
  /\ \A h \in handled : GoodHandling(h)
  /\ Attempts(parts, wire, handled)
  /\ AttemptsApart(wire, handled)

----------------------------------------------------------------------------
(* Rings *)

LEMMA RingType ==
  ASSUME NEW S \in SUBSET Nodes, NEW D \in SUBSET Points, NEW f \in [D -> Nodes]
  PROVE  [servers |-> S, points |-> f] \in Rings
BY DEF Rings

LEMMA RingParts ==
  ASSUME NEW r \in Rings
  PROVE  /\ r.servers \in SUBSET Nodes
         /\ DOMAIN r.points \in SUBSET Points
         /\ r.points \in [DOMAIN r.points -> Nodes]
<1>1. r.servers \in SUBSET Nodes /\ r.points \in UNION {[P -> Nodes] : P \in SUBSET Points}
  BY DEF Rings
<1>2. PICK P \in SUBSET Points : r.points \in [P -> Nodes]
  BY <1>1
<1> QED BY <1>1, <1>2

\* The point that maps a settled key is in the ring, whatever became of the
\* contested ones, and the only node that claims it owns it.
LEMMA SettledOwner ==
  ASSUME NEW r \in SoundRings, NEW n \in Nodes, NEW k \in Keys, Settled(r.servers, k)
  PROVE  Claimants(First[AllPoints(r.servers), k]) = {LookupIn(r, n, k)}
<1> DEFINE A == AllPoints(r.servers)
           D == DOMAIN r.points
           f == First[A, k]
<1>1. r.servers \in SUBSET Nodes /\ D \in SUBSET Points
  BY RingParts DEF SoundRings
<1>2. A \in SUBSET Points /\ A # {}
  BY <1>1, PointsAssumption DEF AllPoints, Settled
<1>3. f \in A /\ \A Q \in SUBSET A : f \in Q => First[Q, k] = f
  BY <1>2, FirstAssumption
<1>4. D \subseteq A
  BY DEF SoundRings, AllPoints
<1>5. PICK c : Claimants(f) = {c}
  <2>1. Claimants(f) \subseteq Nodes
    BY DEF Claimants
  <2>2. IsFiniteSet(Claimants(f))
    BY <2>1, NodesAssumption, FS_Subset
  <2>3. Cardinality(Claimants(f)) = 1
    BY DEF Settled
  <2> HIDE DEF f
  <2> QED BY <2>2, <2>3, FS_Singleton
<1>6. c \in r.servers /\ f \in PointsOf[c]
  <2>1. PICK m \in r.servers : f \in PointsOf[m]
    BY <1>3 DEF AllPoints
  <2>2. m \in Claimants(f)
    BY <1>1, <2>1 DEF Claimants
  <2> QED BY <1>5, <2>1, <2>2
<1>7. f \in D
  BY <1>5, <1>6 DEF SoundRings
<1>8. First[D, k] = f
  BY <1>3, <1>4, <1>7
<1>9. LookupIn(r, n, k) = r.points[f]
  BY <1>7, <1>8 DEF LookupIn
<1>10. r.points[f] \in Claimants(f)
  BY <1>1, <1>7 DEF SoundRings, Claimants
<1> QED BY <1>5, <1>9, <1>10

LEMMA AddSound ==
  ASSUME NEW r \in SoundRings, NEW server \in Nodes
  PROVE  AddServerReplicas(r, server) \in SoundRings
<1> DEFINE D == DOMAIN r.points \cup PointsOf[server]
           f == [p \in D |-> IF p \in DOMAIN r.points THEN r.points[p] ELSE server]
           q == AddServerReplicas(r, server)
<1>1. /\ r.servers \in SUBSET Nodes /\ DOMAIN r.points \in SUBSET Points
      /\ r.points \in [DOMAIN r.points -> Nodes]
  BY RingParts DEF SoundRings
<1>2. q.servers = r.servers \cup {server} /\ q.points = f
  BY DEF AddServerReplicas
<1>3. q \in Rings
  <2>1. D \in SUBSET Points /\ f \in [D -> Nodes]
    BY <1>1, PointsAssumption
  <2> QED BY <1>1, <2>1, RingType DEF AddServerReplicas
<1> HIDE DEF q
<1>4. ASSUME NEW p \in DOMAIN q.points
      PROVE  q.points[p] \in q.servers /\ p \in PointsOf[q.points[p]]
  BY <1>2, <1>4 DEF SoundRings
<1>5. ASSUME NEW n \in q.servers, NEW p \in PointsOf[n], Claimants(p) = {n}
      PROVE  p \in DOMAIN q.points
  BY <1>2, <1>5 DEF SoundRings
<1> QED BY <1>3, <1>4, <1>5 DEF SoundRings, q

LEMMA RemoveSound ==
  ASSUME NEW r \in SoundRings, NEW server \in Nodes
  PROVE  RemoveServerReplicas(r, server) \in SoundRings
<1> DEFINE D == DOMAIN r.points \ PointsOf[server]
           f == [p \in D |-> r.points[p]]
           q == RemoveServerReplicas(r, server)
<1>1. /\ r.servers \in SUBSET Nodes /\ DOMAIN r.points \in SUBSET Points
      /\ r.points \in [DOMAIN r.points -> Nodes]
  BY RingParts DEF SoundRings
<1>2. q.servers = r.servers \ {server} /\ q.points = f
  BY DEF RemoveServerReplicas
<1>3. q \in Rings
  <2>1. D \in SUBSET Points /\ f \in [D -> Nodes]
    BY <1>1
  <2> QED BY <1>1, <2>1, RingType DEF RemoveServerReplicas
<1> HIDE DEF q
<1>4. ASSUME NEW p \in DOMAIN q.points
      PROVE  q.points[p] \in q.servers /\ p \in PointsOf[q.points[p]]
  BY <1>2, <1>4 DEF SoundRings
<1>5. ASSUME NEW n \in q.servers, NEW p \in PointsOf[n], Claimants(p) = {n}
      PROVE  p \in DOMAIN q.points
  <2>1. p \in DOMAIN r.points
    BY <1>2, <1>5 DEF SoundRings
  <2>2. p \notin PointsOf[server]
    BY <1>2, <1>5 DEF Claimants
  <2> QED BY <1>2, <2>1, <2>2
<1> QED BY <1>3, <1>4, <1>5 DEF SoundRings, q

----------------------------------------------------------------------------
(* Steps of the parts *)

\* What p is after a step: it is not sent less often, and once it has ended it
\* stays so.
Follows(p, q) ==
  /\ p.sent <= q.sent
  /\ p.phase \in Ended => q.phase \in Ended /\ q.sent = p.sent

PartsFollow == \A d \in Nodes : Follows(parts[d], parts'[d])

LEMMA OnePart ==
  ASSUME IInv, NEW d \in Nodes, NEW q, GoodPart(q), Follows(parts[d], q),
         parts' = [parts EXCEPT ![d] = q]
  PROVE  PartsGood(parts') /\ PartsFollow
<1>1. parts \in [Nodes -> PartSet] /\ \A e \in Nodes : GoodPart(parts[e])
  BY DEF IInv, PartsGood
<1>2. q \in PartSet
  BY DEF GoodPart, SoundPart
<1>3. parts' \in [Nodes -> PartSet]
  BY <1>1, <1>2
<1>4. ASSUME NEW e \in Nodes PROVE parts'[e] = IF e = d THEN q ELSE parts[e]
  BY <1>1
<1>5. ASSUME NEW e \in Nodes PROVE GoodPart(parts'[e])
  BY <1>1, <1>4
<1>6. ASSUME NEW e \in Nodes PROVE Follows(parts[e], parts'[e])
  <2>1. parts[e].sent \in Nat
    BY <1>1 DEF PartSet
  <2>2. Follows(parts[e], parts[e])
    BY <2>1 DEF Follows
  <2> QED BY <2>2, <1>4
<1> QED BY <1>3, <1>5, <1>6 DEF PartsGood, PartsFollow

\* Answer: a part whose retries and sends are in bounds is answered.
LEMMA AnswerGood ==
  ASSUME IInv, NEW d \in Nodes, NEW p, SoundPart(p), Follows(parts[d], p),
         p.phase # "none", Answer(d, p)
  PROVE  PartsGood(parts') /\ PartsFollow
<1> DEFINE q == [p EXCEPT !.phase = "answered", !.answers = @ + 1]
<1>1. parts' = [parts EXCEPT ![d] = q]
  BY DEF Answer
<1>2. p \in PartSet
  BY DEF SoundPart
<1>3. /\ q \in PartSet /\ q.phase = "answered" /\ q.sent = p.sent /\ q.keys = p.keys
      /\ q.looked = p.looked /\ q.to = p.to /\ q.numRetries = p.numRetries
  <2>1. p.answers + 1 \in Nat /\ "answered" \in Phases
    BY <1>2 DEF PartSet, Phases
  <2>2. q \in PartSet
    BY <1>2, <2>1 DEF PartSet
  <2> QED BY <1>2, <2>2 DEF PartSet
<1> HIDE DEF q
<1>4. GoodPart(q)
  BY <1>3 DEF GoodPart, SoundPart, OwnedBy
<1>5. Follows(parts[d], q)
  BY <1>3 DEF Follows, Ended
<1> QED BY <1>1, <1>4, <1>5, OnePart

\* A part with keys that has retries left, or one that waits for its first
\* send, may be sent.
LEMMA SendGood ==
  ASSUME IInv, NEW d \in Nodes, NEW p, SoundPart(p), Follows(parts[d], p),
         p.phase # "none", p.phase \notin Ended, parts[d].phase \notin Ended,
         p.sent <= p.numRetries, Send(d, p)
  PROVE  PartsGood(parts') /\ PartsFollow
<1>1. CASE destroyed
  BY <1>1, AnswerGood DEF Send
<1>2. CASE ~destroyed
  <2> DEFINE q == [p EXCEPT !.phase = "identify"]
  <2>1. parts' = [parts EXCEPT ![d] = q]
    BY <1>2 DEF Send
  <2>2. p \in PartSet
    BY DEF GoodPart, SoundPart
  <2>3. /\ q \in PartSet /\ q.phase = "identify" /\ q.sent = p.sent /\ q.keys = p.keys
        /\ q.looked = p.looked /\ q.to = p.to /\ q.numRetries = p.numRetries
    BY <2>2 DEF PartSet, Phases
  <2> HIDE DEF q
  <2>4. GoodPart(q)
    BY <2>3 DEF GoodPart, SoundPart, OwnedBy
  <2>5. Follows(parts[d], q)
    BY <2>3 DEF Follows
  <2> QED BY <2>1, <2>4, <2>5, OnePart
<1> QED BY <1>1, <1>2

\* onSend with an error: the part is answered, or waits for a retry it has.
LEMMA OnErrorGood ==
  ASSUME IInv, NEW d \in Nodes, parts[d].phase = "sent", OnError(d, parts[d])
  PROVE  PartsGood(parts') /\ PartsFollow
<1> DEFINE p == parts[d]
<1>1. GoodPart(p) /\ SoundPart(p) /\ p \in PartSet
  BY DEF IInv, PartsGood, GoodPart, SoundPart
<1>2. Follows(parts[d], p)
  BY <1>1 DEF Follows, PartSet
<1>3. CASE p.numRetries >= MaxRetries
  <2>1. Answer(d, p)
    BY <1>3 DEF OnError
  <2> QED BY <1>1, <1>2, <2>1, AnswerGood
<1>4. CASE ~(p.numRetries >= MaxRetries)
  <2> DEFINE q == [p EXCEPT !.phase = "delay"]
  <2>1. parts' = [parts EXCEPT ![d] = q]
    BY <1>4 DEF OnError, ScheduleRetry
  <2>2. /\ q \in PartSet /\ q.phase = "delay" /\ q.sent = p.sent /\ q.keys = p.keys
        /\ q.looked = p.looked /\ q.to = p.to /\ q.numRetries = p.numRetries
    BY <1>1 DEF PartSet, Phases
  <2>3. q.numRetries < MaxRetries
    BY <1>1, <1>4, <2>2, RetriesAssumption DEF PartSet
  <2>4. p.keys # {}
    BY <1>1 DEF GoodPart, SoundPart
  <2> HIDE DEF q
  <2>5. GoodPart(q)
    BY <1>1, <2>2, <2>3, <2>4 DEF GoodPart, SoundPart, OwnedBy
  <2>6. Follows(parts[d], q)
    BY <1>1, <2>2 DEF Follows, Ended, PartSet
  <2> QED BY <2>1, <2>5, <2>6, OnePart
<1> QED BY <1>3, <1>4

\* The attempts on the wire and the handled ones stay attempts of their parts.
LEMMA AttemptsKept ==
  ASSUME IInv, PartsGood(parts'), PartsFollow
  PROVE  Attempts(parts', wire, handled)
<1>1. parts \in [Nodes -> PartSet] /\ parts' \in [Nodes -> PartSet]
  BY DEF IInv, PartsGood
<1>2. ASSUME NEW m \in wire PROVE m.num \in 1..parts'[m.part].sent
  <2>1. m \in Messages /\ m.num \in 1..parts[m.part].sent
    BY <1>2 DEF IInv, GoodMessage, Attempts
  <2>2. m.part \in Nodes /\ m.num \in Nat
    BY <2>1 DEF Messages
  <2>3. parts[m.part].sent <= parts'[m.part].sent
    BY <2>2 DEF PartsFollow, Follows
  <2>4. parts[m.part].sent \in Nat /\ parts'[m.part].sent \in Nat
    BY <1>1, <2>2 DEF PartSet
  <2> QED BY <2>1, <2>2, <2>3, <2>4
<1>3. ASSUME NEW h \in handled PROVE AttemptOf(h, parts'[h.part])
  <2>1. h \in Handlings /\ AttemptOf(h, parts[h.part])
    BY <1>3 DEF IInv, GoodHandling, Attempts
  <2>2. h.part \in Nodes /\ h.num \in Nat
    BY <2>1 DEF Handlings
  <2>3. Follows(parts[h.part], parts'[h.part])
    BY <2>2 DEF PartsFollow
  <2>4. parts[h.part].sent \in Nat /\ parts'[h.part].sent \in Nat
    BY <1>1, <2>2 DEF PartSet
  <2> QED BY <2>1, <2>2, <2>3, <2>4 DEF AttemptOf, Follows
<1> QED BY <1>2, <1>3 DEF Attempts

\* When only the parts change, and none of them goes back, the rest of the
\* invariant stays.
LEMMA OnlyParts ==
  ASSUME IInv, asked', PartsGood(parts'), PartsFollow,
         ring' \in [Nodes -> SoundRings], UNCHANGED handled, wire' \subseteq wire
  PROVE  IInv'
<1>1. Attempts(parts', wire', handled')
  BY AttemptsKept DEF Attempts
<1>2. AttemptsApart(wire', handled')
  BY DEF IInv, AttemptsApart
<1> QED BY <1>1, <1>2 DEF IInv

\* The same when one more request is handled, an attempt of its own.
LEMMA OneHandled ==
  ASSUME IInv, asked', PartsGood(parts'), PartsFollow,
         ring' \in [Nodes -> SoundRings], wire' \subseteq wire,
         NEW h, handled' = handled \cup {h}, GoodHandling(h),
         AttemptOf(h, parts'[h.part]),
         \A g \in handled : ~SameAttempt(g, h),
         \A m \in wire' : ~SameAttempt(m, h)
  PROVE  IInv'
<1>1. Attempts(parts', wire', handled')
  BY AttemptsKept DEF Attempts
<1>2. AttemptsApart(wire', handled')
  <2>1. \A m1, m2 \in wire' : SameAttempt(m1, m2) => m1 = m2
    BY DEF IInv, AttemptsApart
  <2>2. \A h1, h2 \in handled' : SameAttempt(h1, h2) => h1 = h2
    BY DEF IInv, AttemptsApart, SameAttempt
  <2>3. \A m \in wire', g \in handled' : ~SameAttempt(m, g)
    BY DEF IInv, AttemptsApart
  <2> QED BY <2>1, <2>2, <2>3 DEF AttemptsApart
<1>3. \A g \in handled' : GoodHandling(g)
  BY DEF IInv
<1> QED BY <1>1, <1>2, <1>3 DEF IInv

----------------------------------------------------------------------------
(* Every action keeps the invariant *)

LEMMA LookupInNodes ==
  ASSUME ring \in [Nodes -> SoundRings], NEW n \in Nodes, NEW k \in Keys
  PROVE  /\ Lookup(n, k) \in Nodes
         /\ Settled(ring[n].servers, k) =>
              Claimants(First[AllPoints(ring[n].servers), k]) = {Lookup(n, k)}
<1> DEFINE r == ring[n]
<1>1. r \in SoundRings
  OBVIOUS
<1>2. Lookup(n, k) = LookupIn(r, n, k)
  BY DEF Lookup
<1> HIDE DEF r
<1>3. LookupIn(r, n, k) \in Nodes
  <2>1. CASE DOMAIN r.points = {}
    BY <2>1 DEF LookupIn
  <2>2. CASE DOMAIN r.points # {}
    <3>1. DOMAIN r.points \in SUBSET Points /\ r.points \in [DOMAIN r.points -> Nodes]
      BY <1>1, RingParts DEF SoundRings
    <3>2. First[DOMAIN r.points, k] \in DOMAIN r.points
      BY <2>2, <3>1, FirstAssumption
    <3> QED BY <2>2, <3>1, <3>2 DEF LookupIn
  <2> QED BY <2>1, <2>2
<1> QED BY <1>1, <1>2, <1>3, SettledOwner DEF r

\* The same of the sender and its checksum.
LEMMA SenderLookup ==
  ASSUME ring \in [Nodes -> SoundRings]
  PROVE  /\ SentChecksum \in SUBSET Nodes
         /\ \A k \in Keys :
              /\ Lookup(Self, k) \in Nodes
              /\ Settled(SentChecksum, k) =>
                   Claimants(First[AllPoints(SentChecksum), k]) = {Lookup(Self, k)}
<1>1. Self \in Nodes /\ SentChecksum = ring[Self].servers
  BY NodesAssumption DEF SentChecksum, Checksum
<1>2. SentChecksum \in SUBSET Nodes
  BY <1>1, RingParts DEF SoundRings
<1> QED BY <1>1, <1>2, LookupInNodes

\* A node owns the settled keys that the servers of its ring map to it.
LEMMA SettledOwned ==
  ASSUME ring \in [Nodes -> SoundRings], NEW n \in Nodes, NEW keys \in SUBSET Keys,
         NEW k \in keys, Settled(Checksum(ring[n]), k),
         Claimants(First[AllPoints(Checksum(ring[n])), k]) = {n}
  PROVE  k \in Owned(n, keys)
<1>1. Claimants(First[AllPoints(ring[n].servers), k]) = {Lookup(n, k)}
  BY LookupInNodes DEF Checksum
<1>2. Lookup(n, k) = n
  BY <1>1 DEF Checksum
<1> QED BY <1>2 DEF Owned

\* A part that waits for its first send, or for the application.
LEMMA NewPartGood ==
  ASSUME NEW keys \in SUBSET Keys, keys # {}, NEW to \in Nodes, NEW looked \in SUBSET Nodes,
         OwnedBy(looked, to, keys), NEW phase \in {"application", "body"}
  PROVE  /\ GoodPart(NewPart(phase, keys, to, looked))
         /\ NewPart(phase, keys, to, looked).sent = 0
<1> DEFINE q == NewPart(phase, keys, to, looked)
<1>1. /\ q.keys = keys /\ q.phase = phase /\ q.to = to /\ q.looked = looked
      /\ q.numRetries = 0 /\ q.sent = 0
  BY DEF NewPart
<1>2. q \in PartSet
  BY DEF NewPart, PartSet, Phases
<1> HIDE DEF q
<1>3. OwnedBy(q.looked, q.to, q.keys)
  BY <1>1
<1>4. GoodPart(q) /\ q.sent = 0
  BY <1>1, <1>2, <1>3, RetriesAssumption DEF GoodPart, SoundPart
<1> QED BY <1>4 DEF q

LEMMA NoPartGood == GoodPart(NoPart) /\ NoPart.sent = 0 /\ NoPart.phase = "none"
<1>1. /\ NoPart.keys = {} /\ NoPart.phase = "none" /\ NoPart.to = Self
      /\ NoPart.looked = {} /\ NoPart.numRetries = 0 /\ NoPart.sent = 0
  BY DEF NoPart, NewPart
<1>2. NoPart \in PartSet
  BY NodesAssumption DEF NoPart, NewPart, PartSet, Phases
<1> QED BY <1>1, <1>2, RetriesAssumption DEF GoodPart, SoundPart, OwnedBy

LEMMA InitInv == Init => IInv
<1> SUFFICES ASSUME Init PROVE IInv
  OBVIOUS
<1>1. ring \in [Nodes -> SoundRings]
  <2>1. JoinedRings \subseteq SoundRings
    BY DEF JoinedRings, SoundRings, Claimants
  <2> QED BY <2>1 DEF Init
<1>2. PartsGood(parts) /\ \A d \in Nodes : parts[d] = NoPart
  BY NoPartGood DEF Init, PartsGood, GoodPart, SoundPart
<1>3. wire = {} /\ handled = {}
  BY DEF Init
<1> QED BY <1>1, <1>2, <1>3 DEF IInv, Attempts, AttemptsApart

LEMMA HandleOrProxyAllInv ==
  ASSUME IInv, NEW keys \in SUBSET Keys, HandleOrProxyAll(keys)
  PROVE  IInv'
<1> DEFINE group(d) == {k \in keys : Lookup(Self, k) = d}
           new(d) == NewPart(IF d = Self THEN "application" ELSE "body",
                             group(d), d, SentChecksum)
           part(d) == IF d \notin {e \in Nodes : group(e) # {}} THEN NoPart ELSE new(d)
<1>1. ring \in [Nodes -> SoundRings] /\ ring' = ring /\ Self \in Nodes
  BY NodesAssumption DEF IInv, HandleOrProxyAll
<1>2. parts' = [d \in Nodes |-> part(d)]
  BY DEF HandleOrProxyAll
<1>3. ASSUME NEW d \in Nodes PROVE GoodPart(part(d)) /\ part(d).sent = 0
  <2>1. CASE group(d) = {}
    BY <2>1, NoPartGood
  <2>2. CASE group(d) # {}
    <3>1. part(d) = new(d)
      BY <2>2
    <3>2. group(d) \in SUBSET Keys /\ SentChecksum \in SUBSET Nodes
      BY <1>1, SenderLookup
    <3>3. OwnedBy(SentChecksum, d, group(d))
      <4>1. ASSUME NEW k \in group(d), Settled(SentChecksum, k)
            PROVE  Claimants(First[AllPoints(SentChecksum), k]) = {d}
        <5>1. k \in Keys /\ Lookup(Self, k) = d
          BY <4>1
        <5> QED BY <1>1, <4>1, <5>1, SenderLookup
      <4> QED BY <4>1 DEF OwnedBy
    <3>4. (IF d = Self THEN "application" ELSE "body") \in {"application", "body"}
      OBVIOUS
    <3> HIDE DEF group
    <3>5. GoodPart(new(d)) /\ new(d).sent = 0
      BY <2>2, <3>2, <3>3, <3>4, NewPartGood
    <3> QED BY <3>1, <3>5
  <2> QED BY <2>1, <2>2
<1> HIDE DEF part
<1>4. PartsGood(parts')
  BY <1>2, <1>3 DEF PartsGood, GoodPart, SoundPart
<1>5. PartsFollow
  <2>1. ASSUME NEW d \in Nodes PROVE Follows(parts[d], parts'[d])
    <3>1. parts[d] = NoPart
      BY DEF IInv, HandleOrProxyAll
    <3> QED BY <1>2, <1>3, <3>1, NoPartGood DEF Follows, Ended
  <2> QED BY <2>1 DEF PartsFollow
<1>6. asked' /\ UNCHANGED <<wire, handled>>
  BY DEF HandleOrProxyAll
<1> QED BY <1>1, <1>4, <1>5, <1>6, OnlyParts

LEMMA HandleOrProxyInv ==
  ASSUME IInv, NEW k \in Keys, HandleOrProxy(k)
  PROVE  IInv'
<1>1. ring \in [Nodes -> SoundRings] /\ ring' = ring /\ Self \in Nodes
  BY NodesAssumption DEF IInv, HandleOrProxy
<1>2. asked' /\ UNCHANGED <<wire, handled>>
  BY DEF HandleOrProxy
<1>3. CASE Lookup(Self, k) = Self
  <2>1. parts' = parts
    BY <1>3 DEF HandleOrProxy
  <2>2. PartsGood(parts')
    BY <2>1 DEF IInv
  <2>3. PartsFollow
    BY <2>1, <2>2 DEF PartsFollow, Follows, PartsGood, PartSet
  <2> QED BY <1>1, <1>2, <2>2, <2>3, OnlyParts
<1>4. CASE Lookup(Self, k) # Self
  <2> DEFINE d == Lookup(Self, k)
             q == NewPart("body", {k}, d, SentChecksum)
  <2>1. /\ d \in Nodes
        /\ Settled(SentChecksum, k) =>
             Claimants(First[AllPoints(SentChecksum), k]) = {d}
    BY <1>1, SenderLookup
  <2>2. parts' = [parts EXCEPT ![d] = q]
    BY <1>4 DEF HandleOrProxy
  <2>3. OwnedBy(SentChecksum, d, {k})
    BY <2>1 DEF OwnedBy
  <2>4. {k} \in SUBSET Keys /\ {k} # {} /\ SentChecksum \in SUBSET Nodes
    BY <1>1, SenderLookup
  <2>5. parts[d] = NoPart
    BY <2>1 DEF IInv, HandleOrProxy
  <2> HIDE DEF d
  <2>6. GoodPart(q) /\ q.sent = 0
    BY <2>1, <2>3, <2>4, NewPartGood
  <2> HIDE DEF q
  <2>7. Follows(parts[d], q)
    BY <2>5, <2>6, NoPartGood DEF Follows, Ended
  <2>8. PartsGood(parts') /\ PartsFollow
    BY <2>1, <2>2, <2>6, <2>7, OnePart
  <2> QED BY <1>1, <1>2, <2>8, OnlyParts
<1> QED BY <1>3, <1>4

----------------------------------------------------------------------------
\* What the other actions know of the part they move.
LEMMA PartKnown ==
  ASSUME IInv, NEW d \in Nodes
  PROVE  /\ GoodPart(parts[d]) /\ SoundPart(parts[d]) /\ parts[d] \in PartSet
         /\ Follows(parts[d], parts[d])
         /\ parts[d].phase # "none" => asked
<1>1. GoodPart(parts[d]) /\ SoundPart(parts[d]) /\ parts[d] \in PartSet
  BY DEF IInv, PartsGood, GoodPart, SoundPart
<1>2. Follows(parts[d], parts[d])
  BY <1>1 DEF Follows, PartSet
<1>3. ~asked => parts[d].phase = "none"
  BY NoPartGood DEF IInv
<1> QED BY <1>1, <1>2, <1>3

LEMMA ApplicationAnswersInv ==
  ASSUME IInv, NEW d \in Nodes, NEW err \in BOOLEAN, ApplicationAnswers(d, err)
  PROVE  IInv'
<1>1. /\ parts[d].phase = "application"
      /\ ring' = ring /\ UNCHANGED <<asked, wire, handled>>
  BY DEF ApplicationAnswers
<1>2. asked /\ GoodPart(parts[d]) /\ parts[d] \in PartSet
  BY <1>1, PartKnown
<1> DEFINE q == [parts[d] EXCEPT !.phase = "answered", !.answers = @ + 1]
<1>3. parts' = [parts EXCEPT ![d] = q]
  <2>1. parts \in [Nodes -> PartSet]
    BY DEF IInv, PartsGood
  <2>2. CASE d = Self
    <3>1. parts' = [parts EXCEPT ![d].phase = "answered", ![d].answers = @ + 1]
      BY <2>2 DEF ApplicationAnswers
    <3> QED BY <2>1, <3>1, <1>2 DEF PartSet
  <2>3. CASE d # Self
    BY <2>3 DEF ApplicationAnswers, Answer
  <2> QED BY <2>2, <2>3
<1>4. /\ q \in PartSet /\ q.phase = "answered" /\ q.sent = parts[d].sent
      /\ q.keys = parts[d].keys /\ q.looked = parts[d].looked
      /\ q.to = parts[d].to /\ q.numRetries = parts[d].numRetries
  <2>1. parts[d].answers + 1 \in Nat /\ "answered" \in Phases
    BY <1>2 DEF PartSet, Phases
  <2>2. q \in PartSet
    BY <1>2, <2>1 DEF PartSet
  <2> QED BY <1>2, <2>2 DEF PartSet
<1> HIDE DEF q
<1>5. GoodPart(q)
  BY <1>1, <1>2, <1>4 DEF GoodPart, SoundPart, OwnedBy
<1>6. Follows(parts[d], q)
  BY <1>2, <1>4 DEF Follows, Ended, PartSet
<1>7. PartsGood(parts') /\ PartsFollow
  BY <1>3, <1>5, <1>6, OnePart
<1>8. ring' \in [Nodes -> SoundRings]
  BY <1>1 DEF IInv
<1> QED BY <1>1, <1>2, <1>7, <1>8, OnlyParts

LEMMA BodyInv ==
  ASSUME IInv, NEW d \in Nodes, NEW ok \in BOOLEAN, Body(d, ok)
  PROVE  IInv'
<1>1. parts[d].phase = "body" /\ UNCHANGED <<ring, asked, wire, handled>>
  BY DEF Body
<1>2. asked /\ SoundPart(parts[d]) /\ Follows(parts[d], parts[d])
  BY <1>1, PartKnown
<1>3. parts[d].sent <= parts[d].numRetries /\ parts[d].phase \notin Ended
  BY <1>1, <1>2 DEF GoodPart, SoundPart, Ended
<1>4. PartsGood(parts') /\ PartsFollow
  <2>1. CASE ok
    <3>1. Send(d, parts[d])
      BY <2>1 DEF Body
    <3> QED BY <1>1, <1>2, <1>3, <3>1, SendGood
  <2>2. CASE ~ok
    <3>1. Answer(d, parts[d])
      BY <2>2 DEF Body
    <3> QED BY <1>1, <1>2, <3>1, AnswerGood
  <2> QED BY <2>1, <2>2
<1>5. ring' \in [Nodes -> SoundRings]
  BY <1>1 DEF IInv
<1> QED BY <1>1, <1>2, <1>4, <1>5, OnlyParts

LEMMA IdentifyFailsInv ==
  ASSUME IInv, NEW d \in Nodes, IdentifyFails(d)
  PROVE  IInv'
<1>1. /\ parts[d].phase = "identify" /\ Answer(d, parts[d])
      /\ UNCHANGED <<ring, asked, wire, handled>>
  BY DEF IdentifyFails
<1>2. asked /\ SoundPart(parts[d]) /\ Follows(parts[d], parts[d])
  BY <1>1, PartKnown
<1>3. PartsGood(parts') /\ PartsFollow
  BY <1>1, <1>2, AnswerGood
<1>4. ring' \in [Nodes -> SoundRings]
  BY <1>1 DEF IInv
<1> QED BY <1>1, <1>2, <1>3, <1>4, OnlyParts

LEMMA SendFailsInv ==
  ASSUME IInv, NEW d \in Nodes, SendFails(d)
  PROVE  IInv'
<1>1. /\ parts[d].phase = "sent" /\ OnError(d, parts[d])
      /\ UNCHANGED <<ring, asked, wire, handled>>
  BY DEF SendFails
<1>2. asked
  BY <1>1, PartKnown
<1>3. PartsGood(parts') /\ PartsFollow
  BY <1>1, OnErrorGood
<1>4. ring' \in [Nodes -> SoundRings]
  BY <1>1 DEF IInv
<1> QED BY <1>1, <1>2, <1>3, <1>4, OnlyParts

LEMMA IdentifiedInv ==
  ASSUME IInv, NEW d \in Nodes, Identified(d)
  PROVE  IInv'
<1> DEFINE p == parts[d]
           q == [p EXCEPT !.phase = "sent", !.sent = @ + 1]
           new == [part |-> d, num |-> p.sent + 1, to |-> p.to, keys |-> p.keys,
                   looked |-> p.looked, head |-> SentChecksum]
<1>1. /\ p.phase = "identify" /\ parts' = [parts EXCEPT ![d] = q]
      /\ wire' = wire \cup {new} /\ UNCHANGED <<ring, asked, handled>>
  BY DEF Identified
<1>2. asked /\ GoodPart(p) /\ p \in PartSet
  BY <1>1, PartKnown
<1>3. p.sent \in Nat /\ p.numRetries \in Nat /\ p.sent <= p.numRetries
  BY <1>1, <1>2 DEF GoodPart, SoundPart, PartSet
<1>4. /\ q \in PartSet /\ q.phase = "sent" /\ q.sent = p.sent + 1 /\ q.keys = p.keys
      /\ q.looked = p.looked /\ q.to = p.to /\ q.numRetries = p.numRetries
  <2>1. p.sent + 1 \in Nat /\ "sent" \in Phases
    BY <1>3 DEF Phases
  <2>2. q \in PartSet
    BY <1>2, <2>1 DEF PartSet
  <2> QED BY <1>2, <2>2 DEF PartSet
<1>5. GoodMessage(new)
  <2>1. SentChecksum \in SUBSET Nodes
    BY NodesAssumption, RingParts DEF IInv, SoundRings, SentChecksum, Checksum
  <2>2. new \in Messages
    BY <1>2, <1>3, <2>1 DEF Messages, PartSet
  <2>3. OwnedBy(new.looked, new.to, new.keys)
    BY <1>2 DEF GoodPart, SoundPart
  <2> QED BY <2>2, <2>3 DEF GoodMessage
<1>6. new.part = d /\ new.num = p.sent + 1
  OBVIOUS
<1> HIDE DEF q, new
<1>7. PartsGood(parts') /\ PartsFollow
  <2>1. GoodPart(q)
    <3>1. q.keys # {} /\ q.numRetries <= MaxRetries /\ q.sent <= q.numRetries + 1
      BY <1>1, <1>2, <1>3, <1>4 DEF GoodPart, SoundPart
    <3>2. OwnedBy(q.looked, q.to, q.keys)
      BY <1>2, <1>4 DEF GoodPart, SoundPart
    <3> QED BY <1>4, <3>1, <3>2 DEF GoodPart, SoundPart
  <2>2. Follows(parts[d], q)
    BY <1>1, <1>3, <1>4 DEF Follows, Ended
  <2> QED BY <1>1, <2>1, <2>2, OnePart
<1>8. Attempts(parts', wire', handled')
  <2>1. Attempts(parts', wire, handled)
    BY <1>7, AttemptsKept
  <2>2. parts'[d].sent = p.sent + 1
    BY <1>1, <1>4 DEF IInv, PartsGood
  <2>3. new.num \in 1..parts'[new.part].sent
    BY <1>3, <1>6, <2>2
  <2> QED BY <1>1, <2>1, <2>3 DEF Attempts
<1>9. AttemptsApart(wire', handled')
  <2>1. ASSUME NEW m \in wire PROVE ~SameAttempt(m, new)
    <3>1. m.num \in 1..parts[m.part].sent
      BY <2>1 DEF IInv, Attempts
    <3> QED BY <1>3, <1>6, <3>1 DEF SameAttempt
  <2>2. ASSUME NEW h \in handled PROVE ~SameAttempt(h, new)
    <3>1. AttemptOf(h, parts[h.part])
      BY <2>2 DEF IInv, Attempts
    <3>2. CASE h.part = d
      <4>1. h.num <= p.sent /\ h.num \in Nat
        BY <1>1, <3>1, <3>2, RetriesAssumption DEF AttemptOf, Ended
      <4> QED BY <1>3, <1>6, <4>1 DEF SameAttempt
    <3>3. CASE h.part # d
      BY <1>6, <3>3 DEF SameAttempt
    <3> QED BY <3>2, <3>3
  <2>3. AttemptsApart(wire, handled)
    BY DEF IInv
  <2>4. \A m1, m2 \in wire' : SameAttempt(m1, m2) => m1 = m2
    BY <1>1, <2>1, <2>3 DEF AttemptsApart, SameAttempt
  <2>5. \A h1, h2 \in handled' : SameAttempt(h1, h2) => h1 = h2
    BY <1>1, <2>3 DEF AttemptsApart
  <2>6. \A m \in wire', h \in handled' : ~SameAttempt(m, h)
    BY <1>1, <2>2, <2>3 DEF AttemptsApart, SameAttempt
  <2> QED BY <2>4, <2>5, <2>6 DEF AttemptsApart
<1>10. \A m \in wire' : GoodMessage(m)
  BY <1>1, <1>5 DEF IInv
<1> QED BY <1>1, <1>2, <1>7, <1>8, <1>9, <1>10 DEF IInv

LEMMA HandleRequestInv ==
  ASSUME IInv, NEW m \in wire, NEW answer \in {"ok", "error", "lost"},
         HandleRequest(m, answer)
  PROVE  IInv'
<1> DEFINE d == m.part
           h == Handling(m)
<1>1. /\ m \in Messages /\ GoodMessage(m) /\ m.num \in 1..parts[d].sent
  BY DEF IInv, GoodMessage, Attempts
<1>2. d \in Nodes /\ m.to \in Nodes /\ m.num \in Nat
  BY <1>1 DEF Messages
<1>3. SoundPart(parts[d]) /\ parts[d] \in PartSet /\ Follows(parts[d], parts[d])
  BY <1>2, PartKnown
<1>4. asked
  <2>1. parts[d].sent # 0
    BY <1>1, <1>3 DEF PartSet
  <2> QED BY <1>2, <2>1, NoPartGood DEF IInv
<1>5. wire' = wire \ {m} /\ UNCHANGED <<ring, asked>>
  BY DEF HandleRequest
<1>6. PartsGood(parts') /\ PartsFollow
  <2>1. CASE ~Awaited(m) \/ answer = "lost"
    <3>1. parts' = parts
      BY <2>1 DEF HandleRequest
    <3>2. PartsGood(parts')
      BY <3>1 DEF IInv
    <3> QED BY <3>1, <3>2 DEF PartsFollow, Follows, PartsGood, PartSet
  <2>2. CASE Awaited(m) /\ answer # "lost"
    <3>1. parts[d].phase = "sent"
      BY <2>2 DEF Awaited
    <3>2. Answer(d, parts[d]) \/ OnError(d, parts[d])
      BY <2>2 DEF HandleRequest
    <3>3. CASE Answer(d, parts[d])
      BY <1>2, <1>3, <3>1, <3>3, AnswerGood
    <3>4. CASE OnError(d, parts[d])
      BY <1>2, <3>1, <3>4, OnErrorGood
    <3> QED BY <3>2, <3>3, <3>4
  <2> QED BY <2>1, <2>2
<1>7. CASE ~Accepts(m.to, m.head)
  <2>1. handled' = handled
    BY <1>7 DEF HandleRequest
  <2> QED BY <1>4, <1>5, <1>6, <2>1, OnlyParts DEF IInv
<1>8. CASE Accepts(m.to, m.head)
  <2>1. handled' = handled \cup {h}
    BY <1>8 DEF HandleRequest
  <2>2. /\ h.part = d /\ h.num = m.num /\ h.by = m.to /\ h.keys = m.keys
        /\ h.looked = m.looked /\ h.head = m.head
        /\ h.owned = Owned(m.to, m.keys)
    BY DEF Handling
  <2>3. h \in Handlings
    <3>1. Owned(m.to, m.keys) \in SUBSET Keys
      BY <1>1 DEF Owned, Messages
    <3> QED BY <1>1, <3>1 DEF Handling, Handlings, Messages
  <2> HIDE DEF h
  <2>4. GoodHandling(h)
    <3>1. OwnedBy(h.looked, h.by, h.keys)
      BY <1>1, <2>2 DEF GoodMessage
    <3>2. ASSUME Enforce, NEW k \in h.keys, Settled(h.head, k),
                 Claimants(First[AllPoints(h.head), k]) = {h.by}
          PROVE  k \in h.owned
      <4>1. h.head = Checksum(ring[m.to])
        BY <1>8, <2>2, <3>2 DEF Accepts
      <4>2. m.keys \in SUBSET Keys /\ ring \in [Nodes -> SoundRings]
        BY <1>1 DEF Messages, IInv
      <4> QED BY <1>2, <2>2, <3>2, <4>1, <4>2, SettledOwned
    <3> QED BY <2>3, <3>1, <3>2 DEF GoodHandling
  <2>5. AttemptOf(h, parts'[h.part])
    <3>1. parts[d].sent <= parts'[d].sent /\ parts'[d].sent \in Nat
      BY <1>2, <1>6 DEF PartsFollow, Follows, PartsGood, PartSet
    <3>2. parts[d].sent \in Nat /\ parts[d].sent <= MaxRetries + 1
      <4>1. /\ parts[d].sent \in Nat /\ parts[d].numRetries \in Nat
            /\ parts[d].numRetries <= MaxRetries
            /\ parts[d].sent <= parts[d].numRetries + 1
        BY <1>3 DEF GoodPart, SoundPart, PartSet
      <4> QED BY <4>1, RetriesAssumption
    <3> QED BY <1>1, <2>2, <3>1, <3>2, RetriesAssumption DEF AttemptOf
  <2>6. \A g \in handled : ~SameAttempt(g, h)
    BY <2>2 DEF IInv, AttemptsApart, SameAttempt
  <2>7. \A m2 \in wire' : ~SameAttempt(m2, h)
    BY <1>5, <2>2 DEF IInv, AttemptsApart, SameAttempt
  <2>8. asked' /\ ring' \in [Nodes -> SoundRings] /\ wire' \subseteq wire
    BY <1>4, <1>5 DEF IInv
  <2> QED BY <1>6, <2>1, <2>4, <2>5, <2>6, <2>7, <2>8, OneHandled
<1> QED BY <1>7, <1>8

LEMMA RingChangesInv ==
  ASSUME IInv, NEW n \in Nodes, NEW server \in Nodes, RingChanges(n, server)
  PROVE  IInv'
<1>1. ring' \in [Nodes -> SoundRings]
  <2>1. ring \in [Nodes -> SoundRings] /\ ring[n] \in SoundRings
    BY DEF IInv
  <2>2. \E r \in SoundRings : ring' = [ring EXCEPT ![n] = r]
    BY <2>1, AddSound, RemoveSound DEF RingChanges
  <2> QED BY <2>1, <2>2
<1>2. UNCHANGED <<asked, parts, wire, handled>>
  BY DEF RingChanges
<1> QED BY <1>1, <1>2 DEF IInv, Attempts

LEMMA DestroyInv ==
  ASSUME IInv, Destroy
  PROVE  IInv'
<1> DEFINE q(d) == [parts[d] EXCEPT !.phase = "cleared"]
<1>1. UNCHANGED <<ring, asked, wire, handled>>
  BY DEF Destroy
<1>2. parts' = [d \in Nodes |-> IF Cleared(d) THEN q(d) ELSE parts[d]]
  BY DEF Destroy
<1>3. ASSUME NEW d \in Nodes
      PROVE  GoodPart(parts'[d]) /\ Follows(parts[d], parts'[d])
  <2>1. GoodPart(parts[d]) /\ parts[d] \in PartSet /\ Follows(parts[d], parts[d])
    BY PartKnown
  <2>2. CASE Cleared(d)
    <3>1. /\ q(d) \in PartSet /\ q(d).phase = "cleared" /\ q(d).sent = parts[d].sent
          /\ q(d).keys = parts[d].keys /\ q(d).looked = parts[d].looked
          /\ q(d).to = parts[d].to /\ q(d).numRetries = parts[d].numRetries
      BY <2>1 DEF PartSet, Phases
    <3>2. parts'[d] = q(d) /\ parts[d].phase = "delay"
      BY <1>2, <2>2 DEF Cleared
    <3> HIDE DEF q
    <3>3. GoodPart(q(d))
      BY <2>1, <3>1, <3>2 DEF GoodPart, SoundPart, OwnedBy
    <3>4. Follows(parts[d], q(d))
      BY <2>1, <3>1, <3>2 DEF Follows, Ended, PartSet
    <3> QED BY <3>2, <3>3, <3>4
  <2>3. CASE ~Cleared(d)
    BY <1>2, <2>1, <2>3
  <2> QED BY <2>2, <2>3
<1>4. PartsGood(parts') /\ PartsFollow
  BY <1>2, <1>3 DEF PartsGood, PartsFollow, GoodPart, SoundPart
<1>5. CASE asked
  BY <1>1, <1>4, <1>5, OnlyParts DEF IInv
<1>6. CASE ~asked
  <2>1. parts' = parts
    <3>1. parts \in [Nodes -> PartSet]
      BY DEF IInv, PartsGood
    <3>2. \A d \in Nodes : ~Cleared(d)
      BY <1>6, NoPartGood DEF IInv, Cleared
    <3> QED BY <1>2, <3>1, <3>2
  <2> QED BY <1>1, <2>1 DEF IInv, Attempts
<1> QED BY <1>5, <1>6

\* The keys of a retry map to one node, so NewDest owns them all.
LEMMA NewDestOwns ==
  ASSUME ring \in [Nodes -> SoundRings], NEW d \in Nodes, NEW p \in PartSet, p.keys # {},
         ~(Cardinality({Lookup(Self, k) : k \in p.keys}) > 1)
  PROVE  NewDest(d, p) \in Nodes /\ OwnedBy(SentChecksum, NewDest(d, p), p.keys)
<1> DEFINE dests == {Lookup(Self, k) : k \in p.keys}
<1>1. Self \in Nodes /\ p.keys \subseteq Keys /\ IsFiniteSet(Nodes)
  BY NodesAssumption DEF PartSet
<1>2. dests \subseteq Nodes
  BY <1>1, SenderLookup
<1>3. dests # {}
  OBVIOUS
<1>4. \E n : dests = {n}
  <2> HIDE DEF dests
  <2>1. IsFiniteSet(dests) /\ Cardinality(dests) \in Nat
    BY <1>1, <1>2, FS_Subset, FS_CardinalityType
  <2>2. Cardinality(dests) # 0
    BY <1>3, <2>1, FS_EmptySet
  <2>3. ~(Cardinality(dests) > 1)
    BY DEF dests
  <2>4. Cardinality(dests) = 1
    BY <2>1, <2>2, <2>3
  <2> QED BY <2>1, <2>4, FS_Singleton
<1>5. PICK n : dests = {n}
  BY <1>4
<1>6. n \in Nodes /\ \A k \in p.keys : Lookup(Self, k) = n
  BY <1>2, <1>5
<1>7. \E x \in Nodes : \E k \in p.keys : Lookup(Self, k) = x
  BY <1>6
<1>8. NewDest(d, p) \in Nodes /\ \E k \in p.keys : Lookup(Self, k) = NewDest(d, p)
  BY <1>7 DEF NewDest
<1>9. NewDest(d, p) = n
  BY <1>6, <1>8
<1>10. OwnedBy(SentChecksum, n, p.keys)
  <2>1. ASSUME NEW k \in p.keys, Settled(SentChecksum, k)
        PROVE  Claimants(First[AllPoints(SentChecksum), k]) = {n}
    <3>1. k \in Keys
      BY <1>1
    <3> QED BY <1>1, <1>6, <2>1, <3>1, SenderLookup
  <2> QED BY <2>1 DEF OwnedBy
<1> QED BY <1>6, <1>9, <1>10

LEMMA AttemptRetryInv ==
  ASSUME IInv, NEW d \in Nodes, AttemptRetry(d)
  PROVE  IInv'
<1> DEFINE p   == [parts[d] EXCEPT !.numRetries = @ + 1]
           new == NewDest(d, p)
<1>1. parts[d].phase = "delay" /\ UNCHANGED <<ring, asked, wire>>
  <2>1. p.phase = "delay"
    BY DEF AttemptRetry
  <2>2. parts[d] \in PartSet
    BY PartKnown
  <2> QED BY <2>1, <2>2 DEF AttemptRetry, PartSet
<1>2. asked /\ GoodPart(parts[d]) /\ parts[d] \in PartSet
  BY <1>1, PartKnown
<1>3. /\ parts[d].sent \in Nat /\ parts[d].numRetries \in Nat
      /\ parts[d].numRetries < MaxRetries /\ parts[d].sent <= parts[d].numRetries + 1
  BY <1>1, <1>2 DEF GoodPart, SoundPart, PartSet
<1>4. /\ p \in PartSet /\ p.phase = "delay" /\ p.sent = parts[d].sent
      /\ p.keys = parts[d].keys /\ p.looked = parts[d].looked /\ p.to = parts[d].to
      /\ p.numRetries = parts[d].numRetries + 1
  <2>1. parts[d].numRetries + 1 \in Nat
    BY <1>3
  <2>2. p \in PartSet
    BY <1>2, <2>1 DEF PartSet
  <2> QED BY <1>1, <1>2, <2>2 DEF PartSet
<1>5. p.numRetries <= MaxRetries /\ p.sent <= p.numRetries /\ p.keys # {}
  BY <1>1, <1>2, <1>3, <1>4, RetriesAssumption DEF GoodPart, SoundPart
<1>6. ring \in [Nodes -> SoundRings] /\ ring' \in [Nodes -> SoundRings]
      /\ SentChecksum \in SUBSET Nodes
  BY <1>1, SenderLookup DEF IInv
<1>7. SoundPart(p) /\ Follows(parts[d], p)
  <2> HIDE DEF p
  <2>1. OwnedBy(p.looked, p.to, p.keys)
    BY <1>2, <1>4 DEF GoodPart, SoundPart
  <2>2. p.sent <= p.numRetries + 1
    BY <1>3, <1>4
  <2>3. SoundPart(p)
    BY <1>4, <1>5, <2>1, <2>2 DEF SoundPart
  <2>4. Follows(parts[d], p)
    BY <1>1, <1>3, <1>4 DEF Follows, Ended
  <2> QED BY <2>3, <2>4
<1>8. CASE Cardinality({Lookup(Self, k) : k \in p.keys}) > 1
  <2>1. Answer(d, p) /\ handled' = handled
    BY <1>8 DEF AttemptRetry
  <2> HIDE DEF p
  <2>2. PartsGood(parts') /\ PartsFollow
    BY <1>4, <1>7, <2>1, AnswerGood
  <2> QED BY <1>1, <1>2, <1>6, <2>1, <2>2, OnlyParts
<1>9. CASE ~(Cardinality({Lookup(Self, k) : k \in p.keys}) > 1)
  <2>1. new \in Nodes /\ OwnedBy(SentChecksum, new, p.keys)
    <3> HIDE DEF p
    <3> QED BY <1>4, <1>5, <1>6, <1>9, NewDestOwns
  <2>2. CASE new = Self
    <3> DEFINE h == [part |-> d, num |-> p.sent + 1, by |-> Self, keys |-> p.keys,
                     looked |-> SentChecksum, head |-> SentChecksum,
                     owned |-> Owned(Self, p.keys)]
               q == [p EXCEPT !.phase = "application"]
    <3>1. /\ handled' = handled \cup {h} /\ parts' = [parts EXCEPT ![d] = q]
      BY <1>9, <2>2 DEF AttemptRetry, Reroute
    <3> HIDE DEF new, p
    <3>2. /\ q \in PartSet /\ q.phase = "application" /\ q.sent = p.sent
          /\ q.keys = p.keys /\ q.looked = p.looked /\ q.to = p.to
          /\ q.numRetries = p.numRetries
      BY <1>4 DEF PartSet, Phases
    <3>3. /\ h.part = d /\ h.num = p.sent + 1 /\ h.by = Self /\ h.keys = p.keys
          /\ h.looked = SentChecksum /\ h.head = SentChecksum /\ h.owned = Owned(Self, p.keys)
      OBVIOUS
    <3>4. p.sent \in Nat /\ p.numRetries \in Nat /\ p.keys \in SUBSET Keys
      BY <1>4 DEF PartSet
    <3>5. h \in Handlings
      BY <1>6, <3>4, NodesAssumption DEF Handlings, Owned
    <3> HIDE DEF h, q
    <3>6. GoodHandling(h)
      <4>1. OwnedBy(h.looked, h.by, h.keys)
        BY <2>1, <2>2, <3>3
      <4>2. ASSUME NEW k \in h.keys, Settled(h.head, k),
                   Claimants(First[AllPoints(h.head), k]) = {h.by}
            PROVE  k \in h.owned
        <5>1. SentChecksum = Checksum(ring[Self]) /\ Self \in Nodes
          BY NodesAssumption DEF SentChecksum
        <5>2. h.head = Checksum(ring[Self]) /\ h.by = Self
          BY <3>3, <5>1
        <5>3. /\ k \in p.keys /\ Settled(Checksum(ring[Self]), k)
              /\ Claimants(First[AllPoints(Checksum(ring[Self])), k]) = {Self}
          BY <3>3, <4>2, <5>2
        <5>4. k \in Owned(Self, p.keys)
          BY <1>6, <3>4, <5>1, <5>3, SettledOwned
        <5> QED BY <3>3, <5>4
      <4> QED BY <3>5, <4>1, <4>2 DEF GoodHandling
    <3>7. GoodPart(q)
      BY <1>5, <1>7, <3>2 DEF GoodPart, SoundPart
    <3>8. Follows(parts[d], q)
      BY <1>1, <1>3, <1>4, <3>2 DEF Follows, Ended
    <3>9. PartsGood(parts') /\ PartsFollow
      BY <3>1, <3>7, <3>8, OnePart
    <3>10. AttemptOf(h, parts'[h.part])
      <4>1. parts'[d] = q
        BY <3>1 DEF IInv, PartsGood
      <4> QED BY <1>5, <3>2, <3>3, <3>4, <4>1, RetriesAssumption DEF AttemptOf, Ended
    <3>11. ASSUME NEW g \in handled PROVE ~SameAttempt(g, h)
      <4>1. AttemptOf(g, parts[g.part])
        BY <3>11 DEF IInv, Attempts
      <4>2. CASE g.part = d
        <5>1. g.num <= parts[d].sent /\ g.num \in Nat
          BY <1>1, <4>1, <4>2, RetriesAssumption DEF AttemptOf, Ended
        <5> QED BY <1>3, <1>4, <3>3, <5>1 DEF SameAttempt
      <4>3. CASE g.part # d
        BY <3>3, <4>3 DEF SameAttempt
      <4> QED BY <4>2, <4>3
    <3>12. ASSUME NEW m \in wire' PROVE ~SameAttempt(m, h)
      <4>1. m.num \in 1..parts[m.part].sent
        BY <1>1, <3>12 DEF IInv, Attempts
      <4> QED BY <1>3, <1>4, <3>3, <4>1 DEF SameAttempt
    <3> QED BY <1>1, <1>2, <1>6, <3>1, <3>6, <3>9, <3>10, <3>11, <3>12, OneHandled
  <2>3. CASE new # Self
    <3> DEFINE q == [p EXCEPT !.to = new, !.looked = SentChecksum]
    <3>1. Send(d, q) /\ handled' = handled
      BY <1>9, <2>3 DEF AttemptRetry
    <3> HIDE DEF new, p
    <3>2. /\ q \in PartSet /\ q.phase = p.phase /\ q.sent = p.sent /\ q.keys = p.keys
          /\ q.looked = SentChecksum /\ q.to = new /\ q.numRetries = p.numRetries
      BY <1>4, <1>6, <2>1 DEF PartSet
    <3> HIDE DEF q
    <3>3. SoundPart(q)
      BY <1>4, <1>7, <2>1, <3>2 DEF SoundPart
    <3>4. Follows(parts[d], q) /\ q.phase \notin Ended /\ parts[d].phase \notin Ended
      BY <1>1, <1>3, <1>4, <3>2 DEF Follows, Ended
    <3>5. PartsGood(parts') /\ PartsFollow
      BY <1>4, <1>5, <3>1, <3>2, <3>3, <3>4, SendGood
    <3> QED BY <1>1, <1>2, <1>6, <3>1, <3>5, OnlyParts
  <2> QED BY <2>2, <2>3
<1> QED BY <1>8, <1>9
----------------------------------------------------------------------------
(* The theorems *)

LEMMA NextInv == IInv /\ [Next]_vars => IInv'
<1> SUFFICES ASSUME IInv, [Next]_vars PROVE IInv'
  OBVIOUS
<1>1. ASSUME NEW keys \in SUBSET Keys, HandleOrProxyAll(keys) PROVE IInv'
  BY <1>1, HandleOrProxyAllInv
<1>2. ASSUME NEW k \in Keys, HandleOrProxy(k) PROVE IInv'
  BY <1>2, HandleOrProxyInv
<1>3. ASSUME NEW d \in Nodes, NEW err \in BOOLEAN, ApplicationAnswers(d, err) PROVE IInv'
  BY <1>3, ApplicationAnswersInv
<1>4. ASSUME NEW d \in Nodes, NEW ok \in BOOLEAN, Body(d, ok) PROVE IInv'
  BY <1>4, BodyInv
<1>5. ASSUME NEW d \in Nodes,
             Identified(d) \/ IdentifyFails(d) \/ SendFails(d) \/ AttemptRetry(d)
      PROVE  IInv'
  BY <1>5, IdentifiedInv, IdentifyFailsInv, SendFailsInv, AttemptRetryInv
<1>6. ASSUME NEW m \in wire, NEW answer \in {"ok", "error", "lost"}, HandleRequest(m, answer)
      PROVE  IInv'
  BY <1>6, HandleRequestInv
<1>7. ASSUME NEW n \in Nodes, NEW server \in Nodes, RingChanges(n, server) PROVE IInv'
  BY <1>7, RingChangesInv
<1>8. CASE Destroy
  BY <1>8, DestroyInv
<1>9. CASE UNCHANGED vars
  BY <1>9 DEF vars, IInv, Attempts
<1> QED BY <1>1, <1>2, <1>3, <1>4, <1>5, <1>6, <1>7, <1>8, <1>9 DEF Next

\* The inductive invariant holds, whatever is sent, lost, late or repeated and
\* however the rings change.
THEOREM Invariance == Spec => []IInv
BY InitInv, NextInv, PTL DEF Spec

\* A request that consistency is enforced for is handled by the owner of its
\* keys, unless the servers in the ring of the sender changed between lookup
\* and sending, or several nodes claim the point of a key; the rings may have
\* come by their servers in any order.
THEOREM OwnerIfSettledHolds == Spec => []OwnerIfSettled
<1>1. IInv => OwnerIfSettled
  <2> SUFFICES ASSUME IInv, NEW h \in handled, Enforce, h.looked = h.head,
                      NEW k \in h.keys, Settled(h.head, k)
               PROVE  k \in h.owned
    BY DEF OwnerIfSettled
  <2>1. GoodHandling(h)
    BY DEF IInv
  <2>2. Claimants(First[AllPoints(h.head), k]) = {h.by}
    BY <2>1 DEF GoodHandling, OwnedBy
  <2> QED BY <2>1, <2>2 DEF GoodHandling
<1> QED BY <1>1, Invariance, PTL

\* The requests handled for one part are different attempts.
LEMMA FewHandled ==
  ASSUME IInv, NEW d \in Nodes
  PROVE  Cardinality({h \in handled : h.part = d}) <= MaxRetries + 1
<1> DEFINE S == {h \in handled : h.part = d}
           T == 1..(MaxRetries + 1)
           f == [h \in S |-> h.num]
<1>1. ASSUME NEW h \in S PROVE h.num \in T
  BY <1>1 DEF IInv, Attempts, AttemptOf
<1>2. ASSUME NEW a \in S, NEW b \in S, a.num = b.num PROVE a = b
  BY <1>2 DEF IInv, AttemptsApart, SameAttempt
<1>3. f \in Injection(S, T)
  <2>1. f \in [S -> T]
    BY <1>1
  <2>2. \A a, b \in S : f[a] = f[b] => a = b
    BY <1>2
  <2> HIDE DEF S, T, f
  <2> QED BY <2>1, <2>2 DEF Injection, IsInjective
<1>4. IsFiniteSet(T) /\ Cardinality(T) = MaxRetries + 1
  BY FS_Interval, RetriesAssumption
<1> HIDE DEF S, T, f
<1>5. Cardinality(S) <= Cardinality(T)
  BY <1>3, <1>4, FS_Injection
<1> QED BY <1>4, <1>5 DEF S

\* Nothing is retried, or given to an application, more often than the retries
\* allow.
THEOREM AttemptsBoundedHolds == Spec => []AttemptsBounded
<1>1. IInv => AttemptsBounded
  BY FewHandled DEF IInv, PartsGood, GoodPart, SoundPart, AttemptsBounded
<1> QED BY <1>1, Invariance, PTL

----------------------------------------------------------------------------
(* The answers *)

\* A part that somebody still waits for.
Open(p) == p.phase \notin {"none", "answered"}

\* The open parts are the ones that are counted, and the callback is not used
\* up before the last of them is answered, or one of them with an error.
AInv ==
  /\ \A d \in Nodes : parts[d].answers = IF parts[d].phase = "answered" THEN 1 ELSE 0
  /\ pending = Cardinality(Unanswered)
  /\ callbacks \in {0, 1}
  /\ cb \in BOOLEAN
  /\ cb => callbacks = 0 /\ Unanswered # {}
  /\ ~asked => ~cb /\ callbacks = 0

LEMMA UnansweredFinite ==
  /\ IsFiniteSet(Unanswered) /\ Cardinality(Unanswered) \in Nat
  /\ Unanswered = {d \in Nodes : Open(parts[d])}
<1>1. Unanswered = {d \in Nodes : Open(parts[d])}
  BY DEF Unanswered, Open
<1>2. Unanswered \in SUBSET Nodes
  BY DEF Unanswered
<1> QED BY <1>1, <1>2, NodesAssumption, FS_Subset, FS_CardinalityType

\* A step of part d that leaves it open.
LEMMA StillOpen ==
  ASSUME IInv, AInv, NEW d \in Nodes, Open(parts[d]), NEW q, Open(q),
         q.answers = parts[d].answers, parts' = [parts EXCEPT ![d] = q],
         UNCHANGED <<asked, pending, cb, callbacks>>
  PROVE  AInv'
<1>1. \A e \in Nodes : parts'[e] = IF e = d THEN q ELSE parts[e]
  BY DEF IInv, PartsGood
<1>2. Unanswered' = Unanswered
  BY <1>1 DEF Unanswered, Open
<1>3. \A e \in Nodes : parts'[e].answers = IF parts'[e].phase = "answered" THEN 1 ELSE 0
  BY <1>1 DEF AInv, Open
<1> QED BY <1>2, <1>3 DEF AInv

\* A step that answers part d.
LEMMA NowAnswered ==
  ASSUME IInv, AInv, NEW d \in Nodes, Open(parts[d]), NEW q, q.phase = "answered",
         q.answers = parts[d].answers + 1, parts' = [parts EXCEPT ![d] = q],
         NEW err \in BOOLEAN, Respond(err), UNCHANGED asked
  PROVE  AInv'
<1>1. \A e \in Nodes : parts'[e] = IF e = d THEN q ELSE parts[e]
  BY DEF IInv, PartsGood
<1>2. Unanswered' = Unanswered \ {d} /\ d \in Unanswered
  BY <1>1 DEF Unanswered, Open
<1>3. Cardinality(Unanswered') = Cardinality(Unanswered) - 1
  BY <1>2, UnansweredFinite, FS_RemoveElement
<1>4. pending' = Cardinality(Unanswered')
  BY <1>3 DEF AInv, Respond
<1>5. pending # 1 => Unanswered' # {}
  <2>1. Unanswered' = {} => Cardinality(Unanswered') = 0
    BY FS_EmptySet
  <2>2. pending = Cardinality(Unanswered) /\ Cardinality(Unanswered) \in Nat
    BY UnansweredFinite DEF AInv
  <2> QED BY <1>3, <2>1, <2>2
<1>6. \A e \in Nodes : parts'[e].answers = IF parts'[e].phase = "answered" THEN 1 ELSE 0
  BY <1>1 DEF AInv, Open
<1>7. asked'
  BY PartKnown DEF Open
<1>8. CASE cb /\ (pending = 1 \/ err)
  <2>1. cb' = FALSE /\ callbacks' = callbacks + 1
    BY <1>8 DEF Respond
  <2>2. callbacks = 0
    BY <1>8 DEF AInv
  <2>3. callbacks' \in {0, 1}
    BY <2>1, <2>2
  <2>4. cb' \in BOOLEAN /\ ~cb'
    BY <2>1
  <2> QED BY <1>4, <1>6, <1>7, <2>3, <2>4 DEF AInv
<1>9. CASE ~(cb /\ (pending = 1 \/ err))
  <2>1. UNCHANGED <<cb, callbacks>>
    BY <1>9 DEF Respond
  <2>2. cb' => Unanswered' # {}
    BY <1>5, <1>9, <2>1
  <2> QED BY <1>4, <1>6, <1>7, <2>1, <2>2 DEF AInv
<1> QED BY <1>8, <1>9

LEMMA AnswerOnce ==
  ASSUME IInv, AInv, NEW d \in Nodes, Open(parts[d]), NEW p \in PartSet,
         p.answers = parts[d].answers, Answer(d, p), UNCHANGED asked
  PROVE  AInv'
<1> DEFINE q == [p EXCEPT !.phase = "answered", !.answers = @ + 1]
<1>1. q.phase = "answered" /\ q.answers = parts[d].answers + 1
  BY DEF PartSet
<1>2. parts' = [parts EXCEPT ![d] = q] /\ Respond(FALSE)
  BY DEF Answer
<1> HIDE DEF q
<1> QED BY <1>1, <1>2, NowAnswered

LEMMA SendOnce ==
  ASSUME IInv, AInv, NEW d \in Nodes, Open(parts[d]), NEW p \in PartSet,
         p.answers = parts[d].answers, Send(d, p), UNCHANGED asked
  PROVE  AInv'
<1>1. CASE destroyed
  BY <1>1, AnswerOnce DEF Send
<1>2. CASE ~destroyed
  <2> DEFINE q == [p EXCEPT !.phase = "identify"]
  <2>1. q.phase = "identify" /\ q.answers = parts[d].answers
    BY DEF PartSet
  <2>2. parts' = [parts EXCEPT ![d] = q] /\ UNCHANGED <<pending, cb, callbacks>>
    BY <1>2 DEF Send
  <2> HIDE DEF q
  <2> QED BY <2>1, <2>2, StillOpen DEF Open
<1> QED BY <1>1, <1>2

LEMMA OnErrorOnce ==
  ASSUME IInv, AInv, NEW d \in Nodes, Open(parts[d]), OnError(d, parts[d]),
         UNCHANGED asked
  PROVE  AInv'
<1>1. parts[d] \in PartSet
  BY PartKnown
<1>2. CASE parts[d].numRetries >= MaxRetries
  <2>1. Answer(d, parts[d])
    BY <1>2 DEF OnError
  <2> QED BY <1>1, <2>1, AnswerOnce
<1>3. CASE ~(parts[d].numRetries >= MaxRetries)
  <2> DEFINE q == [parts[d] EXCEPT !.phase = "delay"]
  <2>1. q.phase = "delay" /\ q.answers = parts[d].answers
    BY <1>1 DEF PartSet
  <2>2. parts' = [parts EXCEPT ![d] = q] /\ UNCHANGED <<pending, cb, callbacks>>
    BY <1>3 DEF OnError, ScheduleRetry
  <2> HIDE DEF q
  <2> QED BY <2>1, <2>2, StillOpen DEF Open
<1> QED BY <1>2, <1>3

\* Every group of keys is awaited, and its node is one of the destinations.
LEMMA HandleOrProxyAllOnce ==
  ASSUME IInv, AInv, NEW keys \in SUBSET Keys, HandleOrProxyAll(keys)
  PROVE  AInv'
<1> DEFINE group(d) == {k \in keys : Lookup(Self, k) = d}
           dests == {d \in Nodes : group(d) # {}}
           phase(d) == IF d = Self THEN "application" ELSE "body"
<1>1. /\ parts' = [d \in Nodes |-> IF d \notin dests THEN NoPart
                                  ELSE NewPart(phase(d), group(d), d, SentChecksum)]
      /\ asked' = TRUE /\ pending' = Cardinality(dests) /\ cb' = (dests # {})
      /\ callbacks' = IF dests = {} THEN 1 ELSE 0
  BY DEF HandleOrProxyAll
<1> HIDE DEF dests
<1>2. /\ NoPart.phase = "none" /\ NoPart.answers = 0
      /\ \A d : /\ NewPart(phase(d), group(d), d, SentChecksum).phase \in {"application", "body"}
               /\ NewPart(phase(d), group(d), d, SentChecksum).answers = 0
  BY DEF NoPart, NewPart
<1>3. \A d \in Nodes : /\ parts'[d].answers = 0
                       /\ parts'[d].phase # "answered"
                       /\ parts'[d].phase = "none" <=> d \notin dests
  BY <1>1, <1>2
<1>4. dests \subseteq Nodes
  BY DEF dests
<1>5. Unanswered' = dests
  BY <1>3, <1>4 DEF Unanswered
<1> QED BY <1>1, <1>3, <1>5 DEF AInv

LEMMA HandleOrProxyOnce ==
  ASSUME IInv, AInv, NEW k \in Keys, HandleOrProxy(k)
  PROVE  AInv'
<1> DEFINE d == Lookup(Self, k)
<1>1. /\ asked' = TRUE /\ UNCHANGED <<cb, callbacks>>
      /\ ~cb /\ callbacks = 0 /\ \A e \in Nodes : parts[e] = NoPart
  BY DEF HandleOrProxy, AInv, IInv
<1>2. NoPart.phase = "none" /\ NoPart.answers = 0
  BY DEF NoPart, NewPart
<1>3. CASE d = Self
  <2>1. parts' = parts /\ pending' = 0
    BY <1>3 DEF HandleOrProxy
  <2>2. Unanswered' = {}
    BY <1>1, <1>2, <2>1 DEF Unanswered
  <2> QED BY <1>1, <1>2, <2>1, <2>2, FS_EmptySet DEF AInv
<1>4. CASE d # Self
  <2> DEFINE q == NewPart("body", {k}, d, SentChecksum)
  <2>1. parts' = [parts EXCEPT ![d] = q] /\ pending' = 1
    BY <1>4 DEF HandleOrProxy
  <2>2. q.phase = "body" /\ q.answers = 0
    BY DEF NewPart
  <2>3. d \in Nodes
    BY LookupInNodes, NodesAssumption DEF IInv
  <2> HIDE DEF q, d
  <2>4. \A e \in Nodes : parts'[e] = IF e = d THEN q ELSE NoPart
    BY <1>1, <2>1 DEF IInv, PartsGood
  <2>5. Unanswered' = {d}
    BY <1>2, <2>2, <2>3, <2>4 DEF Unanswered
  <2>6. \A e \in Nodes : parts'[e].answers = 0 /\ parts'[e].phase # "answered"
    BY <1>2, <2>2, <2>4
  <2> QED BY <1>1, <2>1, <2>5, <2>6, FS_Singleton DEF AInv
<1> QED BY <1>3, <1>4

LEMMA ApplicationAnswersOnce ==
  ASSUME IInv, AInv, NEW d \in Nodes, NEW err \in BOOLEAN, ApplicationAnswers(d, err)
  PROVE  AInv'
<1>1. Open(parts[d]) /\ UNCHANGED asked /\ parts[d] \in PartSet
  BY PartKnown DEF ApplicationAnswers, Open
<1>2. CASE d = Self
  <2> DEFINE q == [parts[d] EXCEPT !.phase = "answered", !.answers = @ + 1]
  <2>1. q.phase = "answered" /\ q.answers = parts[d].answers + 1
    BY <1>1 DEF PartSet
  <2>2. parts' = [parts EXCEPT ![d].phase = "answered", ![d].answers = @ + 1] /\ Respond(err)
    BY <1>2 DEF ApplicationAnswers
  <2>3. parts' = [parts EXCEPT ![d] = q]
    BY <1>1, <2>2 DEF IInv, PartsGood
  <2> HIDE DEF q
  <2> QED BY <1>1, <2>1, <2>2, <2>3, NowAnswered
<1>3. CASE d # Self
  <2>1. Answer(d, parts[d])
    BY <1>3 DEF ApplicationAnswers
  <2> QED BY <1>1, <2>1, AnswerOnce
<1> QED BY <1>2, <1>3

LEMMA IdentifiedOnce ==
  ASSUME IInv, AInv, NEW d \in Nodes, Identified(d)
  PROVE  AInv'
<1> DEFINE q == [parts[d] EXCEPT !.phase = "sent", !.sent = @ + 1]
<1>1. parts[d].phase = "identify" /\ UNCHANGED <<asked, pending, cb, callbacks>>
  BY DEF Identified
<1>2. parts' = [parts EXCEPT ![d] = q]
  BY DEF Identified
<1>3. q.phase = "sent" /\ q.answers = parts[d].answers
  BY PartKnown DEF PartSet
<1> HIDE DEF q
<1> QED BY <1>1, <1>2, <1>3, StillOpen DEF Open

LEMMA AttemptRetryOnce ==
  ASSUME IInv, AInv, NEW d \in Nodes, AttemptRetry(d)
  PROVE  AInv'
<1> DEFINE p   == [parts[d] EXCEPT !.numRetries = @ + 1]
           new == NewDest(d, p)
<1>1. parts[d] \in PartSet
  BY PartKnown
<1>2. /\ p \in PartSet /\ p.phase = parts[d].phase /\ p.answers = parts[d].answers
      /\ p.keys = parts[d].keys
  <2>1. parts[d].numRetries + 1 \in Nat
    BY <1>1 DEF PartSet
  <2> QED BY <1>1, <2>1 DEF PartSet
<1>3. p.phase = "delay" /\ UNCHANGED asked /\ ring \in [Nodes -> SoundRings]
  BY DEF AttemptRetry, IInv
<1>4. Open(parts[d])
  BY <1>2, <1>3 DEF Open
<1>5. CASE Cardinality({Lookup(Self, k) : k \in p.keys}) > 1
  <2>1. Answer(d, p)
    BY <1>5 DEF AttemptRetry
  <2> HIDE DEF p
  <2> QED BY <1>2, <1>3, <1>4, <2>1, AnswerOnce
<1>6. CASE ~(Cardinality({Lookup(Self, k) : k \in p.keys}) > 1)
  <2>1. CASE new = Self
    <3> DEFINE q == [p EXCEPT !.phase = "application"]
    <3>1. parts' = [parts EXCEPT ![d] = q] /\ UNCHANGED <<pending, cb, callbacks>>
      BY <1>6, <2>1 DEF AttemptRetry, Reroute
    <3> HIDE DEF p, new
    <3>2. q.phase = "application" /\ q.answers = parts[d].answers
      BY <1>2 DEF PartSet
    <3> HIDE DEF q
    <3> QED BY <1>3, <1>4, <3>1, <3>2, StillOpen DEF Open
  <2>2. CASE new # Self
    <3> DEFINE q == [p EXCEPT !.to = new, !.looked = SentChecksum]
    <3>1. Send(d, q)
      BY <1>6, <2>2 DEF AttemptRetry
    <3>2. p.keys # {}
      BY <1>2, <1>3, PartKnown DEF SoundPart
    <3> HIDE DEF p
    <3>3. new \in Nodes /\ SentChecksum \in SUBSET Nodes
      BY <1>2, <1>3, <1>6, <3>2, NewDestOwns, SenderLookup
    <3> HIDE DEF new
    <3>4. q \in PartSet /\ q.answers = parts[d].answers
      BY <1>2, <3>3 DEF PartSet
    <3> HIDE DEF q
    <3> QED BY <1>3, <1>4, <3>1, <3>4, SendOnce
  <2> QED BY <2>1, <2>2
<1> QED BY <1>5, <1>6

LEMMA HandleRequestOnce ==
  ASSUME IInv, AInv, NEW m \in wire, NEW answer \in {"ok", "error", "lost"},
         HandleRequest(m, answer)
  PROVE  AInv'
<1>1. m.part \in Nodes /\ UNCHANGED asked
  BY DEF IInv, GoodMessage, Messages, HandleRequest
<1>2. CASE ~Awaited(m) \/ answer = "lost"
  <2>1. UNCHANGED <<parts, pending, cb, callbacks>>
    BY <1>2 DEF HandleRequest
  <2> QED BY <1>1, <2>1 DEF AInv, Unanswered
<1>3. CASE Awaited(m) /\ answer # "lost"
  <2>1. Open(parts[m.part]) /\ parts[m.part] \in PartSet
    BY <1>1, <1>3, PartKnown DEF Awaited, Open
  <2>2. Answer(m.part, parts[m.part]) \/ OnError(m.part, parts[m.part])
    BY <1>3 DEF HandleRequest
  <2> QED BY <1>1, <2>1, <2>2, AnswerOnce, OnErrorOnce
<1> QED BY <1>2, <1>3

\* The timers that destroy clears leave their parts open for ever.
LEMMA DestroyOnce ==
  ASSUME IInv, AInv, Destroy
  PROVE  AInv'
<1>1. UNCHANGED <<asked, pending, cb, callbacks>>
  BY DEF Destroy
<1>2. ASSUME NEW d \in Nodes
      PROVE  /\ parts'[d].answers = parts[d].answers
             /\ parts'[d].phase = "answered" <=> parts[d].phase = "answered"
             /\ parts'[d].phase = "none" <=> parts[d].phase = "none"
  <2>1. parts'[d] = IF Cleared(d) THEN [parts[d] EXCEPT !.phase = "cleared"] ELSE parts[d]
    BY DEF Destroy
  <2>2. CASE Cleared(d)
    BY <2>1, <2>2, PartKnown DEF Cleared, PartSet
  <2>3. CASE ~Cleared(d)
    BY <2>1, <2>3
  <2> QED BY <2>2, <2>3
<1>3. Unanswered' = Unanswered
  BY <1>2 DEF Unanswered
<1> QED BY <1>1, <1>2, <1>3 DEF AInv

LEMMA NextOnce == IInv /\ AInv /\ [Next]_vars => AInv'
<1> SUFFICES ASSUME IInv, AInv, [Next]_vars PROVE AInv'
  OBVIOUS
<1>1. ASSUME NEW keys \in SUBSET Keys, HandleOrProxyAll(keys) PROVE AInv'
  BY <1>1, HandleOrProxyAllOnce
<1>2. ASSUME NEW k \in Keys, HandleOrProxy(k) PROVE AInv'
  BY <1>2, HandleOrProxyOnce
<1>3. ASSUME NEW d \in Nodes, NEW err \in BOOLEAN, ApplicationAnswers(d, err) PROVE AInv'
  BY <1>3, ApplicationAnswersOnce
<1>4. ASSUME NEW d \in Nodes, NEW ok \in BOOLEAN, Body(d, ok) PROVE AInv'
  <2>1. Open(parts[d]) /\ parts[d] \in PartSet /\ UNCHANGED asked
    BY <1>4, PartKnown DEF Body, Open
  <2>2. Send(d, parts[d]) \/ Answer(d, parts[d])
    BY <1>4 DEF Body
  <2> QED BY <2>1, <2>2, SendOnce, AnswerOnce
<1>5. ASSUME NEW d \in Nodes, IdentifyFails(d) PROVE AInv'
  <2>1. Open(parts[d]) /\ parts[d] \in PartSet /\ UNCHANGED asked /\ Answer(d, parts[d])
    BY <1>5, PartKnown DEF IdentifyFails, Open
  <2> QED BY <2>1, AnswerOnce
<1>6. ASSUME NEW d \in Nodes, SendFails(d) PROVE AInv'
  <2>1. Open(parts[d]) /\ UNCHANGED asked /\ OnError(d, parts[d])
    BY <1>6 DEF SendFails, Open
  <2> QED BY <2>1, OnErrorOnce
<1>7. ASSUME NEW m \in wire, NEW answer \in {"ok", "error", "lost"}, HandleRequest(m, answer)
      PROVE  AInv'
  BY <1>7, HandleRequestOnce
<1>8. ASSUME NEW n \in Nodes, NEW server \in Nodes, RingChanges(n, server) PROVE AInv'
  BY <1>8 DEF RingChanges, AInv, Unanswered
<1>9. CASE Destroy
  BY <1>9, DestroyOnce
<1>10. CASE UNCHANGED vars
  BY <1>10 DEF vars, AInv, Unanswered
<1> QED
  BY <1>1, <1>2, <1>3, <1>4, <1>5, <1>6, <1>7, <1>8, <1>9, <1>10, IdentifiedOnce,
     AttemptRetryOnce DEF Next

LEMMA AnswersCounted == Spec => []AInv
<1>1. Init => AInv
  <2> SUFFICES ASSUME Init PROVE AInv
    OBVIOUS
  <2>1. NoPart.phase = "none" /\ NoPart.answers = 0
    BY DEF NoPart, NewPart
  <2>2. Unanswered = {}
    BY <2>1 DEF Init, Unanswered
  <2> QED BY <2>1, <2>2, FS_EmptySet DEF Init, AInv
<1>2. IInv /\ AInv /\ [Next]_vars => AInv'
  BY NextOnce
<1> QED BY <1>1, <1>2, Invariance, PTL DEF Spec

\* Every response ends once, and the callback of handleOrProxyAll is called
\* once, whatever is lost, late or repeated, and for any number of destinations.
THEOREM AnsweredOnceHolds == Spec => []AnsweredOnce
<1>1. AInv => AnsweredOnce
  BY DEF AInv, AnsweredOnce
<1> QED BY <1>1, AnswersCounted, PTL

\* The variables that no other invariant needs to know of.
OtherTypes ==
  /\ changes \in 0..MaxChanges
  /\ asked \in BOOLEAN
  /\ sends \subseteq Nodes
  /\ destroyed \in BOOLEAN

LEMMA SendsOfNodes ==
  ASSUME sends \subseteq Nodes, NEW d \in Nodes, NEW p
  PROVE  /\ Answer(d, p) => sends' \subseteq Nodes
         /\ Send(d, p) => sends' \subseteq Nodes
         /\ OnError(d, p) => sends' \subseteq Nodes
BY DEF Answer, Send, OnError, ScheduleRetry

LEMMA OtherTypesKept == IInv /\ OtherTypes /\ [Next]_vars => OtherTypes'
<1> SUFFICES ASSUME IInv, OtherTypes, [Next]_vars PROVE OtherTypes'
  OBVIOUS
<1>1. ASSUME NEW keys \in SUBSET Keys, HandleOrProxyAll(keys) PROVE OtherTypes'
  BY <1>1 DEF HandleOrProxyAll, OtherTypes
<1>2. ASSUME NEW k \in Keys, HandleOrProxy(k) PROVE OtherTypes'
  BY <1>2 DEF HandleOrProxy, OtherTypes
<1>3. ASSUME NEW d \in Nodes, NEW err \in BOOLEAN, ApplicationAnswers(d, err)
      PROVE  OtherTypes'
  <2>1. Answer(d, parts[d]) \/ UNCHANGED sends
    BY <1>3 DEF ApplicationAnswers
  <2> QED BY <1>3, <2>1, SendsOfNodes DEF ApplicationAnswers, OtherTypes
<1>4. ASSUME NEW d \in Nodes, NEW ok \in BOOLEAN, Body(d, ok) PROVE OtherTypes'
  BY <1>4, SendsOfNodes DEF Body, OtherTypes
<1>5. ASSUME NEW d \in Nodes, Identified(d) PROVE OtherTypes'
  BY <1>5 DEF Identified, OtherTypes
<1>6. ASSUME NEW d \in Nodes, IdentifyFails(d) \/ SendFails(d) PROVE OtherTypes'
  BY <1>6, SendsOfNodes DEF IdentifyFails, SendFails, OtherTypes
<1>7. ASSUME NEW d \in Nodes, AttemptRetry(d) PROVE OtherTypes'
  <2>1. \E p : Answer(d, p) \/ Send(d, p) \/ UNCHANGED sends
    BY <1>7 DEF AttemptRetry, Reroute
  <2> QED BY <1>7, <2>1, SendsOfNodes DEF AttemptRetry, OtherTypes
<1>8. ASSUME NEW m \in wire, NEW answer \in {"ok", "error", "lost"}, HandleRequest(m, answer)
      PROVE  OtherTypes'
  <2>1. m.part \in Nodes
    BY DEF IInv, GoodMessage, Messages
  <2>2. \/ Answer(m.part, parts[m.part]) \/ OnError(m.part, parts[m.part])
        \/ UNCHANGED sends
    BY <1>8 DEF HandleRequest
  <2> QED BY <1>8, <2>1, <2>2, SendsOfNodes DEF HandleRequest, OtherTypes
<1>9. ASSUME NEW n \in Nodes, NEW server \in Nodes, RingChanges(n, server) PROVE OtherTypes'
  BY <1>9, RetriesAssumption DEF RingChanges, OtherTypes
<1>10. CASE Destroy
  BY <1>10 DEF Destroy, OtherTypes
<1>11. CASE UNCHANGED vars
  BY <1>11 DEF vars, OtherTypes
<1> QED BY <1>1, <1>2, <1>3, <1>4, <1>5, <1>6, <1>7, <1>8, <1>9, <1>10, <1>11 DEF Next

\* The types of a request's parts, of what is on the wire and of what was handled.
THEOREM TypeCorrect == Spec => []TypeOK
<1>1. Init => OtherTypes
  <2>1. 0 \in 0..MaxChanges
    BY RetriesAssumption
  <2> QED BY <2>1 DEF Init, OtherTypes
<1>2. IInv /\ OtherTypes /\ [Next]_vars => OtherTypes'
  BY OtherTypesKept
<1>3. IInv /\ AInv /\ OtherTypes => TypeOK
  <2> SUFFICES ASSUME IInv, AInv, OtherTypes PROVE TypeOK
    OBVIOUS
  <2>1. wire \subseteq Messages /\ handled \subseteq Handlings /\ parts \in [Nodes -> PartSet]
    BY DEF IInv, GoodMessage, GoodHandling, PartsGood
  <2>2. pending \in Nat
    BY UnansweredFinite DEF AInv
  <2>3. ring \in [Nodes -> Rings] /\ cb \in BOOLEAN /\ callbacks \in Nat
    BY DEF IInv, AInv, SoundRings
  <2> QED BY <2>1, <2>2, <2>3 DEF TypeOK, OtherTypes, Messages, Handlings, PartSet
<1> QED BY <1>1, <1>2, <1>3, Invariance, AnswersCounted, PTL DEF Spec
=============================================================================
