------------------------------ MODULE HashRing ------------------------------
(***************************************************************************)
(* What the hash ring promises (lib/ring.js), without its tree: a set of   *)
(* servers, and a map from the points on the ring to the server that owns  *)
(* each.  Every server has replica points, the hashes of its name with a   *)
(* number appended; hashes may collide, within a server and between two.   *)
(* A point that is taken stays with its owner, and the removal of a server *)
(* removes its points, whoever owns them.                                  *)
(***************************************************************************)
EXTENDS Integers, FiniteSets

CONSTANTS
  Server,       \* the names of servers
  PointsOf,     \* the replica points of each server, as a set of numbers
  None          \* null

VARIABLES
  servers,      \* the keys of HashRing.servers
  points        \* the contents of HashRing.rbtree

vars == <<servers, points>>

AllPoints(S) == UNION {PointsOf[s] : s \in S}

Init ==
  /\ servers = {}
  /\ points = [p \in {} |-> None]

\* addServerReplicas of the servers in A, and then removeServerReplicas of
\* those in R: a free point goes to a server in A that has it.
ReplacePoints(A, R) ==
  /\ DOMAIN points' = (DOMAIN points \cup AllPoints(A)) \ AllPoints(R)
  /\ \A p \in DOMAIN points' :
       IF p \in DOMAIN points
         THEN points'[p] = points[p]
         ELSE points'[p] \in {s \in A : p \in PointsOf[s]}

AddServer(s) ==
  /\ s \notin servers
  /\ servers' = servers \cup {s}
  /\ ReplacePoints({s}, {})

RemoveServer(s) ==
  /\ s \in servers
  /\ servers' = servers \ {s}
  /\ ReplacePoints({}, {s})

\* addRemoveServers: all the additions, and then the removals.
AddRemoveServers(A, R) ==
  LET added   == A \ servers
      removed == R \cap (servers \cup A)
  IN  /\ servers' = (servers \cup A) \ R
      /\ ReplacePoints(added, removed)

Next ==
  \/ \E s \in Server : AddServer(s) \/ RemoveServer(s)
  \/ \E A, R \in SUBSET Server : AddRemoveServers(A, R)

Spec == Init /\ [][Next]_vars

----------------------------------------------------------------------------
(* Lookups, of the hash of a key. *)

Least(S) == CHOOSE p \in S : \A q \in S : p <= q

\* The points in the order in which they follow h clockwise.
AtOrAfter(h) == {p \in DOMAIN points : p >= h}
FirstFrom(h) ==
  IF AtOrAfter(h) # {} THEN Least(AtOrAfter(h)) ELSE Least(DOMAIN points)

\* lookup: the owner of the first point at or after the hash, around the end.
Lookup(h) == IF points = << >> THEN None ELSE points[FirstFrom(h)]

\* How far clockwise from h the first point of s is, as a pair that orders
\* the points after the end of the ring behind those before it.
Precedes(h, p, q) ==
  \/ p >= h /\ q < h
  \/ p < q /\ (p >= h <=> q >= h)

Owners == {points[p] : p \in DOMAIN points}

\* Owner s has a point that comes before every point of t.
ComesBefore(h, s, t) ==
  \E p \in DOMAIN points :
    /\ points[p] = s
    /\ \A q \in DOMAIN points : points[q] = t => Precedes(h, p, q)

\* lookupN(n), n > 0: the owners, by their first points, and n at most.
PreferenceRank(h, s) == 1 + Cardinality({t \in Owners \ {s} : ComesBefore(h, t, s)})

IsPreferenceList(h, n, list) ==
  /\ DOMAIN list =
       1..(IF n < Cardinality(Owners) THEN n ELSE Cardinality(Owners))
  /\ \A i \in DOMAIN list :
       list[i] \in Owners /\ PreferenceRank(h, list[i]) = i

----------------------------------------------------------------------------
(* Points follow servers, however their points collide. *)

\* The servers that have p among their replica points.
Claimants(p) == {s \in Server : p \in PointsOf[s]}

\* A point belongs to a server of the ring that claims it, so that no request
\* is routed to a server that was removed; and a server of the ring has the
\* points that nobody else claims.
PointsAreSound ==
  /\ \A p \in DOMAIN points :
       points[p] \in servers /\ p \in PointsOf[points[p]]
  /\ \A s \in servers : \A p \in PointsOf[s] :
       Claimants(p) = {s} => p \in DOMAIN points
=============================================================================
