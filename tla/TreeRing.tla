------------------------------ MODULE TreeRing ------------------------------
(***************************************************************************)
(* The hash ring as it is implemented (lib/ring.js over lib/rbtree.js):    *)
(* the replica points of a server are inserted into the tree and removed   *)
(* from it one after the other, and lookups walk it with an iterator.      *)
(* Shown to implement module HashRing.                                     *)
(***************************************************************************)
EXTENDS RBTree

CONSTANTS
  Server,       \* the names of servers
  Replicas,     \* Replicas[s]: the hashes of s + "0", s + "1", ... in turn
  Hashes,       \* the hashes of keys
  MaxCall       \* bound on the servers one addRemoveServers adds and removes

ASSUME ReplicasAssumption == Replicas \in [Server -> Seq(Nat)]
ASSUME HashesAssumption == Hashes \subseteq Nat
ASSUME CallAssumption == MaxCall \in Nat

None == Nil

VARIABLES
  servers,      \* the keys of HashRing.servers
  tree          \* HashRing.rbtree

vars == <<servers, tree>>

Init ==
  /\ servers = {}
  /\ tree = EmptyTree

----------------------------------------------------------------------------
(* A call has the ring as a record while it runs. *)

Ring == [servers |-> servers, tree |-> tree]

RECURSIVE InsertAll(_, _, _)
InsertAll(t, s, i) ==
  IF i > Len(Replicas[s]) THEN t ELSE InsertAll(Insert(t, Replicas[s][i], s), s, i + 1)

RECURSIVE RemoveAll(_, _, _)
RemoveAll(t, s, i) ==
  IF i > Len(Replicas[s]) THEN t ELSE RemoveAll(Remove(t, Replicas[s][i]), s, i + 1)

AddServerReplicas(r, s) ==
  [servers |-> r.servers \cup {s}, tree |-> InsertAll(r.tree, s, 1)]

RemoveServerReplicas(r, s) ==
  [servers |-> r.servers \ {s}, tree |-> RemoveAll(r.tree, s, 1)]

\* The loops of addRemoveServers, over arrays of names.
RECURSIVE AddEach(_, _)
AddEach(r, names) ==
  IF names = <<>> THEN r
  ELSE AddEach(IF Head(names) \in r.servers THEN r
               ELSE AddServerReplicas(r, Head(names)), Tail(names))

RECURSIVE RemoveEach(_, _)
RemoveEach(r, names) ==
  IF names = <<>> THEN r
  ELSE RemoveEach(IF Head(names) \in r.servers
                    THEN RemoveServerReplicas(r, Head(names)) ELSE r, Tail(names))

SetRing(r) ==
  /\ servers' = r.servers
  /\ tree' = r.tree

----------------------------------------------------------------------------
AddServer(s) ==
  /\ s \notin servers
  /\ SetRing(AddServerReplicas(Ring, s))

RemoveServer(s) ==
  /\ s \in servers
  /\ SetRing(RemoveServerReplicas(Ring, s))

\* One changeset of the membership: what became alive, and what did not stay.
AddRemoveServers(adds, removes) ==
  SetRing(RemoveEach(AddEach(Ring, adds), removes))

\* Arrays of names: an array of updates holds each address once.
Arrays ==
  {names \in UNION {[1..n -> Server] : n \in 0..MaxCall} :
     \A i, j \in DOMAIN names : names[i] = names[j] => i = j}

Next ==
  \/ \E s \in Server : AddServer(s) \/ RemoveServer(s)
  \/ \E adds, removes \in Arrays :
       /\ Len(adds) + Len(removes) <= MaxCall
       /\ AddRemoveServers(adds, removes)

Spec == Init /\ [][Next]_vars

----------------------------------------------------------------------------
(* Lookups *)

Str(iter) == IF iter.cursor = Nil THEN None ELSE tree.nodes[iter.cursor].str

Lookup(h) ==
  LET res == Str(UpperBound(tree, h))
  IN  IF res # None THEN res
      ELSE IF TreeMin(tree) = Nil THEN None ELSE tree.nodes[TreeMin(tree)].str

\* The do loop of lookupN: one turn, and on while servers are missing and the
\* walk has not come around.
RECURSIVE LookupLoop(_, _, _, _)
LookupLoop(iter, first, n, result) ==
  LET res     == Str(iter)
      result1 == IF res = None \/ \E i \in DOMAIN result : result[i] = res
                   THEN result ELSE Append(result, res)
      next    == IterNext(tree, IF res = None THEN NullIterator ELSE iter)
  IN  IF Len(result1) < n /\ next.cursor # first
        THEN LookupLoop(next, first, n, result1) ELSE result1

LookupN(h, n) ==
  LET iter == UpperBound(tree, h)
      most == IF n > Cardinality(servers) THEN Cardinality(servers) ELSE n
  IN  LookupLoop(iter, iter.cursor, most, <<>>)

----------------------------------------------------------------------------
(* Properties *)

HR == INSTANCE HashRing WITH
        points   <- Contents(tree),
        PointsOf <- [s \in Server |-> {Replicas[s][i] : i \in DOMAIN Replicas[s]}]

\* The tree's nodes are its points, owned by servers, and size counts them.
\* After any history of servers that join and leave the tree is a search tree
\* and a red-black tree, also when a removal finds nothing to remove because
\* the point went with another server (insert and remove in rbtree.js).
TreeIsSound ==
  /\ servers \subseteq Server
  /\ \A v \in DOMAIN tree.nodes : tree.nodes[v].str \in Server
  /\ tree.size = Cardinality(DOMAIN tree.nodes)
  /\ IsSearchTree(tree)
  /\ IsRedBlack(tree)

\* A lookup through the tree finds the owner of the first point clockwise,
\* around the end of the ring (HashRing.prototype.lookup).  A preference list
\* holds the first n distinct owners clockwise, and all of them when
\* collisions left a server without any point, in which case only the guard
\* against an endless walk ends the loop (lookupN).
LookupsAgree ==
  \A h \in Hashes :
    /\ Lookup(h) = HR!Lookup(h)
    /\ \A n \in 1..(Cardinality(Server) + 1) :
         HR!IsPreferenceList(h, n, LookupN(h, n))

\* The tree is a map from points to servers to its callers: every call has
\* the effect on the contents that HashRing states.
ImplementsHashRing == HR!Spec
=============================================================================
