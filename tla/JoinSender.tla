---------------------------- MODULE JoinSender ----------------------------
(***************************************************************************)
(* The join of a node into a cluster (lib/swim/join-sender.js): groups of  *)
(* hosts are asked in parallel, each host once per round, preferred hosts  *)
(* first, until joinSize of them have answered or too many have failed.    *)
(* Answers may still arrive after the join is over.  The cluster of one    *)
(* node, which joins nobody, is left out, and so is a list of bootstrap    *)
(* hosts that names one of them twice.                                     *)
(***************************************************************************)
EXTENDS Integers, FiniteSets

CONSTANTS
  Hosts,            \* bootstrapHosts without the node itself
  Preferred,        \* those on other machines
  WantedSize,       \* opts.joinSize
  Factor,           \* parallelismFactor
  MaxJoinAttempts,  \* maxJoinAttempts
  Null              \* null

ASSUME HostsAssumption == IsFiniteSet(Hosts) /\ Hosts # {} /\ Preferred \subseteq Hosts
ASSUME SizesAssumption ==
  WantedSize \in Nat /\ Factor \in Nat /\ MaxJoinAttempts \in Nat \ {0}

VARIABLES
  toTry,        \* roundPreferredNodes and roundNonPreferredNodes
  nodesJoined,  \* nodesJoined of join()
  numJoined,    \* numJoined
  numFailed,    \* numFailed
  group,        \* the current group: its number, size and answers
  waiting,      \* the requests that are not answered, with their group
  responses,    \* joinResponses, as the hosts they came from, or Null
  retrying,     \* join() is to be called, or the timer of reJoin is running
  destroyed,    \* ringpop.destroyed
  outcome,      \* what the callback of join() was told
  callbacks,    \* how often it was called
  updates,      \* how often the membership was updated
  attempts      \* how often each host was asked

vars == <<toTry, nodesJoined, numJoined, numFailed, group, waiting, responses,
          retrying, destroyed, outcome, callbacks, updates, attempts>>

JoinSize ==
  IF WantedSize < Cardinality(Hosts) THEN WantedSize ELSE Cardinality(Hosts)

NoGroup == [num |-> 0, size |-> 0, left |-> 0, joined |-> {}, failed |-> {}, over |-> FALSE]

Init ==
  /\ toTry = {}
  /\ nodesJoined = {}
  /\ numJoined = 0
  /\ numFailed = 0
  /\ group = NoGroup
  /\ waiting = {}
  /\ responses = {}
  /\ retrying = TRUE
  /\ destroyed = FALSE
  /\ outcome = "none"
  /\ callbacks = 0
  /\ updates = 0
  /\ attempts = [h \in Hosts |-> 0]

----------------------------------------------------------------------------
(* selectGroup *)

\* Fault: a new round offers the joined hosts again.
RoundOfAll == IF toTry = {} THEN Hosts ELSE toTry

\* When both lists of the round are used up, init() starts another round.
Round == IF toTry = {} THEN Hosts \ nodesJoined ELSE toTry

\* The groups that may be selected: as many hosts as are needed times the
\* factor, if there are, the preferred ones before the others.
Selections ==
  LET wanted == (JoinSize - Cardinality(nodesJoined)) * Factor
      size   == IF wanted < Cardinality(Round) THEN wanted ELSE Cardinality(Round)
  IN  {G \in SUBSET Round :
         /\ Cardinality(G) = size
         /\ \/ G \subseteq Preferred
            \/ Round \cap Preferred \subseteq G}

\* Fault: the hosts of a group stay in the lists of the round.
RoundAfterKeeps(G) == Round

\* takeNode removes what it selects.
RoundAfter(G) == Round \ G

\* join() or reJoin, and joinGroup.  Only join() looks whether the node was
\* destroyed.  An empty group is asked nothing, and nothing calls its onJoin.
JoinGroup ==
  /\ retrying
  /\ group.num = 0 => ~destroyed
  /\ retrying' = FALSE
  /\ \E G \in Selections :
       /\ toTry' = RoundAfter(G)
       /\ group' = [num |-> group.num + 1, size |-> Cardinality(G),
                    left |-> JoinSize - Cardinality(nodesJoined),
                    joined |-> {}, failed |-> {}, over |-> FALSE]
       /\ waiting' = waiting \cup {[host |-> h, num |-> group.num + 1] : h \in G}
       /\ attempts' = [h \in Hosts |-> attempts[h] + IF h \in G THEN 1 ELSE 0]
  /\ UNCHANGED <<nodesJoined, numJoined, numFailed, responses, destroyed,
                 outcome, callbacks, updates>>

Conclude(result) ==
  /\ outcome' = result
  /\ callbacks' = callbacks + 1

\* join() of a node that was destroyed.
JoinDestroyed ==
  /\ retrying
  /\ group.num = 0
  /\ destroyed
  /\ retrying' = FALSE
  /\ Conclude("aborted")
  /\ UNCHANGED <<toTry, nodesJoined, numJoined, numFailed, group, waiting,
                 responses, destroyed, updates, attempts>>

----------------------------------------------------------------------------
(* The answers *)

\* Fault: a node that was destroyed while it joined goes on.
VerdictsUndestroyed(joined, failed) ==
  IF joined >= JoinSize THEN {"joined"}
  ELSE IF failed >= MaxJoinAttempts THEN {"failed"}
  ELSE {"none", "too-late"}

\* Fault: maxJoinAttempts is not looked at.
VerdictsForever(joined, failed) ==
  IF destroyed THEN {"aborted"}
  ELSE IF joined >= JoinSize THEN {"joined"}
  ELSE {"none", "too-late"}

\* What the join comes to after a group; "none" is another group.  Whether
\* maxJoinDuration has passed is left open.
Verdicts(joined, failed) ==
  IF destroyed THEN {"aborted"}
  ELSE IF joined >= JoinSize THEN {"joined"}
  ELSE IF failed >= MaxJoinAttempts THEN {"failed"}
  ELSE {"none", "too-late"}

\* Fault: what was learnt is applied after every group.
UpdatesAlways(verdict) == IF verdict = "aborted" THEN updates ELSE updates + 1

\* mergeJoinResponses and membership.update: only of a join that is complete.
UpdatesAfter(verdict) == IF verdict = "joined" THEN updates + 1 ELSE updates

\* onJoin of join(), for the group g that is over; told is joinResponses.  Its
\* calledBack never matters: a group reports once, and only an outcome that is
\* still "none" has another group.
GroupOver(g, told) ==
  LET joined == numJoined + Cardinality(g.joined)
      failed == numFailed + Cardinality(g.failed)
  IN  \E verdict \in Verdicts(joined, failed) :
        /\ IF verdict = "aborted"
           THEN UNCHANGED <<nodesJoined, numJoined, numFailed>>
           ELSE /\ nodesJoined' = nodesJoined \cup g.joined
                /\ numJoined' = joined
                /\ numFailed' = failed
        /\ IF verdict = "none"
           THEN retrying' = TRUE /\ UNCHANGED <<outcome, callbacks>>
           ELSE Conclude(verdict) /\ UNCHANGED retrying
        /\ updates' = UpdatesAfter(verdict)
        /\ responses' = IF verdict = "joined" THEN Null ELSE told

\* onJoin of joinGroup: only the answers of a group that is not over count.
GroupAnswer(r, ok) ==
  IF r.num # group.num \/ group.over THEN group
  ELSE [group EXCEPT !.joined = IF ok THEN @ \cup {r.host} ELSE @,
                     !.failed = IF ok THEN @ ELSE @ \cup {r.host}]

\* Fault: one answer more is waited for than can come.
IsOverLate(g) ==
  \/ Cardinality(g.joined) >= g.left
  \/ Cardinality(g.joined) + Cardinality(g.failed) > g.size

\* Enough joined, or everyone answered.
IsOver(g) ==
  \/ Cardinality(g.joined) >= g.left
  \/ Cardinality(g.joined) + Cardinality(g.failed) >= g.size

\* A response is kept as long as the join is not complete.
Told(r) == IF responses = Null THEN Null ELSE responses \cup {r.host}

\* joinNode: request r failed, or was answered, with members or with a body
\* that does not parse, which counts as a join all the same.
JoinAnswer(r, answer) ==
  LET g    == GroupAnswer(r, answer # "error")
      told == IF answer = "members" THEN Told(r) ELSE responses
  IN  /\ r \in waiting
      /\ waiting' = waiting \ {r}
      /\ IF g # group /\ IsOver(g)
         THEN /\ group' = [g EXCEPT !.over = TRUE]
              /\ GroupOver(g, told)
         ELSE /\ group' = g
              /\ responses' = told
              /\ UNCHANGED <<nodesJoined, numJoined, numFailed, retrying,
                             outcome, callbacks, updates>>
      /\ UNCHANGED <<toTry, destroyed, attempts>>

Destroy ==
  /\ ~destroyed
  /\ destroyed' = TRUE
  /\ UNCHANGED <<toTry, nodesJoined, numJoined, numFailed, group, waiting, responses,
                 retrying, outcome, callbacks, updates, attempts>>

----------------------------------------------------------------------------
Answers == {"error", "empty", "members"}

Requests == [host : Hosts, num : 1..(MaxJoinAttempts + JoinSize)]

Next ==
  \/ JoinGroup
  \/ JoinDestroyed
  \/ \E r \in waiting, answer \in Answers : JoinAnswer(r, answer)
  \/ Destroy

Spec == Init /\ [][Next]_vars

\* The retry timer fires and joinTimeout ends every request.
Fairness ==
  /\ WF_vars(JoinGroup \/ JoinDestroyed)
  /\ WF_vars(\E r \in waiting, answer \in Answers : JoinAnswer(r, answer))

FairSpec == Spec /\ Fairness

----------------------------------------------------------------------------
(* Properties *)

\* The variables keep their types.
TypeOK ==
  /\ toTry \subseteq Hosts
  /\ nodesJoined \subseteq Hosts
  /\ numJoined \in Nat
  /\ numFailed \in Nat
  /\ group.joined \cup group.failed \subseteq Hosts
  /\ waiting \subseteq Requests
  /\ responses = Null \/ responses \subseteq Hosts
  /\ retrying \in BOOLEAN
  /\ destroyed \in BOOLEAN
  /\ outcome \in {"none", "joined", "failed", "too-late", "aborted"}
  /\ callbacks \in Nat
  /\ updates \in Nat
  /\ attempts \in [Hosts -> Nat]

\* A join that is complete has asked joinSize different hosts, in whatever
\* rounds they were asked.  "Update membership only once, when join is complete
\* and successful": never for a join that failed, was aborted, or goes on,
\* whatever answers late.
JoinedOnce ==
  /\ numJoined = Cardinality(nodesJoined)
  /\ outcome = "joined" => numJoined = JoinSize
  /\ updates <= 1
  /\ updates = 1 <=> outcome = "joined"
  /\ callbacks <= 1

\* The hosts that have not joined are asked in turns, the preferred ones first
\* in every round: none is asked a third time before all have been asked a
\* second time, and none before a preferred one.
AskedInTurns ==
  /\ \A h, k \in Hosts \ nodesJoined : attempts[h] <= attempts[k] + 1
  /\ \A h \in Preferred \ nodesJoined, k \in Hosts \ (Preferred \cup nodesJoined) :
       attempts[h] >= attempts[k]

\* A node that was destroyed does not complete its join.
DestroyedDoesNotJoin ==
  [][destroyed => outcome' \in {outcome, "aborted"}]_vars

\* join-sender.js:110: "We eventually want to give up if the join process
\* cannot succeed."  One way or the other, the join ends.
JoinEnds == <>(outcome # "none")
=============================================================================
