------------------------------ MODULE PingReq ------------------------------
(***************************************************************************)
(* One round of indirect probing (lib/swim/ping-req-sender.js): a member   *)
(* that did not answer a ping is probed through other members, and the     *)
(* answers, in whatever order they arrive, decide whether it is suspected. *)
(* Meanwhile the node goes on receiving membership updates about it.       *)
(***************************************************************************)
EXTENDS MembershipRules

CONSTANTS
  Target,       \* unreachableMember.address
  PingReqSize,  \* ringpop.pingReqSize
  MaxInc        \* bound on incarnation numbers

ASSUME TargetAssumption == Target \in Addr
ASSUME PingReqSizeAssumption == PingReqSize \in Nat
ASSUME MaxIncAssumption == MaxInc \in Nat \ {0}

VARIABLES
  target,      \* the Member object of the target, shared with the membership
  peers,       \* pingReqMembers
  answers,     \* what the peers that answered said
  errors,      \* errors, as the set of peers whose answer is in it
  calledBack,  \* calledBack
  callbacks,   \* how often the callback was called
  outcome      \* what it was told

vars == <<target, peers, answers, errors, calledBack, callbacks, outcome>>

Incs == 1..MaxInc

\* A peer reached the target; could not reach it; answered something that
\* cannot be understood; or did not answer before the timeout.
Answers == {"ok", "bad-ping-status", "bad-response-body", "ping-error"}

\* Only these bring changes with them.
WithChanges == {"ok", "bad-ping-status"}

Init ==
  /\ target \in [status : {"alive", "suspect"}, inc : {1}]
  /\ peers = {}
  /\ answers = [p \in {} |-> "ok"]
  /\ errors = {}
  /\ calledBack = FALSE
  /\ callbacks = 0
  /\ outcome = "none"

----------------------------------------------------------------------------
\* A membership update says something of the target.
Updated(m, c) == IF Overrides(m, c) THEN RecordOf(c) ELSE m

UpdateTarget ==
  /\ \E s \in Status, i \in Incs : target' = Updated(target, [status |-> s, inc |-> i])
  /\ UNCHANGED <<peers, answers, errors, calledBack, callbacks, outcome>>

\* Fault: the target is asked to probe itself.
CandidatesAll == Addr

\* getRandomPingableMembers leaves the target out; who else is pingable is left
\* open.
Candidates == Addr \ {Target}

\* sendPingReq(): the requests go to some pingable members other than the
\* target; there may be none.
SendPingReq ==
  /\ peers = {}
  /\ callbacks = 0
  /\ \E P \in SUBSET Candidates :
       /\ Cardinality(P) <= PingReqSize
       /\ peers' = P
       /\ IF P = {} THEN callbacks' = 1 /\ outcome' = "no-members"
                    ELSE UNCHANGED <<callbacks, outcome>>
  /\ UNCHANGED <<target, answers, errors, calledBack>>

\* Fault: the member is marked, past the override rules.
MakeSuspectForced(m) == [status |-> "suspect", inc |-> m.inc]

\* makeSuspect at the incarnation number that the Member has now.
MakeSuspect(m) == Updated(m, [status |-> "suspect", inc |-> m.inc])

\* Fault: the last answer is not waited for.
EnoughBut1(E) == Cardinality(E) + 1 >= Cardinality(peers)

\* Fault: one answer more is waited for than can come.
EnoughAnd1(E) == Cardinality(E) > Cardinality(peers)

\* errors.length < pingReqMembers.length keeps the round waiting.
Enough(E) == Cardinality(E) >= Cardinality(peers)

\* numPingReqStatusErrs > 0
Condemned(E, said) == \E p \in E : said[p] = "bad-ping-status"

\* Fault: a round that is over goes on judging.
JudgeAgain(p, said) ==
  LET E == errors \cup {p}
  IN  IF said[p] = "ok"
      THEN /\ calledBack' = TRUE
           /\ callbacks' = callbacks + 1
           /\ outcome' = "reachable"
           /\ UNCHANGED <<errors>>
      ELSE /\ errors' = E
           /\ IF Enough(E)
              THEN /\ calledBack' = TRUE
                   /\ callbacks' = callbacks + 1
                   /\ outcome' = IF Condemned(E, said) THEN "unreachable"
                                                       ELSE "inconclusive"
              ELSE UNCHANGED <<calledBack, callbacks, outcome>>

\* onPingReq of the closure: the answers after the conclusion are ignored, the
\* first success concludes, an error concludes when it is the last.
Judge(p, said) ==
  LET E == errors \cup {p}
  IN  IF calledBack THEN UNCHANGED <<errors, calledBack, callbacks, outcome>>
      ELSE IF said[p] = "ok"
      THEN /\ calledBack' = TRUE
           /\ callbacks' = callbacks + 1
           /\ outcome' = "reachable"
           /\ UNCHANGED <<errors>>
      ELSE /\ errors' = E
           /\ IF Enough(E)
              THEN /\ calledBack' = TRUE
                   /\ callbacks' = callbacks + 1
                   /\ outcome' = IF Condemned(E, said) THEN "unreachable"
                                                       ELSE "inconclusive"
              ELSE UNCHANGED <<calledBack, callbacks, outcome>>

\* PingReqSender.onPingReq: the changes of a proper response are applied,
\* also when the round is over, then the answer is judged.
Answer(p) ==
  /\ p \in peers \ DOMAIN answers
  /\ \E kind \in Answers :
       LET said == Overlay(answers, [x \in {p} |-> kind])
       IN  /\ answers' = said
           /\ Judge(p, said)
           /\ \E heard \in IF kind \in WithChanges
                             THEN {target} \cup
                                  {Updated(target, [status |-> s, inc |-> i]) :
                                     s \in Status, i \in Incs}
                             ELSE {target} :
                target' = IF outcome' = "unreachable" /\ ~calledBack
                            THEN MakeSuspect(heard) ELSE heard
  /\ UNCHANGED peers

Next ==
  \/ UpdateTarget
  \/ SendPingReq
  \/ \E p \in Addr : Answer(p)

Spec == Init /\ [][Next]_vars

\* pingReqTimeout turns a missing answer into an error.
Fairness == \A p \in Addr : WF_vars(Answer(p))

FairSpec == Spec /\ Fairness

----------------------------------------------------------------------------
(* Properties *)

\* The variables keep their types.
TypeOK ==
  /\ target \in Record
  /\ peers \subseteq Addr \ {Target}
  /\ DOMAIN answers \subseteq peers
  /\ \A p \in DOMAIN answers : answers[p] \in Answers
  /\ errors \subseteq DOMAIN answers
  /\ calledBack \in BOOLEAN
  /\ callbacks \in Nat
  /\ outcome \in {"none", "no-members", "reachable", "unreachable", "inconclusive"}

\* The caller, who holds isPinging, is called back at most once, although
\* answers go on arriving after the round is over (calledBack).
CalledBackOnce == callbacks <= 1

\* One peer that reached the target outweighs any number that did not, and in
\* whatever order they answer; without one, nothing is concluded before every
\* peer has answered.  The target is condemned when all of them say that they
\* could not reach it, and not when none does.  What is right of a mixture of
\* such answers and other errors is left open: the code (ping-req-sender.js:248)
\* and the comment above it (232-237) differ about it.
VerdictFits ==
  /\ outcome = "reachable" <=> \E p \in DOMAIN answers : answers[p] = "ok"
  /\ outcome \in {"unreachable", "inconclusive"} => DOMAIN answers = peers
  /\ outcome = "unreachable" =>
       \E p \in peers : answers[p] = "bad-ping-status"
  /\ outcome = "inconclusive" =>
       \E p \in peers : answers[p] # "bad-ping-status"

\* The round adds suspicion to nobody but an alive target: a member that is
\* found faulty or leaves during the round stays so at its incarnation.
OnlyAliveIsSuspected ==
  [][outcome' = "unreachable" /\ outcome = "none" /\ target.status \in {"faulty", "leave"}
       => \/ target'.inc > target.inc
          \/ target'.status \in {"faulty", "leave"}]_vars

\* The round, once begun, comes to a conclusion, so that isPinging is lowered.
Concludes == peers # {} ~> callbacks > 0
=============================================================================
