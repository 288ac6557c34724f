---------------------------- MODULE PingReqProofs ----------------------------
(***************************************************************************)
(* A round of ping-reqs concludes once, and its verdict fits the answers,  *)
(* for any number of peers, whatever they answer, in whatever order, and   *)
(* whatever membership updates arrive meanwhile.                           *)
(***************************************************************************)
EXTENDS PingReq, FiniteSetTheorems, TLAPS

Said == {answers[p] : p \in DOMAIN answers}

\* Before the round concludes, every answer is an error and somebody has not
\* answered; a conclusion without peers comes at once.
Waiting ==
  /\ errors = DOMAIN answers
  /\ "ok" \notin Said
  /\ \/ callbacks = 0 /\ outcome = "none" /\ (peers # {} => errors # peers)
     \/ callbacks = 1 /\ outcome = "no-members" /\ peers = {}

\* Afterwards the verdict is what the answers say, all of them or one success.
Concluded ==
  /\ callbacks = 1
  /\ \/ outcome = "reachable" /\ "ok" \in Said
     \/ /\ outcome = IF "bad-ping-status" \in Said THEN "unreachable" ELSE "inconclusive"
        /\ "ok" \notin Said
        /\ DOMAIN answers = peers
        /\ peers # {}

PInv ==
  /\ target \in Record
  /\ peers \subseteq Addr \ {Target}
  /\ DOMAIN answers \subseteq peers
  /\ answers \in [DOMAIN answers -> Answers]
  /\ errors \subseteq DOMAIN answers
  /\ calledBack \in BOOLEAN
  /\ IF calledBack THEN Concluded ELSE Waiting

----------------------------------------------------------------------------
(* The member *)

\* A change that the rules admit makes nobody alive or suspect who was faulty
\* or had left, unless it is of a later incarnation.
LEMMA UpdatedForward ==
  ASSUME NEW m \in Record, NEW s \in Status, NEW i \in Nat
  PROVE  LET u == Updated(m, [status |-> s, inc |-> i])
         IN  /\ u \in Record
             /\ m.status \in {"faulty", "leave"} =>
                  \/ u.inc > m.inc
                  \/ u.inc = m.inc /\ u.status \in {"faulty", "leave"}
<1> DEFINE c == [status |-> s, inc |-> i]
<1>1. RecordOf(c) = c /\ c \in Record /\ c.status = s /\ c.inc = i
  BY DEF RecordOf, Record
<1>2. m.inc \in Nat /\ m.status \in Status
  BY DEF Record
<1> HIDE DEF c
<1>3. CASE Overrides(m, c)
  <2>1. m.status \in {"faulty", "leave"} =>
          c.inc > m.inc \/ (c.inc = m.inc /\ c.status \in {"faulty", "leave"})
    BY <1>1, <1>2, <1>3 DEF Overrides, IsAliveOverride, IsSuspectOverride,
                            IsFaultyOverride, IsLeaveOverride
  <2> QED BY <1>1, <1>3, <2>1 DEF Updated, c
<1>4. CASE ~Overrides(m, c)
  BY <1>1, <1>2, <1>4 DEF Updated, c
<1> QED BY <1>3, <1>4

\* makeSuspect spares those that are faulty or have left.
LEMMA MakeSuspectFacts ==
  ASSUME NEW m \in Record
  PROVE  /\ MakeSuspect(m) \in Record
         /\ MakeSuspect(m).inc = m.inc
         /\ m.status \in {"faulty", "leave"} => MakeSuspect(m) = m
<1> DEFINE c == [status |-> "suspect", inc |-> m.inc]
<1>1. RecordOf(c) = c /\ c \in Record /\ c.status = "suspect" /\ c.inc = m.inc
  BY DEF RecordOf, Record, Status
<1>2. m.inc \in Nat
  BY DEF Record
<1>3. MakeSuspect(m) = IF Overrides(m, c) THEN c ELSE m
  BY <1>1 DEF MakeSuspect, Updated
<1> HIDE DEF c
<1>4. m.status \in {"faulty", "leave"} => ~Overrides(m, c)
  BY <1>1, <1>2 DEF Overrides, IsAliveOverride, IsSuspectOverride,
                    IsFaultyOverride, IsLeaveOverride
<1> QED BY <1>1, <1>3, <1>4

\* What becomes of the target when an answer is heard.
LEMMA HeardFacts ==
  ASSUME target \in Record, NEW kind,
         NEW heard \in IF kind \in WithChanges
                         THEN {target} \cup
                              {Updated(target, [status |-> s, inc |-> i]) :
                                 s \in Status, i \in Incs}
                         ELSE {target}
  PROVE  /\ heard \in Record
         /\ target.status \in {"faulty", "leave"} =>
              \/ heard.inc > target.inc
              \/ heard.inc = target.inc /\ heard.status \in {"faulty", "leave"}
<1>1. Incs \subseteq Nat
  BY DEF Incs
<1>2. CASE heard = target
  BY <1>2
<1>3. CASE heard # target
  <2>1. PICK s \in Status, i \in Incs : heard = Updated(target, [status |-> s, inc |-> i])
    BY <1>3
  <2> QED BY <1>1, <2>1, UpdatedForward
<1> QED BY <1>2, <1>3

LEMMA AnsweredTarget ==
  ASSUME target \in Record, NEW p, Answer(p)
  PROVE  /\ target' \in Record
         /\ target.status \in {"faulty", "leave"} =>
              \/ target'.inc > target.inc
              \/ target'.status \in {"faulty", "leave"}
<1>1. PICK kind \in Answers :
        \E heard \in IF kind \in WithChanges
                       THEN {target} \cup
                            {Updated(target, [status |-> s, inc |-> i]) :
                               s \in Status, i \in Incs}
                       ELSE {target} :
          target' = IF outcome' = "unreachable" /\ ~calledBack
                      THEN MakeSuspect(heard) ELSE heard
  BY DEF Answer
<1>2. PICK heard \in IF kind \in WithChanges
                       THEN {target} \cup
                            {Updated(target, [status |-> s, inc |-> i]) :
                               s \in Status, i \in Incs}
                       ELSE {target} :
          target' = IF outcome' = "unreachable" /\ ~calledBack
                      THEN MakeSuspect(heard) ELSE heard
  BY <1>1
<1>3. /\ heard \in Record
      /\ target.status \in {"faulty", "leave"} =>
           \/ heard.inc > target.inc
           \/ heard.inc = target.inc /\ heard.status \in {"faulty", "leave"}
  BY HeardFacts
<1>4. /\ MakeSuspect(heard) \in Record /\ MakeSuspect(heard).inc = heard.inc
      /\ heard.status \in {"faulty", "leave"} => MakeSuspect(heard) = heard
  BY <1>3, MakeSuspectFacts
<1> QED BY <1>2, <1>3, <1>4

----------------------------------------------------------------------------
(* The steps *)

\* The errors are enough when they are the errors of all peers.
LEMMA EnoughIsAll ==
  ASSUME peers \subseteq Addr, NEW E \in SUBSET peers
  PROVE  Enough(E) <=> E = peers
<1>1. IsFiniteSet(peers)
  BY AddrAssumption, FS_Subset
<1>2. /\ IsFiniteSet(E) /\ Cardinality(E) <= Cardinality(peers)
      /\ Cardinality(E) = Cardinality(peers) => E = peers
  BY <1>1, FS_Subset
<1>3. Cardinality(E) \in Nat /\ Cardinality(peers) \in Nat
  BY <1>1, <1>2, FS_CardinalityType
<1> QED BY <1>2, <1>3 DEF Enough

LEMMA AnswerInv ==
  ASSUME PInv, NEW p \in Addr, Answer(p)
  PROVE  PInv'
<1>1. p \in peers \ DOMAIN answers /\ peers' = peers
  BY DEF Answer
<1>2. PICK kind \in Answers :
        /\ answers' = Overlay(answers, [x \in {p} |-> kind])
        /\ Judge(p, Overlay(answers, [x \in {p} |-> kind]))
  BY DEF Answer, Judge, Enough, Condemned, Overlay
<1> DEFINE said == Overlay(answers, [x \in {p} |-> kind])
<1>3. answers' = said /\ Judge(p, said)
  BY <1>2
<1>4. /\ DOMAIN answers' = DOMAIN answers \cup {p} /\ answers'[p] = kind
      /\ \A q \in DOMAIN answers : answers'[q] = answers[q]
      /\ answers' \in [DOMAIN answers' -> Answers]
  BY <1>1, <1>2 DEF PInv, Overlay
<1> HIDE DEF said
<1>5. Said' = Said \cup {kind}
  BY <1>1, <1>4 DEF Said
<1>6. DOMAIN answers' \subseteq peers /\ peers \subseteq Addr
  BY <1>1, <1>4 DEF PInv
<1>7. target' \in Record
  BY AnsweredTarget DEF PInv
<1>8. CASE calledBack
  <2>1. UNCHANGED <<errors, calledBack, callbacks, outcome>>
    BY <1>3, <1>8 DEF Judge
  <2>2. Concluded /\ outcome = "reachable"
    BY <1>1, <1>8 DEF PInv, Concluded
  <2>3. Concluded'
    BY <1>5, <2>1, <2>2 DEF Concluded
  <2> QED BY <1>1, <1>4, <1>6, <1>7, <1>8, <2>1, <2>3 DEF PInv
<1>9. CASE ~calledBack
  <2> DEFINE E == errors \cup {p}
  <2>1. Waiting /\ callbacks = 0 /\ E = DOMAIN answers'
    BY <1>1, <1>4, <1>9 DEF PInv, Waiting
  <2>2. CASE kind = "ok"
    <3>1. /\ calledBack' = TRUE /\ callbacks' = 1 /\ outcome' = "reachable"
          /\ errors' = errors
      BY <1>3, <1>4, <1>9, <2>1, <2>2 DEF Judge
    <3>2. Concluded'
      BY <1>5, <2>2, <3>1 DEF Concluded
    <3>3. errors' \subseteq DOMAIN answers'
      BY <1>4, <3>1 DEF PInv
    <3> QED BY <1>1, <1>4, <1>6, <1>7, <3>1, <3>2, <3>3 DEF PInv
  <2>3. CASE kind # "ok" /\ E = peers
    <3>1. Enough(E)
      BY <1>6, <2>3, EnoughIsAll
    <3>2. /\ errors' = E /\ calledBack' = TRUE /\ callbacks' = 1
          /\ outcome' = IF Condemned(E, said) THEN "unreachable" ELSE "inconclusive"
      BY <1>3, <1>4, <1>9, <2>1, <2>3, <3>1 DEF Judge
    <3>3. Condemned(E, said) <=> "bad-ping-status" \in Said'
      BY <1>3, <2>1 DEF Condemned, Said
    <3>4. "ok" \notin Said'
      BY <1>5, <2>1, <2>3 DEF Waiting
    <3>5. Concluded'
      BY <1>1, <2>1, <2>3, <3>2, <3>3, <3>4 DEF Concluded
    <3> QED BY <1>1, <1>4, <1>6, <1>7, <2>1, <3>2, <3>5 DEF PInv
  <2>4. CASE kind # "ok" /\ E # peers
    <3>1. ~Enough(E)
      BY <1>6, <2>1, <2>4, EnoughIsAll
    <3>2. errors' = E /\ UNCHANGED <<calledBack, callbacks, outcome>>
      BY <1>3, <1>4, <1>9, <2>4, <3>1 DEF Judge
    <3>3. "ok" \notin Said'
      BY <1>5, <2>1, <2>4 DEF Waiting
    <3>4. Waiting'
      BY <1>1, <2>1, <2>4, <3>2, <3>3 DEF Waiting
    <3> QED BY <1>1, <1>4, <1>6, <1>7, <1>9, <2>1, <3>2, <3>4 DEF PInv
  <2> QED BY <2>2, <2>3, <2>4
<1> QED BY <1>8, <1>9 DEF PInv

LEMMA SendPingReqInv ==
  ASSUME PInv, SendPingReq
  PROVE  PInv'
<1>1. PICK P \in SUBSET (Addr \ {Target}) :
        /\ peers' = P
        /\ IF P = {} THEN callbacks' = 1 /\ outcome' = "no-members"
                     ELSE UNCHANGED <<callbacks, outcome>>
  BY DEF SendPingReq, Candidates
<1>2. peers = {} /\ callbacks = 0 /\ UNCHANGED <<target, answers, errors, calledBack>>
  BY DEF SendPingReq
<1>3. ~calledBack /\ Waiting
  BY <1>2 DEF PInv, Concluded
<1>4. errors = {} /\ DOMAIN answers = {} /\ outcome = "none"
  BY <1>2, <1>3 DEF PInv, Waiting
<1>5. Said' = Said
  BY <1>2 DEF Said
<1>6. Waiting'
  BY <1>1, <1>2, <1>3, <1>4, <1>5 DEF Waiting
<1> QED BY <1>1, <1>2, <1>3, <1>4, <1>6 DEF PInv

LEMMA Invariance == Spec => []PInv
<1>1. Init => PInv
  <2> SUFFICES ASSUME Init PROVE PInv
    OBVIOUS
  <2>1. DOMAIN answers = {} /\ answers \in [DOMAIN answers -> Answers]
    BY DEF Init
  <2>2. Waiting
    BY <2>1 DEF Init, Waiting, Said
  <2>3. target \in Record
    BY DEF Init, Record, Status
  <2> QED BY <2>1, <2>2, <2>3 DEF Init, PInv
<1>2. PInv /\ [Next]_vars => PInv'
  <2> SUFFICES ASSUME PInv, [Next]_vars PROVE PInv'
    OBVIOUS
  <2>1. CASE UpdateTarget
    <3>1. target' \in Record
      BY <2>1, UpdatedForward DEF UpdateTarget, PInv, Incs
    <3>2. UNCHANGED <<peers, answers, errors, calledBack, callbacks, outcome>>
      BY <2>1 DEF UpdateTarget
    <3> QED BY <3>1, <3>2 DEF PInv, Waiting, Concluded, Said
  <2>2. CASE SendPingReq
    BY <2>2, SendPingReqInv
  <2>3. ASSUME NEW p \in Addr, Answer(p) PROVE PInv'
    BY <2>3, AnswerInv
  <2>4. CASE UNCHANGED vars
    BY <2>4 DEF vars, PInv, Waiting, Concluded, Said
  <2> QED BY <2>1, <2>2, <2>3, <2>4 DEF Next
<1> QED BY <1>1, <1>2, PTL DEF Spec

----------------------------------------------------------------------------
\* The types of the round.
THEOREM TypeCorrect == Spec => []TypeOK
<1>1. PInv => TypeOK
  BY DEF PInv, TypeOK, Concluded, Waiting
<1> QED BY <1>1, Invariance, PTL

\* However many peers there are and whenever they answer, the caller is called
\* back no more than once.
THEOREM CalledBackOnceHolds == Spec => []CalledBackOnce
<1>1. PInv => CalledBackOnce
  BY DEF PInv, CalledBackOnce, Concluded, Waiting
<1> QED BY <1>1, Invariance, PTL

\* The verdict is the one the answers call for, however many peers there are
\* and in whatever order they answer.
THEOREM VerdictFitsHolds == Spec => []VerdictFits
<1>1. PInv => VerdictFits
  <2> SUFFICES ASSUME PInv PROVE VerdictFits
    OBVIOUS
  <2>1. /\ "ok" \in Said <=> \E p \in DOMAIN answers : answers[p] = "ok"
        /\ "bad-ping-status" \in Said <=>
             \E p \in DOMAIN answers : answers[p] = "bad-ping-status"
    BY DEF Said
  <2>2. CASE calledBack
    <3>1. outcome \in {"unreachable", "inconclusive"} =>
            DOMAIN answers = peers /\ peers # {} /\ "ok" \notin Said
      BY <2>2 DEF PInv, Concluded
    <3>2. /\ outcome = "unreachable" => "bad-ping-status" \in Said
          /\ outcome = "inconclusive" => "bad-ping-status" \notin Said
      BY <2>2 DEF PInv, Concluded
    <3>3. outcome = "reachable" <=> "ok" \in Said
      BY <2>2 DEF PInv, Concluded
    <3> QED BY <2>1, <3>1, <3>2, <3>3 DEF VerdictFits
  <2>3. CASE ~calledBack
    <3>1. outcome \in {"none", "no-members"} /\ "ok" \notin Said
      BY <2>3 DEF PInv, Waiting
    <3>2. outcome = "no-members" => DOMAIN answers = {}
      BY <2>3 DEF PInv, Waiting
    <3> QED BY <2>1, <3>1, <3>2 DEF VerdictFits
  <2> QED BY <2>2, <2>3 DEF PInv
<1> QED BY <1>1, Invariance, PTL

\* No round brings a member back from faulty or leave at its incarnation.
THEOREM OnlyAliveIsSuspectedHolds == Spec => OnlyAliveIsSuspected
<1>1. PInv /\ [Next]_vars =>
        [outcome' = "unreachable" /\ outcome = "none" /\ target.status \in {"faulty", "leave"}
           => \/ target'.inc > target.inc
              \/ target'.status \in {"faulty", "leave"}]_vars
  <2> SUFFICES ASSUME PInv, Next, outcome' = "unreachable", outcome = "none",
                      target.status \in {"faulty", "leave"}
               PROVE  target'.inc > target.inc \/ target'.status \in {"faulty", "leave"}
    OBVIOUS
  <2>1. ~UpdateTarget
    BY DEF UpdateTarget
  <2>2. ~SendPingReq
    BY DEF SendPingReq
  <2>3. PICK p \in Addr : Answer(p)
    BY <2>1, <2>2 DEF Next
  <2> QED BY <2>3, AnsweredTarget DEF PInv
<1> QED BY <1>1, Invariance, PTL DEF Spec, OnlyAliveIsSuspected
=============================================================================
