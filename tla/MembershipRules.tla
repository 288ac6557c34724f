-------------------------- MODULE MembershipRules --------------------------
(***************************************************************************)
(* The data of the membership protocol and the pure functions over it:     *)
(* which change overrides which record (lib/membership-update-rules.js),   *)
(* what one call of Membership.prototype.update accepts and writes         *)
(* (lib/membership.js), and how changesets collected during a join are     *)
(* merged (lib/membership-changeset-merge.js).                             *)
(*                                                                         *)
(* A membership list is a map from addresses to records.  A changeset is a *)
(* map from addresses to changes: every changeset a node sends holds at    *)
(* most one change per address, because both of its sources are keyed by   *)
(* address (the dissemination table and the member list of a full sync),   *)
(* so its changes can be judged independently of one another.              *)
(***************************************************************************)
EXTENDS Integers, FiniteSets

CONSTANT Addr    \* the addresses (host:port) of the nodes

ASSUME AddrAssumption == IsFiniteSet(Addr)

Status == {"alive", "suspect", "faulty", "leave"}

\* f maps some addresses to elements of T, as a JavaScript object does.
IsMap(f, T) == DOMAIN f \subseteq Addr /\ f \in [DOMAIN f -> T]

\* The map that is g on the domain of g and f elsewhere.
Overlay(f, g) ==
  [a \in DOMAIN f \cup DOMAIN g |-> IF a \in DOMAIN g THEN g[a] ELSE f[a]]

\* What a Member object holds besides its address.  Incarnation numbers are
\* readings of Date.now(), so 0 is free to stand for "undefined".
Record == [status : Status, inc : Nat]

\* A change on the wire: the record it asserts, and who asserted it first.
Change == [status : Status, inc : Nat, src : Addr, srcInc : Nat]

RecordOf(c) == [status |-> c.status, inc |-> c.inc]

----------------------------------------------------------------------------
(* The override rules: may change c replace record m? *)

IsAliveOverride(m, c) == c.status = "alive" /\ c.inc > m.inc

IsSuspectOverride(m, c) ==
  /\ c.status = "suspect"
  /\ \/ m.status \in {"suspect", "faulty"} /\ c.inc > m.inc
     \/ m.status = "alive" /\ c.inc >= m.inc

\* Fault: a suspect needs a newer incarnation to become faulty.
IsFaultyOverrideNewer(m, c) ==
  /\ c.status = "faulty"
  /\ \/ m.status \in {"suspect", "faulty"} /\ c.inc > m.inc
     \/ m.status = "alive" /\ c.inc >= m.inc

IsFaultyOverride(m, c) ==
  /\ c.status = "faulty"
  /\ \/ m.status = "faulty" /\ c.inc > m.inc
     \/ m.status \in {"alive", "suspect"} /\ c.inc >= m.inc

\* Fault: a leave of an incarnation that is over still counts.
IsLeaveOverrideStale(m, c) == c.status = "leave" /\ m.status # "leave"

IsLeaveOverride(m, c) ==
  c.status = "leave" /\ m.status # "leave" /\ c.inc >= m.inc

Overrides(m, c) ==
  \/ IsAliveOverride(m, c)
  \/ IsSuspectOverride(m, c)
  \/ IsFaultyOverride(m, c)
  \/ IsLeaveOverride(m, c)

\* Fault: only suspicion is refuted.
IsLocalOverrideSuspect(self, a, c) == a = self /\ c.status = "suspect"

\* Somebody believes the local member suspect or faulty.  Neither the
\* incarnation number of the belief nor the local status is looked at.
IsLocalOverride(self, a, c) == a = self /\ c.status \in {"suspect", "faulty"}

----------------------------------------------------------------------------
(* One call of update(): the accepted changes and the resulting list. *)

\* The addresses whose change is applied.
Accepted(self, members, batch) ==
  {a \in DOMAIN batch :
     \/ a \notin DOMAIN members
     \/ IsLocalOverride(self, a, batch[a])
     \/ Overrides(members[a], batch[a])}

\* The assertion that answers a local override: the accusing object extended
\* in place, so that it keeps the accuser as its source.
Reassert(c, now) ==
  [status |-> "alive", inc |-> now, src |-> c.src, srcInc |-> c.srcInc]

\* The array update() returns and emits: a local override becomes an
\* assertion that the local member is alive, anything else is taken as it is.
Updates(self, members, batch, now) ==
  [a \in Accepted(self, members, batch) |->
     IF a \in DOMAIN members /\ IsLocalOverride(self, a, batch[a])
       THEN Reassert(batch[a], now)
       ELSE batch[a]]

Records(updates) == [a \in DOMAIN updates |-> RecordOf(updates[a])]

----------------------------------------------------------------------------
(* Merging a changeset into the index of the changesets merged before it:  *)
(* the local member is skipped, and the change that is kept for an address *)
(* is the first one that has the highest incarnation number.               *)
MergeChangeset(self, index, batch) ==
  Overlay(index,
          [a \in {x \in DOMAIN batch \ {self} :
                    x \notin DOMAIN index \/ index[x].inc < batch[x].inc}
             |-> batch[a]])
=============================================================================
