---------------------------- MODULE ProjectRelay ----------------------------
(***************************************************************************)
(* The records of one project scope (project_protocol.py) and what the     *)
(* relay does with them (project_server.py).  Each operation of the relay  *)
(* is one SQLite transaction: an operator that says when the relay accepts *)
(* a request, and one that gives its state afterwards.                     *)
(*                                                                         *)
(* Signatures and hashes are ideal: a record is its own hash, and only the *)
(* master makes policies, snapshots, revocations and receipts.  A device   *)
(* gets one grant in its life (every join makes a new device id), so the   *)
(* device stands for its grant.  The master changes version and epoch of a *)
(* policy together; the version stands for both.                           *)
(***************************************************************************)
EXTENDS Naturals, FiniteSets

CONSTANT Devices      \* the devices that may get a grant

\* A policy: its version, the devices it grants, and the sequence number of
\* the snapshot it was made over (checkpoint_sequence).
FirstPolicy == [version |-> 1, grants |-> {}, base |-> 0]

NextPolicy(p, grants, seq) == [version |-> p.version + 1, grants |-> grants, base |-> seq]

\* A snapshot is identified by the operation that publishes it; its content
\* is encrypted for exactly the devices of its policy (one wrap for each).
NoSnapshot == [op |-> 0, seq |-> 0, policy |-> FirstPolicy, content |-> {}]

Snapshot(op, seq, policy, content) ==
  [op |-> op, seq |-> seq, policy |-> policy, content |-> content]

\* create_scope
NewScope == [policy |-> FirstPolicy, head |-> NoSnapshot, policies |-> {FirstPolicy},
             ops |-> {}, known |-> {}, blocks |-> {}]

-----------------------------------------------------------------------------
(* Authorization *)

Granted(p, d) == d \in p.grants

BlockedAt(r, d) == \E b \in r.blocks : b.device = d

\* _auth for "read" and "create" by a device.
MayRead(r, d) == Granted(r.policy, d) /\ ~BlockedAt(r, d)

-----------------------------------------------------------------------------
(* publish *)

\* validate_policy_transition, and the checkpoint of the new policy.
ExtendsPolicy(r, p) ==
  /\ p.version = r.policy.version + 1
  /\ p.base = r.head.seq

\* _remember_grants: a grant that left the policy never comes back.
GrantsFresh(r, p) ==
  \A d \in p.grants : d \in r.known => Granted(r.policy, d)

Applied(r, q) == q.snapshot.op \in r.ops

\* A request that has not been applied: the head is the one the master saw,
\* the policy is the current one or extends it, and no recipient is blocked.
AcceptsPublish(r, q) ==
  /\ q.expected = r.head.op
  /\ q.snapshot.policy # r.policy =>
       ExtendsPolicy(r, q.snapshot.policy) /\ GrantsFresh(r, q.snapshot.policy)
  /\ q.snapshot.seq = r.head.seq + 1
  /\ \A d \in q.snapshot.policy.grants : ~BlockedAt(r, d)

Published(r, q) ==
  [r EXCEPT !.policy = q.snapshot.policy,
            !.head = q.snapshot,
            !.policies = @ \union {q.snapshot.policy},
            !.ops = @ \union {q.snapshot.op},
            !.known = @ \union q.snapshot.policy.grants]

\* publish: an operation that was applied is answered and not repeated.
AfterPublish(r, q) == IF ~Applied(r, q) /\ AcceptsPublish(r, q) THEN Published(r, q) ELSE r

-----------------------------------------------------------------------------
(* block *)

Revocation(d, p) == [device |-> d, policy |-> p]

\* The first block of a grant needs the grant to be active; afterwards the same
\* record is accepted again.
AcceptsBlock(r, b) ==
  /\ b.policy \in r.policies
  /\ b \in r.blocks \/ (~BlockedAt(r, b.device) /\ Granted(r.policy, b.device))

AfterBlock(r, b) == [r EXCEPT !.blocks = @ \union {b}]
=============================================================================
