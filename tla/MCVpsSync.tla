----------------------------- MODULE MCVpsSync -----------------------------
(* Instances of VpsSync for TLC. *)
EXTENDS VpsSync, TLC

CONSTANTS m0, m1, m2

\* The root revokes while two members write.
MembersWrite == m0 :> {"refresh"} @@ m1 :> {"push"} @@ m2 :> {"push"}

\* Members are interchangeable.
MemberSymmetry == Permutations({m1, m2})

\* The root and a newcomer; each also reads without writing.
BothRead == m0 :> {"push", "status"} @@ m1 :> {"push", "pull"}

BothWrite == m0 :> {"push"} @@ m1 :> {"push"}

\* Next, but a second update is made only where the root does nothing and
\* nobody is revoked.
Undisturbed == run[Root] = Idle /\ intent = {} /\ table = NewTable(Members)

RevokeNext ==
  \/ \E c \in Devices : \/ Step(c) \/ Fail(c)
                        \/ (c = Root => updates <= 1) /\ StartSync(c)
                        \/ (updates = 1 => Undisturbed) /\ Edit(c)
  \/ \E d \in Devices : \/ updates <= 1 /\ StartRevoke(d)
                        \/ updates <= 1 /\ StartApprove(d)
                        \/ StartInvite(d) \/ ClaimInvite(d) \/ ApproveInvite(d) \/ Finish(d)
  \/ BackUp \/ Restore

RevokeSpec == Init /\ [][RevokeNext]_vars
=============================================================================
