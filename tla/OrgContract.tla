------------------------------ MODULE OrgContract ------------------------------
(***************************************************************************)
(* What the gateway promises about organizations: an organization has one  *)
(* owner for ever; a member is suspended before he is expelled; an invite  *)
(* is accepted or discarded once, can be withdrawn and renewed until then, *)
(* and admits nobody while it is withdrawn.                                *)
(***************************************************************************)
CONSTANTS User, Org, Invite, NoOrg

VARIABLES
    standing,   \* standing[o][u]: what user u is to organization o
    stage,      \* stage[i]: where invite i is in its life
    about       \* about[i]: the organization invite i is for

contractVars == <<standing, stage, about>>

Standing == {"none", "active", "deactive", "owner"}
Stage == {"unused", "pending", "deactive", "accepted", "deleted"}

ContractInit ==
    /\ standing = [o \in Org |-> [u \in User |-> "none"]]
    /\ stage = [i \in Invite |-> "unused"]
    /\ about = [i \in Invite |-> NoOrg]

Founded(o) == \E u \in User : standing[o][u] = "owner"

Move(o, u, from, to) ==
    /\ standing[o][u] \in from
    /\ standing' = [standing EXCEPT ![o][u] = to]

Found(o, u) ==
    /\ \A v \in User : standing[o][v] = "none"
    /\ Move(o, u, {"none"}, "owner")
    /\ UNCHANGED <<stage, about>>

Admit(o, u) ==
    /\ Founded(o)
    /\ Move(o, u, {"none", "deactive"}, "active")
    /\ UNCHANGED <<stage, about>>

Suspend(o, u) == Move(o, u, {"active"}, "deactive") /\ UNCHANGED <<stage, about>>

Expel(o, u) == Move(o, u, {"deactive"}, "none") /\ UNCHANGED <<stage, about>>

Shift(i, from, to) ==
    /\ stage[i] = from
    /\ stage' = [stage EXCEPT ![i] = to]

Send(i, o) ==
    /\ Founded(o)
    /\ Shift(i, "unused", "pending")
    /\ about' = [about EXCEPT ![i] = o]
    /\ UNCHANGED standing

Withdraw(i) == Shift(i, "pending", "deactive") /\ UNCHANGED <<standing, about>>
Renew(i) == Shift(i, "deactive", "pending") /\ UNCHANGED <<standing, about>>
Discard(i) == Shift(i, "deactive", "deleted") /\ UNCHANGED <<standing, about>>

\* Whoever accepts is admitted, unless he already stood or was expelled meanwhile.
Accept(i, u) ==
    /\ Shift(i, "pending", "accepted")
    /\ \/ Founded(about[i]) /\ Move(about[i], u, {"none", "deactive"}, "active")
       \/ UNCHANGED standing
    /\ UNCHANGED about

ContractNext ==
    \/ \E o \in Org, u \in User : Found(o, u) \/ Admit(o, u) \/ Suspend(o, u) \/ Expel(o, u)
    \/ \E i \in Invite : Withdraw(i) \/ Renew(i) \/ Discard(i)
    \/ \E i \in Invite, o \in Org : Send(i, o)
    \/ \E i \in Invite, u \in User : Accept(i, u)

ContractSpec == ContractInit /\ [][ContractNext]_contractVars
================================================================================
