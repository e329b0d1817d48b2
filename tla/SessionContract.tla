--------------------------- MODULE SessionContract ---------------------------
(***************************************************************************)
(* What the gateway promises about one refresh session, without Postgres,  *)
(* Redis, requests or a clock: a session is issued once with a deadline it *)
(* keeps, is withdrawn at most once, and from then on may still open doors *)
(* for a while ("lingering": a copy of it survives in the cache or in a    *)
(* request under way) but never becomes live again; once "dead" no access  *)
(* is ever granted under it; and no access outlasts its deadline.          *)
(***************************************************************************)
EXTENDS Naturals

CONSTANTS
    Token,      \* refresh sessions, named by their token
    Instant     \* the instants a deadline or an access expiry may have

VARIABLES
    standing,   \* standing[t]: where session t is in its life
    deadline,   \* deadline[t]: when t expires, 0 before it is issued
    access      \* access[t]: expiry of the newest access token granted under t

contractVars == <<standing, deadline, access>>

Standing == {"unissued", "live", "lingering", "dead"}

ContractInit ==
    /\ standing = [t \in Token |-> "unissued"]
    /\ deadline = [t \in Token |-> 0]
    /\ access = [t \in Token |-> 0]

Issue(t) ==
    /\ standing[t] = "unissued"
    /\ standing' = [standing EXCEPT ![t] = "live"]
    /\ \E d \in Instant : deadline' = [deadline EXCEPT ![t] = d]
    /\ UNCHANGED access

\* Several sessions may be withdrawn in one step (all the sessions of a user).
Withdraw(S) ==
    /\ \A t \in S : standing[t] = "live"
    /\ standing' \in [Token -> Standing]
    /\ \A t \in Token : IF t \in S THEN standing'[t] \in {"lingering", "dead"}
                                   ELSE standing'[t] = standing[t]
    /\ UNCHANGED <<deadline, access>>

Forget(t) ==
    /\ standing[t] = "lingering"
    /\ standing' = [standing EXCEPT ![t] = "dead"]
    /\ UNCHANGED <<deadline, access>>

\* The step that grants access under t may also remove the last copy of t.
Grant(t) ==
    /\ standing[t] \in {"live", "lingering"}
    /\ \E e \in Instant : e <= deadline[t] /\ access' = [access EXCEPT ![t] = e]
    /\ \/ UNCHANGED standing
       \/ standing[t] = "lingering" /\ standing' = [standing EXCEPT ![t] = "dead"]
    /\ UNCHANGED deadline

ContractNext ==
    \/ \E t \in Token : Issue(t) \/ Forget(t) \/ Grant(t)
    \/ \E S \in SUBSET Token : Withdraw(S)

ContractSpec == ContractInit /\ [][ContractNext]_contractVars
==============================================================================
