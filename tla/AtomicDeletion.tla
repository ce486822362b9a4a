--------------------------- MODULE AtomicDeletion ---------------------------
(***************************************************************************)
(* What deleting an organization promises, without locks, transactions or  *)
(* requests: it takes an authorization, it takes the organization, the     *)
(* authorization, the discussions and the messages away in one step, and   *)
(* nothing is created or authorized in an organization that is gone.       *)
(* OrganizationDeletion implements this specification.                     *)
(***************************************************************************)
CONSTANTS Discussions, Messages

VARIABLES
  organization,  \* BOOLEAN: the organization exists
  authorized,    \* BOOLEAN: its OWNER may use a verified code
  discussions,   \* its discussions
  row            \* row[m]: none, present or removed

AtomicInit ==
  /\ organization = TRUE
  /\ authorized \in BOOLEAN
  /\ discussions \in SUBSET Discussions
  /\ row = [m \in Messages |-> "none"]

Authorize == authorized' = TRUE /\ UNCHANGED <<organization, discussions, row>>

\* A newer code replaces the verified one.
Revoke == authorized' = FALSE /\ UNCHANGED <<organization, discussions, row>>

Create(d) ==
  /\ discussions' = discussions \cup {d}
  /\ UNCHANGED <<organization, authorized, row>>

Post(m) ==
  /\ discussions # {}
  /\ row[m] = "none"
  /\ row' = [row EXCEPT ![m] = "present"]
  /\ UNCHANGED <<organization, authorized, discussions>>

Remove(m) ==
  /\ row[m] = "present"
  /\ row' = [row EXCEPT ![m] = "removed"]
  /\ UNCHANGED <<organization, authorized, discussions>>

Delete ==
  /\ authorized
  /\ organization' = FALSE
  /\ authorized' = FALSE
  /\ discussions' = {}
  /\ row' = [m \in Messages |-> IF row[m] = "present" THEN "removed" ELSE row[m]]

AtomicNext ==
  /\ organization
  /\ \/ Authorize \/ Revoke \/ Delete
     \/ \E d \in Discussions : Create(d)
     \/ \E m \in Messages : Post(m) \/ Remove(m)

AtomicSpec == AtomicInit /\ [][AtomicNext]_<<organization, authorized, discussions, row>>

=============================================================================
