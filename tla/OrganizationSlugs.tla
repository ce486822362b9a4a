------------------------- MODULE OrganizationSlugs -------------------------
(***************************************************************************)
(* The slug of a new organization (organizations.service.ts): candidates   *)
(* are probed until one is free, and the organization is inserted later,   *)
(* in a transaction, under the unique index of the slug.                   *)
(*                                                                         *)
(* A slug is the sequence of its numeric suffixes: with <<>> for acme,     *)
(* acme-2 is <<2>>, which is also what toSlug makes of the name Acme 2.    *)
(***************************************************************************)
EXTENDS Naturals, Sequences, FiniteSets

CONSTANTS
  BaseSlugs,         \* what toSlug makes of the names
  Creations,         \* the requests that may be in flight
  MaxOrganizations   \* a bound: how many organizations exist at the same time

ASSUME SlugConstants ==
  /\ BaseSlugs \subseteq Seq(Nat)
  /\ MaxOrganizations \in Nat

VARIABLES
  slugs,    \* the slugs of the organizations
  creation  \* creation[c]: where request c is

slugVars == <<slugs, creation>>

NoCreation == [pc |-> "idle"]

\* History: taken, somebody has inserted the candidate since it was found free.
CreationStates ==
  {NoCreation} \cup [pc : {"probing", "free"}, base : BaseSlugs, suffix : Nat, taken : BOOLEAN]

SlugTypeOK ==
  /\ slugs \subseteq Seq(Nat)
  /\ creation \in [Creations -> CreationStates]

SlugInit ==
  /\ slugs = {}
  /\ creation = [c \in Creations |-> NoCreation]

-----------------------------------------------------------------------------
\* The first candidate is the base itself; the next ones have suffixes from 2.
Candidate(c) ==
  IF creation[c].suffix = 1 THEN creation[c].base
  ELSE Append(creation[c].base, creation[c].suffix)

CreateOrganization(c, base) ==
  /\ creation[c] = NoCreation
  /\ creation' = [creation EXCEPT ![c] =
       [pc |-> "probing", base |-> base, suffix |-> 1, taken |-> FALSE]]
  /\ UNCHANGED slugs

\* Bug model: the suffix found by the first probe is not probed itself.
AfterTakenOnce(c) == [creation[c] EXCEPT !.suffix = @ + 1, !.pc = "free"]

AfterTaken(c) == [creation[c] EXCEPT !.suffix = @ + 1]

\* exist(): the loop goes on while the candidate is taken.
ProbeSlug(c) ==
  /\ creation[c].pc = "probing"
  /\ creation' = [creation EXCEPT ![c] =
       IF Candidate(c) \in slugs THEN AfterTaken(c) ELSE [@ EXCEPT !.pc = "free"]]
  /\ UNCHANGED slugs

\* The organization and its OWNER, in one transaction.
InsertOrganization(c) ==
  /\ creation[c].pc = "free"
  /\ Candidate(c) \notin slugs
  /\ Cardinality(slugs) < MaxOrganizations
  /\ slugs' = slugs \cup {Candidate(c)}
  /\ creation' = [b \in Creations |->
       CASE b = c -> NoCreation
         [] b # c /\ creation[b].pc = "free" /\ Candidate(b) = Candidate(c)
              -> [creation[b] EXCEPT !.taken = TRUE]
         [] OTHER -> creation[b]]

\* 23505 on the slug, which nothing handles: a 500.
InsertOrganizationRefused(c) ==
  /\ creation[c].pc = "free"
  /\ Candidate(c) \in slugs
  /\ creation' = [creation EXCEPT ![c] = NoCreation]
  /\ UNCHANGED slugs

CreationFails(c) ==
  /\ creation[c] # NoCreation
  /\ creation' = [creation EXCEPT ![c] = NoCreation]
  /\ UNCHANGED slugs

\* An organization is deleted (module OrganizationDeletion).
SlugFreed(slug) ==
  /\ slugs' = slugs \ {slug}
  /\ UNCHANGED creation

SlugNext ==
  \/ \E c \in Creations :
       \/ \E base \in BaseSlugs : CreateOrganization(c, base)
       \/ ProbeSlug(c) \/ InsertOrganization(c) \/ InsertOrganizationRefused(c)
       \/ CreationFails(c)
  \/ \E slug \in slugs : SlugFreed(slug)

SlugSpec == SlugInit /\ [][SlugNext]_slugVars

-----------------------------------------------------------------------------
(* Properties.                                                             *)

\* Creating an organization fails for its slug only if another organization
\* took that very slug after it was probed: names whose suffixed slugs meet, as
\* Acme and Acme 2, and deletions that free a slug in the middle of a probe,
\* never make two requests collide that did not overlap
\* (organizations.service.ts:37-48, 52).
SlugRefusedOnlyIfRaced ==
  [][\A c \in Creations : InsertOrganizationRefused(c) => creation[c].taken]_slugVars

=============================================================================
