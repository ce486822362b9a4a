------------------------------ MODULE Workspace ------------------------------
(***************************************************************************)
(* The parts of an organization's workspace.                               *)
(*                                                                         *)
(* The edits of a discussion, its messages and read states, the devices    *)
(* and pushes, the catalog and the slugs are kept in tables of their own   *)
(* and call each other in no place that these modules leave open: what one *)
(* part sees of another (the touching of a discussion, a suspension, a     *)
(* deletion) is an action of its own module, possible at any time.  So a   *)
(* step of one part is never enabled or disabled by a step of another, and *)
(* their product would only interleave them.  A behaviour of this module   *)
(* exercises one part, chosen at the beginning, while the others rest.     *)
(***************************************************************************)
EXTENDS Discussions, Messages, Devices, Catalog, OrganizationSlugs

VARIABLE part  \* the part that is exercised

workspaceVars == <<vars, messageVars, deviceVars, catalogVars, slugVars, part>>

Parts == {"discussion", "messages", "devices", "catalog", "slugs"}

WorkspaceTypeOK ==
  TypeOK /\ MessageTypeOK /\ DeviceTypeOK /\ CatalogTypeOK /\ SlugTypeOK

\* A part that rests begins in one of its initial states only.
WorkspaceInit ==
  /\ part \in Parts
  /\ Init /\ MessageInit /\ DeviceInit /\ CatalogInit /\ SlugInit
  /\ part # "discussion" =>
       /\ managers = Users
       /\ \A k \in Columns : column[k] = NewStatus
       /\ relation["context"] = {}
  /\ part # "catalog" => ~indexed

DiscussionStep ==
  /\ part = "discussion" /\ Next
  /\ UNCHANGED <<messageVars, deviceVars, catalogVars, slugVars, part>>

MessageStep ==
  /\ part = "messages" /\ MessageNext
  /\ UNCHANGED <<vars, deviceVars, catalogVars, slugVars, part>>

DeviceStep ==
  /\ part = "devices" /\ DeviceNext
  /\ UNCHANGED <<vars, messageVars, catalogVars, slugVars, part>>

CatalogStep ==
  /\ part = "catalog" /\ CatalogNext
  /\ UNCHANGED <<vars, messageVars, deviceVars, slugVars, part>>

SlugStep ==
  /\ part = "slugs" /\ SlugNext
  /\ UNCHANGED <<vars, messageVars, deviceVars, catalogVars, part>>

WorkspaceNext == DiscussionStep \/ MessageStep \/ DeviceStep \/ CatalogStep \/ SlugStep

WorkspaceSpec == WorkspaceInit /\ [][WorkspaceNext]_workspaceVars

=============================================================================
