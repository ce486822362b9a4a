--------------------------- MODULE WorkspaceProofs ---------------------------
(***************************************************************************)
(* Theorems about Workspace: a behaviour of the whole is one of each part, *)
(* and what the slugs and the catalog promise.                             *)
(***************************************************************************)
EXTENDS Workspace, DiscussionsProofs, MessagesProofs, DevicesProofs, TLAPS

(* The parts.                                                              *)

LEMMA PartsStep ==
  ASSUME [WorkspaceNext]_workspaceVars
  PROVE  /\ [Next]_vars
         /\ [MessageNext]_messageVars
         /\ [DeviceNext]_deviceVars
         /\ [CatalogNext]_catalogVars
         /\ [SlugNext]_slugVars
  BY DEF WorkspaceNext, workspaceVars, DiscussionStep, MessageStep, DeviceStep, CatalogStep, SlugStep

\* What is proved about the messages, the devices, the catalog, the slugs or the
\* edits of a discussion alone holds for them in the whole workspace: no part
\* writes a table of another (discussion-message.service.ts,
\* user-device.service.ts, workspace-catalog.service.ts,
\* organizations.service.ts).
THEOREM PartsRefined ==
  WorkspaceSpec => Spec /\ MessageSpec /\ DeviceSpec /\ CatalogSpec /\ SlugSpec
<1>1. WorkspaceInit => Init /\ MessageInit /\ DeviceInit /\ CatalogInit /\ SlugInit
  BY DEF WorkspaceInit
<1>2. [WorkspaceNext]_workspaceVars =>
        /\ [Next]_vars
        /\ [MessageNext]_messageVars
        /\ [DeviceNext]_deviceVars
        /\ [CatalogNext]_catalogVars
        /\ [SlugNext]_slugVars
  BY PartsStep
<1>. QED
  BY <1>1, <1>2, PTL DEF WorkspaceSpec, Spec, MessageSpec, DeviceSpec, CatalogSpec, SlugSpec

-----------------------------------------------------------------------------
(* The slugs.                                                              *)

\* A candidate that was found free and is in use by now was taken meanwhile.
SlugInv ==
  /\ SlugTypeOK
  /\ \A c \in Creations : creation[c].pc = "free" /\ Candidate(c) \in slugs => creation[c].taken

LEMMA InitialSlugs == SlugInit => SlugInv
  BY DEF SlugInit, SlugInv, SlugTypeOK, CreationStates, NoCreation

LEMMA StatesOfCreation ==
  ASSUME NEW s \in CreationStates
  PROVE  \/ s = NoCreation
         \/ /\ s \in [pc : {"probing", "free"}, base : BaseSlugs, suffix : Nat, taken : BOOLEAN]
            /\ s # NoCreation
  BY DEF CreationStates, NoCreation

LEMMA CandidateType ==
  ASSUME SlugTypeOK, NEW c \in Creations, creation[c] # NoCreation
  PROVE  Candidate(c) \in Seq(Nat)
<1>1. creation[c].base \in Seq(Nat) /\ creation[c].suffix \in Nat
  BY SlugConstants DEF SlugTypeOK, CreationStates
<1>. QED
  BY <1>1 DEF Candidate

LEMMA ProbeKeeps ==
  ASSUME SlugInv, NEW c \in Creations, ProbeSlug(c)
  PROVE  SlugInv'
<1> DEFINE next == IF Candidate(c) \in slugs THEN AfterTaken(c) ELSE [creation[c] EXCEPT !.pc = "free"]
<1>1. /\ creation[c] \in [pc : {"probing", "free"}, base : BaseSlugs, suffix : Nat, taken : BOOLEAN]
      /\ creation[c].pc = "probing"
  BY DEF SlugInv, SlugTypeOK, CreationStates, NoCreation, ProbeSlug
<1>2. /\ next \in [pc : {"probing", "free"}, base : BaseSlugs, suffix : Nat, taken : BOOLEAN]
      /\ next.pc = "free" => /\ Candidate(c) \notin slugs
                             /\ next.base = creation[c].base /\ next.suffix = creation[c].suffix
  BY <1>1 DEF AfterTaken
<1>3. creation' = [creation EXCEPT ![c] = next] /\ slugs' = slugs
  BY DEF ProbeSlug
<1>. HIDE DEF next
<1>4. SlugTypeOK'
  BY <1>2, <1>3 DEF SlugInv, SlugTypeOK, CreationStates
<1>5. ASSUME NEW b \in Creations, creation'[b].pc = "free", Candidate(b)' \in slugs'
      PROVE  creation'[b].taken
  <2>1. CASE b = c
    <3>1. creation'[c] = next
      BY <1>3 DEF SlugInv, SlugTypeOK
    <3>. QED
      BY <2>1, <3>1, <1>2, <1>3, <1>5 DEF Candidate
  <2>2. CASE b # c
    <3>1. creation'[b] = creation[b]
      BY <2>2, <1>3 DEF SlugInv, SlugTypeOK
    <3>. QED
      BY <3>1, <1>3, <1>5 DEF Candidate, SlugInv
  <2>. QED
    BY <2>1, <2>2
<1>. QED
  BY <1>4, <1>5 DEF SlugInv

LEMMA InsertKeeps ==
  ASSUME SlugInv, NEW c \in Creations, InsertOrganization(c)
  PROVE  SlugInv'
<1>1. Candidate(c) \in Seq(Nat)
  BY CandidateType DEF SlugInv, InsertOrganization, NoCreation
<1>2. ASSUME NEW b \in Creations
      PROVE  /\ creation'[b] \in CreationStates
             /\ creation'[b].pc = "free" =>
                  /\ creation[b].pc = "free" /\ b # c
                  /\ creation'[b].base = creation[b].base
                  /\ creation'[b].suffix = creation[b].suffix
                  /\ creation[b].taken \/ Candidate(b) = Candidate(c) => creation'[b].taken
  <2>1. CASE b = c
    BY <2>1 DEF InsertOrganization, CreationStates, NoCreation
  <2>2. CASE b # c /\ creation[b].pc = "free" /\ Candidate(b) = Candidate(c)
    <3>1. creation'[b] = [creation[b] EXCEPT !.taken = TRUE]
      BY <2>2 DEF InsertOrganization
    <3>2. creation[b] \in [pc : {"probing", "free"}, base : BaseSlugs, suffix : Nat, taken : BOOLEAN]
      BY <2>2 DEF SlugInv, SlugTypeOK, CreationStates, NoCreation
    <3>. QED
      BY <3>1, <3>2, <2>2 DEF CreationStates
  <2>3. CASE b # c /\ ~(creation[b].pc = "free" /\ Candidate(b) = Candidate(c))
    <3>1. creation'[b] = creation[b]
      BY <2>3 DEF InsertOrganization
    <3>. QED
      BY <3>1, <2>3 DEF SlugInv, SlugTypeOK
  <2>. QED
    BY <2>1, <2>2, <2>3
<1>3. SlugTypeOK'
  BY <1>1, <1>2 DEF InsertOrganization, SlugInv, SlugTypeOK
<1>4. ASSUME NEW b \in Creations, creation'[b].pc = "free", Candidate(b)' \in slugs'
      PROVE  creation'[b].taken
  <2>1. Candidate(b)' = Candidate(b)
    BY <1>2, <1>4 DEF Candidate
  <2>. QED
    BY <2>1, <1>2, <1>4 DEF InsertOrganization, SlugInv
<1>. QED
  BY <1>3, <1>4 DEF SlugInv

LEMMA CreationMoves ==
  ASSUME SlugInv, NEW c \in Creations, NEW s \in CreationStates, s.pc # "free",
         creation' = [creation EXCEPT ![c] = s], UNCHANGED slugs
  PROVE  SlugInv'
<1>1. SlugTypeOK'
  BY DEF SlugInv, SlugTypeOK
<1>2. ASSUME NEW b \in Creations, creation'[b].pc = "free", Candidate(b)' \in slugs'
      PROVE  creation'[b].taken
  <2>1. creation'[b] = creation[b]
    BY <1>2 DEF SlugInv, SlugTypeOK
  <2>. QED
    BY <2>1, <1>2 DEF Candidate, SlugInv
<1>. QED
  BY <1>1, <1>2 DEF SlugInv

LEMMA SlugStepKeeps ==
  ASSUME SlugInv, [SlugNext]_slugVars
  PROVE  SlugInv'
<1>1. ASSUME NEW c \in Creations, NEW base \in BaseSlugs, CreateOrganization(c, base) PROVE SlugInv'
  <2> DEFINE s == [pc |-> "probing", base |-> base, suffix |-> 1, taken |-> FALSE]
  <2>1. s \in CreationStates /\ s.pc # "free"
    BY DEF CreationStates
  <2>. QED
    BY <1>1, <2>1, CreationMoves DEF CreateOrganization
<1>2. ASSUME NEW c \in Creations, InsertOrganizationRefused(c) \/ CreationFails(c) PROVE SlugInv'
  <2>1. NoCreation \in CreationStates /\ NoCreation.pc # "free"
    BY DEF CreationStates, NoCreation
  <2>. QED
    BY <1>2, <2>1, CreationMoves DEF InsertOrganizationRefused, CreationFails
<1>3. ASSUME NEW slug \in slugs, SlugFreed(slug) PROVE SlugInv'
  BY <1>3 DEF SlugFreed, SlugInv, SlugTypeOK, Candidate
<1>4. CASE UNCHANGED slugVars
  BY <1>4 DEF slugVars, SlugInv, SlugTypeOK, Candidate
<1>. QED
  BY <1>1, <1>2, <1>3, <1>4, ProbeKeeps, InsertKeeps DEF SlugNext

\* The inductive invariant of the creation of organizations
\* (organizations.service.ts:37-52).
THEOREM SlugInvariant == SlugSpec => []SlugInv
<1>1. SlugInv /\ [SlugNext]_slugVars => SlugInv'
  BY SlugStepKeeps
<1>. QED
  BY InitialSlugs, <1>1, PTL DEF SlugSpec

\* Creating an organization collides with another only if that one took the slug
\* after it was probed, for any names, number of requests and deletions
\* (organizations.service.ts:37-48, 52).
THEOREM SlugsRefusedOnlyIfRaced == SlugSpec => SlugRefusedOnlyIfRaced
<1>1. SlugInv => \A c \in Creations : InsertOrganizationRefused(c) => creation[c].taken
  BY DEF SlugInv, InsertOrganizationRefused
<1>. QED
  BY SlugInvariant, <1>1, PTL DEF SlugSpec, SlugRefusedOnlyIfRaced

-----------------------------------------------------------------------------
(* The catalog.                                                            *)

Coherent(row) == row.normalized = Normalized(row.name)

\* Without the index: name is nobody's.
Unused(name) == \A f \in Existing : Normalized(entry[f].name) # Normalized(name)

\* What a request has in hand is the row of an entry, coherent unless the entry
\* is torn; since the reload the other columns are as it has them; and until
\* somebody writes the table, the name it has checked is still its own or unused.
EditorInv(x) ==
  LET edit == editor[x] IN
  /\ edit.pc = "checked" /\ ~edit.stale /\ ~indexed => Unused(edit.name)
  /\ edit.pc \in {"read", "changed", "reloaded"} =>
       /\ edit.e \in Existing
       /\ Coherent(edit.row) \/ edit.e \in torn
  /\ edit.pc \in {"changed", "reloaded"} /\ ~edit.stale /\ ~indexed =>
       \/ Normalized(edit.row.name) \in Wildcards
       \/ Normalized(edit.row.name) = Normalized(entry[edit.e].name)
       \/ Unused(edit.row.name)
  /\ edit.pc = "reloaded" =>
       /\ edit.late => edit.stale
       /\ ~edit.late => \A k \in EntryColumns \ edit.columns : entry[edit.e][k] = edit.row[k]

CatalogInv ==
  /\ CatalogTypeOK
  /\ \A e \in Existing \ torn : Coherent(entry[e])
  /\ indexed => \A e, f \in Existing : e # f => entry[e].normalized # entry[f].normalized
  /\ \A x \in Editors : EditorInv(x)

LEMMA InitialCatalog == CatalogInit => CatalogInv
  BY DEF CatalogInit, CatalogInv, CatalogTypeOK, EditorStates, Existing, EditorInv, NoEditor

LEMMA EntryIsNone ==
  /\ NoEntry \notin EntryRows
  /\ NoEditor.pc = "idle" /\ NoEditor \in EditorStates
  /\ \A s \in EditorStates : s = NoEditor <=> s.pc = "idle"
  BY DEF NoEntry, EntryRows, NoEditor, EditorStates

\* A request that writes nothing.
LEMMA EditorMoves ==
  ASSUME CatalogInv, NEW x \in Editors, NEW s \in EditorStates, Edits(x, s), EditorInv(x)'
  PROVE  CatalogInv'
<1>1. CatalogTypeOK' /\ UNCHANGED <<indexed, entry, torn>>
  BY DEF CatalogInv, CatalogTypeOK, Edits
<1>2. ASSUME NEW y \in Editors PROVE EditorInv(y)'
  <2>1. CASE y = x
    BY <2>1
  <2>2. CASE y # x
    <3>1. editor'[y] = editor[y]
      BY <2>2 DEF Edits, CatalogInv, CatalogTypeOK
    <3>. QED
      BY <3>1, <1>1 DEF CatalogInv, EditorInv, Existing, Unused
  <2>. QED
    BY <2>1, <2>2
<1>. QED
  BY <1>1, <1>2 DEF CatalogInv, Existing, Coherent, Normalized

\* A request that writes the row of e and is done.
LEMMA EntryWritten ==
  ASSUME CatalogInv, NEW x \in Editors, NEW e \in CatalogEntries, NEW row \in EntryRows,
         entry' = [entry EXCEPT ![e] = row], editor' = EditorsAfter(x, e), UNCHANGED indexed,
         torn \subseteq torn', torn' \subseteq CatalogEntries, ~NameConflict(e, row),
         Coherent(row) \/ e \in torn'
  PROVE  CatalogInv'
<1>1. /\ entry' \in [CatalogEntries -> EntryRows \cup {NoEntry}]
      /\ Existing' = Existing \cup {e}
      /\ entry'[e] = row
      /\ \A f \in CatalogEntries \ {e} : entry'[f] = entry[f]
  BY EntryIsNone DEF CatalogInv, CatalogTypeOK, Existing
<1>2. \A f \in Existing' \ torn' : Coherent(entry'[f])
  BY <1>1 DEF CatalogInv
<1>3. indexed' => \A f, g \in Existing' : f # g => entry'[f].normalized # entry'[g].normalized
  BY <1>1 DEF CatalogInv, NameConflict, Existing
<1>4. ASSUME NEW y \in Editors PROVE editor'[y] \in EditorStates /\ EditorInv(y)'
  <2>1. CASE y = x \/ editor[y] = NoEditor
    <3>1. editor'[y] = NoEditor
      BY <2>1, EntryIsNone DEF EditorsAfter, CatalogInv, CatalogTypeOK
    <3>. QED
      BY <3>1, EntryIsNone DEF EditorInv
  <2>2. CASE y # x /\ editor[y].pc \in {"checked", "read", "changed"}
    <3>1. editor'[y] = [editor[y] EXCEPT !.stale = TRUE]
      BY <2>2 DEF EditorsAfter
    <3>2. /\ editor'[y] \in EditorStates /\ editor'[y].stale /\ editor'[y].pc = editor[y].pc
          /\ editor[y].pc \in {"read", "changed"} =>
               editor'[y].e = editor[y].e /\ editor'[y].row = editor[y].row
      <4>1. CASE editor[y] \in [pc : {"checked"}, name : Names, stale : BOOLEAN]
        BY <4>1, <3>1 DEF EditorStates
      <4>2. CASE editor[y] \in [pc : {"read"}, e : CatalogEntries, row : EntryRows, name : Names,
                                stale : BOOLEAN]
        BY <4>2, <3>1 DEF EditorStates
      <4>3. CASE editor[y] \in [pc : {"changed"}, e : CatalogEntries, row : EntryRows, stale : BOOLEAN]
        BY <4>3, <3>1 DEF EditorStates
      <4>. QED
        BY <2>2, <4>1, <4>2, <4>3 DEF CatalogInv, CatalogTypeOK, EditorStates, NoEditor
    <3>. QED
      BY <3>2, <2>2, <1>1 DEF CatalogInv, EditorInv
  <2>3. CASE y # x /\ editor[y].pc = "reloaded"
    <3>1. editor'[y] = [editor[y] EXCEPT !.stale = TRUE, !.late = @ \/ editor[y].e = e]
      BY <2>3 DEF EditorsAfter
    <3>2. editor[y] \in [pc : {"reloaded"}, e : CatalogEntries, row : EntryRows,
                         columns : SUBSET EntryColumns, stale : BOOLEAN, late : BOOLEAN]
      BY <2>3 DEF CatalogInv, CatalogTypeOK, EditorStates, NoEditor
    <3>3. /\ editor'[y] \in EditorStates /\ editor'[y].stale /\ editor'[y].pc = editor[y].pc
          /\ editor'[y].e = editor[y].e /\ editor'[y].row = editor[y].row
          /\ editor'[y].columns = editor[y].columns
          /\ ~editor'[y].late => ~editor[y].late /\ editor[y].e # e
      BY <3>1, <3>2 DEF EditorStates
    <3>. QED
      BY <3>3, <2>3, <1>1 DEF CatalogInv, EditorInv
  <2>. QED
    BY <2>1, <2>2, <2>3 DEF CatalogInv, CatalogTypeOK, EditorStates
<1>. QED
  BY <1>1, <1>2, <1>3, <1>4 DEF CatalogInv, CatalogTypeOK, EditorsAfter

LEMMA RenameChecked ==
  ASSUME CatalogInv, NEW x \in Editors, CheckRename(x)
  PROVE  CatalogInv'
<1> DEFINE row == [editor[x].row EXCEPT !.name = editor[x].name,
                                        !.normalized = Normalized(editor[x].name)]
           s == [pc |-> "changed", e |-> editor[x].e, stale |-> editor[x].stale, row |-> row]
<1>1. editor[x] \in [pc : {"read"}, e : CatalogEntries, row : EntryRows, name : Names, stale : BOOLEAN]
  BY DEF CatalogInv, CatalogTypeOK, EditorStates, NoEditor, CheckRename
<1>2. row \in EntryRows /\ row.name = editor[x].name /\ Coherent(row)
  BY <1>1 DEF EntryRows, Names, Normalized, Coherent
<1>. HIDE DEF row
<1>3. s \in EditorStates /\ Edits(x, s)
  BY <1>1, <1>2 DEF EditorStates, CheckRename, row
<1>4. ~indexed => \/ Normalized(row.name) \in Wildcards
                  \/ Normalized(row.name) = Normalized(entry[editor[x].e].name)
                  \/ Unused(row.name)
  BY <1>2 DEF CheckRename, MayRename, Matching, Unused, Normalized
<1>5. editor'[x] = s /\ UNCHANGED <<indexed, entry, torn>>
  BY <1>3 DEF Edits, CatalogInv, CatalogTypeOK
<1>6. editor[x].e \in Existing
  BY <1>1 DEF CatalogInv, EditorInv
<1>7. EditorInv(x)'
  BY <1>2, <1>4, <1>5, <1>6 DEF EditorInv, Existing, Unused
<1>. QED
  BY <1>3, <1>7, EditorMoves

LEMMA EntryReloaded ==
  ASSUME CatalogInv, NEW x \in Editors, ReloadEntry(x)
  PROVE  CatalogInv'
<1> DEFINE columns == {k \in EntryColumns : entry[editor[x].e][k] # editor[x].row[k]}
           s == [pc |-> "reloaded", e |-> editor[x].e, row |-> editor[x].row,
                 columns |-> columns, stale |-> editor[x].stale, late |-> FALSE]
<1>1. editor[x] \in [pc : {"changed"}, e : CatalogEntries, row : EntryRows, stale : BOOLEAN]
  BY DEF CatalogInv, CatalogTypeOK, EditorStates, NoEditor, ReloadEntry
<1>2. /\ columns \subseteq EntryColumns
      /\ \A k \in EntryColumns \ columns : entry[editor[x].e][k] = editor[x].row[k]
  OBVIOUS
<1>. HIDE DEF columns
<1>3. s \in EditorStates /\ Edits(x, s)
  BY <1>1, <1>2 DEF EditorStates, ReloadEntry, columns
<1>4. editor'[x] = s /\ UNCHANGED <<indexed, entry, torn>>
  BY <1>3 DEF Edits, CatalogInv, CatalogTypeOK
<1>5. EditorInv(x)
  BY DEF CatalogInv
<1>6. EditorInv(x)'
  BY <1>1, <1>2, <1>4, <1>5 DEF EditorInv, Existing, Unused
<1>. QED
  BY <1>3, <1>6, EditorMoves

\* What a WriteEntry writes: columns of its row over the row that is there.
LEMMA WrittenRow ==
  ASSUME CatalogInv, NEW x \in Editors, editor[x].pc = "reloaded"
  PROVE  /\ editor[x].e \in Existing
         /\ RowAfter(editor[x]) \in EntryRows
         /\ ~editor[x].late => RowAfter(editor[x]) = editor[x].row
<1>1. editor[x] \in [pc : {"reloaded"}, e : CatalogEntries, row : EntryRows,
                     columns : SUBSET EntryColumns, stale : BOOLEAN, late : BOOLEAN]
  BY DEF CatalogInv, CatalogTypeOK, EditorStates, NoEditor
<1>2. editor[x].e \in Existing /\ entry[editor[x].e] \in EntryRows
  BY <1>1 DEF CatalogInv, EditorInv, CatalogTypeOK, Existing
<1>3. RowAfter(editor[x]) \in EntryRows
  BY <1>1, <1>2 DEF RowAfter, EntryRows, EntryColumns
<1>4. ASSUME ~editor[x].late PROVE RowAfter(editor[x]) = editor[x].row
  <2>1. \A k \in EntryColumns : RowAfter(editor[x])[k] = editor[x].row[k]
    BY <1>1, <1>4 DEF RowAfter, CatalogInv, EditorInv
  <2>. QED
    BY <1>1, <1>3, <2>1 DEF EntryRows, EntryColumns
<1>. QED
  BY <1>2, <1>3, <1>4

LEMMA CatalogStepKeeps ==
  ASSUME CatalogInv, [CatalogNext]_catalogVars
  PROVE  CatalogInv'
<1>1. ASSUME NEW x \in Editors, NEW name \in Names, CheckNewName(x, name) PROVE CatalogInv'
  <2> DEFINE s == [pc |-> "checked", name |-> name, stale |-> FALSE]
  <2>1. s \in EditorStates /\ Edits(x, s)
    BY <1>1 DEF EditorStates, CheckNewName
  <2>2. editor'[x] = s /\ UNCHANGED <<indexed, entry, torn>>
    BY <2>1 DEF Edits, CatalogInv, CatalogTypeOK
  <2>3. ~indexed => Unused(name)
    BY <1>1 DEF CheckNewName, Matching, Unused, Normalized
  <2>4. EditorInv(x)'
    BY <2>2, <2>3 DEF EditorInv, Unused, Existing
  <2>. QED
    BY <2>1, <2>4, EditorMoves
<1>2. ASSUME NEW x \in Editors, NEW e \in CatalogEntries,
             \/ \E name \in Names : ReadForRename(x, e, name)
             \/ ReadForOtherChange(x, e)
      PROVE  CatalogInv'
  <2>1. e \in Existing /\ entry[e] \in EntryRows
    BY <1>2 DEF ReadForRename, ReadForOtherChange, Existing, CatalogInv, CatalogTypeOK
  <2>2. PICK s \in EditorStates :
          /\ Edits(x, s) /\ s.pc \in {"read", "changed"} /\ s.e = e /\ s.row = entry[e]
    <3>1. ASSUME NEW name \in Names, ReadForRename(x, e, name)
          PROVE  \E s \in EditorStates :
                   /\ Edits(x, s) /\ s.pc \in {"read", "changed"} /\ s.e = e /\ s.row = entry[e]
      <4> DEFINE s == [pc |-> "read", e |-> e, row |-> entry[e], name |-> name, stale |-> FALSE]
      <4>1. s \in EditorStates
        BY <2>1 DEF EditorStates
      <4>. QED
        BY <3>1, <4>1 DEF ReadForRename
    <3>2. ASSUME ReadForOtherChange(x, e)
          PROVE  \E s \in EditorStates :
                   /\ Edits(x, s) /\ s.pc \in {"read", "changed"} /\ s.e = e /\ s.row = entry[e]
      <4> DEFINE s == [pc |-> "changed", e |-> e, row |-> entry[e], stale |-> FALSE]
      <4>1. s \in EditorStates
        BY <2>1 DEF EditorStates
      <4>. QED
        BY <3>2, <4>1 DEF ReadForOtherChange
    <3>. QED
      BY <1>2, <3>1, <3>2
  <2>3. editor'[x] = s /\ UNCHANGED <<indexed, entry, torn>>
    BY <2>2 DEF Edits, CatalogInv, CatalogTypeOK
  <2>4. Coherent(entry[e]) \/ e \in torn
    BY <2>1 DEF CatalogInv
  <2>5. EditorInv(x)'
    BY <2>1, <2>2, <2>3, <2>4 DEF EditorInv, Existing
  <2>. QED
    BY <2>2, <2>5, EditorMoves
<1>3. ASSUME NEW x \in Editors, InsertEntry(x) PROVE CatalogInv'
  <2> DEFINE row == [name |-> editor[x].name, normalized |-> Normalized(editor[x].name)]
  <2>1. row \in EntryRows /\ Coherent(row)
    BY <1>3 DEF InsertEntry, CatalogInv, CatalogTypeOK, EditorStates, NoEditor, EntryRows, Names,
                Normalized, Coherent
  <2>. QED
    BY <1>3, <2>1, EntryWritten DEF InsertEntry, CatalogInv, CatalogTypeOK
<1>4. ASSUME NEW x \in Editors, WriteEntry(x) PROVE CatalogInv'
  <2>1. editor[x].pc = "reloaded"
    BY <1>4 DEF WriteEntry
  <2>2. /\ torn \subseteq torn' /\ torn' \subseteq CatalogEntries
        /\ editor[x].late => editor[x].e \in torn'
        /\ editor[x].e \in CatalogEntries
    BY <1>4, <2>1, WrittenRow DEF WriteEntry, CatalogInv, CatalogTypeOK, Existing
  <2>3. Coherent(RowAfter(editor[x])) \/ editor[x].e \in torn'
    BY <2>1, <2>2, WrittenRow DEF CatalogInv, EditorInv
  <2>. QED
    BY <1>4, <2>1, <2>2, <2>3, WrittenRow, EntryWritten DEF WriteEntry
<1>5. ASSUME NEW x \in Editors, EditorFails(x) PROVE CatalogInv'
  <2>1. editor'[x] = NoEditor
    BY <1>5 DEF EditorFails, Edits, CatalogInv, CatalogTypeOK
  <2>2. EditorInv(x)'
    BY <2>1, EntryIsNone DEF EditorInv
  <2>. QED
    BY <1>5, <2>2, EntryIsNone, EditorMoves DEF EditorFails
<1>6. CASE UNCHANGED catalogVars
  <2>1. UNCHANGED <<indexed, entry, editor, torn>>
    BY <1>6 DEF catalogVars
  <2>2. \A x \in Editors : EditorInv(x)'
    BY <2>1 DEF CatalogInv, EditorInv, Existing, Unused
  <2>. QED
    BY <2>1, <2>2 DEF CatalogInv, CatalogTypeOK, Existing, Coherent
<1>. QED
  BY <1>1, <1>2, <1>3, <1>4, <1>5, <1>6, RenameChecked, EntryReloaded
     DEF CatalogNext, EditorStep

\* The inductive invariant of the catalog, whatever its requests race for
\* (workspace-catalog.service.ts).
THEOREM CatalogInvariant == CatalogSpec => []CatalogInv
<1>1. CatalogInv /\ [CatalogNext]_catalogVars => CatalogInv'
  BY CatalogStepKeeps
<1>. QED
  BY InitialCatalog, <1>1, PTL DEF CatalogSpec

LEMMA DistinctTags == CatalogInv => TagsAreDistinct
  BY DEF CatalogInv, TagsAreDistinct, Coherent, SameName, Existing

\* Tags that differ only in capitals do not coexist, and normalized_name follows
\* the displayed name, except in a tag saved over a write that came after its
\* reload (tag.entity.ts:17, workspace-catalog.service.ts:382-394).
THEOREM TagsStayDistinct == CatalogSpec => []TagsAreDistinct
  BY CatalogInvariant, DistinctTags, PTL

\* A request that was not overtaken gives no entry the name of another, but for
\* wildcards.
LEMMA OnTimeWrite ==
  ASSUME CatalogInv, CatalogInv', ~indexed, NEW x \in Editors, InsertEntry(x) \/ WriteEntry(x),
         ~editor[x].stale, NEW e \in CatalogEntries, NEW f \in CatalogEntries, e # f,
         ~SameName(e, f), SameName(e, f)'
  PROVE  entry'[e].name.word \in Wildcards
<1>1. CASE InsertEntry(x)
  <2>1. PICK g \in CatalogEntries \ Existing :
          entry' = [entry EXCEPT ![g] = [name |-> editor[x].name, normalized |-> Normalized(editor[x].name)]]
    BY <1>1 DEF InsertEntry
  <2>2. /\ entry'[g].name = editor[x].name
        /\ \A h \in CatalogEntries \ {g} : entry'[h] = entry[h]
    BY <2>1 DEF CatalogInv, CatalogTypeOK
  <2>3. Unused(editor[x].name)
    BY <1>1 DEF CatalogInv, EditorInv, InsertEntry
  <2>. QED
    BY <2>2, <2>3 DEF SameName, Unused, Existing
<1>2. CASE WriteEntry(x)
  <2> DEFINE g == editor[x].e
  <2>1. /\ editor[x].pc = "reloaded" /\ ~editor[x].late
        /\ entry' = [entry EXCEPT ![g] = RowAfter(editor[x])]
    BY <1>2 DEF WriteEntry, CatalogInv, EditorInv
  <2>2. g \in Existing /\ RowAfter(editor[x]) = editor[x].row
    BY <2>1, WrittenRow
  <2>. HIDE DEF g
  <2>3. /\ entry'[g] = editor[x].row
        /\ \A h \in CatalogEntries \ {g} : entry'[h] = entry[h]
    BY <2>1, <2>2 DEF CatalogInv, CatalogTypeOK, Existing
  <2>4. \/ Normalized(editor[x].row.name) \in Wildcards
        \/ Normalized(editor[x].row.name) = Normalized(entry[g].name)
        \/ Unused(editor[x].row.name)
    BY <2>1 DEF CatalogInv, EditorInv, g
  <2>. QED
    BY <2>2, <2>3, <2>4 DEF SameName, Unused, Existing, Normalized
<1>. QED
  BY <1>1, <1>2

LEMMA DuplicatesStep ==
  ASSUME CatalogInv, CatalogInv', CatalogNext, NEW e \in CatalogEntries, NEW f \in CatalogEntries,
         e # f, ~SameName(e, f), SameName(e, f)'
  PROVE  \/ IF indexed THEN {e, f} \cap torn' # {} ELSE entry'[e].name.word \in Wildcards
         \/ \E x \in Editors : editor[x] # NoEditor /\ editor'[x] = NoEditor /\ editor[x].stale
<1>1. PICK x \in Editors : InsertEntry(x) \/ WriteEntry(x)
  BY DEF CatalogNext, EditorStep, CheckNewName, ReadForRename, CheckRename, ReadForOtherChange,
         ReloadEntry, EditorFails, Edits, SameName
<1>2. editor[x] # NoEditor /\ editor'[x] = NoEditor /\ indexed' = indexed
  <2>1. editor[x].pc # "idle" /\ indexed' = indexed
    BY <1>1 DEF InsertEntry, WriteEntry
  <2>2. PICK g : editor' = EditorsAfter(x, g)
    BY <1>1 DEF InsertEntry, WriteEntry
  <2>3. editor'[x] = NoEditor
    BY <2>2 DEF EditorsAfter
  <2>. QED
    BY <2>1, <2>3, EntryIsNone
<1>3. CASE indexed
  BY <1>2, <1>3
     DEF CatalogInv, Coherent, SameName, Existing
<1>4. CASE ~indexed
  BY <1>1, <1>2, <1>4, OnTimeWrite
<1>. QED
  BY <1>3, <1>4

\* Without a race, and but for wildcards and torn tags, no sequence of requests
\* makes two entries share a name (workspace-catalog.service.ts:50-53, 112-119,
\* 134-139, 211-217).
THEOREM DuplicatesOnlyByRaces == CatalogSpec => DuplicatesAreRaced
<1> DEFINE Raced ==
      \A e, f \in CatalogEntries : e # f /\ ~SameName(e, f) /\ SameName(e, f)' =>
       \/ IF indexed THEN {e, f} \cap torn' # {} ELSE entry'[e].name.word \in Wildcards
       \/ \E x \in Editors : editor[x] # NoEditor /\ editor'[x] = NoEditor /\ editor[x].stale
<1>1. CatalogInv /\ CatalogInv' /\ [CatalogNext]_catalogVars => [Raced]_catalogVars
  BY DuplicatesStep
<1>. QED
  BY CatalogInvariant, <1>1, PTL DEF CatalogSpec, DuplicatesAreRaced

-----------------------------------------------------------------------------
\* Whichever part is exercised, the tables and the requests of all of them keep
\* their types (the entities of workspace and organizations).
THEOREM WorkspaceTypeCorrect == WorkspaceSpec => []WorkspaceTypeOK
<1>1. MessageInv /\ DeviceInv /\ CatalogInv /\ SlugInv /\ TypeOK => WorkspaceTypeOK
  BY DEF MessageInv, DeviceInv, CatalogInv, SlugInv, WorkspaceTypeOK
<1>. QED
  BY PartsRefined, DiscussionTypeCorrect, MessageInvariant, DeviceInvariant, CatalogInvariant,
     SlugInvariant, <1>1, PTL

\* The invariants of the parts are invariants of the workspace: assignments of
\* managers, read messages of one's own, unread messages of others, pushes to
\* members, and distinct tags (discussion.service.ts,
\* discussion-message.service.ts, workspace-push-notification.service.ts,
\* workspace-catalog.service.ts).
THEOREM WorkspaceSafe ==
  WorkspaceSpec => [](/\ AssignedWereManagers /\ AuthorsHaveReadTheirOwn /\ UnseenIsUnread
                      /\ PushesReachTheMembers /\ TagsAreDistinct)
  BY PartsRefined, AssignmentsOfManagers, OwnMessagesRead, UnseenStaysUnread, PushesToMembers,
     TagsStayDistinct, PTL

=============================================================================
