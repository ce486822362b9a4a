------------------------------ MODULE Catalog ------------------------------
(***************************************************************************)
(* The catalog of an organization (workspace-catalog.service.ts): work     *)
(* modules, components and tags, three tables handled alike.  A name is    *)
(* looked up first and written later.  Tags have a unique index on their   *)
(* normalized name, the other two have none.                               *)
(*                                                                         *)
(* One table is modelled, a table of tags or one without the index.  As    *)
(* for discussions, save reloads the row, compares, and writes the columns *)
(* that differ.  Of an entry only the name is kept: its description, its   *)
(* active flag and the components of a work module matter as something     *)
(* that requests save together with the name they read.                    *)
(***************************************************************************)
EXTENDS Naturals

CONSTANTS
  CatalogEntries,  \* the entries that may ever be created (a bound)
  Words,      \* the names, in lower case
  Wildcards,  \* the names that contain a % or _, taken to match every name
  Editors     \* the requests that may be in flight

ASSUME WildcardsAreWords == Wildcards \subseteq Words

VARIABLES
  indexed,    \* this is the table of tags
  entry,      \* entry[e]: the columns of entry e
  editor,     \* editor[x]: where request x is
  torn        \* history: the entries saved over a write made after the reload

catalogVars == <<indexed, entry, editor, torn>>

\* A name as displayed: a word in one of its spellings.
Names == [word : Words, capital : BOOLEAN]

\* toLocaleLowerCase of the trimmed name.
Normalized(name) == name.word

\* Only tags have the column normalizedName: nothing reads it in the others.
EntryRows == [name : Names, normalized : Words]

NoEntry == [name |-> "none"]

EntryColumns == {"name", "normalized"}

NoEditor == [pc |-> "idle"]

\* History: stale, another request wrote the table since this one's first read;
\* late, one wrote this very row since the reload.
EditorStates ==
  {NoEditor}
  \cup [pc : {"checked"}, name : Names, stale : BOOLEAN]
  \cup [pc : {"read"}, e : CatalogEntries, row : EntryRows, name : Names, stale : BOOLEAN]
  \cup [pc : {"changed"}, e : CatalogEntries, row : EntryRows, stale : BOOLEAN]
  \cup [pc : {"reloaded"}, e : CatalogEntries, row : EntryRows, columns : SUBSET EntryColumns,
        stale : BOOLEAN, late : BOOLEAN]

CatalogTypeOK ==
  /\ indexed \in BOOLEAN
  /\ entry \in [CatalogEntries -> EntryRows \cup {NoEntry}]
  /\ editor \in [Editors -> EditorStates]
  /\ torn \subseteq CatalogEntries

CatalogInit ==
  /\ indexed \in BOOLEAN
  /\ entry = [e \in CatalogEntries |-> NoEntry]
  /\ editor = [x \in Editors |-> NoEditor]
  /\ torn = {}

-----------------------------------------------------------------------------
Existing == {e \in CatalogEntries : entry[e] # NoEntry}

Edits(x, state) ==
  /\ editor' = [editor EXCEPT ![x] = state]
  /\ UNCHANGED <<indexed, entry, torn>>

\* WHERE name ILIKE :name, or WHERE normalized_name = :normalized for tags.
Matching(name) ==
  {e \in Existing :
     IF indexed THEN entry[e].normalized = Normalized(name)
     ELSE name.word \in Wildcards \/ entry[e].name.word = name.word}

\* x has written entry e; who else is at work is told.
EditorsAfter(x, e) ==
  [y \in Editors |->
     CASE y = x -> NoEditor
       [] y # x /\ editor[y].pc \in {"checked", "read", "changed"}
            -> [editor[y] EXCEPT !.stale = TRUE]
       [] y # x /\ editor[y].pc = "reloaded"
            -> [editor[y] EXCEPT !.stale = TRUE, !.late = @ \/ editor[y].e = e]
       [] OTHER -> editor[y]]

\* Bug model: there is no unique index on the tags either.
NoConflict(e, row) == FALSE

\* uq_tags_organization_normalized_name.
NameConflict(e, row) ==
  indexed /\ \E f \in Existing \ {e} : entry[f].normalized = row.normalized

-----------------------------------------------------------------------------
(* createModule, createComponent, createTag                                *)

CheckNewName(x, name) ==
  /\ editor[x] = NoEditor
  /\ Matching(name) = {}
  /\ Edits(x, [pc |-> "checked", name |-> name, stale |-> FALSE])

InsertEntry(x) ==
  LET row == [name |-> editor[x].name, normalized |-> Normalized(editor[x].name)]
  IN /\ editor[x].pc = "checked"
     /\ \E e \in CatalogEntries \ Existing :
          /\ ~NameConflict(e, row)
          /\ entry' = [entry EXCEPT ![e] = row]
          /\ editor' = EditorsAfter(x, e)
     /\ UNCHANGED <<indexed, torn>>

-----------------------------------------------------------------------------
(* updateModule, updateComponent, updateTag with a name                    *)

ReadForRename(x, e, name) ==
  /\ editor[x] = NoEditor
  /\ e \in Existing
  /\ Edits(x, [pc |-> "read", e |-> e, row |-> entry[e], name |-> name, stale |-> FALSE])

\* Bug model: the name of another entry is accepted.
MayRenameAlways(e, name) == TRUE

\* findOne returns one match, any of them; only another entry is an obstacle.
MayRename(e, name) == Matching(name) = {} \/ e \in Matching(name)

CheckRename(x) ==
  LET edit == editor[x] IN
  /\ edit.pc = "read"
  /\ MayRename(edit.e, edit.name)
  /\ Edits(x, [pc |-> "changed", e |-> edit.e, stale |-> edit.stale,
               row |-> [edit.row EXCEPT !.name = edit.name,
                                        !.normalized = Normalized(edit.name)]])

\* setModuleActive, setComponentActive, setTagActive, an update without a name,
\* addComponentToModule and removeComponentFromModule: whatever else they
\* change, they save the name they read.
ReadForOtherChange(x, e) ==
  /\ editor[x] = NoEditor
  /\ e \in Existing
  /\ Edits(x, [pc |-> "changed", e |-> e, row |-> entry[e], stale |-> FALSE])

-----------------------------------------------------------------------------
(* save                                                                    *)

ReloadEntry(x) ==
  LET edit == editor[x] IN
  /\ edit.pc = "changed"
  /\ Edits(x, [pc |-> "reloaded", e |-> edit.e, row |-> edit.row,
               columns |-> {k \in EntryColumns : entry[edit.e][k] # edit.row[k]},
               stale |-> edit.stale, late |-> FALSE])

RowAfter(edit) ==
  [k \in EntryColumns |-> IF k \in edit.columns THEN edit.row[k] ELSE entry[edit.e][k]]

WriteEntry(x) ==
  LET edit == editor[x]
      row == RowAfter(edit)
  IN /\ edit.pc = "reloaded"
     /\ ~NameConflict(edit.e, row)
     /\ entry' = [entry EXCEPT ![edit.e] = row]
     /\ torn' = IF edit.late THEN torn \cup {edit.e} ELSE torn
     /\ editor' = EditorsAfter(x, edit.e)
     /\ UNCHANGED indexed

\* 400 for a name that is taken, 500 for a conflict with an index, and every
\* other error.
EditorFails(x) == editor[x] # NoEditor /\ Edits(x, NoEditor)

-----------------------------------------------------------------------------
EditorStep(x) ==
  \/ \E name \in Names : CheckNewName(x, name)
  \/ InsertEntry(x)
  \/ \E e \in CatalogEntries, name \in Names : ReadForRename(x, e, name)
  \/ CheckRename(x)
  \/ \E e \in CatalogEntries : ReadForOtherChange(x, e)
  \/ ReloadEntry(x) \/ WriteEntry(x) \/ EditorFails(x)

CatalogNext == \E x \in Editors : EditorStep(x)

CatalogSpec == CatalogInit /\ [][CatalogNext]_catalogVars

-----------------------------------------------------------------------------
(* Properties.                                                             *)

SameName(e, f) ==
  /\ entry[e] # NoEntry /\ entry[f] # NoEntry
  /\ Normalized(entry[e].name) = Normalized(entry[f].name)

\* Two entries come to share a name only by a request that was overtaken by
\* another write since its first read (a name checked too early, or a stale
\* save that undoes a renaming); or, for modules and components, by a name with a
\* wildcard, of which the check sees any one match, and for tags, beside one whose
\* columns were torn apart (see TagsAreDistinct) (workspace-catalog.service.ts:
\* 50-53, 112-119, 134-139, 211-217).
DuplicatesAreRaced ==
  [][\A e, f \in CatalogEntries : e # f /\ ~SameName(e, f) /\ SameName(e, f)' =>
       \/ IF indexed THEN {e, f} \cap torn' # {} ELSE entry'[e].name.word \in Wildcards
       \/ \E x \in Editors : editor[x] # NoEditor /\ editor'[x] = NoEditor /\ editor[x].stale]_catalogVars

\* Tags that differ only in capitals do not coexist, and normalized_name is the
\* displayed name in lower case, whatever races; except for a tag that was saved
\* over a write that came after the reload: a save that changes only the capitals
\* writes one of the two columns (tag.entity.ts:17,
\* workspace-catalog.service.ts:382-394; docs/workspace-endpoints.md:1698 knows no
\* such exception).
TagsAreDistinct ==
  indexed =>
    /\ \A e \in Existing \ torn : entry[e].normalized = Normalized(entry[e].name)
    /\ \A e, f \in CatalogEntries \ torn : e # f => ~SameName(e, f)

=============================================================================
