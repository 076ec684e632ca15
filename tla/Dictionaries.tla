---------------------------- MODULE Dictionaries ----------------------------
(***************************************************************************)
(* The dictionaries (dict_service.rs, dict_types.rs, dict_items.rs): types *)
(* and the items of their trees, platform rows and tenants' own, and the   *)
(* copy-on-write rows by which a tenant overrides a platform row.  Nothing *)
(* runs in a transaction: every query and every change is a step.          *)
(***************************************************************************)
EXTENDS Naturals, FiniteSets

CONSTANTS
  Editors,      \* concurrent requests
  Tenants, Platform, \* Platform is no tenant
  Types, Items, \* what can be entered, each under a code of its own
  TypeOf,       \* TypeOf[i]: the type of item i
  Seeded,       \* the platform's entries of the start
  Above,        \* Above[i]: the parent of item i then
  Overridden,   \* the entries that tenants override then
  MaxDepth,     \* MAX_TREE_DEPTH
  EditBound,    \* how many requests are ever made
  Nil

VARIABLES
  base,       \* base[e]: the platform's or a tenant's own row of entry e
  overriding, \* overriding[t][e]: the live row by which tenant t overrides e
  editor,     \* editor[c]: the local variables of a request
  edits,      \* how many requests were made
  steady,     \* history: steady[c]: the rows that were visible at all times since view c began
  tangled     \* history: two requests that move base rows overlapped

tables == <<base, overriding>>

dictionaryVars == <<tables, editor, edits, steady, tangled>>

----------------------------------------------------------------------------
(* Rows *)

Entered == Types \cup Items

Actors == Tenants \cup {Platform}

Parents == Items \cup {Nil}

BaseRow == [owner : Actors, parent : Parents, active : BOOLEAN, version : Nat \ {0}]

\* id: tells the row from its predecessors that a request still names.
OverridingRow == [id : 0..EditBound, parent : Parents, active : BOOLEAN, version : Nat \ {0}]

Exists(e) == base[e] # Nil

IsOwn(t, e) == Exists(e) /\ base[e].owner = t

IsPlatforms(e) == IsOwn(Platform, e)

\* A view lists the types, or the items of a type.
Listed(listing) == IF listing = Nil THEN Types ELSE {i \in Items : TypeOf[i] = listing}

\* The rows that find_effective_types and find_effective_items mean to list.
Visible(t, listing) ==
  LET rows(kind, test(_)) == {<<kind, e>> : e \in {entry \in Listed(listing) : test(entry)}}
      IsOverridden(e) == overriding[t][e] # Nil
      IsTheirs(e) == IsOwn(t, e)
      IsActive(e) == IsPlatforms(e) /\ base[e].active
  IN  rows("override", IsOverridden) \cup rows("own", IsTheirs) \cup rows("platform", IsActive)

----------------------------------------------------------------------------
(* Requests *)

Steps ==
  {"idle", "load", "circular", "depth", "find_override", "check", "write", "insert_override",
   "insert", "find_doomed", "drop", "list_overrides", "read_overrides", "read_own", "read_base",
   "shown"}

Idle ==
  [step |-> "idle", op |-> Nil, as |-> Nil, entry |-> Nil, parent |-> Nil, moves |-> FALSE,
   seen |-> 0, own |-> Nil, row |-> Nil, at |-> Nil, depth |-> 0, doomed |-> {},
   overrides |-> {}, owned |-> {}, platforms |-> {}]

FirstParent(e) == IF e \in Items THEN Above[e] ELSE Nil

Init ==
  /\ base = [e \in Entered |->
       IF e \in Seeded
       THEN [owner |-> Platform, parent |-> FirstParent(e), active |-> TRUE, version |-> 1]
       ELSE Nil]
  /\ overriding = [t \in Tenants |-> [e \in Entered |->
       IF e \in Overridden
       THEN [id |-> 0, parent |-> FirstParent(e), active |-> TRUE, version |-> 1]
       ELSE Nil]]
  /\ editor = [c \in Editors |-> Idle]
  /\ edits = 0
  /\ steady = [c \in Editors |-> {}]
  /\ tangled = FALSE

At(c, step) == editor[c].step = step

Goes(c, local) == editor' = [editor EXCEPT ![c] = local]

Local(c, step) == [editor[c] EXCEPT !.step = step]

Ends(c) == Goes(c, Idle)

MovesBase(local) ==
  /\ local.moves /\ local.parent # Nil /\ local.own = Nil
  /\ local.entry # Nil /\ IsOwn(local.as, local.entry)

Begin(c, local) ==
  /\ At(c, "idle") /\ edits < EditBound
  /\ edits' = edits + 1
  /\ Goes(c, local)
  /\ tangled' = \/ tangled
                \/ MovesBase(local) /\ \E d \in Editors : MovesBase(editor[d])
  /\ UNCHANGED tables

Starts(op, step, as, e) == [Idle EXCEPT !.op = op, !.step = step, !.as = as, !.entry = e]

\* Clients name the parents they were shown, which are base items (build_effective_tree), or none.
Shown == {i \in Items : Exists(i)} \cup {Nil}

\* A client names the row it was shown, with its version: the tenant's override if there is one,
\* or the base row beneath it.
Names(local) ==
  LET e == local.entry
      row == IF local.as = Platform THEN Nil ELSE overriding[local.as][e]
  IN  {[local EXCEPT !.seen = base[e].version]}
        \cup IF row = Nil THEN {}
             ELSE {[local EXCEPT !.seen = row.version, !.own = row.id],
                   [local EXCEPT !.seen = row.version]}

\* moves: the request names a parent, perhaps none; otherwise it changes texts.
BeginUpdate(c) ==
  \E as \in Actors, e \in {entry \in Entered : Exists(entry)} :
    \E local \in Names(Starts("update", "load", as, e)) :
      \/ Begin(c, local)
      \/ \E parent \in Shown :
           e \in Items /\ Begin(c, [local EXCEPT !.moves = TRUE, !.parent = parent])

BeginToggle(c) ==
  \E as \in Actors, e \in {entry \in Entered : Exists(entry)} :
    \E local \in Names(Starts("toggle", "load", as, e)) : Begin(c, local)

BeginReset(c) ==
  \E t \in Tenants, e \in Entered :
    /\ overriding[t][e] # Nil
    /\ Begin(c, [Starts("reset", "load", t, e) EXCEPT !.own = overriding[t][e].id])

BeginCreate(c) ==
  \E as \in Actors, e \in {entry \in Entered : ~Exists(entry)}, parent \in Shown :
    /\ IF e \in Types THEN parent = Nil ELSE Exists(TypeOf[e])
    /\ Begin(c, [Starts("create", IF parent = Nil THEN "insert" ELSE "depth", as, e)
                   EXCEPT !.parent = parent, !.at = parent])

BeginView(c) ==
  \E t \in Tenants, listing \in Types \cup {Nil} :
    /\ listing # Nil => IsPlatforms(listing) \/ IsOwn(t, listing)
    /\ Begin(c, Starts("view", "read_overrides", t, listing))

----------------------------------------------------------------------------
(* Checks *)

Stays == UNCHANGED <<tables, edits, tangled>>

\* The row a request names, by its id.
Target(c) ==
  LET self == editor[c]
  IN  IF self.own = Nil THEN base[self.entry]
      ELSE LET row == overriding[self.as][self.entry]
           IN  IF row # Nil /\ row.id = self.own THEN row ELSE Nil

\* A tenant changes its own rows, overrides the platform's, and is refused another's; only the
\* platform changes the platform's.
Authorised(c) ==
  LET self == editor[c]
  IN  CASE self.own # Nil \/ IsOwn(self.as, self.entry) -> Local(c, "check")
        [] self.own = Nil /\ self.as # Platform /\ IsPlatforms(self.entry) -> Local(c, "find_override")
        [] OTHER -> Idle

Load(c) ==
  LET self == [editor[c] EXCEPT !.row = Target(c)]
  IN  /\ At(c, "load")
      /\ \/ /\ self.row = Nil
            /\ Ends(c)
         \/ /\ self.row # Nil /\ self.op = "reset"
            /\ Goes(c, [self EXCEPT !.step = "find_doomed", !.doomed = {<<self.entry, self.own>>}])
         \/ /\ self.row # Nil /\ self.op # "reset"
            /\ IF self.parent # Nil
               THEN Goes(c, [self EXCEPT !.step = "circular", !.at = self.parent])
               ELSE Goes(c, [Authorised(c) EXCEPT !.row = IF Authorised(c) = Idle THEN Nil ELSE self.row])
      /\ Stays

ParentOf(i) == IF Exists(i) THEN base[i].parent ELSE Nil

\* Mutant of Circular: the named parent is compared, its ancestors are not.
CircularOnce(c) ==
  /\ At(c, "circular")
  /\ IF editor[c].own = Nil /\ editor[c].at = editor[c].entry THEN Ends(c)
     ELSE Goes(c, [Local(c, "depth") EXCEPT !.at = editor[c].parent])
  /\ Stays

\* One query per ancestor.  The named row is looked for, be it an override, among base rows.
Circular(c) ==
  LET self == editor[c]
      above == ParentOf(self.at)
  IN  /\ At(c, "circular")
      /\ \/ /\ self.own = Nil /\ self.at = self.entry
            /\ Ends(c)
         \/ /\ self.own # Nil \/ self.at # self.entry
            /\ IF above = Nil THEN Goes(c, [self EXCEPT !.step = "depth", !.at = self.parent])
               ELSE Goes(c, [self EXCEPT !.at = above])
      /\ Stays

Depth(c) ==
  LET self == editor[c]
      above == ParentOf(self.at)
      after == IF self.op = "create" THEN Local(c, "insert") ELSE Authorised(c)
  IN  /\ At(c, "depth")
      /\ CASE self.depth = MaxDepth -> Ends(c)
           [] self.depth < MaxDepth /\ above # Nil ->
                Goes(c, [self EXCEPT !.at = above, !.depth = @ + 1])
           [] OTHER -> Goes(c, IF after = Idle THEN Idle ELSE [after EXCEPT !.at = Nil, !.depth = 0])
      /\ Stays

\* Copy-on-write: the override there is gets the change, or a new one is made of the loaded row.
FindOverride(c) ==
  LET row == overriding[editor[c].as][editor[c].entry]
  IN  /\ At(c, "find_override")
      /\ IF row = Nil THEN Goes(c, Local(c, "insert_override"))
         ELSE Goes(c, [Local(c, "check") EXCEPT !.own = row.id, !.row = row])
      /\ Stays

\* update_with_version reads the version, and writes by id.
Check(c) ==
  /\ At(c, "check")
  /\ IF Target(c) = Nil \/ Target(c).version # editor[c].seen THEN Ends(c)
     ELSE Goes(c, Local(c, "write"))
  /\ Stays

----------------------------------------------------------------------------
(* Changes *)

Named == UNION {{editor[c].own} \cup {doomed[2] : doomed \in editor[c].doomed} : c \in Editors}

NewId == CHOOSE id \in 0..EditBound : id \notin Named

Changed(c, row) ==
  LET self == editor[c]
  IN  [row EXCEPT !.version = self.seen + 1,
                  !.parent = IF self.moves THEN self.parent ELSE @,
                  !.active = IF self.op = "toggle" THEN ~self.row.active ELSE @]

\* A row deleted since the check is written, and stays deleted.
Write(c) ==
  LET self == editor[c]
      target == Target(c)
  IN  /\ At(c, "write")
      /\ base' = IF self.own = Nil THEN [base EXCEPT ![self.entry] = Changed(c, target)] ELSE base
      /\ overriding' = IF self.own # Nil /\ target # Nil
                       THEN [overriding EXCEPT ![self.as][self.entry] = Changed(c, target)]
                       ELSE overriding
      /\ Ends(c)
      /\ UNCHANGED <<edits, tangled>>

\* uk_dict_*_tenant_override: one live override of an entry.
InsertOverride(c) ==
  LET self == editor[c]
      row == [id |-> NewId, version |-> 1, active |-> self.op # "toggle",
              parent |-> IF self.moves THEN self.parent ELSE self.row.parent]
  IN  /\ At(c, "insert_override")
      /\ overriding' = IF overriding[self.as][self.entry] = Nil
                       THEN [overriding EXCEPT ![self.as][self.entry] = row] ELSE overriding
      /\ Ends(c)
      /\ UNCHANGED <<base, edits, tangled>>

\* uk_dict_*_code: one live row of a code.
Insert(c) ==
  LET self == editor[c]
      row == [owner |-> self.as, parent |-> self.parent, active |-> TRUE, version |-> 1]
  IN  /\ At(c, "insert")
      /\ base' = IF Exists(self.entry) THEN base ELSE [base EXCEPT ![self.entry] = row]
      /\ Ends(c)
      /\ UNCHANGED <<overriding, edits, tangled>>

Live(t, doomed) ==
  overriding[t][doomed[1]] # Nil /\ overriding[t][doomed[1]].id = doomed[2]

\* soft_delete finds the row first: a reset stops at one that is gone.
FindDoomed(c) ==
  /\ At(c, "find_doomed")
  /\ \E doomed \in editor[c].doomed :
       IF Live(editor[c].as, doomed) THEN Goes(c, [Local(c, "drop") EXCEPT !.at = doomed])
       ELSE Ends(c)
  /\ Stays

\* A type takes the tenant's overrides of its items along.
Drop(c) ==
  LET self == editor[c]
      left == self.doomed \ {self.at}
      e == self.at[1]
  IN  /\ At(c, "drop")
      /\ overriding' = IF Live(self.as, self.at) THEN [overriding EXCEPT ![self.as][e] = Nil]
                       ELSE overriding
      /\ CASE e \in Types -> Goes(c, [Local(c, "list_overrides") EXCEPT !.at = Nil, !.doomed = {}])
           [] e \in Items /\ left # {} ->
                Goes(c, [Local(c, "find_doomed") EXCEPT !.at = Nil, !.doomed = left])
           [] OTHER -> Ends(c)
      /\ UNCHANGED <<base, edits, tangled>>

ListOverrides(c) ==
  LET t == editor[c].as
      items == {i \in Listed(editor[c].entry) : overriding[t][i] # Nil}
  IN  /\ At(c, "list_overrides")
      /\ IF items = {} THEN Ends(c)
         ELSE Goes(c, [Local(c, "find_doomed") EXCEPT
                         !.doomed = {<<i, overriding[t][i].id>> : i \in items}])
      /\ Stays

----------------------------------------------------------------------------
(* A tenant's view: three queries, merged *)

ReadOverrides(c) ==
  LET self == editor[c]
  IN  /\ At(c, "read_overrides")
      /\ Goes(c, [self EXCEPT !.step = "read_own", !.overrides =
                    {e \in Listed(self.entry) : overriding[self.as][e] # Nil}])
      /\ Stays

ReadOwn(c) ==
  LET self == editor[c]
  IN  /\ At(c, "read_own")
      /\ Goes(c, [self EXCEPT !.step = "read_base",
                    !.owned = {e \in Listed(self.entry) : IsOwn(self.as, e)}])
      /\ Stays

ActivePlatforms(c) == {e \in Listed(editor[c].entry) : IsPlatforms(e) /\ base[e].active}

\* Mutant of ReadBase: the database is asked which rows are overridden.
ReadBaseNotOverridden(c) ==
  /\ At(c, "read_base")
  /\ Goes(c, [Local(c, "shown") EXCEPT !.platforms =
                {e \in ActivePlatforms(c) : overriding[editor[c].as][e] = Nil}])
  /\ Stays

ReadBase(c) ==
  /\ At(c, "read_base")
  /\ Goes(c, [Local(c, "shown") EXCEPT !.platforms = ActivePlatforms(c) \ editor[c].overrides])
  /\ Stays

Close(c) == At(c, "shown") /\ Ends(c) /\ Stays

----------------------------------------------------------------------------

Begins(c) ==
  BeginUpdate(c) \/ BeginToggle(c) \/ BeginReset(c) \/ BeginCreate(c) \/ BeginView(c)

Checks(c) == Load(c) \/ Circular(c) \/ Depth(c) \/ FindOverride(c) \/ Check(c)

Changes(c) ==
  Write(c) \/ InsertOverride(c) \/ Insert(c) \/ FindDoomed(c) \/ Drop(c) \/ ListOverrides(c)

Views(c) == ReadOverrides(c) \/ ReadOwn(c) \/ ReadBase(c) \/ Close(c)

Remembers ==
  steady' = [c \in Editors |->
    LET visible == Visible(editor[c].as, editor[c].entry)'
    IN  CASE editor'[c].op # "view" -> {}
          [] editor'[c].op = "view" /\ At(c, "idle") -> visible
          [] OTHER -> steady[c] \cap visible]

Next == \E c \in Editors : (Begins(c) \/ Checks(c) \/ Changes(c) \/ Views(c)) /\ Remembers

Spec == Init /\ [][Next]_dictionaryVars

----------------------------------------------------------------------------

TypeOK ==
  /\ base \in [Entered -> BaseRow \cup {Nil}]
  /\ overriding \in [Tenants -> [Entered -> OverridingRow \cup {Nil}]]
  /\ DOMAIN editor = Editors /\ \A c \in Editors : editor[c].step \in Steps
  /\ edits \in 0..EditBound
  /\ steady \in [Editors -> SUBSET ({"override", "own", "platform"} \X Entered)] /\ tangled \in BOOLEAN

\* The parents of every item of the tables end at a root, whatever single moves are made
\* (validate_no_circular_ref): only two moves that overlap, each checked before the other is
\* written, can close a circle, in which that check would then turn for ever.
ParentsEnd ==
  tangled \/ \A circle \in (SUBSET Items) \ {{}} : \E i \in circle : ParentOf(i) \notin circle

\* A view misses nothing and lists nothing twice, although overrides come and go between its
\* three queries: an entry one of whose rows is visible all along is there, as an override, an
\* own row or the platform's, and each entry once (find_effective_types, find_effective_items).
ViewsMissNothing ==
  \A c \in Editors : At(c, "shown") =>
    LET view == editor[c]
    IN  /\ {seen[2] : seen \in steady[c]} \subseteq view.overrides \cup view.owned \cup view.platforms
        /\ view.overrides \cap (view.owned \cup view.platforms) = {}
        /\ view.owned \cap view.platforms = {}
=============================================================================
