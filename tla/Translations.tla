------------------------------ MODULE Translations ------------------------------
(***************************************************************************)
(* The translations of one i18n namespace: rows that administrators, files *)
(* and the build's manifest write, the revisions that number what they     *)
(* wrote, and the bundles clients hold under an ETag made of revisions.    *)
(* A write is one transaction (READ COMMITTED): it finds its rows, writes  *)
(* them, reads the revision, writes it back plus one, commits, and then    *)
(* evicts the cached bundle and ETag.  tenant_id is NULL in global rows,   *)
(* so no unique index keeps two of them apart.                             *)
(***************************************************************************)
EXTENDS Naturals, FiniteSets

CONSTANTS
  Global,   \* the scope of global rows, and of clients without a tenant
  Tenants,
  Base,     \* BASE_LOCALE, whose rows fill the gaps of the other locales
  Locales,
  Keys,     \* keys of the namespace
  Seed,     \* the value of the seeded row
  Texts,    \* the values that are written
  Writes,   \* requests that write, each made once
  Clients,  \* browsers
  View,     \* View[c]: the bundle client c uses, one of Bundles
  Nil,      \* no text, nothing cached
  Faults    \* what may fail, a subset of FaultKinds

\* "statement": a statement or a commit of a write fails; "dropped": its handler's future is
\* dropped between the commit and the evictions.
FaultKinds == {"statement", "dropped"}

Scopes == {Global} \cup Tenants

Bundles == Scopes \X Locales

VARIABLES
  rows,       \* i18n_translations
  revisions,  \* i18n_bundle_revisions
  registered, \* keys with a row in i18n_entries
  bundles,    \* the cached bundle of each scope and locale
  etags,      \* the cached ETag, likewise
  write,      \* write[w]: the local variables of a write
  held,       \* held[c]: the bundle a client shows, Nil before its first
  request,    \* request[c]: the local variables of its request for the bundle
  blurred     \* history: bundles whose revisions stopped telling their contents

vars == <<rows, revisions, registered, bundles, etags, write, held, request, blurred>>

tables == <<rows, revisions, registered, blurred>>

caches == <<bundles, etags>>

clients == <<held, request>>

----------------------------------------------------------------------------
(* Rows, bundles and locals *)

\* by: the write that inserted the row, Nil for a seeded one.
Rows == [scope : Scopes, locale : Locales, key : Keys, text : Texts \cup {Seed},
         by : Writes \cup {Nil}]

Revisions == [scope : Scopes, locale : Locales, number : Nat, by : Writes \cup {Nil}]

Entries == [Keys -> Texts \cup {Seed, Nil}]

NoEntries == [k \in Keys |-> Nil]

ETags == Nat \X Nat  \* of the global revision and the tenant's, 0 for clients without one

Built == [etag : ETags, entries : Entries]

NoWrite ==
  [pc |-> "idle", kind |-> "upsert", scope |-> Global, locale |-> Base, keys |-> {},
   unfound |-> {}, text |-> Nil, plan |-> {}, revision |-> Nil]

\* want: "etag" in compute_etag, "bundle" in resolve_bundle.
NoRequest ==
  [pc |-> "idle", want |-> "etag", etag |-> <<0, 0>>, unread |-> {}, own |-> NoEntries,
   base |-> NoEntries]

RowsOf(scope, locale) == {r \in rows : r.scope = scope /\ r.locale = locale}

RowsFor(scope, locale, key) == {r \in RowsOf(scope, locale) : r.key = key}

RevisionsOf(scope, locale) == {v \in revisions : v.scope = scope /\ v.locale = locale}

\* What list_global_bundle or list_tenant_bundle may come to: of two rows of a key, either wins.
Listings(scope, locale) ==
  {e \in Entries : \A k \in Keys :
     LET found == {r.text : r \in RowsFor(scope, locale, k)}
     IN  IF found = {} THEN e[k] = Nil ELSE e[k] \in found}

Over(upper, lower) == [k \in Keys |-> IF upper[k] # Nil THEN upper[k] ELSE lower[k]]

\* The revision a read of the row gives, 0 without one.
Numbers(scope, locale) ==
  IF RevisionsOf(scope, locale) = {} THEN {0} ELSE {v.number : v \in RevisionsOf(scope, locale)}

Init ==
  /\ \E k \in Keys :
       /\ rows = {[scope |-> Global, locale |-> Base, key |-> k, text |-> Seed, by |-> Nil]}
       /\ registered = {k}
  /\ revisions = {[scope |-> Global, locale |-> Base, number |-> 1, by |-> Nil]}
  /\ bundles = [b \in Bundles |-> Nil] /\ etags = [b \in Bundles |-> Nil]
  /\ write = [w \in Writes |-> NoWrite]
  /\ held = [c \in Clients |-> Nil] /\ request = [c \in Clients |-> NoRequest]
  /\ blurred = {}

----------------------------------------------------------------------------
(* What a write sets out to do *)

Begin(w, kind, scope, locale, keys, text) ==
  /\ write[w].pc = "idle"
  /\ write' = [write EXCEPT ![w] =
       [NoWrite EXCEPT !.pc = "find", !.kind = kind, !.scope = scope, !.locale = locale,
                       !.keys = keys, !.unfound = keys, !.text = text]]
  /\ UNCHANGED <<tables, caches, clients>>

\* Writes addressed by row id look the row up before their transaction.
BeginRow(w, row, text) ==
  /\ write[w].pc = "idle"
  /\ write' = [write EXCEPT ![w] =
       [NoWrite EXCEPT !.pc = "write", !.scope = row.scope, !.locale = row.locale,
                       !.plan = {[row |-> row, text |-> text]}]]
  /\ UNCHANGED <<tables, caches, clients>>

Known(scope, locale, keys) == {k \in keys : RowsFor(scope, locale, k) # {}}

UpsertGlobal(w) ==
  \E l \in Locales, k \in Keys, x \in Texts : Begin(w, "upsert", Global, l, {k}, x)

UpsertOverride(w) ==
  \E t \in Tenants, l \in Locales, k \in Keys, x \in Texts : Begin(w, "upsert", t, l, {k}, x)

UpdateGlobal(w) ==
  \E r \in rows, x \in Texts : r.scope = Global /\ BeginRow(w, r, x)

DeleteGlobal(w) ==
  \E r \in rows : r.scope = Global /\ BeginRow(w, r, Nil)

DeleteOverride(w) ==
  \E r \in rows : r.scope \in Tenants /\ BeginRow(w, r, Nil)

\* By its namespace, key and locale: a cell without an override is left as it is.
DeleteCell(w) ==
  \E t \in Tenants, l \in Locales, k \in Keys : \E r \in RowsFor(t, l, k) : BeginRow(w, r, Nil)

ImportGlobal(w) ==
  \E l \in Locales, keys \in (SUBSET Keys) \ {{}}, x \in Texts :
    \/ Begin(w, "upsert", Global, l, keys, x)
    \/ Begin(w, "upsert", Global, l, keys \ Known(Global, l, keys), x)

ImportTenant(w) ==
  \E t \in Tenants, l \in Locales, keys \in (SUBSET Keys) \ {{}}, x \in Texts :
    \/ Begin(w, "upsert", t, l, keys, x)
    \/ Begin(w, "upsert", t, l, keys \ Known(t, l, keys), x)

BatchGlobal(w) ==
  \E l \in Locales, keys \in (SUBSET Keys) \ {{}}, x \in Texts :
    Begin(w, "update", Global, l, Known(Global, l, keys), x)

BatchTenant(w) ==
  \E t \in Tenants, l \in Locales, keys \in (SUBSET Keys) \ {{}}, x \in Texts :
    Begin(w, "update", t, l, Known(t, l, keys), x)

ApplyManifest(w) ==
  \E keys \in (SUBSET Keys) \ {{}}, x \in Texts : Begin(w, "sync", Global, Base, keys, x)

----------------------------------------------------------------------------
(* The transaction of a write *)

Goes(w, pc) == write' = [write EXCEPT ![w].pc = pc]

Ends(w) == write' = [write EXCEPT ![w] = [NoWrite EXCEPT !.pc = "done"]]

Insert(w, key) ==
  [row |-> [scope |-> write[w].scope, locale |-> write[w].locale, key |-> key,
            text |-> write[w].text, by |-> w],
   text |-> write[w].text]

\* upsert_*_one_in_txn inserts or updates.
Upserts(w, k) ==
  LET found == RowsFor(write[w].scope, write[w].locale, k)
  IN  IF found = {} THEN {{Insert(w, k)}} ELSE {{[row |-> r, text |-> write[w].text]} : r \in found}

\* update_*_one_in_txn leaves a row that is gone alone.
Updates(w, k) ==
  LET found == RowsFor(write[w].scope, write[w].locale, k)
  IN  IF found = {} THEN {{}} ELSE {{[row |-> r, text |-> write[w].text]} : r \in found}

\* force_sync_global_in_txn writes nothing where the text is the source's already.
Syncs(w, k) ==
  LET found == RowsFor(write[w].scope, write[w].locale, k)
  IN  IF found = {} THEN {{Insert(w, k)}}
      ELSE {IF r.text = write[w].text THEN {} ELSE {[row |-> r, text |-> write[w].text]} : r \in found}

Plans(w, k) ==
  CASE write[w].kind = "upsert" -> Upserts(w, k)
    [] write[w].kind = "update" -> Updates(w, k)
    [] write[w].kind = "sync" -> Syncs(w, k)

FindRow(w, k) ==
  /\ write[w].pc = "find" /\ k \in write[w].unfound
  /\ \E more \in Plans(w, k) :
       write' = [write EXCEPT ![w].plan = @ \cup more, ![w].unfound = @ \ {k}]
  /\ UNCHANGED <<tables, caches, clients>>

\* A manifest registers its keys, whether or not it changed their texts.
Registers(w) == registered' = registered \cup IF write[w].kind = "sync" THEN write[w].keys ELSE {}

Found(w) ==
  /\ write[w].pc = "find" /\ write[w].unfound = {} /\ write[w].plan # {}
  /\ write' = [write EXCEPT ![w].pc = "write", ![w].text = Nil,
                            ![w].keys = IF write[w].kind = "sync" THEN @ ELSE {}]
  /\ UNCHANGED <<tables, caches, clients>>

\* A batch or a manifest that changes no row bumps no revision and evicts nothing.
NothingFound(w) ==
  /\ write[w].pc = "find" /\ write[w].unfound = {} /\ write[w].plan = {}
  /\ Registers(w)
  /\ Ends(w)
  /\ UNCHANGED <<rows, revisions, blurred, caches, clients>>

InTransaction(w) == write[w].pc \in {"revision", "commit"}

Cell(r) == <<r.scope, r.locale, r.key>>

\* Rows two transactions cannot both hold: one row, or the one row a tenant may have for a cell.
Contended(v, w) ==
  \E p \in write[v].plan, q \in write[w].plan :
    /\ Cell(p.row) = Cell(q.row)
    /\ p.row.by = q.row.by \/ p.row.scope # Global

Gone(p) == ~ \E r \in rows : Cell(r) = Cell(p.row) /\ r.by = p.row.by

\* An UPDATE by id that finds nothing fails, and so does an INSERT the unique index refuses.
Refused(w, p) ==
  IF p.row.by = w THEN p.row.scope # Global /\ \E r \in rows : Cell(r) = Cell(p.row)
  ELSE p.text # Nil /\ Gone(p)

WriteRows(w) ==
  /\ write[w].pc = "write"
  /\ ~ \E v \in Writes \ {w} : InTransaction(v) /\ Contended(v, w)
  /\ IF \E p \in write[w].plan : Refused(w, p) THEN Ends(w) ELSE Goes(w, "revision")
  /\ UNCHANGED <<tables, caches, clients>>

\* The read of bump_revision_inner.
ReadRevision(w) ==
  /\ write[w].pc = "revision"
  /\ LET found == RevisionsOf(write[w].scope, write[w].locale)
     IN  \E v \in IF found = {} THEN {Nil} ELSE found :
           write' = [write EXCEPT ![w].pc = "commit", ![w].revision = v]
  /\ UNCHANGED <<tables, caches, clients>>

Applied(w) ==
  {r \in rows : \A p \in write[w].plan : Cell(r) = Cell(p.row) => r.by # p.row.by}
    \cup {[p.row EXCEPT !.text = p.text] : p \in {q \in write[w].plan : q.text # Nil}}

\* The write of bump_revision_inner: the number read, plus one, by the id of the row.
Bumped(w) ==
  LET v == write[w].revision
      key == <<write[w].scope, write[w].locale>>
  IN  IF v = Nil
      THEN revisions \cup {[scope |-> key[1], locale |-> key[2], number |-> 1, by |-> w]}
      ELSE {IF <<u.scope, u.locale, u.by>> = <<v.scope, v.locale, v.by>>
            THEN [u EXCEPT !.number = v.number + 1] ELSE u : u \in revisions}

\* A global bump increments every tenant's revision of the locale as well.
Cascaded(w, bumped) ==
  {IF u.scope # Global /\ u.locale = write[w].locale THEN [u EXCEPT !.number = @ + 1] ELSE u
     : u \in bumped}

\* The revision is not the one that was read any more, or there are two rows of one thing.
Lost(w) ==
  \/ RevisionsOf(write[w].scope, write[w].locale) # {write[w].revision} \ {Nil}
  \/ \E p \in write[w].plan : p.row.by = w /\ RowsFor(p.row.scope, p.row.locale, p.row.key) # {}

\* What a commit changes under revisions that do not tell: what it shows to the bundles of its
\* own revision when the bump was lost, and to the other locales when it is a base text.
Blurs(w) ==
  {b \in Bundles :
     \/ Lost(w) /\ write[w].scope \in {Global, b[1]} /\ write[w].locale \in {Base, b[2]}
     \/ write[w].scope = Global /\ write[w].locale = Base /\ b[2] # Base}

\* The unique index of a tenant's revisions refuses a second row.
BumpRefused(w) ==
  /\ write[w].revision = Nil /\ write[w].scope # Global
  /\ RevisionsOf(write[w].scope, write[w].locale) # {}

Commit(w) ==
  /\ write[w].pc = "commit" /\ ~ BumpRefused(w)
  /\ rows' = Applied(w)
  /\ revisions' = IF write[w].scope = Global THEN Cascaded(w, Bumped(w)) ELSE Bumped(w)
  /\ Registers(w)
  /\ blurred' = blurred \cup Blurs(w)
  /\ Goes(w, "evict_bundle")
  /\ UNCHANGED <<caches, clients>>

RollBack(w) ==
  /\ write[w].pc = "commit" /\ BumpRefused(w)
  /\ Ends(w)
  /\ UNCHANGED <<tables, caches, clients>>

EvictBundle(w) ==
  /\ write[w].pc = "evict_bundle"
  /\ bundles' = [bundles EXCEPT ![<<write[w].scope, write[w].locale>>] = Nil]
  /\ Goes(w, "evict_etag")
  /\ UNCHANGED <<tables, etags, clients>>

EvictETag(w) ==
  /\ write[w].pc = "evict_etag"
  /\ etags' = [etags EXCEPT ![<<write[w].scope, write[w].locale>>] = Nil]
  /\ Ends(w)
  /\ UNCHANGED <<tables, bundles, clients>>

Fail(w) ==
  /\ \/ "statement" \in Faults /\ write[w].pc \in {"find", "write", "revision", "commit"}
     \/ "dropped" \in Faults /\ write[w].pc \in {"evict_bundle", "evict_etag"}
  /\ Ends(w)
  /\ UNCHANGED <<tables, caches, clients>>

\* delete_entry_cascade: the rows of a key in every scope and locale, and its entry, without a
\* revision bumped or a cache evicted.
DropEntry(w, k) ==
  /\ write[w].pc = "idle" /\ k \in registered
  /\ \A v \in Writes : InTransaction(v) => \A p \in write[v].plan : p.row.key # k
  /\ rows' = {r \in rows : r.key # k}
  /\ registered' = registered \ {k}
  /\ blurred' = Bundles
  /\ Ends(w)
  /\ UNCHANGED <<revisions, caches, clients>>

----------------------------------------------------------------------------
(* A client's request: get_bundle *)

Reads(c, pc) == request' = [request EXCEPT ![c].pc = pc]

\* 304 where the client holds the ETag, else on to the bundle.
Compare(c, etag) ==
  /\ request' = [request EXCEPT ![c] =
       IF held[c] # Nil /\ held[c].etag = etag THEN NoRequest
       ELSE [NoRequest EXCEPT !.pc = "look", !.want = "bundle"]]
  /\ UNCHANGED held

Take(c, bundle) ==
  /\ held' = [held EXCEPT ![c] = bundle]
  /\ request' = [request EXCEPT ![c] = NoRequest]

\* compute_etag, and resolve_bundle below: a cached value, or the statements that build one.
Ask(c) ==
  /\ request[c].pc = "idle"
  /\ IF etags[View[c]] # Nil THEN Compare(c, etags[View[c]])
     ELSE Reads(c, "global") /\ UNCHANGED held
  /\ UNCHANGED <<tables, caches, write>>

LookBundle(c) ==
  /\ request[c].pc = "look"
  /\ IF bundles[View[c]] # Nil THEN Take(c, bundles[View[c]])
     ELSE Reads(c, "global") /\ UNCHANGED held
  /\ UNCHANGED <<tables, caches, write>>

\* On to what the revisions were read for.
Numbered(c, etag) ==
  request' = [request EXCEPT ![c].etag = etag,
    ![c].pc = IF request[c].want = "etag" THEN "keep" ELSE "rows",
    ![c].unread = IF request[c].want = "etag" THEN {}
                  ELSE {"own"} \cup IF View[c][2] = Base THEN {} ELSE {"base"}]

\* read_revisions is two statements, the second for clients with a tenant.
ReadGlobalRevision(c) ==
  /\ request[c].pc = "global"
  /\ \E n \in Numbers(Global, View[c][2]) :
       IF View[c][1] = Global THEN Numbered(c, <<n, 0>>)
       ELSE request' = [request EXCEPT ![c].etag = <<n, 0>>, ![c].pc = "tenant"]
  /\ UNCHANGED <<tables, caches, write, held>>

ReadTenantRevision(c) ==
  /\ request[c].pc = "tenant"
  /\ \E n \in Numbers(View[c][1], View[c][2]) : Numbered(c, <<request[c].etag[1], n>>)
  /\ UNCHANGED <<tables, caches, write, held>>

KeepETag(c) ==
  /\ request[c].pc = "keep" /\ request[c].want = "etag"
  /\ etags' = [etags EXCEPT ![View[c]] = request[c].etag]
  /\ Compare(c, request[c].etag)
  /\ UNCHANGED <<tables, bundles, write>>

\* The two lists of a join, in either order.
ReadOwn(c) ==
  /\ request[c].pc = "rows" /\ "own" \in request[c].unread
  /\ \E e \in Listings(Global, View[c][2]) :
       request' = [request EXCEPT ![c].own = e, ![c].unread = @ \ {"own"}]
  /\ UNCHANGED <<tables, caches, write, held>>

ReadBase(c) ==
  /\ request[c].pc = "rows" /\ "base" \in request[c].unread
  /\ \E e \in Listings(Global, Base) :
       request' = [request EXCEPT ![c].base = e, ![c].unread = @ \ {"base"}]
  /\ UNCHANGED <<tables, caches, write, held>>

\* Overrides win over the locale's rows, and those over the base locale's.
ReadOverrides(c) ==
  /\ request[c].pc = "rows" /\ request[c].unread = {}
  /\ \E e \in IF View[c][1] = Global THEN {NoEntries} ELSE Listings(View[c][1], View[c][2]) :
       request' = [request EXCEPT ![c].own = Over(e, Over(@, request[c].base)),
                                  ![c].base = NoEntries, ![c].pc = "keep"]
  /\ UNCHANGED <<tables, caches, write, held>>

\* Mutant of KeepBundle: the revisions of the bundle are read after its rows.
NumberedLate(c) ==
  /\ request[c].pc = "keep" /\ request[c].want = "bundle"
  /\ \E n \in Numbers(Global, View[c][2]), m \in Numbers(View[c][1], View[c][2]) :
       LET bundle == [etag |-> <<n, m>>, entries |-> request[c].own]
       IN  bundles' = [bundles EXCEPT ![View[c]] = bundle] /\ Take(c, bundle)
  /\ UNCHANGED <<tables, etags, write>>

KeepBundle(c) ==
  /\ request[c].pc = "keep" /\ request[c].want = "bundle"
  /\ LET bundle == [etag |-> request[c].etag, entries |-> request[c].own]
     IN  bundles' = [bundles EXCEPT ![View[c]] = bundle] /\ Take(c, bundle)
  /\ UNCHANGED <<tables, etags, write>>

----------------------------------------------------------------------------
(* Expiry, and the specification *)

\* Mutant of ExpireBundle: bundles are cached without a time to live.
NeverExpires(b) == FALSE /\ UNCHANGED vars

\* BUNDLE_CACHE_TTL has passed since the value was inserted.
ExpireBundle(b) ==
  /\ bundles[b] # Nil /\ bundles' = [bundles EXCEPT ![b] = Nil]
  /\ UNCHANGED <<tables, etags, write, clients>>

ExpireETag(b) ==
  /\ etags[b] # Nil /\ etags' = [etags EXCEPT ![b] = Nil]
  /\ UNCHANGED <<tables, bundles, write, clients>>

BeginStep(w) ==
  \/ UpsertGlobal(w) \/ UpsertOverride(w) \/ UpdateGlobal(w) \/ DeleteGlobal(w)
  \/ DeleteOverride(w) \/ DeleteCell(w) \/ ImportGlobal(w) \/ ImportTenant(w)
  \/ BatchGlobal(w) \/ BatchTenant(w) \/ ApplyManifest(w)
  \/ \E k \in Keys : DropEntry(w, k)

WriteStep(w) ==
  \/ \E k \in Keys : FindRow(w, k)
  \/ Found(w) \/ NothingFound(w) \/ WriteRows(w) \/ ReadRevision(w) \/ Commit(w) \/ RollBack(w)
  \/ EvictBundle(w) \/ EvictETag(w)

ClientStep(c) ==
  \/ Ask(c) \/ LookBundle(c) \/ ReadGlobalRevision(c) \/ ReadTenantRevision(c)
  \/ KeepETag(c) \/ ReadOwn(c) \/ ReadBase(c) \/ ReadOverrides(c)
  \/ KeepBundle(c)

Next ==
  \/ \E w \in Writes : BeginStep(w) \/ WriteStep(w) \/ Fail(w)
  \/ \E c \in Clients : ClientStep(c)
  \/ \E b \in Bundles : ExpireBundle(b) \/ ExpireETag(b)

\* Handlers run on, clients ask again, and cached values reach the end of their lives.
Fairness ==
  /\ \A w \in Writes : WF_vars(WriteStep(w))
  /\ \A c \in Clients :
       WF_vars(ClientStep(c)) /\ WF_vars(ExpireBundle(View[c])) /\ WF_vars(ExpireETag(View[c]))

Spec == Init /\ [][Next]_vars /\ Fairness

----------------------------------------------------------------------------
(* Properties *)

TypeOK ==
  /\ rows \subseteq Rows /\ revisions \subseteq Revisions /\ registered \subseteq Keys
  /\ bundles \in [Bundles -> Built \cup {Nil}] /\ etags \in [Bundles -> ETags \cup {Nil}]
  /\ held \in [Clients -> Built \cup {Nil}] /\ blurred \subseteq Bundles
  /\ \A w \in Writes :
       /\ write[w].pc \in {"idle", "find", "write", "revision", "commit", "evict_bundle",
                           "evict_etag", "done"}
       /\ \A p \in write[w].plan : p.row \in Rows /\ p.text \in Texts \cup {Nil}
       /\ write[w].revision \in Revisions \cup {Nil}
  /\ \A c \in Clients :
       /\ request[c].pc \in {"idle", "look", "global", "tenant", "rows", "keep"}
       /\ request[c].etag \in ETags /\ {request[c].own, request[c].base} \subseteq Entries

\* What a bundle built from the committed rows holds.
Resolved(b) ==
  {Over(o, Over(g, f)) :
     o \in IF b[1] = Global THEN {NoEntries} ELSE Listings(b[1], b[2]),
     g \in Listings(Global, b[2]),
     f \in IF b[2] = Base THEN {NoEntries} ELSE Listings(Global, Base)}

Current(b) == Numbers(Global, b[2]) \X IF b[1] = Global THEN {0} ELSE Numbers(b[1], b[2])

\* A 304 is safe: a client whose ETag is the current one holds the current texts, however the
\* writes ran between the statements that read its revisions and its rows and whatever the
\* caches gave it (build_bundle_from_db reads the revisions first).
EtagTellsContent ==
  \A c \in Clients :
    held[c] # Nil /\ View[c] \notin blurred /\ held[c].etag \in Current(View[c])
      => held[c].entries \in Resolved(View[c])

\* When the writes are over every client comes to show the current texts: a tenant's client,
\* whose caches a global write does not evict, and after an eviction that was dropped or that
\* a slow reader undid by inserting what it had read before.
ClientsCatchUp ==
  \A c \in Clients :
    <>[](View[c] \in blurred \/ (held[c] # Nil /\ held[c].entries \in Resolved(View[c])))
=============================================================================
