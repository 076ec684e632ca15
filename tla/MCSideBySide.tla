----------------------------- MODULE MCSideBySide -----------------------------
(* Five components that share nothing: in a behaviour one of them runs. *)
EXTENDS ToolBroker, TLC

CONSTANTS
  Global, Tenants, Base, Locales, Keys, Seed, Texts, Writes, Clients, View, Faults, t1, c1, en,
  MaxTokens, MinTokens, OverlapSentences, BlockBound, TextBound,
  Editors, Platform, Types, Items, TypeOf, Seeded, Above, Overridden, MaxDepth, EditBound, ty, i1, i2,
  Callers, ConfigKeys, ValueTypes, Values, Ids, CallBound, n1, n2, number, flag, true,
  HandlerFaults

VARIABLES
  component,
  rows, revisions, registered, bundles, etags, write, held, request, blurred,
  document, next, content, fresh, check, chunks, pc,
  base, overriding, editor, edits, steady, tangled,
  globals, overrides, cached, caller, calls, stale

TenantInEnglish == c1 :> <<t1, en>>

Translator == INSTANCE Translations

Chunker == INSTANCE Chunking

OneType == [i \in Items |-> ty]

SecondUnderFirst == [i \in Items |-> IF i = i2 THEN i1 ELSE Nil]

Dictionary == INSTANCE Dictionaries

FittingValues == {<<n1, number>>, <<n2, number>>, <<true, flag>>}

Config ==
  INSTANCE Settings WITH
    Keys <- ConfigKeys, Types <- ValueTypes, Fits <- FittingValues, Faults <- HandlerFaults

\* No view and no key is the absent one, and no tenant has everybody's scope.
ASSUME UnlikeAssumption ==
  Nil \notin Config!Views /\ Nil \notin ConfigKeys /\ Global \notin Tenants

\* Token counts, and how much is repeated.
ASSUME SizesAssumption ==
  {MaxTokens, MinTokens, OverlapSentences, BlockBound, TextBound} \subseteq Nat

\* A client uses a bundle.
ASSUME ViewAssumption == View \in [Clients -> Translator!Bundles]

\* The absent value is nothing that a table holds, no tenant is the platform, and the tree that is
\* seeded is one: the parent of a seeded item is a seeded item, and no items are all under each other.
ASSUME ApartAssumption ==
  /\ Nil \notin {"view", "create"}
  /\ Nil \notin Types \cup Items /\ Platform \notin Tenants
  /\ Nil \notin Dictionary!BaseRow /\ Overridden \subseteq Seeded
  /\ Seeded \subseteq Types \cup Items
  /\ \A i \in Seeded \cap Items : Above[i] \in (Seeded \cap Items) \cup {Nil}
  /\ \A circle \in (SUBSET (Seeded \cap Items)) \ {{}} : \E i \in circle : Above[i] \notin circle
  /\ EditBound \in Nat /\ Nil \notin 0..EditBound

translatorVars == <<rows, revisions, registered, bundles, etags, write, held, request, blurred>>

chunkerVars == <<document, next, content, fresh, check, chunks, pc>>

dictionaryVars == <<base, overriding, editor, edits, steady, tangled>>

configVars == <<globals, overrides, cached, caller, calls, stale>>

allVars == <<component, vars, translatorVars, chunkerVars, dictionaryVars, configVars>>

Translating(A) ==
  /\ component = "translations" /\ A
  /\ UNCHANGED <<component, vars, chunkerVars, dictionaryVars, configVars>>

InitOfOne ==
  /\ component \in {"broker", "translations", "chunker", "dictionaries", "settings"}
  /\ Init /\ Translator!Init /\ Chunker!Init /\ Dictionary!Init /\ Config!Init
  /\ component = "chunker" \/ document = <<>>
  /\ component = "settings" \/ \A k \in ConfigKeys : \A row \in globals[k] : row.value = n1

NextOfOne ==
  \/ Translating(Translator!Next)
  \/ /\ component = "broker" /\ Next
     /\ UNCHANGED <<component, translatorVars, chunkerVars, dictionaryVars, configVars>>
  \/ /\ component = "chunker" /\ Chunker!Next
     /\ UNCHANGED <<component, vars, translatorVars, dictionaryVars, configVars>>
  \/ /\ component = "dictionaries" /\ Dictionary!Next
     /\ UNCHANGED <<component, vars, translatorVars, chunkerVars, configVars>>
  \/ /\ component = "settings" /\ Config!Next
     /\ UNCHANGED <<component, vars, translatorVars, chunkerVars, dictionaryVars>>

FairnessOfTranslations ==
  /\ \A w \in Writes : WF_allVars(Translating(Translator!WriteStep(w)))
  /\ \A c \in Clients :
       /\ WF_allVars(Translating(Translator!ClientStep(c)))
       /\ WF_allVars(Translating(Translator!ExpireBundle(View[c])))
       /\ WF_allVars(Translating(Translator!ExpireETag(View[c])))

SpecOfOne == InitOfOne /\ [][NextOfOne]_allVars /\ FairnessOfTranslations

EtagTellsContent == Translator!EtagTellsContent
ClientsCatchUp == component = "translations" => Translator!ClientsCatchUp
NothingLost == Chunker!NothingLost
SplitsShorten == Chunker!SplitsShorten
ParentsEnd == Dictionary!ParentsEnd
ViewsMissNothing == Dictionary!ViewsMissNothing
SettledViewsAgree == Config!SettledViewsAgree
=============================================================================
