----------------------------- MODULE Resolution -----------------------------
(***************************************************************************)
(* A catalog with one dictionary is written down, an item or a definition  *)
(* at a time, and resolved in a locale, with and without a fallback and    *)
(* localized texts: what the merge, the coverage and the two together are  *)
(* expected to say of it.                                                  *)
(***************************************************************************)
EXTENDS LocalizationCoverage

CONSTANTS
  Dictionary,      \* the dictionary, before it has items
  Pool,            \* the items it is made of
  Definitions,     \* the other definitions of a catalog
  TextTables,      \* localized texts of a workspace, by locale and entity
  MaxItems         \* bound: length of a dictionary; a definition counts twice

ASSUME CatalogsTyped ==
  /\ Dictionary \in Definition
  /\ Dictionary.type = "dictionary" /\ Dictionary.readable
  /\ Pool \subseteq Item
  /\ Definitions \subseteq Definition

\* A text that is stored is not blank.
ASSUME StoredTextsAreSomething ==
  \A table \in TextTables : \A e \in DOMAIN table : table[e] # Blank

\* Sort keys are strings, so there is an order among them.
ASSUME EntitiesHaveAPlace ==
  LET Placed(expected) == \A n \in DOMAIN expected : expected[n].entity \in DOMAIN Place
  IN  /\ \A e \in DOMAIN Place : Place[e] \in Nat
      /\ Placed(LocalizedTextExpectedItems(Blank, <<[Dictionary EXCEPT !.items = <<>>]>>))
      /\ \A i \in Pool : Placed(ItemTexts(Dictionary, i))
      /\ \A d \in Definitions : Placed(DefinitionTexts(d))

VARIABLES items, others, locale, texts

vars == <<items, others, locale, texts>>

Catalog(its, defs) == <<[Dictionary EXCEPT !.items = its]>> \o defs

Entity(type, key, property) ==
  [type |-> type, key |-> key, property |-> property]

Init ==
  /\ items = <<>>
  /\ others = <<>>
  /\ locale \in Locales \cup {Blank}
  /\ texts \in TextTables

Room(n) == Len(items) + 2 * Len(others) + n <= MaxItems

WriteItem ==
  /\ Room(1)
  /\ \E i \in Pool : items' = Append(items, i)
  /\ UNCHANGED <<others, locale, texts>>

WriteDefinition ==
  /\ Room(2)
  /\ \E d \in Definitions : others' = Append(others, d)
  /\ UNCHANGED <<items, locale, texts>>

Spec == Init /\ [][WriteItem \/ WriteDefinition]_vars

Resolved == Resolve(items, locale, TextsOfItems(texts, Dictionary.key, locale))

Covered(fallback) ==
  Coverage(locale, fallback, Blank, Catalog(items, others), texts)

\* The map of merged items, the two loops and the order in which they fill
\* blank fields give what the closed form says, in order and once per key.
ResolvesAsDescribed ==
  LET Bare(i) == [key |-> i.key, value |-> i.value, label |-> i.label,
                  description |-> i.description, order |-> i.order,
                  status |-> i.status, color |-> i.color]
      resolved == Resolved
  IN  /\ {Bare(resolved[n]) : n \in DOMAIN resolved} =
           Reference(items, locale, TextsOfItems(texts, Dictionary.key, locale))
      /\ \A m, n \in DOMAIN resolved :
           m < n => /\ resolved[m].order <= resolved[n].order
                    /\ resolved[m].key # resolved[n].key

\* A reader is never shown an empty list because of the locale it asks for:
\* when every item has a key and none is disabled, a dictionary that has
\* items has some in every locale.
NoLocaleIsEmpty ==
  (/\ items # <<>>
   /\ \A n \in DOMAIN items :
        items[n].key # Blank /\ items[n].status # "disabled")
  => Resolved # <<>>

\* What the coverage says of a dictionary item is what Items does with it:
\* every item shown is covered, it is shown with its translation if the
\* coverage says that it has one, and has none if the coverage says so.  (When
\* the dots around a name are trimmed, an item's key may not start with its
\* dictionary's; Items passes over the texts of such an item.)
CoverageSpeaksOfItems ==
  LET resolved == Resolved
      lines    == Covered(Blank).items
      Key(i)   == Join(Dictionary.key, i.key)
      Label(i) == Entity("dictionary_item", Key(i), "label")
      Lines(i) == {m \in DOMAIN lines : lines[m].entity = Label(i)}
  IN  locale # Blank =>
        \A n \in DOMAIN resolved :
          /\ Lines(resolved[n]) # {}
          /\ \A m \in Lines(resolved[n]) :
               Within(Key(resolved[n]), Dictionary.key) =>
               IF lines[m].missing
               THEN <<locale, Label(resolved[n])>> \notin DOMAIN texts
               ELSE resolved[n].label = lines[m].text

\* A fallback locale changes what is shown of a text, never whether it is
\* missing; and the missing ones head the list, as many as are counted.
FallbackIsNoTranslation ==
  LET untranslated == Covered(Blank).missing IN
  \A fallback \in Locales \cup {Blank} :
    LET coverage == Covered(fallback)
    IN  /\ coverage.missing = untranslated
        /\ \A n \in DOMAIN coverage.items :
             coverage.items[n].missing <=> n <= coverage.missing

\* Adding an item or a definition whose key is new lowers the coverage until
\* that exact key is translated ("coverage falls until that new stable key is
\* translated", capability/agent/localization.md).  The last one is the one
\* that is added.  A definition counts if something of it is displayed; of a
\* dictionary that cannot be read, which Items answers with an error, nothing
\* is, and it leaves the coverage as it was.
ItemEntity(i) ==
  Entity("dictionary_item", Join(Dictionary.key, i.key), "label")

DefinitionEntity(d) ==
  Entity(d.type, Split[d.key], CASE d.type = "validation" -> "message"
                              [] d.type = "action" -> "label"
                              [] OTHER -> "name")

LowersCoverage(before, e) ==
  LET expected == LocalizedTextExpectedItems(Blank, before)
  IN  (/\ \A n \in DOMAIN expected : expected[n].entity # e
       /\ locale = Blank \/ <<locale, e>> \notin DOMAIN texts)
      => Covered(Blank).missing >
           Coverage(locale, Blank, Blank, before, texts).missing

IsDisplayed(d) == d.type \in Displayed /\ (d.type = "dictionary" => d.readable)

NewKeyLowersCoverage ==
  /\ (items # <<>> /\ Last(items).key # Blank) =>
       LowersCoverage(Catalog(Front(items), others), ItemEntity(Last(items)))
  /\ (others # <<>> /\ IsDisplayed(Last(others))) =>
       LowersCoverage(Catalog(items, Front(others)),
                      DefinitionEntity(Last(others)))

\* An item that is disabled still resolves to its label ("Disabling `gold`
\* prevents new selection but still resolves the historical label for
\* records already storing that key", capability/agent/dictionary.md).
DisabledLabelResolves ==
  \A n \in DOMAIN items :
    items[n].key # Blank /\ items[n].locale = Blank /\ items[n].status = "disabled"
    => \E m \in DOMAIN Resolved : Resolved[m].key = items[n].key

=============================================================================
