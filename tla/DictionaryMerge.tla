--------------------------- MODULE DictionaryMerge ---------------------------
(***************************************************************************)
(* The items of a dictionary in a locale, as the code computes them from   *)
(* the definition and the localized texts, and as a closed form says they  *)
(* are.                                                                    *)
(*                                                                         *)
(* The fields are those that are treated differently: a blank value and a  *)
(* blank description are inherited (parent key, icon, tags and metadata    *)
(* are too), a label is not, a sort order of 0 is unset, and a colour may  *)
(* come from the maps ui and config, each given by the colour it has.      *)
(***************************************************************************)
EXTENDS Naturals, Sequences, FiniteSets, SequencesExt

CONSTANTS
  Keys,            \* item keys; KeyOrder is their order
  KeyOrder,
  Locales,
  Words,           \* values, labels, descriptions, colours
  KeyAsWord,       \* KeyAsWord[k]: k, where a word is wanted
  Orders,          \* sort orders, 0 among them
  Blank            \* an empty string

ASSUME KeysAreOrdered ==
  /\ KeyOrder \in Seq(Keys)
  /\ \A k \in Keys : \E n \in DOMAIN KeyOrder : KeyOrder[n] = k

ASSUME KeysAreWords ==
  /\ KeyAsWord \in [Keys \cup {Blank} -> Words \cup {Blank}]
  /\ \A k \in Keys : KeyAsWord[k] # Blank

ASSUME OrdersAreNumbers == Orders \subseteq Nat /\ 0 \in Orders

ASSUME BlankIsNothing == Blank \notin Keys \cup Locales \cup Words \cup {"active", "disabled"}

Item ==
  [key : Keys \cup {Blank}, locale : Locales \cup {Blank},
   value : Words \cup {Blank}, label : Words \cup {Blank},
   description : Words \cup {Blank}, order : Orders,
   status : {"active", "disabled", Blank},
   color : Words \cup {Blank}, ui : Words \cup {Blank},
   config : Words \cup {Blank}]

Position(k) == CHOOSE i \in DOMAIN KeyOrder : KeyOrder[i] = k

Or(x, y) == IF x = Blank THEN y ELSE x

-----------------------------------------------------------------------------
(***************************************************************************)
(* As the code computes them.                                              *)
(***************************************************************************)
NormalizeDictionaryItem(i) ==
  LET value == Or(i.value, KeyAsWord[i.key])
      ui    == Or(i.ui, i.config)
  IN  [i EXCEPT !.value = value, !.label = Or(i.label, value),
                !.status = Or(i.status, "active"), !.ui = ui,
                !.color = Or(i.color, Or(ui, i.config))]

\* Mutant: the sort order of the default is forgotten.
InheritUnordered(i, base) ==
  [i EXCEPT !.value = Or(i.value, base.value),
            !.description = Or(i.description, base.description),
            !.status = Or(i.status, base.status),
            !.color = Or(i.color, base.color),
            !.ui = Or(i.ui, base.ui)]

Inherit(i, base) ==
  [i EXCEPT !.value = Or(i.value, base.value),
            !.description = Or(i.description, base.description),
            !.order = IF i.order = 0 THEN base.order ELSE i.order,
            !.status = Or(i.status, base.status),
            !.color = Or(i.color, base.color),
            !.ui = Or(i.ui, base.ui)]

\* One round of either loop; a merged map has no blank key.
Put(merged, i) ==
  IF i.key = Blank THEN merged
  ELSE [k \in DOMAIN merged \cup {i.key} |->
          IF k = i.key THEN NormalizeDictionaryItem(i) ELSE merged[k]]

PutLocalized(merged, i) ==
  Put(merged, IF i.key \in DOMAIN merged THEN Inherit(i, merged[i.key]) ELSE i)

Before(i, j) ==
  \/ i.order < j.order
  \/ i.order = j.order /\ Position(i.key) < Position(j.key)

\* The elements of S in order, each at the place that those before it leave.
InOrder(S, Less(_, _)) ==
  LET places == {<<Cardinality({y \in S : Less(y, x)}), x>> : x \in S}
  IN  [n \in 1 .. Cardinality(S) |-> (CHOOSE p \in places : p[1] = n - 1)[2]]

Active(merged) == {i \in {merged[k] : k \in DOMAIN merged} : i.status = "active"}

MergeDictionaryItems(defaults, localized) ==
  LET base   == FoldLeft(Put, <<>>, defaults)
      merged == FoldLeft(PutLocalized, base, localized)
  IN  InOrder(Active(merged), Before)

InNoLocale(items)       == {i \in Range(items) : i.locale = Blank}
InLocale(items, locale) == {i \in Range(items) : locale # Blank /\ i.locale = locale}

\* The loop that appends what is wanted.
Select(items, wanted) ==
  FoldLeft(LAMBDA some, i : IF i \in wanted THEN Append(some, i) ELSE some, <<>>, items)

\* Mutant: no fallback to the items of other locales.
DefaultsOnly(items, locale) == Select(items, InNoLocale(items))

\* A dictionary without defaults and without items in the locale is taken
\* as it is.
Defaults(items, locale) ==
  IF InNoLocale(items) \cup InLocale(items, locale) # {}
  THEN Select(items, InNoLocale(items)) ELSE items

DictionaryItemsForLocale(items, locale) ==
  MergeDictionaryItems(Defaults(items, locale), Select(items, InLocale(items, locale)))

\* texts[k]: the localized label and description of the item with key k.
WithTexts(i, texts) ==
  [i EXCEPT !.label = Or(texts[i.key].label, @),
            !.description = Or(texts[i.key].description, @)]

LocalizeDictionaryItems(items, texts) ==
  [n \in DOMAIN items |-> WithTexts(items[n], texts)]

Resolve(items, locale, texts) ==
  LocalizeDictionaryItems(DictionaryItemsForLocale(items, locale), texts)

-----------------------------------------------------------------------------
(***************************************************************************)
(* As a closed form.  An item with key k is described by a chain: the last *)
(* default for k, at 0, and every item for k in the locale, where it is.   *)
(***************************************************************************)
DefaultsFor(items, locale, k) ==
  {n \in DOMAIN items :
     /\ items[n].key = k
     /\ \/ items[n] \in InNoLocale(items)
        \/ InNoLocale(items) \cup InLocale(items, locale) = {}}

Chain(items, locale, k) ==
  LET defaults  == DefaultsFor(items, locale, k)
      localized == {n \in DOMAIN items : items[n].key = k /\ items[n] \in InLocale(items, locale)}
  IN  [n \in localized \cup IF defaults = {} THEN {} ELSE {0} |->
         items[IF n = 0 THEN Max(defaults) ELSE n]]

\* The last of the values that is set.
LastSet(values, unset) ==
  LET set == {n \in DOMAIN values : values[n] # unset}
  IN  IF set = {} THEN unset ELSE values[Max(set)]

\* A colour of its own counts wherever it stands in the chain; one that is
\* only in a map counts for the first that has any.
Colour(chain) ==
  LET own    == LastSet([n \in DOMAIN chain |-> chain[n].color], Blank)
      mapped == {n \in DOMAIN chain : Or(chain[n].ui, chain[n].config) # Blank}
      first  == chain[Min(mapped)]
  IN  IF own # Blank \/ mapped = {} THEN own ELSE Or(first.ui, first.config)

Described(k, chain) ==
  LET value == Or(LastSet([n \in DOMAIN chain |-> chain[n].value], Blank),
                  KeyAsWord[k])
  IN  [key         |-> k,
       value       |-> value,
       label       |-> Or(chain[Max(DOMAIN chain)].label, value),
       description |-> LastSet([n \in DOMAIN chain |-> chain[n].description], Blank),
       order       |-> LastSet([n \in DOMAIN chain |-> chain[n].order], 0),
       status      |-> Or(LastSet([n \in DOMAIN chain |-> chain[n].status], Blank),
                        "active"),
       color       |-> Colour(chain)]

\* Every key that is described and not disabled.
Reference(items, locale, texts) ==
  LET Keyed == {k \in Keys : DOMAIN Chain(items, locale, k) # {}}
      All   == {Described(k, Chain(items, locale, k)) : k \in Keyed}
  IN  {WithTexts(i, texts) : i \in {j \in All : j.status = "active"}}

=============================================================================
