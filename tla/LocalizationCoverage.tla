------------------------ MODULE LocalizationCoverage ------------------------
(***************************************************************************)
(* The coverage of a catalog by its localized texts: what a catalog is     *)
(* expected to have translated, how each text is resolved, and how many    *)
(* are missing, as the code computes it and as a closed form says it is.   *)
(*                                                                         *)
(* An entity is what a text belongs to: a type, a key and a property.  The *)
(* code joins names with dots to make a key, and a name may have dots of   *)
(* its own; a key is represented by the segments between its dots.         *)
(***************************************************************************)
EXTENDS DictionaryMerge

CONSTANTS
  Split,           \* Split[name]: the segments of a name, between its dots
  Place            \* Place[e]: the place of the sort key of e among all

\* A name without dots is one segment; a dot at an end leaves a blank one.
ASSUME NamesHaveSegments ==
  /\ DOMAIN Split = Words \cup Keys \cup {Blank}
  /\ Split[Blank] = <<Blank>>
  /\ \A name \in DOMAIN Split : Split[name] # <<>>
  /\ \A k \in Keys : Split[KeyAsWord[k]] = Split[k]

\* Without the dots at either end.
Trim(segments) ==
  LET solid == {n \in DOMAIN segments : segments[n] # Blank}
  IN  IF solid = {} THEN <<>> ELSE SubSeq(segments, Min(solid), Max(solid))

\* Two names with a dot between them.
Join(key, part) == Trim(Split[key] \o Split[part])

\* The key starts with the dictionary's and a dot.
Within(key, dictionary) == IsStrictPrefix(Split[dictionary], key)

\* The payload of a definition, cut down to what is displayed: title is the
\* payload's name, message or label, parts are the options of a field or the
\* payload fields of an action.  readable: the payload is one of a dictionary.
Part == [key : Words \cup {Blank}, value : Words \cup {Blank},
         label : Words \cup {Blank}, description : Words \cup {Blank}]

\* The types of definitions: those of which a text is displayed, and the rest.
Displayed ==
  {"object", "field", "validation", "action", "dictionary", "workflow",
   "report", "skill", "agent"}

Types ==
  Displayed \cup {"automation_rule", "integration_event_mapping",
    "operation_state_example", "sensitive_field_policy",
    "report_export_control", "identity_profile_binding", "scheduler"}

\* Stored keys are not blank; one of nothing but dots is left out.
ResourceKeys == {key \in Words : Trim(Split[key]) # <<>>}

Definition ==
  [type : Types, key : ResourceKeys, name : Words \cup {Blank},
   title : Words \cup {Blank}, description : Words \cup {Blank},
   parts : Seq(Part), readable : BOOLEAN, items : Seq(Item)]

-----------------------------------------------------------------------------
(***************************************************************************)
(* As the code computes it.                                                *)
(***************************************************************************)
Expect(type, key, property, default) ==
  [entity |-> [type |-> type, key |-> key, property |-> property],
   default |-> default]

\* Mutant: a dictionary item is known by its value.
ItemKeyByValue(d, i) == Join(d.key, Or(i.value, i.key))

ItemKey(d, i) == Join(d.key, Or(i.key, i.value))

\* An option is expected to be translated as far as it has a text.
OptionTexts(d, o) ==
  LET key == Or(o.value, o.key)
      Text(property, text) ==
        IF key = Blank \/ text = Blank THEN <<>>
        ELSE <<Expect("field_option", Join(d.key, key), property, text)>>
  IN  Text("label", o.label) \o Text("description", o.description)

\* Mutant: what has no text of its own needs no translation.
ItemTextsIfWritten(d, i) ==
  IF i.label = Blank THEN <<>>
  ELSE <<Expect("dictionary_item", ItemKey(d, i), "label", i.label)>>

ItemTexts(d, i) ==
  <<Expect("dictionary_item", ItemKey(d, i), "label", i.label),
    Expect("dictionary_item", ItemKey(d, i), "description", i.description)>>

PayloadFieldText(d, field) ==
  Expect("action_payload_field", Join(d.key, field.key), "name", field.label)

\* Nothing is expected of a dictionary whose payload is none.
DefinitionTexts(d) ==
  LET Own(property, text) == <<Expect(d.type, Split[d.key], property, text)>>
      name == Or(d.name, d.title)
  IN  CASE d.type \in {"object", "skill", "agent"} ->
             Own("name", name) \o Own("description", d.description)
        [] d.type \in {"workflow", "report"} -> Own("name", name)
        [] d.type = "validation" -> Own("message", name)
        [] d.type = "field" ->
             Own("name", name) \o
               FlattenSeq([n \in DOMAIN d.parts |-> OptionTexts(d, d.parts[n])])
        [] d.type = "action" ->
             Own("label", name) \o
               [n \in DOMAIN d.parts |-> PayloadFieldText(d, d.parts[n])]
        [] d.type = "dictionary" /\ d.readable ->
             Own("name", Or(d.title, d.name)) \o Own("description", d.description)
               \o FlattenSeq([n \in DOMAIN d.items |-> ItemTexts(d, d.items[n])])
        [] OTHER -> <<>>

LocalizedTextExpectedItems(name, definitions) ==
  <<Expect("app", <<"app">>, "name", name)>> \o
    FlattenSeq([n \in DOMAIN definitions |-> DefinitionTexts(definitions[n])])

\* texts: the localized texts of a workspace, by locale and entity.
Said(texts, locale, entity) ==
  IF locale # Blank /\ <<locale, entity>> \in DOMAIN texts
  THEN texts[<<locale, entity>>] ELSE Blank

\* The names a key is made of, as words.
HumanizeMetadataKey(key) == <<"words", key>>

\* Mutant: a text of the fallback locale counts as a translation.
ResolveTextLeniently(texts, locale, fallback, e) ==
  LET As(text, from) == [entity |-> e.entity, text |-> text, from |-> from,
                         missing |-> from \notin {"requested_locale", "fallback_locale"}]
      requested == Said(texts, locale, e.entity)
      other     == Said(texts, fallback, e.entity)
  IN  IF requested # Blank THEN As(requested, "requested_locale")
      ELSE IF other # Blank THEN As(other, "fallback_locale")
      ELSE IF e.default # Blank THEN As(e.default, "default_field")
      ELSE As(HumanizeMetadataKey(e.entity.key), "humanized_key")

ResolveText(texts, locale, fallback, e) ==
  LET As(text, from) == [entity |-> e.entity, text |-> text, from |-> from,
                         missing |-> from # "requested_locale"]
      requested == Said(texts, locale, e.entity)
      other     == Said(texts, fallback, e.entity)
  IN  IF requested # Blank THEN As(requested, "requested_locale")
      ELSE IF other # Blank THEN As(other, "fallback_locale")
      ELSE IF e.default # Blank THEN As(e.default, "default_field")
      ELSE As(HumanizeMetadataKey(e.entity.key), "humanized_key")

\* An item with its sort key, missing texts first; the last of the key is where
\* it was.  (The order in which the code leaves items with one key makes no
\* difference here.)
Line(n, item) ==
  <<IF item.missing THEN 0 ELSE 1, Place[item.entity], n, item>>

SortsBefore(l, m) ==
  \/ l[1] < m[1]
  \/ l[1] = m[1] /\ l[2] < m[2]
  \/ l[1] = m[1] /\ l[2] = m[2] /\ l[3] < m[3]

LocalizedTextCoverage(locale, fallback, name, definitions, texts) ==
  LET expected == LocalizedTextExpectedItems(name, definitions)
      lines    == {Line(n, ResolveText(texts, locale, fallback, expected[n])) :
                     n \in DOMAIN expected}
      ordered  == InOrder(lines, SortsBefore)
  IN  [items   |-> [n \in DOMAIN ordered |-> ordered[n][4]],
       missing |-> Cardinality({l \in lines : l[4].missing}),
       total   |-> Len(expected)]

\* A fallback to the requested locale is none.
Coverage(locale, fallback, name, definitions, texts) ==
  LocalizedTextCoverage(locale, IF fallback = locale THEN Blank ELSE fallback,
                        name, definitions, texts)

\* The texts that Items looks up for the items of a dictionary, among those
\* whose key starts with the dictionary's.
TextsOfItems(texts, dictionary, locale) ==
  LET Of(key, property) ==
        IF Within(key, dictionary)
        THEN Said(texts, locale, [type |-> "dictionary_item", key |-> key,
                                  property |-> property])
        ELSE Blank
  IN  [k \in Keys |-> [label |-> Of(Join(dictionary, k), "label"),
                       description |-> Of(Join(dictionary, k), "description")]]

=============================================================================
