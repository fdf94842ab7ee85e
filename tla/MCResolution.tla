---------------------------- MODULE MCResolution ----------------------------
(***************************************************************************)
(* The inputs of Resolution for TLC: items that differ in what is          *)
(* inherited and localized, a definition of each type, and texts in one    *)
(* locale and in two.                                                      *)
(***************************************************************************)
EXTENDS Resolution

MCKeyOrder  == <<"gold", "silver">>
MCKeyAsWord == [k \in Keys \cup {Blank} |-> k]

\* A word that starts with a dot, a key that ends in one, and a lone dot.
MCSplit ==
  [name \in Words \cup Keys \cup {Blank} |->
     CASE name = "x" -> <<Blank, "x">>
       [] name = "silver" -> <<"silver", Blank>>
       [] name = "y" -> <<Blank, Blank>>
       [] OTHER -> <<name>>]

Plain == [key |-> "gold", locale |-> Blank, value |-> Blank, label |-> Blank,
          description |-> Blank, order |-> 0, status |-> Blank, color |-> Blank,
          ui |-> Blank, config |-> Blank]

MCPool ==
  LET German == [Plain EXCEPT !.locale = "de"]
  IN  {[Plain EXCEPT !.value = "x", !.order = 2, !.config = "y"],
       [Plain EXCEPT !.label = "x", !.status = "disabled", !.color = "x"],
       [Plain EXCEPT !.key = "silver", !.order = 1, !.ui = "x"],
       [Plain EXCEPT !.key = Blank, !.label = "y"],
       [German EXCEPT !.label = "y", !.ui = "x"],
       [German EXCEPT !.value = "y", !.order = 1, !.status = "active"],
       [German EXCEPT !.status = "disabled", !.description = "y"],
       [German EXCEPT !.key = "silver", !.color = "y"],
       [German EXCEPT !.key = Blank],
       [Plain EXCEPT !.locale = "fr", !.description = "x", !.config = "x"]}

Untitled(type) ==
  [type |-> type, key |-> "r", name |-> Blank, title |-> Blank,
   description |-> Blank, parts |-> <<>>, readable |-> TRUE, items |-> <<>>]

MCTier == [Untitled("dictionary") EXCEPT !.key = "tier"]

Option == [key |-> "x", value |-> Blank, label |-> "z", description |-> Blank]

MCDefinitions ==
  {Untitled(t) : t \in {"object", "skill", "agent", "workflow", "report",
                         "dictionary", "scheduler"}}
    \cup {[Untitled("dictionary") EXCEPT !.readable = FALSE],
          [Untitled("validation") EXCEPT !.title = "x"],
          [Untitled("action") EXCEPT !.name = "x", !.parts = <<Option>>],
          [Untitled("field") EXCEPT !.parts =
             <<Option, [Option EXCEPT !.label = Blank, !.description = "y"],
               [Option EXCEPT !.key = Blank]>>]}

MCEntityOrder ==
  <<Entity("action", <<"r">>, "label"),
    Entity("action_payload_field", <<"r", Blank, "x">>, "name"),
    Entity("agent", <<"r">>, "description"), Entity("agent", <<"r">>, "name"),
    Entity("app", <<"app">>, "name"),
    Entity("dictionary", <<"r">>, "description"),
    Entity("dictionary", <<"r">>, "name"),
    Entity("dictionary", <<"tier">>, "description"),
    Entity("dictionary", <<"tier">>, "name"),
    Entity("dictionary_item", <<"tier">>, "description"),
    Entity("dictionary_item", <<"tier">>, "label"),
    Entity("dictionary_item", <<"tier", "gold">>, "description"),
    Entity("dictionary_item", <<"tier", "gold">>, "label"),
    Entity("dictionary_item", <<"tier", "silver">>, "description"),
    Entity("dictionary_item", <<"tier", "silver">>, "label"),
    Entity("dictionary_item", <<"tier", Blank, "x">>, "description"),
    Entity("dictionary_item", <<"tier", Blank, "x">>, "label"),
    Entity("field", <<"r">>, "name"),
    Entity("field_option", <<"r", Blank, "x">>, "description"),
    Entity("field_option", <<"r", Blank, "x">>, "label"),
    Entity("object", <<"r">>, "description"), Entity("object", <<"r">>, "name"),
    Entity("report", <<"r">>, "name"),
    Entity("skill", <<"r">>, "description"), Entity("skill", <<"r">>, "name"),
    Entity("validation", <<"r">>, "message"),
    Entity("workflow", <<"r">>, "name")>>

MCPlace ==
  [e \in {MCEntityOrder[n] : n \in DOMAIN MCEntityOrder} |->
     CHOOSE n \in DOMAIN MCEntityOrder : MCEntityOrder[n] = e]

GoldLabel == Entity("dictionary_item", <<"tier", "gold">>, "label")
MCTexts ==
  {<<>>, (<<"de", GoldLabel>> :> "z"),
   [e \in {"de"} \X {GoldLabel, Entity("object", <<"r">>, "name")} |-> "z"]
     @@ [e \in {"fr"} \X {MCEntityOrder[n] : n \in DOMAIN MCEntityOrder} |-> "y"]}

=============================================================================
