---------------------------- MODULE MCDictionary ----------------------------
(***************************************************************************)
(* Instances of DictionaryService for TLC: one dictionary, one locale with *)
(* one text, two workspaces.                                               *)
(***************************************************************************)
EXTENDS DictionaryService, TLC

CONSTANTS a, dict, h1, h2, v1, v2, w1, w2, en, k1, t1, t2, host, reader1

MCWorkspaceOrder == <<w1, w2>>

\* The two workspaces never share a text.
Publication(v, ds, x) ==
  [identified |-> TRUE, version |-> v, source |-> a, defs |-> ds,
   texts |-> [w \in Workspaces |->
                <<[key |-> k1, valid |-> TRUE,
                   text |-> IF w = w1 THEN x ELSE IF x = t1 THEN t2 ELSE t1]>>]]

Content(h) == <<[res |-> dict, hash |-> h, valid |-> TRUE]>>

\* The dictionary and its texts change; the dictionary goes.
First  == Publication(v1, Content(h1), t1)
Second == Publication(v2, Content(h2), t2)
Last   == Publication(v2, <<>>, t1)

MCSnapshots == {First, Second, Last}
MCDrafts    == {Second}

MCIdOf      == [v \in VersionIds |-> v]
MCItemTexts == [x \in Resources \X Locales |-> {k1}]
MCVersionOf == [h \in Hashes |-> IF h = h1 THEN 1 ELSE 2]

In(w, l) == [workspace |-> w, dictionary |-> dict, locale |-> l]

MCQueries == {In(w1, en), In(Blank, en)}

=============================================================================
