------------------------------- MODULE MCHTTP -------------------------------
(***************************************************************************)
(* Instances of MetadataHTTP for TLC, with one client and one dictionary:  *)
(* every route without a host, and the items alone, beside a host.        *)
(***************************************************************************)
EXTENDS MetadataHTTP, TLC

CONSTANTS a, dict, h1, h2, v1, v2, w1, w2, en, k1, t1, t2, client, host,
          dictionary, every

MCWorkspaceOrder == <<w1, w2>>

Publication(v, ds, x) ==
  [identified |-> TRUE, version |-> v, source |-> a, defs |-> ds,
   texts |-> [w \in Workspaces |->
                <<[key |-> k1, valid |-> TRUE,
                   text |-> IF w = w1 THEN x ELSE IF x = t1 THEN t2 ELSE t1]>>]]

Content(h) == <<[res |-> dict, hash |-> h, valid |-> TRUE]>>

\* A dictionary, and something in its place that is none, with other texts.
MCSnapshots == {Publication(v1, Content(h1), t1), Publication(v2, Content(h2), t2)}

MCIdOf      == [v \in VersionIds |-> v]
MCItemTexts == [x \in Resources \X Locales |-> {k1}]
MCVersionOf == [h \in Hashes |-> IF h = h1 THEN 1 ELSE 2]
MCKindOf    == [r \in Resources |-> dictionary]
MCFiltered  == [f \in Filters |-> {k1}]
MCHome      == [c \in Clients |-> w1]

MCQueries ==
  {[workspace |-> w1, dictionary |-> r, locale |-> en] : r \in {dict, Blank}}

Get(route, workspace, about, locale) ==
  [route |-> route, workspace |-> workspace, about |-> about, locale |-> locale]

AllTexts == Get("texts", w1, every, Blank)

MCUrls ==
  {Get("definitions", Blank, dictionary, Blank), Get("definitions", w2, Blank, Blank),
   Get("definitions", w1, every, Blank),
   Get("definition", Blank, dict, Blank), Get("definition", w2, Blank, Blank),
   AllTexts, Get("texts", w2, every, Blank),
   Get("csv", Blank, every, Blank), Get("xlsx", w2, every, Blank),
   Get("coverage", w2, Blank, en), Get("coverage", Blank, Blank, Blank),
   Get("items", w2, dict, en), Get("items", Blank, Blank, en)}

Allowed(route) == [action |-> route, effect |-> "allow", whole |-> TRUE]
Partly(route)  == [Allowed(route) EXCEPT !.whole = FALSE]
Denied(route)  == [Allowed(route) EXCEPT !.effect = "deny"]

User(policies) ==
  [known |-> TRUE, workspace |-> w1, permissions |-> Routes,
   bundle |-> [own |-> TRUE, policies |-> policies]]

Admin == User(<<Allowed("definitions"), Allowed("definition"), Denied("items"),
                Allowed("texts"), Partly("texts"), Allowed("csv"),
                Allowed("xlsx"), Allowed("coverage")>>)

MCOthers ==
  {User(<<Denied("texts"), Allowed("texts")>>), User(<<Partly("texts")>>),
   User(<<Allowed("csv")>>), [Admin EXCEPT !.permissions = {"csv"}],
   [Admin EXCEPT !.bundle = NoBundle], [Admin EXCEPT !.bundle.own = FALSE],
   [Admin EXCEPT !.known = FALSE], [Admin EXCEPT !.workspace = Blank]}

MCRequests == [url : MCUrls, principal : {Admin}]
                \cup [url : {AllTexts}, principal : MCOthers]

-----------------------------------------------------------------------------
\* Two publications that differ in the texts alone; a host may make the second
\* in a transaction of its own.
ItemsSnapshots == {Publication(v1, Content(h1), t1), Publication(v2, Content(h1), t2)}
HostDrafts     == {Publication(v2, Content(h1), t2)}

\* Only the items are asked for.
ItemsQueries  == {[workspace |-> w1, dictionary |-> dict, locale |-> en]}
ItemsRequests == [url : {Get("items", Blank, dict, en)}, principal : {Admin}]

=============================================================================
