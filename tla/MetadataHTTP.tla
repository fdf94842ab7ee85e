---------------------------- MODULE MetadataHTTP ----------------------------
(***************************************************************************)
(* The HTTP adapter: who is answered what, and what a client may show      *)
(* without asking again, while sources publish and time passes.            *)
(*                                                                         *)
(* A request is authorized and answered from one read of the store, except *)
(* two: the coverage of the localized texts reads texts, definitions and   *)
(* the projection's name in statements of their own, and the items of a    *)
(* dictionary are a call of DictionaryService.Items.  Publications fall    *)
(* between the reads.                                                      *)
(*                                                                         *)
(* Items is also called by others in the process, which share its cache    *)
(* with the adapter: by the host, in its transaction too.  The calls of    *)
(* clients are made outside any transaction.                               *)
(*                                                                         *)
(* A client acts in one workspace.  It is a private cache, as the headers  *)
(* of the answers allow: it keeps an answer for MaxAge, and asks again     *)
(* with the tag of the answer it kept.                                     *)
(*                                                                         *)
(* A body is represented by the rows it is made of, a tag by the body it   *)
(* is the hash of.                                                         *)
(***************************************************************************)
EXTENDS DictionaryService

CONSTANTS
  Clients,         \* of the HTTP adapter; the other readers call Items
  Home,            \* Home[c]: the workspace client c acts in
  Requests,        \* what may be asked, and by whom
  Kinds,           \* supported definition types
  KindOf,          \* KindOf[r]: the type of a definition
  Filters,         \* what localized texts may be narrowed down to
  Filtered,        \* Filtered[f]: the texts that leaves
  MaxAge,          \* of the answers that may be kept
  NoBundle,        \* a principal without an access bundle
  NoBody,          \* a request without a tag, an answer without a body
  NoRequest,       \* the client waits for no answer
  NoReply          \* no request was answered in the last step

ASSUME ClientsAsk == Clients \subseteq Readers \ HostReaders

Routes == {"definitions", "definition", "texts", "coverage", "csv", "xlsx",
           "items"}

\* about is a type, a definition, a filter or a dictionary.
Url == [route : Routes, workspace : Workspaces \cup {Blank},
        about : Kinds \cup Resources \cup Filters \cup {Blank},
        locale : Locales \cup {Blank}]

\* A data policy: for the action of a route, and whether it covers all data.
Policy == [action : Routes, effect : {"allow", "deny", "other"}, whole : BOOLEAN]

\* own: the bundle is of the principal's user and workspace.
Principal ==
  [known : BOOLEAN, workspace : Workspaces \cup {Blank},
   permissions : SUBSET Routes,
   bundle : {NoBundle} \cup [own : BOOLEAN, policies : Seq(Policy)]]

ASSUME RequestsTyped == Requests \subseteq [url : Url, principal : Principal]

ASSUME ItemsCanBeAsked ==
  \A c \in Clients, q \in Requests :
    q.url.route = "items" =>
      [workspace |-> Home[c], dictionary |-> q.url.about, locale |-> q.url.locale]
        \in Queries

ASSUME TextsCanBeAsked ==
  /\ Filtered \in [Filters -> SUBSET TextKeys]
  /\ \A q \in Requests :
       q.url.route \in {"texts", "csv", "xlsx"} => q.url.about \in Filters

ASSUME AnswersAge == MaxAge \in Nat \ {0}

VARIABLES
  request,         \* request[c]: the request the server is working on
  kept,            \* kept[c]: the answer the client keeps
  reply,           \* who was answered in the last step, and with what
  held             \* history: when tables were last the committed ones

allVars == <<vars, request, kept, reply, held>>

-----------------------------------------------------------------------------
(***************************************************************************)
(* Authorization.                                                          *)
(***************************************************************************)
Allows(policy) == policy.effect = "allow" /\ policy.whole

\* A policy for the action; denied is the early return.
\* Mutant: the last policy decides.
LastPolicyDecides(verdict, policy) ==
  CASE policy.effect = "deny" -> "denied"
    [] Allows(policy) -> "allowed"
    [] OTHER -> verdict

ApplyPolicy(verdict, policy) ==
  CASE verdict = "denied" \/ policy.effect = "deny" -> "denied"
    [] verdict # "denied" /\ Allows(policy) -> "allowed"
    [] OTHER -> verdict

\* The loop over the policies; those for other actions are passed over.
Verdict(policies, action) ==
  LET after[n \in 0 .. Len(policies)] ==
        IF n = 0 THEN "silent"
        ELSE IF policies[n].action = action
             THEN ApplyPolicy(after[n - 1], policies[n])
             ELSE after[n - 1]
  IN  after[Len(policies)]

MetadataWorkspacePermission(p, action) ==
  /\ action \in p.permissions
  /\ p.bundle # NoBundle
  /\ p.bundle.own
  /\ Verdict(p.bundle.policies, action) = "allowed"

\* The items of dictionaries need no permission.
MetadataPrincipal(p, route) ==
  /\ p.known
  /\ p.workspace # Blank
  /\ route # "items" => MetadataWorkspacePermission(p, route)

SameWorkspace(requested, workspace) == requested \in {Blank, workspace}

\* Coverage and items are of the principal's workspace, a definition of none.
NamesWorkspace == {"definitions", "texts", "csv", "xlsx"}

Authorized(p, url) ==
  /\ MetadataPrincipal(p, url.route)
  /\ url.route \in NamesWorkspace => SameWorkspace(url.workspace, p.workspace)

-----------------------------------------------------------------------------
(***************************************************************************)
(* The reads.                                                              *)
(***************************************************************************)
Enabled(d, r) ==
  IF d.defs[r] = Absent THEN Absent
  ELSE IF d.defs[r].disabled THEN Absent ELSE d.defs[r]

Enableds(d, rs) == [r \in rs |-> Enabled(d, r)]

\* Without a type, all of them.
Listed(kind) == {r \in Resources : kind \in {Blank, KindOf[r]}}

Empty == [defs |-> <<>>, txts |-> <<>>, proj |-> <<>>, items |-> NoItems]

ListDefinitions(d, kind) == [Empty EXCEPT !.defs = Enableds(d, Listed(kind))]

GetDefinition(d, r) == [Empty EXCEPT !.defs = Enableds(d, {r})]

TextRows(d, ids) == [id \in ids |-> d.txts[id]]

ListLocalizedTexts(d, w, f) ==
  [Empty EXCEPT !.txts = TextRows(d, {w} \X Filtered[f])]

-----------------------------------------------------------------------------
(***************************************************************************)
(* Requests and answers.                                                   *)
(***************************************************************************)
Statuses == {200, 304, 400, 403, 404, 500}

Cached == {"definitions", "definition", "texts", "coverage", "items"}
Tagged == Cached \ {"items"}

\* Some of a table's rows.
Part(ids, rows) == UNION {[some -> rows \cup {Absent}] : some \in SUBSET ids}

Bodies ==
  [defs : Part(Resources, DefinitionRow), txts : Part(TextIds, TextRow),
   proj : Part({Current}, ProjectionRow), items : ItemSets \cup {NoItems}]

\* What the server works on, and what it has read so far.
Pending ==
  [url : Url, principal : Principal, tag : Bodies \cup {NoBody},
   asked : 0 .. MaxClock, step : {"handler", "definitions", "name", "items"},
   read : Bodies]

Replies == [client : Clients, status : Statuses, body : Bodies]

KeptAnswer ==
  [url : Url, body : Bodies, asked : 0 .. MaxClock, sent : 0 .. MaxClock]

ASSUME MarkersAreNoValues ==
  /\ NoRequest \notin Pending
  /\ NoBody \notin Bodies
  /\ NoQuery \notin Queries
  /\ NoAnswer \notin Answers

TypeInvariant ==
  /\ TypeOK
  /\ request \in [Clients -> Pending \cup {NoRequest}]
  /\ kept \in [Clients -> KeptAnswer \cup {NoEntry}]
  /\ reply \in Replies \cup {NoReply}
  /\ held \in [DOMAIN held -> 0 .. clock]
  /\ \A c \in Clients : request[c] # NoRequest =>
       /\ [url |-> request[c].url, principal |-> request[c].principal] \in Requests
       /\ request[c].asked <= clock
       /\ request[c].step = "items" <=> query[c] # NoQuery
  /\ \A c \in Clients : kept[c] # NoEntry =>
       /\ kept[c].url.route \in Cached
       /\ kept[c].asked <= kept[c].sent /\ kept[c].sent <= clock

HTTPInit ==
  /\ Init
  /\ request = [c \in Clients |-> NoRequest]
  /\ kept = [c \in Clients |-> NoEntry]
  /\ reply = NoReply
  /\ held = <<>>

\* What the client sends along is the tag of what it keeps, or nothing.
Tags(c, url) ==
  {NoBody} \cup IF /\ kept[c] # NoEntry
                   /\ kept[c].url = url
                   /\ url.route \in Tagged
                THEN {kept[c].body} ELSE {}

Send(c) ==
  /\ request[c] = NoRequest
  /\ \E q \in Requests :
       \E tag \in Tags(c, q.url) :
         /\ q.principal.workspace \in {Blank, Home[c]}
         /\ request' = [request EXCEPT ![c] =
              [url |-> q.url, principal |-> q.principal, tag |-> tag,
               asked |-> clock, step |-> "handler", read |-> Empty]]
  /\ reply' = NoReply
  /\ answer' = NoAnswer
  /\ UNCHANGED <<environment, calls, current, kept, held>>

\* The request is answered; an error, which has no rows, is not stored.
Respond(c, status, body) ==
  /\ request' = [request EXCEPT ![c] = NoRequest]
  /\ reply' = [client |-> c, status |-> status, body |-> body]
  /\ UNCHANGED held

RespondError(c, status) == Respond(c, status, Empty) /\ UNCHANGED kept

\* Mutant: any tag matches.
AnyTagMatches(c, body) == request[c].tag # NoBody

Matches(c, body) == request[c].tag = body

Keep(c, body) ==
  kept' = [kept EXCEPT ![c] =
    [url |-> request[c].url, body |-> body,
     asked |-> request[c].asked, sent |-> clock]]

WriteCachedJSON(c, body) ==
  \/ /\ Matches(c, body)
     /\ Respond(c, 304, Empty)
     /\ Keep(c, kept[c].body)
  \/ /\ ~Matches(c, body)
     /\ Respond(c, 200, body)
     /\ Keep(c, body)

Idle == answer' = NoAnswer /\ UNCHANGED <<environment, calls, current>>

At(c, step, route) ==
  request[c] # NoRequest /\ request[c].step = step /\ request[c].url.route = route

Admitted(c) == Authorized(request[c].principal, request[c].url)

Forbid(c) ==
  /\ request[c] # NoRequest
  /\ request[c].step = "handler"
  /\ ~Admitted(c)
  /\ RespondError(c, 403)
  /\ Idle

AnswerDefinitions(c) ==
  LET kind == request[c].url.about IN
  /\ At(c, "handler", "definitions")
  /\ Admitted(c)
  /\ IF kind \in Kinds \cup {Blank}
     THEN WriteCachedJSON(c, ListDefinitions(db, kind))
     ELSE RespondError(c, 400)
  /\ Idle

\* Without a definition, the url names a type that is not supported.
AnswerDefinition(c) ==
  LET r == request[c].url.about IN
  /\ At(c, "handler", "definition")
  /\ Admitted(c)
  /\ \/ r \notin Resources /\ RespondError(c, 400)
     \/ r \in Resources /\ Enabled(db, r) = Absent /\ RespondError(c, 404)
     \/ /\ r \in Resources
        /\ Enabled(db, r) # Absent
        /\ WriteCachedJSON(c, GetDefinition(db, r))
  /\ Idle

\* The workspace that is read is the one the url names, if it names one.
Requested(c) ==
  IF request[c].url.workspace = Blank THEN request[c].principal.workspace
  ELSE request[c].url.workspace

RequestedTexts(c) == ListLocalizedTexts(db, Requested(c), request[c].url.about)

AnswerTexts(c) ==
  /\ At(c, "handler", "texts")
  /\ Admitted(c)
  /\ WriteCachedJSON(c, RequestedTexts(c))
  /\ Idle

\* An export is not kept.
AnswerExport(c) ==
  /\ At(c, "handler", "csv") \/ At(c, "handler", "xlsx")
  /\ Admitted(c)
  /\ Respond(c, 200, RequestedTexts(c))
  /\ UNCHANGED kept
  /\ Idle

Read(c, body, step) ==
  /\ request' = [request EXCEPT ![c].read = body, ![c].step = step]
  /\ reply' = NoReply
  /\ UNCHANGED <<kept, held>>

CoverageTexts(c) ==
  /\ At(c, "handler", "coverage")
  /\ Admitted(c)
  /\ IF request[c].url.locale = Blank
     THEN RespondError(c, 400)
     ELSE Read(c, [Empty EXCEPT !.txts =
                     TextRows(db, {request[c].principal.workspace} \X TextKeys)],
               "definitions")
  /\ Idle

CoverageDefinitions(c) ==
  /\ At(c, "definitions", "coverage")
  /\ Read(c, [request[c].read EXCEPT !.defs = Enableds(db, Resources)], "name")
  /\ Idle

\* Before the first publication there is no name.
CoverageName(c) ==
  /\ At(c, "name", "coverage")
  /\ IF db.proj[Current] = Absent
     THEN RespondError(c, 500)
     ELSE WriteCachedJSON(c, [request[c].read EXCEPT !.proj = db.proj])
  /\ Idle

AskForItems(c) ==
  /\ At(c, "handler", "items")
  /\ Admitted(c)
  /\ Ask(c)
  /\ query'[c] = [workspace  |-> request[c].principal.workspace,
                  dictionary |-> request[c].url.about,
                  locale     |-> request[c].url.locale]
  /\ Read(c, Empty, "items")

StatusOf(outcome) ==
  CASE outcome = "items" -> 200
    [] outcome = "refused" -> 400
    [] outcome = "not_found" -> 404
    [] OTHER -> 500

\* The items are answered without a tag, in the step in which they are there.
AnswerItems(c) ==
  /\ At(c, "items", "items")
  /\ Call(c)
  /\ \/ /\ answer' = NoAnswer
        /\ reply' = NoReply
        /\ UNCHANGED <<request, kept, held>>
     \/ LET body == [Empty EXCEPT !.items = answer'.items] IN
        /\ answer' # NoAnswer
        /\ Respond(c, StatusOf(answer'.outcome), body)
        /\ IF answer'.outcome = "items" THEN Keep(c, body) ELSE UNCHANGED kept

\* Any read may fail, and so may one of the three of the coverage.
FailHandler(c) ==
  /\ request[c] # NoRequest
  /\ request[c].step # "items" /\ request[c].url.route # "items"
  /\ request[c].step = "handler" => Admitted(c)
  /\ RespondError(c, 500)
  /\ Idle

Serve(c) ==
  \/ Send(c) \/ Forbid(c)
  \/ AnswerDefinitions(c) \/ AnswerDefinition(c) \/ AnswerTexts(c)
  \/ AnswerExport(c)
  \/ CoverageTexts(c) \/ CoverageDefinitions(c) \/ CoverageName(c)
  \/ AskForItems(c) \/ AnswerItems(c) \/ FailHandler(c)

-----------------------------------------------------------------------------
(***************************************************************************)
(* What goes on besides: sources publish, the host opens and ends          *)
(* transactions, time passes, and others than clients call Items.          *)
(***************************************************************************)
Environment ==
  /\ \/ \E s \in Snapshots : Publish(s)
     \/ \E s \in Drafts : HostPublish(s)
     \/ HostCommit \/ HostRollback \/ Tick
     \/ \E r \in Readers \ Clients : Call(r)
  /\ held' = IF db' = db THEN held
             ELSE [d \in DOMAIN held \cup {db} |->
                     IF d = db THEN clock ELSE held[d]]
  /\ reply' = NoReply
  /\ UNCHANGED <<request, kept>>

HTTPNext == Environment \/ \E c \in Clients : Serve(c)

HTTPSpec == HTTPInit /\ [][HTTPNext]_allVars

-----------------------------------------------------------------------------
(***************************************************************************)
(* Properties.                                                             *)
(***************************************************************************)
\* Who may be answered: some policy allows the action on all data and none
\* denies it, in whatever order the bundle has them.
Entitled(p, url) ==
  /\ p.known
  /\ p.workspace # Blank
  /\ url.route # "items" =>
       /\ url.route \in p.permissions
       /\ p.bundle # NoBundle
       /\ p.bundle.own
       /\ LET policies == p.bundle.policies
              mine == {n \in DOMAIN policies : policies[n].action = url.route}
          IN  /\ \E n \in mine : Allows(policies[n])
              /\ \A n \in mine : policies[n].effect # "deny"

\* A request is refused if its principal is not entitled to the answer or
\* names another workspace, and only then; a tag opens nothing, and neither
\* does a step that is taken long after the check.  The texts in an answer,
\* exported ones too, are of the principal's workspace.
AuthorizedAnswers ==
  [][\A c \in Clients :
       reply' # NoReply /\ reply'.client = c =>
         LET url == request[c].url
             p   == request[c].principal
         IN  /\ reply'.status = 403 <=>
                  \/ ~Entitled(p, url)
                  \/ /\ url.route \in NamesWorkspace
                     /\ url.workspace \notin {Blank, p.workspace}
             /\ DOMAIN reply'.body.txts \subseteq {p.workspace} \X TextKeys]_allVars

\* Some tables that hold it were the committed ones less than age ago.
HeldWithin(age, Hold(_)) ==
  Hold(db) \/ \E d \in DOMAIN held : clock < held[d] + age /\ Hold(d)

\* The query's texts were t in a transaction of the host less than age ago.
DraftedWithin(age, q, t) ==
  \/ draft # NoDraft /\ t = TextsIn(draft, q)
  \/ \E txts \in DOMAIN past.draft :
       Reading(txts, q) = t /\ clock < past.draft[txts] + age

\* What a client may show without asking is what its workspace had less than
\* MaxAge ago, or the time it took to answer longer: each of the parts it was
\* read in, whether the answer was sent again or only confirmed by its tag.
\* The labels of a dictionary's items may be older by what the cache adds, whose
\* entries are last served TTL - 1 instants after they were read; and if the
\* host calls Items in its transaction, they may be those of the transaction,
\* committed or not: the cache does not tell them apart.  Everything else was
\* committed.
FreshAnswersAreRecent ==
  \A c \in Clients :
    LET k    == kept[c]
        body == k.body
        age  == MaxAge + k.sent - k.asked
        labelAge == age + (TTL - 1)
        q    == [workspace |-> Home[c], dictionary |-> k.url.about,
                 locale |-> k.url.locale]
    IN  k # NoEntry /\ clock < k.sent + MaxAge =>
          /\ DOMAIN body.txts \subseteq {Home[c]} \X TextKeys
          /\ HeldWithin(age, LAMBDA d : Enableds(d, DOMAIN body.defs) = body.defs)
          /\ HeldWithin(age, LAMBDA d : TextRows(d, DOMAIN body.txts) = body.txts)
          /\ HeldWithin(age, LAMBDA d : body.proj \in {<<>>, d.proj})
          /\ body.items # NoItems =>
               /\ HeldWithin(age, LAMBDA d : DefinitionIn(d, q) = body.items.content)
               /\ \/ HeldWithin(labelAge, LAMBDA d : TextsIn(d, q) = body.items.labels)
                  \/ HostReaders # {} /\ DraftedWithin(labelAge, q, body.items.labels)

=============================================================================
