-------------------------- MODULE MetadataHTTPProofs --------------------------
(***************************************************************************)
(* Proofs about MetadataHTTP, for any number of clients, requests and      *)
(* publications: what is kept and worked on has its type, and no client    *)
(* shows what is older than the two caches and the time to answer allow.   *)
(***************************************************************************)
EXTENDS MetadataHTTP, DictionaryServiceProofs, WellFoundedInduction

(***************************************************************************)
(* What the type invariant rests on: a client is in a call of Items while  *)
(* its request waits for items, only admitted requests are read for, no    *)
(* texts but those of the client's workspace are read, and the tag that    *)
(* was sent along is still that of the answer kept.                        *)
(***************************************************************************)
QueryOf(c, url) ==
  [workspace |-> Home[c], dictionary |-> url.about, locale |-> url.locale]

OwnTexts(c, body) == DOMAIN body.txts \subseteq {Home[c]} \X TextKeys

Working(c) ==
  request[c] # NoRequest =>
    /\ request[c].principal.workspace \in {Blank, Home[c]}
    /\ OwnTexts(c, request[c].read)
    /\ request[c].step # "handler" => Admitted(c)
    /\ request[c].step = "items" =>
         /\ request[c].url.route = "items"
         /\ query[c] = QueryOf(c, request[c].url)
    /\ request[c].tag # NoBody =>
         kept[c] # NoEntry /\ kept[c].body = request[c].tag

InItems(c) ==
  /\ pc[c] = "idle" <=> query[c] = NoQuery
  /\ request[c] = NoRequest => query[c] = NoQuery

HTTPTypeInv ==
  /\ TypeInvariant
  /\ TypeInv
  /\ \A c \in Clients : Working(c) /\ InItems(c)

-----------------------------------------------------------------------------
(***************************************************************************)
(* The calls of Items that the adapter makes are those of the service.     *)
(***************************************************************************)
LEMMA IdleLeavesService ==
  ASSUME Idle
  PROVE  /\ UNCHANGED <<db, draft, clock, past, cache, pc, query, content,
                        labels, started, current>>
         /\ answer' = NoAnswer
BY DEF Idle, environment, calls

\* A step of a client is one of its call of Items, or leaves all calls alone.
LEMMA ServeCallsOrIdles ==
  ASSUME NEW c \in Clients, Serve(c)
  PROVE  \/ AskForItems(c) /\ Call(c)
         \/ AnswerItems(c) /\ Call(c)
         \/ ~AskForItems(c) /\ ~AnswerItems(c) /\ Idle
<1>1. CASE AskForItems(c)
  BY <1>1 DEF AskForItems, Call
<1>2. CASE AnswerItems(c)
  BY <1>2 DEF AnswerItems
<1>3. CASE Send(c)
  BY <1>1, <1>2, <1>3 DEF Send, Idle
<1>4. CASE \/ Forbid(c) \/ AnswerDefinitions(c) \/ AnswerDefinition(c)
           \/ AnswerTexts(c) \/ AnswerExport(c) \/ CoverageTexts(c)
           \/ CoverageDefinitions(c) \/ CoverageName(c) \/ FailHandler(c)
  BY <1>1, <1>2, <1>4
     DEF Forbid, AnswerDefinitions, AnswerDefinition, AnswerTexts, AnswerExport,
         CoverageTexts, CoverageDefinitions, CoverageName, FailHandler
<1> QED
  BY <1>1, <1>2, <1>3, <1>4 DEF Serve

LEMMA IdleTyped ==
  ASSUME TypeInv, Idle
  PROVE  TypeInv'
<1>1. TypeOK'
  BY IdleLeavesService DEF TypeInv, TypeOK
<1> QED
  BY <1>1, IdleLeavesService DEF TypeInv, InCall

\* What the environment does is a step of the service.
LEMMA EnvironmentIsNext ==
  ASSUME Environment
  PROVE  Next /\ UNCHANGED <<request, kept>> /\ reply' = NoReply
BY DEF Environment, Next

LEMMA ServiceTyped == TypeInv /\ [HTTPNext]_allVars => TypeInv'
<1> SUFFICES ASSUME TypeInv, [HTTPNext]_allVars PROVE TypeInv'
  OBVIOUS
<1>1. CASE Environment
  BY <1>1, EnvironmentIsNext, StepTyped
<1>2. ASSUME NEW c \in Clients, Serve(c) PROVE TypeInv'
  <2>1. CASE Call(c)
    BY <2>1, ClientsAsk, StepTyped DEF Next
  <2> QED
    BY <1>2, <2>1, ServeCallsOrIdles, IdleTyped
<1>3. CASE UNCHANGED allVars
  BY <1>3, StutterTyped DEF allVars
<1> QED
  BY <1>1, <1>2, <1>3 DEF HTTPNext

\* A call ends in the step that answers, and only then.
LEMMA CallEnds ==
  ASSUME TypeInv, NEW c \in Readers, Call(c), pc[c] # "idle"
  PROVE  /\ answer' = NoAnswer => pc'[c] # "idle" /\ query' = query
         /\ answer' # NoAnswer =>
              /\ pc' = [pc EXCEPT ![c] = "idle"]
              /\ query' = [query EXCEPT ![c] = NoQuery]
              /\ answer' \in Answers /\ answer'.reader = c
<1> USE DEF TypeInv, TypeOK, Goto
<1>1. CASE \/ ReadClock(c) \/ Miss(c) \/ ReadTexts(c)
           \/ ReadDefinition(c) /\ pc'[c] # "idle"
  <2>1. CASE ReadDefinition(c) /\ pc'[c] # "idle"
    BY <2>1 DEF ReadDefinition, Return
  <2> QED
    BY <1>1, <2>1 DEF ReadClock, Miss, ReadTexts
<1>2. ASSUME NEW outcome \in Outcomes, NEW items \in ItemSets \cup {NoItems},
             Return(c, outcome, items)
      PROVE  /\ pc' = [pc EXCEPT ![c] = "idle"]
             /\ query' = [query EXCEPT ![c] = NoQuery]
             /\ answer' \in Answers /\ answer'.reader = c /\ answer' # NoAnswer
  BY <1>2, MarkersAreNoValues DEF Return, Answers
<1>3. ~Ask(c)
  BY DEF Ask
<1>4. CASE ~ \/ ReadClock(c) \/ Miss(c) \/ ReadTexts(c)
             \/ ReadDefinition(c) /\ pc'[c] # "idle"
  <2>1. \/ Refuse(c) /\ Return(c, "refused", NoItems) /\ cache' = cache
        \/ /\ ReadDefinition(c) /\ cache' = cache
           /\ \/ DefinitionIn(Seen(c), query[c]) = Absent
                 /\ Return(c, "not_found", NoItems)
              \/ Return(c, "invalid", NoItems)
        \/ AnswerFromCache(c)
        \/ Fill(c)
        \/ FailRead(c) /\ Return(c, "error", NoItems) /\ cache' = cache
    BY <1>3, <1>4, Returns
  <2>2. CASE AnswerFromCache(c)
    <3>1. query[c] \in Queries
      BY <2>2 DEF AnswerFromCache, InCall
    <3>2. cache[query[c]].items \in ItemSets
      BY <2>2, <3>1 DEF AnswerFromCache, Hit, CacheKey
    <3> QED
      BY <1>2, <2>2, <3>2 DEF AnswerFromCache, CacheKey, Outcomes
  <2>3. CASE Fill(c)
    BY <1>2, <2>3, ItemsTyped DEF Fill, Outcomes
  <2> QED
    BY <1>2, <2>1, <2>2, <2>3 DEF Outcomes
<1> QED
  BY <1>1, <1>4

-----------------------------------------------------------------------------
(***************************************************************************)
(* The bodies.  How the one a request is answered with, or the part of it  *)
(* that a step adds, comes about.                                          *)
(***************************************************************************)
ReadInStep(c, body) ==
  LET r == request[c] IN
  \/ /\ r.url.route = "definitions"
     /\ body = ListDefinitions(db, r.url.about)
  \/ /\ r.url.route = "definition"
     /\ r.url.about \in Resources
     /\ body = GetDefinition(db, r.url.about)
  \/ /\ r.url.route \in {"texts", "csv", "xlsx"}
     /\ body = ListLocalizedTexts(db, Home[c], r.url.about)
  \/ /\ r.url.route = "coverage"
     /\ \/ body = [Empty EXCEPT !.txts = TextRows(db, {Home[c]} \X TextKeys)]
        \/ body = [r.read EXCEPT !.defs = Enableds(db, Resources)]
        \/ body = [r.read EXCEPT !.proj = db.proj]
  \/ /\ r.url.route = "items"
     /\ \/ body = Empty
        \/ /\ r.step = "items"
           /\ Call(c)
           /\ Gives(c, "items")
           /\ body = [Empty EXCEPT !.items = answer'.items]

LEMMA PartTyped ==
  ASSUME NEW ids, NEW rows, NEW some \in SUBSET ids,
         NEW f \in [some -> rows \cup {Absent}]
  PROVE  f \in Part(ids, rows)
BY DEF Part

LEMMA EmptyTyped == Empty \in Bodies
<1>1. ASSUME NEW ids, NEW rows PROVE <<>> \in Part(ids, rows)
  <2>1. <<>> \in [{} -> rows \cup {Absent}]
    OBVIOUS
  <2> QED
    BY <2>1 DEF Part
<1> QED
  BY <1>1 DEF Empty, Bodies

LEMMA EmptyHasNoTexts ==
  ASSUME NEW c
  PROVE  OwnTexts(c, Empty)
BY DEF OwnTexts, Empty

LEMMA RowsTyped ==
  ASSUME NEW d \in Database
  PROVE  /\ \A rs \in SUBSET Resources :
              Enableds(d, rs) \in Part(Resources, DefinitionRow)
         /\ \A ids \in SUBSET TextIds : TextRows(d, ids) \in Part(TextIds, TextRow)
         /\ d.proj \in Part({Current}, ProjectionRow)
<1>1. ASSUME NEW rs \in SUBSET Resources
      PROVE  Enableds(d, rs) \in Part(Resources, DefinitionRow)
  <2>1. Enableds(d, rs) \in [rs -> DefinitionRow \cup {Absent}]
    BY DEF Enableds, Enabled, Database
  <2> QED
    BY <2>1, PartTyped
<1>2. ASSUME NEW ids \in SUBSET TextIds
      PROVE  TextRows(d, ids) \in Part(TextIds, TextRow)
  <2>1. TextRows(d, ids) \in [ids -> TextRow \cup {Absent}]
    BY DEF TextRows, Database
  <2> QED
    BY <2>1, PartTyped
<1>3. d.proj \in Part({Current}, ProjectionRow)
  <2>1. d.proj \in [{Current} -> ProjectionRow \cup {Absent}]
    BY DEF Database
  <2>2. {Current} \in SUBSET {Current}
    OBVIOUS
  <2> QED
    BY ONLY <2>1, <2>2, PartTyped
<1> QED
  BY <1>1, <1>2, <1>3

\* What a request and its answers are, in one place.
LEMMA PendingTyped ==
  ASSUME HTTPTypeInv, NEW c \in Clients, request[c] # NoRequest
  PROVE  /\ request[c] \in Pending
         /\ [url |-> request[c].url, principal |-> request[c].principal] \in Requests
         /\ request[c].url.route \in {"texts", "csv", "xlsx"} =>
              /\ request[c].url.about \in Filters
              /\ Filtered[request[c].url.about] \in SUBSET TextKeys
         /\ request[c].url.route = "items" => QueryOf(c, request[c].url) \in Queries
         /\ Admitted(c) => /\ request[c].principal.workspace = Home[c]
                           /\ Home[c] \in Workspaces
<1>1. request[c] \in Pending
  BY DEF HTTPTypeInv, TypeInvariant
<1>2. [url |-> request[c].url, principal |-> request[c].principal] \in Requests
  BY DEF HTTPTypeInv, TypeInvariant
<1>3. request[c].url.route \in {"texts", "csv", "xlsx"} =>
        /\ request[c].url.about \in Filters
        /\ Filtered[request[c].url.about] \in SUBSET TextKeys
  BY <1>2, TextsCanBeAsked
<1>4. request[c].url.route = "items" => QueryOf(c, request[c].url) \in Queries
  BY <1>2, ItemsCanBeAsked DEF QueryOf
<1>5. ASSUME Admitted(c)
      PROVE  request[c].principal.workspace = Home[c] /\ Home[c] \in Workspaces
  <2>1. request[c].principal.workspace # Blank
    BY <1>5 DEF Admitted, Authorized, MetadataPrincipal
  <2>2. request[c].principal.workspace \in {Blank, Home[c]}
    BY DEF HTTPTypeInv, Working
  <2>3. request[c].principal.workspace \in Workspaces \cup {Blank}
    BY <1>1 DEF Pending, Principal
  <2> QED
    BY <2>1, <2>2, <2>3
<1> QED
  BY <1>1, <1>2, <1>3, <1>4, <1>5

\* Whoever is admitted names no workspace but the client's.
LEMMA RequestedIsHome ==
  ASSUME HTTPTypeInv, NEW c \in Clients, request[c] # NoRequest, Admitted(c),
         request[c].url.route \in {"texts", "csv", "xlsx"}
  PROVE  RequestedTexts(c) = ListLocalizedTexts(db, Home[c], request[c].url.about)
<1>1. request[c].principal.workspace = Home[c]
  BY PendingTyped
<1>2. request[c].url.workspace \in {Blank, Home[c]}
  BY <1>1 DEF Admitted, Authorized, SameWorkspace, NamesWorkspace
<1>3. Requested(c) = Home[c]
  BY <1>1, <1>2 DEF Requested
<1> QED
  BY <1>3 DEF RequestedTexts

LEMMA BodyTyped ==
  ASSUME HTTPTypeInv, TypeInv', NEW c \in Clients, request[c] # NoRequest,
         Admitted(c), NEW body, ReadInStep(c, body)
  PROVE  body \in Bodies
<1> DEFINE r == request[c]
<1>1. db \in Database
  BY DEF HTTPTypeInv, TypeInv, TypeOK
<1>2. r.read \in Bodies
  BY PendingTyped DEF Pending
<1>3. Home[c] \in Workspaces
  BY PendingTyped
<1>4. CASE r.url.route = "definitions" /\ body = ListDefinitions(db, r.url.about)
  <2>1. Listed(r.url.about) \in SUBSET Resources
    BY DEF Listed
  <2> QED
    BY <1>1, <1>4, <2>1, RowsTyped, EmptyTyped DEF ListDefinitions, Bodies
<1>5. CASE r.url.about \in Resources /\ body = GetDefinition(db, r.url.about)
  <2>1. {r.url.about} \in SUBSET Resources
    BY <1>5
  <2> QED
    BY <1>1, <1>5, <2>1, RowsTyped, EmptyTyped DEF GetDefinition, Bodies
<1>6. CASE /\ r.url.route \in {"texts", "csv", "xlsx"}
           /\ body = ListLocalizedTexts(db, Home[c], r.url.about)
  <2>1. {Home[c]} \X Filtered[r.url.about] \in SUBSET TextIds
    BY <1>3, <1>6, PendingTyped DEF TextIds
  <2> QED
    BY <1>1, <1>6, <2>1, RowsTyped, EmptyTyped DEF ListLocalizedTexts, Bodies
<1>7. CASE body = [Empty EXCEPT !.txts = TextRows(db, {Home[c]} \X TextKeys)]
  <2>1. {Home[c]} \X TextKeys \in SUBSET TextIds
    BY <1>3 DEF TextIds
  <2> QED
    BY <1>1, <1>7, <2>1, RowsTyped, EmptyTyped DEF Bodies
<1>8. CASE body = [r.read EXCEPT !.defs = Enableds(db, Resources)]
  BY <1>1, <1>2, <1>8, RowsTyped DEF Bodies
<1>9. CASE body = [r.read EXCEPT !.proj = db.proj]
  BY <1>1, <1>2, <1>9, RowsTyped DEF Bodies
<1>10. CASE body = Empty
  BY <1>10, EmptyTyped
<1>11. CASE Gives(c, "items") /\ body = [Empty EXCEPT !.items = answer'.items]
  <2>1. answer' \in Answers
    BY <1>11 DEF HTTPTypeInv, TypeInv, TypeOK, Gives
  <2>2. answer'.items \in ItemSets \cup {NoItems}
    BY <2>1 DEF Answers
  <2> QED
    BY <1>11, <2>2, EmptyTyped DEF Bodies
<1> QED
  BY <1>4, <1>5, <1>6, <1>7, <1>8, <1>9, <1>10, <1>11 DEF ReadInStep

LEMMA BodyHasOwnTexts ==
  ASSUME HTTPTypeInv, NEW c \in Clients, request[c] # NoRequest,
         NEW body, ReadInStep(c, body)
  PROVE  OwnTexts(c, body)
<1> DEFINE r == request[c]
<1>1. r.read \in Bodies /\ OwnTexts(c, r.read)
  BY PendingTyped DEF Pending, HTTPTypeInv, Working
<1>2. ASSUME NEW defs PROVE OwnTexts(c, [Empty EXCEPT !.defs = defs])
  BY DEF OwnTexts, Empty
<1>3. ASSUME NEW items PROVE OwnTexts(c, [Empty EXCEPT !.items = items])
  BY DEF OwnTexts, Empty
<1>4. ASSUME NEW ks, ks \subseteq TextKeys
      PROVE  OwnTexts(c, [Empty EXCEPT !.txts = TextRows(db, {Home[c]} \X ks)])
  BY <1>4 DEF OwnTexts, Empty, TextRows
<1>5. ASSUME NEW defs PROVE OwnTexts(c, [r.read EXCEPT !.defs = defs])
  BY <1>1 DEF OwnTexts, Bodies
<1>6. ASSUME NEW proj PROVE OwnTexts(c, [r.read EXCEPT !.proj = proj])
  BY <1>1 DEF OwnTexts, Bodies
<1>7. CASE r.url.route = "definitions" \/ r.url.route = "definition"
  BY <1>2, <1>7 DEF ReadInStep, ListDefinitions, GetDefinition
<1>8. CASE r.url.route \in {"texts", "csv", "xlsx"}
  BY <1>4, <1>8, PendingTyped DEF ReadInStep, ListLocalizedTexts
<1>9. CASE r.url.route = "coverage"
  BY <1>4, <1>5, <1>6, <1>9 DEF ReadInStep
<1>10. CASE r.url.route = "items"
  BY <1>3, <1>10, EmptyHasNoTexts DEF ReadInStep
<1> QED
  BY <1>7, <1>8, <1>9, <1>10 DEF ReadInStep

-----------------------------------------------------------------------------
(***************************************************************************)
(* The steps of a client's request.                                        *)
(***************************************************************************)
Steps == {"handler", "definitions", "name", "items"}

Waits(c) == UNCHANGED <<request, kept>> /\ reply' = NoReply

Ends(c) ==
  /\ request' = [request EXCEPT ![c] = NoRequest]
  /\ reply' \in Replies
  /\ OwnTexts(c, reply'.body)

Reaches(c, body) ==
  body \in Bodies /\ Admitted(c) /\ ReadInStep(c, body) /\ OwnTexts(c, body)

GoesOn(c, body, step) ==
  /\ request' = [request EXCEPT ![c].read = body, ![c].step = step]
  /\ reply' = NoReply
  /\ UNCHANGED kept

Works(c) ==
  \/ Waits(c)
  \/ Ends(c) /\ UNCHANGED kept
  \/ /\ Ends(c)
     /\ request[c].url.route \in Cached
     /\ \E body : Reaches(c, body) /\ Keep(c, body)
  \/ \E body, step : step \in Steps /\ Reaches(c, body) /\ GoesOn(c, body, step)

LEMMA ResponseEnds ==
  ASSUME NEW c \in Clients, NEW status \in Statuses, NEW body \in Bodies,
         OwnTexts(c, body), Respond(c, status, body)
  PROVE  Ends(c) /\ UNCHANGED held
<1>1. [client |-> c, status |-> status, body |-> body] \in Replies
  BY DEF Replies
<1> QED
  BY <1>1 DEF Respond, Ends

\* A body that was read is kept, also if the tag confirms it.
LEMMA WritesWhatWasRead ==
  ASSUME HTTPTypeInv, TypeInv', NEW c \in Clients, request[c] # NoRequest,
         Admitted(c), request[c].url.route \in Cached, NEW body,
         ReadInStep(c, body), WriteCachedJSON(c, body)
  PROVE  Works(c) /\ UNCHANGED held
<1>1. body \in Bodies /\ OwnTexts(c, body)
  BY BodyTyped, BodyHasOwnTexts
<1>2. ASSUME Matches(c, body)
      PROVE  kept[c].body = body
  <2>1. request[c].tag # NoBody
    BY <1>1, <1>2, MarkersAreNoValues DEF Matches
  <2> QED
    BY <1>2, <2>1 DEF Matches, HTTPTypeInv, Working
<1>3. Keep(c, body)
  BY <1>2 DEF WriteCachedJSON
<1>4. Ends(c) /\ UNCHANGED held
  <2>1. 200 \in Statuses /\ 304 \in Statuses
    BY DEF Statuses
  <2> QED
    BY <1>1, <2>1, EmptyTyped, EmptyHasNoTexts, ResponseEnds DEF WriteCachedJSON
<1> QED
  BY <1>1, <1>3, <1>4 DEF Works, Reaches

LEMMA RefusalEnds ==
  ASSUME NEW c \in Clients, NEW status \in Statuses, RespondError(c, status)
  PROVE  Works(c) /\ UNCHANGED held
BY EmptyTyped, EmptyHasNoTexts, ResponseEnds DEF RespondError, Works

LEMMA ReadingGoesOn ==
  ASSUME HTTPTypeInv, TypeInv', NEW c \in Clients, request[c] # NoRequest,
         Admitted(c), NEW body, ReadInStep(c, body), NEW step \in Steps,
         Read(c, body, step)
  PROVE  Works(c) /\ UNCHANGED held
<1>1. body \in Bodies /\ OwnTexts(c, body)
  BY BodyTyped, BodyHasOwnTexts
<1> QED
  BY <1>1 DEF Works, Reaches, GoesOn, Read

LEMMA HandlerWorks ==
  ASSUME HTTPTypeInv, TypeInv', NEW c \in Clients,
         \/ Forbid(c) \/ AnswerDefinitions(c) \/ AnswerDefinition(c)
         \/ AnswerTexts(c) \/ AnswerExport(c) \/ CoverageTexts(c)
         \/ CoverageDefinitions(c) \/ CoverageName(c) \/ FailHandler(c)
  PROVE  request[c] # NoRequest /\ Works(c) /\ UNCHANGED held
<1> DEFINE r == request[c]
<1>1. {200, 304, 400, 403, 404, 500} = Statuses
  BY DEF Statuses
<1>2. ASSUME r # NoRequest, r.step # "handler" PROVE Admitted(c)
  BY <1>2 DEF HTTPTypeInv, Working
<1>3. ASSUME Admitted(c), r # NoRequest
      PROVE  r.principal.workspace = Home[c]
  BY <1>3, PendingTyped
<1>4. CASE Forbid(c) \/ FailHandler(c)
  BY <1>1, <1>4, RefusalEnds DEF Forbid, FailHandler
<1>5. CASE AnswerDefinitions(c)
  <2>1. r # NoRequest /\ r.url.route = "definitions" /\ Admitted(c)
    BY <1>5 DEF AnswerDefinitions, At
  <2>2. ReadInStep(c, ListDefinitions(db, r.url.about))
    BY <2>1 DEF ReadInStep
  <2>3. \/ WriteCachedJSON(c, ListDefinitions(db, r.url.about))
        \/ RespondError(c, 400)
    BY <1>5 DEF AnswerDefinitions
  <2>4. r.url.route \in Cached
    BY <2>1 DEF Cached
  <2> QED
    BY <1>1, <2>1, <2>2, <2>3, <2>4, WritesWhatWasRead, RefusalEnds
<1>6. CASE AnswerDefinition(c)
  <2>1. r # NoRequest /\ r.url.route = "definition" /\ Admitted(c)
    BY <1>6 DEF AnswerDefinition, At
  <2>2. r.url.about \in Resources => ReadInStep(c, GetDefinition(db, r.url.about))
    BY <2>1 DEF ReadInStep
  <2>3. \/ /\ r.url.about \in Resources
           /\ WriteCachedJSON(c, GetDefinition(db, r.url.about))
        \/ RespondError(c, 400)
        \/ RespondError(c, 404)
    BY <1>6 DEF AnswerDefinition
  <2>4. r.url.route \in Cached
    BY <2>1 DEF Cached
  <2> QED
    BY <1>1, <2>1, <2>2, <2>3, <2>4, WritesWhatWasRead, RefusalEnds
<1>7. CASE AnswerTexts(c)
  <2>1. r # NoRequest /\ r.url.route = "texts" /\ Admitted(c)
    BY <1>7 DEF AnswerTexts, At
  <2>2. ReadInStep(c, ListLocalizedTexts(db, Home[c], r.url.about))
    BY <2>1 DEF ReadInStep
  <2>3. WriteCachedJSON(c, ListLocalizedTexts(db, Home[c], r.url.about))
    BY <1>7, <2>1, RequestedIsHome DEF AnswerTexts
  <2>4. r.url.route \in Cached
    BY <2>1 DEF Cached
  <2> QED
    BY <2>1, <2>2, <2>3, <2>4, WritesWhatWasRead
<1>8. CASE AnswerExport(c)
  <2> DEFINE body == ListLocalizedTexts(db, Home[c], r.url.about)
  <2>1. r # NoRequest /\ r.url.route \in {"texts", "csv", "xlsx"} /\ Admitted(c)
    BY <1>8 DEF AnswerExport, At
  <2>2. ReadInStep(c, body)
    BY <2>1 DEF ReadInStep
  <2>3. body \in Bodies /\ OwnTexts(c, body)
    BY <2>1, <2>2, BodyTyped, BodyHasOwnTexts
  <2>4. Respond(c, 200, body) /\ kept' = kept
    BY <1>8, <2>1, RequestedIsHome DEF AnswerExport
  <2> QED
    BY <1>1, <2>1, <2>3, <2>4, ResponseEnds DEF Works
<1>9. CASE CoverageTexts(c)
  <2> DEFINE body == [Empty EXCEPT !.txts = TextRows(db, {Home[c]} \X TextKeys)]
  <2>1. r # NoRequest /\ r.url.route = "coverage" /\ Admitted(c)
    BY <1>9 DEF CoverageTexts, At
  <2>2. ReadInStep(c, body)
    BY <2>1 DEF ReadInStep
  <2>3. RespondError(c, 400) \/ Read(c, body, "definitions")
    BY <1>3, <1>9, <2>1 DEF CoverageTexts
  <2>4. "definitions" \in Steps
    BY DEF Steps
  <2> QED
    BY <1>1, <2>1, <2>2, <2>3, <2>4, ReadingGoesOn, RefusalEnds
<1>10. CASE CoverageDefinitions(c)
  <2> DEFINE body == [r.read EXCEPT !.defs = Enableds(db, Resources)]
  <2>1. r # NoRequest /\ r.url.route = "coverage" /\ Admitted(c)
    BY <1>2, <1>10 DEF CoverageDefinitions, At
  <2>2. ReadInStep(c, body)
    BY <2>1 DEF ReadInStep
  <2>3. Read(c, body, "name")
    BY <1>10 DEF CoverageDefinitions
  <2>4. "name" \in Steps
    BY DEF Steps
  <2> QED
    BY <2>1, <2>2, <2>3, <2>4, ReadingGoesOn
<1>11. CASE CoverageName(c)
  <2> DEFINE body == [r.read EXCEPT !.proj = db.proj]
  <2>1. r # NoRequest /\ r.url.route = "coverage" /\ Admitted(c)
    BY <1>2, <1>11 DEF CoverageName, At
  <2>2. ReadInStep(c, body)
    BY <2>1 DEF ReadInStep
  <2>3. RespondError(c, 500) \/ WriteCachedJSON(c, body)
    BY <1>11 DEF CoverageName
  <2>4. r.url.route \in Cached
    BY <2>1 DEF Cached
  <2> QED
    BY <1>1, <2>1, <2>2, <2>3, <2>4, WritesWhatWasRead, RefusalEnds
<1>12. request[c] # NoRequest
  BY DEF Forbid, AnswerDefinitions, AnswerDefinition, AnswerTexts, AnswerExport,
         CoverageTexts, CoverageDefinitions, CoverageName, FailHandler, At
<1> QED
  BY <1>4, <1>5, <1>6, <1>7, <1>8, <1>9, <1>10, <1>11, <1>12

LEMMA ItemsWork ==
  ASSUME HTTPTypeInv, TypeInv', NEW c \in Clients, AskForItems(c) \/ AnswerItems(c)
  PROVE  request[c] # NoRequest /\ Works(c) /\ UNCHANGED held
<1> DEFINE r == request[c]
<1>1. CASE AskForItems(c)
  <2>1. r # NoRequest /\ r.url.route = "items" /\ Admitted(c)
    BY <1>1 DEF AskForItems, At
  <2>2. ReadInStep(c, Empty)
    BY <2>1 DEF ReadInStep
  <2>3. Read(c, Empty, "items") /\ "items" \in Steps
    BY <1>1 DEF AskForItems, Steps
  <2> QED
    BY <2>1, <2>2, <2>3, ReadingGoesOn
<1>2. CASE AnswerItems(c)
  <2>1. /\ r # NoRequest /\ r.url.route = "items" /\ r.step = "items"
        /\ Call(c)
    BY <1>2 DEF AnswerItems, At
  <2>2. Admitted(c)
    BY <2>1 DEF HTTPTypeInv, Working
  <2>3. CASE answer' = NoAnswer
    BY <1>2, <2>1, <2>3 DEF AnswerItems, Works, Waits
  <2>4. CASE answer' # NoAnswer
    <3>1. answer' \in Answers /\ c \in Readers
      BY <2>4, ClientsAsk DEF TypeInv, TypeOK
    <3>2. answer'.outcome \in Outcomes
      BY <3>1 DEF Answers
    <3>3. StatusOf(answer'.outcome) \in Statuses
      BY <3>2 DEF StatusOf, Outcomes, Statuses
    <3> DEFINE body == [Empty EXCEPT !.items = answer'.items]
    <3>4. Respond(c, StatusOf(answer'.outcome), body)
      BY <1>2, <2>4 DEF AnswerItems
    <3>5. Ends(c) /\ UNCHANGED held
      <4>1. answer'.items \in ItemSets \cup {NoItems}
        BY <3>1 DEF Answers
      <4>2. body \in Bodies
        BY <4>1, EmptyTyped DEF Bodies
      <4>3. OwnTexts(c, body)
        BY DEF OwnTexts, Empty
      <4> QED
        BY <3>3, <3>4, <4>2, <4>3, ResponseEnds
    <3>6. CASE answer'.outcome # "items"
      <4>1. kept' = kept
        BY <1>2, <2>4, <3>6 DEF AnswerItems
      <4> QED
        BY <2>1, <3>5, <4>1 DEF Works
    <3>7. CASE answer'.outcome = "items"
      <4>1. Keep(c, body)
        BY <1>2, <2>4, <3>7 DEF AnswerItems
      <4>2. Gives(c, "items")
        <5>1. query[c] # NoQuery
          BY <2>1 DEF HTTPTypeInv, TypeInvariant
        <5>2. pc[c] # "idle"
          BY <5>1 DEF HTTPTypeInv, InItems
        <5>3. answer'.reader = c
          BY <2>1, <2>4, <3>1, <5>2, CallEnds DEF HTTPTypeInv
        <5> QED
          BY <2>4, <3>7, <5>3 DEF Gives
      <4>3. ReadInStep(c, body)
        BY <2>1, <4>2 DEF ReadInStep
      <4>4. body \in Bodies /\ OwnTexts(c, body)
        BY <2>1, <2>2, <4>3, BodyTyped, BodyHasOwnTexts
      <4>5. r.url.route \in Cached
        BY <2>1 DEF Cached
      <4> QED
        BY <2>1, <2>2, <3>5, <4>1, <4>3, <4>4, <4>5 DEF Works, Reaches
    <3> QED
      BY <2>1, <3>6, <3>7, <3>5
  <2> QED
    BY <2>3, <2>4
<1> QED
  BY <1>1, <1>2

-----------------------------------------------------------------------------
(***************************************************************************)
(* Type correctness.                                                       *)
(***************************************************************************)
ClientTyped(c) ==
  /\ request[c] \in Pending \cup {NoRequest}
  /\ kept[c] \in KeptAnswer \cup {NoEntry}
  /\ request[c] # NoRequest =>
       /\ [url |-> request[c].url, principal |-> request[c].principal] \in Requests
       /\ request[c].asked <= clock
       /\ request[c].step = "items" <=> query[c] # NoQuery
  /\ kept[c] # NoEntry =>
       /\ kept[c].url.route \in Cached
       /\ kept[c].asked <= kept[c].sent /\ kept[c].sent <= clock
  /\ Working(c) /\ InItems(c)

LEMMA ClientsTyped ==
  HTTPTypeInv <=>
    /\ TypeInv
    /\ DOMAIN request = Clients /\ request = [c \in Clients |-> request[c]]
    /\ DOMAIN kept = Clients /\ kept = [c \in Clients |-> kept[c]]
    /\ reply \in Replies \cup {NoReply}
    /\ held \in [DOMAIN held -> 0 .. clock]
    /\ \A c \in Clients : ClientTyped(c)
BY DEF HTTPTypeInv, TypeInvariant, TypeInv, ClientTyped

\* What a client sends.
LEMMA SendTyped ==
  ASSUME HTTPTypeInv, NEW c \in Clients, Send(c)
  PROVE  /\ request[c] = NoRequest
         /\ request' = [request EXCEPT ![c] = request'[c]]
         /\ request'[c] \in Pending /\ request'[c] # NoRequest
         /\ [url |-> request'[c].url, principal |-> request'[c].principal] \in Requests
         /\ request'[c].asked = clock /\ request'[c].step = "handler"
         /\ request'[c].read = Empty
         /\ request'[c].principal.workspace \in {Blank, Home[c]}
         /\ request'[c].tag # NoBody =>
              kept[c] # NoEntry /\ kept[c].body = request'[c].tag
         /\ UNCHANGED <<kept, held>> /\ reply' = NoReply /\ Idle
<1>0. PICK q \in Requests : \E tag \in Tags(c, q.url) :
        /\ q.principal.workspace \in {Blank, Home[c]}
        /\ request' = [request EXCEPT ![c] =
             [url |-> q.url, principal |-> q.principal, tag |-> tag,
              asked |-> clock, step |-> "handler", read |-> Empty]]
  BY DEF Send
<1>1. PICK tag \in Tags(c, q.url) :
        /\ q.principal.workspace \in {Blank, Home[c]}
        /\ request' = [request EXCEPT ![c] =
             [url |-> q.url, principal |-> q.principal, tag |-> tag,
              asked |-> clock, step |-> "handler", read |-> Empty]]
  BY <1>0
<1>2. /\ q \in [url : Url, principal : Principal]
      /\ [url |-> q.url, principal |-> q.principal] = q
  BY RequestsTyped
<1>3. tag # NoBody => kept[c] # NoEntry /\ kept[c].body = tag
  BY <1>1 DEF Tags
<1>4. kept[c] # NoEntry => kept[c].body \in Bodies
  BY DEF HTTPTypeInv, TypeInvariant, KeptAnswer
<1>5. tag \in Bodies \cup {NoBody}
  BY <1>3, <1>4
<1>6. clock \in 0 .. MaxClock
  BY DEF HTTPTypeInv, TypeInvariant, TypeOK
<1>7. [url |-> q.url, principal |-> q.principal, tag |-> tag,
       asked |-> clock, step |-> "handler", read |-> Empty] \in Pending
  BY <1>2, <1>5, <1>6, EmptyTyped DEF Pending
<1>8. request'[c] = [url |-> q.url, principal |-> q.principal, tag |-> tag,
                     asked |-> clock, step |-> "handler", read |-> Empty]
  BY <1>1 DEF HTTPTypeInv, TypeInvariant
<1>9. request' = [request EXCEPT ![c] = request'[c]]
  BY <1>1, <1>8
<1>10. request[c] = NoRequest /\ UNCHANGED <<kept, held>> /\ reply' = NoReply /\ Idle
  BY DEF Send, Idle
<1> QED
  BY <1>1, <1>2, <1>3, <1>7, <1>8, <1>9, <1>10, MarkersAreNoValues

\* What is left of a request, and of the answer kept, by the step of its client.
LEMMA WorksTyped ==
  ASSUME HTTPTypeInv, NEW c \in Clients, request[c] # NoRequest, Works(c)
  PROVE  /\ request' = [request EXCEPT ![c] = request'[c]]
         /\ kept' = [kept EXCEPT ![c] = kept'[c]]
         /\ request'[c] \in Pending \cup {NoRequest}
         /\ kept'[c] \in KeptAnswer \cup {NoEntry}
         /\ request'[c] # NoRequest =>
              /\ request'[c].url = request[c].url
              /\ request'[c].principal = request[c].principal
              /\ request'[c].asked = request[c].asked
              /\ request'[c].tag = request[c].tag
              /\ OwnTexts(c, request'[c].read)
              /\ kept' = kept
         /\ kept'[c] = kept[c] \/ /\ kept'[c].url = request[c].url
                                  /\ kept'[c].url.route \in Cached
                                  /\ kept'[c].asked = request[c].asked
                                  /\ kept'[c].sent = clock
         /\ reply' \in Replies \cup {NoReply}
<1>0. /\ request \in [Clients -> Pending \cup {NoRequest}]
      /\ kept \in [Clients -> KeptAnswer \cup {NoEntry}]
      /\ request[c] \in Pending
      /\ clock \in 0 .. MaxClock
      /\ OwnTexts(c, request[c].read)
  BY DEF HTTPTypeInv, TypeInvariant, TypeOK, Working
<1>1. CASE Waits(c)
  BY <1>0, <1>1 DEF Waits
<1>2. CASE Ends(c) /\ UNCHANGED kept
  BY <1>0, <1>2 DEF Ends
<1>3. ASSUME Ends(c), request[c].url.route \in Cached, NEW body \in Bodies,
             Keep(c, body)
      PROVE  /\ request' = [request EXCEPT ![c] = NoRequest]
             /\ kept' = [kept EXCEPT ![c] = kept'[c]]
             /\ kept'[c] \in KeptAnswer
             /\ kept'[c].url = request[c].url
             /\ kept'[c].asked = request[c].asked
             /\ kept'[c].sent = clock
             /\ reply' \in Replies
  <2>1. [url |-> request[c].url, body |-> body, asked |-> request[c].asked,
         sent |-> clock] \in KeptAnswer
    BY <1>0 DEF Pending, KeptAnswer
  <2>2. kept'[c] = [url |-> request[c].url, body |-> body,
                    asked |-> request[c].asked, sent |-> clock]
    BY <1>0, <1>3 DEF Keep
  <2>3. kept' = [kept EXCEPT ![c] = kept'[c]]
    BY <1>3, <2>2 DEF Keep
  <2> QED
    BY <1>3, <2>1, <2>2, <2>3 DEF Ends
<1>4. ASSUME NEW body \in Bodies, NEW step \in Steps, OwnTexts(c, body),
             GoesOn(c, body, step)
      PROVE  /\ request' = [request EXCEPT ![c] = request'[c]]
             /\ request'[c] \in Pending
             /\ request'[c].url = request[c].url
             /\ request'[c].principal = request[c].principal
             /\ request'[c].asked = request[c].asked
             /\ request'[c].tag = request[c].tag
             /\ OwnTexts(c, request'[c].read)
             /\ kept' = kept
             /\ reply' = NoReply
  <2>1. request' = [request EXCEPT ![c] =
                      [request[c] EXCEPT !.read = body, !.step = step]]
    BY <1>4 DEF GoesOn
  <2>2. request'[c] = [request[c] EXCEPT !.read = body, !.step = step]
    BY <1>0, <2>1
  <2>3. [request[c] EXCEPT !.read = body, !.step = step] \in Pending
    BY <1>0 DEF Pending, Steps
  <2>4. request'[c].read = body
    BY <1>0, <2>2 DEF Pending
  <2> QED
    BY <1>0, <1>4, <2>1, <2>2, <2>3, <2>4 DEF GoesOn, Pending
<1>5. CASE Ends(c) /\ request[c].url.route \in Cached
           /\ \E body : Reaches(c, body) /\ Keep(c, body)
  <2>1. PICK body \in Bodies : Keep(c, body)
    BY <1>5 DEF Reaches
  <2>2. request'[c] = NoRequest
    BY <1>0, <1>5 DEF Ends
  <2> QED
    BY <1>3, <1>5, <2>1, <2>2
<1>6. CASE \E body, step : step \in Steps /\ Reaches(c, body) /\ GoesOn(c, body, step)
  <2>1. PICK body \in Bodies, step \in Steps :
          OwnTexts(c, body) /\ GoesOn(c, body, step)
    BY <1>6 DEF Reaches
  <2>2. kept' = [kept EXCEPT ![c] = kept'[c]]
    BY <1>0, <1>4, <2>1
  <2> QED
    BY <1>0, <1>4, <2>1, <2>2
<1> QED
  BY <1>1, <1>2, <1>5, <1>6 DEF Works

\* Whoever leaves the handlers of the other routes does not touch a call.
LEMMA HandlerLeavesQuery ==
  ASSUME HTTPTypeInv, NEW c \in Clients,
         \/ Forbid(c) \/ AnswerDefinitions(c) \/ AnswerDefinition(c)
         \/ AnswerTexts(c) \/ AnswerExport(c) \/ CoverageTexts(c)
         \/ CoverageDefinitions(c) \/ CoverageName(c) \/ FailHandler(c)
  PROVE  /\ query[c] = NoQuery /\ Idle
         /\ request'[c] = NoRequest \/ request'[c].step \in {"definitions", "name"}
         /\ request'[c] # NoRequest => Admitted(c)
<1>1. request \in [Clients -> Pending \cup {NoRequest}]
  BY DEF HTTPTypeInv, TypeInvariant
<1>2. request[c] # NoRequest /\ request[c].step # "items"
  BY DEF Forbid, AnswerDefinitions, AnswerDefinition, AnswerTexts, AnswerExport,
         CoverageTexts, CoverageDefinitions, CoverageName, FailHandler, At
<1>3. query[c] = NoQuery
  BY <1>2 DEF HTTPTypeInv, TypeInvariant
<1>4. Idle
  BY DEF Forbid, AnswerDefinitions, AnswerDefinition, AnswerTexts, AnswerExport,
         CoverageTexts, CoverageDefinitions, CoverageName, FailHandler
<1>5. ASSUME NEW status, NEW body, Respond(c, status, body)
      PROVE  request'[c] = NoRequest
  BY <1>1, <1>5 DEF Respond
<1>6. ASSUME NEW body, WriteCachedJSON(c, body) PROVE request'[c] = NoRequest
  BY <1>5, <1>6 DEF WriteCachedJSON
<1>7. CASE \/ Forbid(c) \/ AnswerDefinitions(c) \/ AnswerDefinition(c)
           \/ AnswerTexts(c) \/ AnswerExport(c) \/ CoverageName(c) \/ FailHandler(c)
  <2>1. request'[c] = NoRequest
    BY <1>5, <1>6, <1>7
       DEF Forbid, AnswerDefinitions, AnswerDefinition, AnswerTexts, AnswerExport,
           CoverageName, FailHandler, RespondError
  <2> QED
    BY <1>3, <1>4, <2>1
<1>8. ASSUME NEW body, NEW step, Read(c, body, step)
      PROVE  request'[c].step = step
  <2>1. request[c] \in Pending
    BY <1>1, <1>2
  <2> QED
    BY <1>1, <1>8, <2>1 DEF Read, Pending
<1>9. CASE CoverageTexts(c)
  BY <1>3, <1>4, <1>5, <1>8, <1>9 DEF CoverageTexts, RespondError
<1>10. CASE CoverageDefinitions(c)
  <2>1. Admitted(c)
    BY <1>10 DEF CoverageDefinitions, At, HTTPTypeInv, Working
  <2> QED
    BY <1>3, <1>4, <1>8, <1>10, <2>1 DEF CoverageDefinitions
<1> QED
  BY <1>7, <1>9, <1>10

LEMMA ItemsQuery ==
  ASSUME HTTPTypeInv, TypeInv', NEW c \in Clients, AskForItems(c)
  PROVE  /\ request'[c] \in Pending /\ request'[c].step = "items"
         /\ request[c].url.route = "items" /\ Admitted(c)
         /\ query'[c] = QueryOf(c, request[c].url) /\ query'[c] # NoQuery
         /\ pc'[c] # "idle"
<1>1. /\ request[c] # NoRequest /\ request[c].url.route = "items" /\ Admitted(c)
      /\ Ask(c) /\ Read(c, Empty, "items")
      /\ query'[c] = [workspace  |-> request[c].principal.workspace,
                      dictionary |-> request[c].url.about,
                      locale     |-> request[c].url.locale]
  BY DEF AskForItems, At
<1>2. request[c].principal.workspace = Home[c] /\ request[c] \in Pending
      /\ QueryOf(c, request[c].url) \in Queries
  BY <1>1, PendingTyped
<1>3. query'[c] = QueryOf(c, request[c].url)
  BY <1>1, <1>2 DEF QueryOf
<1>4. pc'[c] = "definition"
  BY <1>1, ClientsAsk DEF Ask, Goto, HTTPTypeInv, TypeInv, TypeOK
<1>5. request'[c] = [request[c] EXCEPT !.read = Empty, !.step = "items"]
  BY <1>1 DEF Read, HTTPTypeInv, TypeInvariant
<1>6. request'[c] \in Pending /\ request'[c].step = "items"
  BY <1>2, <1>5, EmptyTyped DEF Pending
<1> QED
  BY <1>1, <1>2, <1>3, <1>4, <1>6, MarkersAreNoValues

LEMMA AnswerQuery ==
  ASSUME HTTPTypeInv, NEW c \in Clients, AnswerItems(c)
  PROVE  /\ request[c] # NoRequest /\ request[c].step = "items"
         /\ request[c].url.route = "items" /\ Admitted(c)
         /\ \/ /\ request' = request
               /\ query' = query /\ pc'[c] # "idle"
            \/ /\ request' = [request EXCEPT ![c] = NoRequest]
               /\ query'[c] = NoQuery /\ pc'[c] = "idle"
<1>1. /\ request[c] # NoRequest /\ request[c].step = "items"
      /\ request[c].url.route = "items" /\ Call(c)
  BY DEF AnswerItems, At
<1>2. pc[c] # "idle" /\ Admitted(c)
  BY <1>1 DEF HTTPTypeInv, TypeInvariant, InItems, Working
<1>3. c \in Readers /\ TypeInv
  BY ClientsAsk DEF HTTPTypeInv
<1>4. CASE answer' = NoAnswer
  <2>1. request' = request
    BY <1>4 DEF AnswerItems
  <2> QED
    BY <1>1, <1>2, <1>3, <1>4, <2>1, CallEnds
<1>5. CASE answer' # NoAnswer
  <2>1. request' = [request EXCEPT ![c] = NoRequest]
    BY <1>5 DEF AnswerItems, Respond
  <2>2. pc' = [pc EXCEPT ![c] = "idle"] /\ query' = [query EXCEPT ![c] = NoQuery]
    BY <1>1, <1>2, <1>3, <1>5, CallEnds
  <2>3. pc'[c] = "idle" /\ query'[c] = NoQuery
    BY <1>3, <2>2 DEF TypeInv, TypeOK
  <2> QED
    BY <1>1, <1>2, <2>1, <2>3
<1> QED
  BY <1>4, <1>5

LEMMA ServeTypesClient ==
  ASSUME HTTPTypeInv, TypeInv', NEW c \in Clients, Serve(c)
  PROVE  /\ ClientTyped(c)'
         /\ request' = [request EXCEPT ![c] = request'[c]]
         /\ kept' = [kept EXCEPT ![c] = kept'[c]]
         /\ reply' \in Replies \cup {NoReply}
         /\ held' = held /\ clock' = clock
<1>0. ClientTyped(c) /\ clock \in Nat /\ clock' = clock
  <2>1. clock' = clock
    BY ClientsAsk, ServeCallsOrIdles, IdleLeavesService, CallLeavesEnvironment
  <2> QED
    BY <2>1, ClientsTyped DEF TypeInv, TypeOK
<1>1. CASE Send(c)
  <2>1. query[c] = NoQuery /\ pc[c] = "idle"
    BY <1>0, <1>1, SendTyped DEF ClientTyped, InItems
  <2>2. query'[c] = NoQuery /\ pc'[c] = "idle"
    BY <1>1, <2>1, SendTyped, IdleLeavesService
  <2>3. kept' = kept /\ kept'[c] = kept[c]
    BY <1>1, SendTyped
  <2>4. Working(c)'
    BY <1>1, <2>3, SendTyped, EmptyHasNoTexts DEF Working
  <2>5. ClientTyped(c)'
    BY <1>0, <1>1, <2>2, <2>3, <2>4, SendTyped DEF ClientTyped, InItems
  <2>6. kept' = [kept EXCEPT ![c] = kept'[c]]
    BY <2>3 DEF HTTPTypeInv, TypeInvariant
  <2> QED
    BY <1>0, <1>1, <2>5, <2>6, SendTyped
<1>2. ASSUME request[c] # NoRequest, Works(c), held' = held,
             pc'[c] = "idle" <=> query'[c] = NoQuery,
             request'[c] = NoRequest => query'[c] = NoQuery,
             request'[c] # NoRequest =>
               /\ request'[c].step = "items" <=> query'[c] # NoQuery
               /\ request'[c].step = "items" =>
                    /\ request[c].url.route = "items"
                    /\ query'[c] = QueryOf(c, request[c].url)
               /\ Admitted(c)
      PROVE  /\ ClientTyped(c)'
             /\ request' = [request EXCEPT ![c] = request'[c]]
             /\ kept' = [kept EXCEPT ![c] = kept'[c]]
             /\ reply' \in Replies \cup {NoReply}
             /\ held' = held /\ clock' = clock
  <2>1. /\ request'[c] # NoRequest =>
             /\ [url |-> request'[c].url, principal |-> request'[c].principal]
                  \in Requests
             /\ request'[c].asked <= clock
    BY <1>0, <1>2, WorksTyped DEF ClientTyped
  <2>2. kept'[c] # NoEntry =>
          /\ kept'[c].url.route \in Cached
          /\ kept'[c].asked <= kept'[c].sent /\ kept'[c].sent <= clock
    <3>1. request[c].asked <= clock
      BY <1>0, <1>2 DEF ClientTyped
    <3> QED
      BY <1>0, <1>2, <3>1, WorksTyped DEF ClientTyped
  <2>3. Working(c)'
    <3> SUFFICES ASSUME request'[c] # NoRequest PROVE Working(c)'
      BY DEF Working
    <3>1. Admitted(c)'
      BY <1>2, WorksTyped DEF Admitted
    <3>2. /\ request'[c].principal = request[c].principal
          /\ request'[c].tag = request[c].tag /\ kept' = kept
          /\ request'[c].url = request[c].url
          /\ OwnTexts(c, request'[c].read)
      BY <1>2, WorksTyped
    <3> QED
      BY <1>0, <1>2, <3>1, <3>2 DEF Working, ClientTyped
  <2>4. InItems(c)'
    BY <1>2 DEF InItems
  <2>5. ClientTyped(c)'
    BY <1>0, <1>2, <2>1, <2>2, <2>3, <2>4, WorksTyped DEF ClientTyped
  <2> QED
    BY <1>0, <1>2, <2>5, WorksTyped
<1>3. CASE \/ Forbid(c) \/ AnswerDefinitions(c) \/ AnswerDefinition(c)
           \/ AnswerTexts(c) \/ AnswerExport(c) \/ CoverageTexts(c)
           \/ CoverageDefinitions(c) \/ CoverageName(c) \/ FailHandler(c)
  <2>1. query'[c] = NoQuery /\ pc'[c] = "idle"
    BY <1>0, <1>3, HandlerLeavesQuery, IdleLeavesService DEF ClientTyped, InItems
  <2>2. request[c] # NoRequest /\ Works(c) /\ held' = held
    BY <1>3, HandlerWorks
  <2>3. request'[c] # NoRequest => request'[c].step # "items" /\ Admitted(c)
    BY <1>3, HandlerLeavesQuery
  <2> QED
    BY <1>2, <2>1, <2>2, <2>3
<1>4. CASE AskForItems(c)
  BY <1>2, <1>4, ItemsQuery, ItemsWork, MarkersAreNoValues
<1>5. CASE AnswerItems(c)
  <2>1. request[c] # NoRequest /\ Works(c) /\ held' = held
    BY <1>5, ItemsWork
  <2>2. request \in [Clients -> Pending \cup {NoRequest}]
    BY DEF HTTPTypeInv, TypeInvariant
  <2>3. query[c] = QueryOf(c, request[c].url) /\ query[c] # NoQuery
    BY <1>0, <1>5, AnswerQuery DEF ClientTyped, Working
  <2> QED
    BY <1>2, <1>5, <2>1, <2>2, <2>3, AnswerQuery
<1> QED
  BY <1>1, <1>3, <1>4, <1>5 DEF Serve

\* The other clients are where they were.
LEMMA OtherClientsTyped ==
  ASSUME HTTPTypeInv, NEW c \in Clients, Serve(c), NEW o \in Clients, o # c,
         request' = [request EXCEPT ![c] = request'[c]],
         kept' = [kept EXCEPT ![c] = kept'[c]], clock' = clock
  PROVE  /\ request'[o] = request[o] /\ kept'[o] = kept[o]
         /\ pc'[o] = pc[o] /\ query'[o] = query[o] /\ current'[o] = current[o]
         /\ started'[o] = started[o]
         /\ ClientTyped(o)'
<1>1. request'[o] = request[o] /\ kept'[o] = kept[o]
  BY DEF HTTPTypeInv, TypeInvariant
<1>2. /\ pc'[o] = pc[o] /\ query'[o] = query[o] /\ current'[o] = current[o]
      /\ started'[o] = started[o]
  BY ClientsAsk, ServeCallsOrIdles, IdleLeavesService, CallIsItsReaders DEF HTTPTypeInv
<1>3. ClientTyped(o)
  BY ClientsTyped
<1>4. ClientTyped(o)'
  BY <1>1, <1>2, <1>3 DEF ClientTyped, Working, InItems, Admitted
<1> QED
  BY <1>1, <1>2, <1>4

LEMMA ClientsStayTyped ==
  ASSUME HTTPTypeInv, TypeInv',
         DOMAIN request' = DOMAIN request,
         request' = [c \in DOMAIN request' |-> request'[c]],
         DOMAIN kept' = DOMAIN kept, kept' = [c \in DOMAIN kept' |-> kept'[c]],
         reply' \in Replies \cup {NoReply},
         held' \in [DOMAIN held' -> 0 .. clock'],
         \A c \in Clients : ClientTyped(c)'
  PROVE  HTTPTypeInv'
<1>1. /\ request' \in [Clients -> Pending \cup {NoRequest}]
      /\ kept' \in [Clients -> KeptAnswer \cup {NoEntry}]
  BY DEF HTTPTypeInv, TypeInvariant, ClientTyped
<1> QED
  BY <1>1 DEF HTTPTypeInv, TypeInvariant, TypeInv, ClientTyped

\* What goes on besides leaves the calls of clients alone, and lets them read
\* nothing but the committed definitions.
LEMMA EnvironmentLeavesClients ==
  ASSUME TypeInv, Environment
  PROVE  /\ clock' \in Nat /\ clock' >= clock
         /\ \/ Remember /\ clock' = clock
            \/ UNCHANGED <<db, draft, past>>
         /\ \A c \in Clients :
              /\ pc'[c] = pc[c] /\ query'[c] = query[c] /\ started'[c] = started[c]
              /\ current'[c] \subseteq current[c] \cup {DefinitionIn(db', query[c])}
<1>1. CASE StoreChanges
  <2>1. Remember /\ UNCHANGED <<pc, query, started, clock>> /\ clock \in Nat
    BY <1>1, EnvironmentStep DEF calls, TypeInv, TypeOK
  <2>2. ASSUME NEW c \in Clients
        PROVE  current'[c] \subseteq current[c] \cup {DefinitionIn(db', query[c])}
    <3>1. c \in Readers /\ Seen(c)' = db'
      BY ClientsAsk DEF Seen
    <3> QED
      BY <2>1, <3>1 DEF Remember
  <2> QED
    BY <2>1, <2>2
<1>2. CASE Tick
  <2>1. clock \in Nat /\ clock' = clock + 1
    BY <1>2 DEF Tick, TypeInv, TypeOK
  <2> QED
    BY <1>2, <2>1 DEF Tick, calls
<1>3. ASSUME NEW r \in Readers \ Clients, Call(r)
      PROVE  /\ UNCHANGED <<db, draft, clock, past>> /\ clock \in Nat
             /\ \A c \in Clients :
                  /\ pc'[c] = pc[c] /\ query'[c] = query[c]
                  /\ started'[c] = started[c] /\ current'[c] = current[c]
  BY <1>3, ClientsAsk, CallLeavesEnvironment, CallIsItsReaders DEF TypeInv, TypeOK
<1> QED
  BY <1>1, <1>2, <1>3 DEF Environment, StoreChanges

\* Replaced tables are noted with the time of their replacement.
LEMMA HeldTyped ==
  ASSUME HTTPTypeInv, Environment
  PROVE  held' \in [DOMAIN held' -> 0 .. clock']
<1>1. held \in [DOMAIN held -> 0 .. clock] /\ clock \in Nat /\ TypeInv
  BY DEF HTTPTypeInv, TypeInvariant, TypeOK
<1>2. clock' \in Nat /\ clock' >= clock
  BY <1>1, EnvironmentLeavesClients
<1>3. CASE db' = db
  BY <1>1, <1>2, <1>3 DEF Environment
<1>4. CASE db' # db
  <2>1. held' = [d \in DOMAIN held \cup {db} |-> IF d = db THEN clock ELSE held[d]]
    BY <1>4 DEF Environment
  <2> QED
    BY <1>1, <1>2, <2>1
<1> QED
  BY <1>3, <1>4

LEMMA EnvironmentTyped ==
  ASSUME HTTPTypeInv, Environment
  PROVE  HTTPTypeInv'
<1>1. TypeInv'
  BY ServiceTyped DEF HTTPTypeInv, HTTPNext
<1>2. UNCHANGED <<request, kept>> /\ reply' = NoReply
  BY EnvironmentIsNext
<1>3. clock \in Nat /\ clock' \in Nat /\ clock' >= clock
  BY EnvironmentLeavesClients DEF HTTPTypeInv, TypeInvariant, TypeOK
<1>4. ASSUME NEW c \in Clients PROVE ClientTyped(c)'
  <2>0. pc'[c] = pc[c] /\ query'[c] = query[c]
    BY EnvironmentLeavesClients DEF HTTPTypeInv
  <2>1. ClientTyped(c)
    BY ClientsTyped
  <2>2. request[c] # NoRequest => request[c].asked \in Nat
    BY <2>1 DEF ClientTyped, Pending
  <2>3. kept[c] # NoEntry => kept[c].sent \in Nat
    BY <2>1 DEF ClientTyped, KeptAnswer
  <2> QED
    BY <1>2, <1>3, <2>0, <2>1, <2>2, <2>3
       DEF ClientTyped, Working, InItems, Admitted
<1>5. /\ request = [c \in DOMAIN request |-> request[c]]
      /\ kept = [c \in DOMAIN kept |-> kept[c]]
  BY ClientsTyped
<1> QED
  BY <1>1, <1>2, <1>4, <1>5, HeldTyped, ClientsStayTyped

LEMMA HTTPStepTyped == HTTPTypeInv /\ [HTTPNext]_allVars => HTTPTypeInv'
<1> SUFFICES ASSUME HTTPTypeInv, [HTTPNext]_allVars PROVE HTTPTypeInv'
  OBVIOUS
<1>1. TypeInv'
  BY ServiceTyped DEF HTTPTypeInv
<1>2. ASSUME NEW c \in Clients, Serve(c) PROVE HTTPTypeInv'
  <2>1. /\ ClientTyped(c)'
        /\ request' = [request EXCEPT ![c] = request'[c]]
        /\ kept' = [kept EXCEPT ![c] = kept'[c]]
        /\ reply' \in Replies \cup {NoReply}
        /\ held' = held /\ clock' = clock
    BY <1>1, <1>2, ServeTypesClient
  <2>2. \A o \in Clients : ClientTyped(o)'
    BY <1>2, <2>1, OtherClientsTyped
  <2>3. /\ DOMAIN request' = DOMAIN request /\ DOMAIN kept' = DOMAIN kept
        /\ request' = [o \in DOMAIN request' |-> request'[o]]
        /\ kept' = [o \in DOMAIN kept' |-> kept'[o]]
    BY <2>1, ClientsTyped
  <2>4. held' \in [DOMAIN held' -> 0 .. clock']
    BY <2>1, ClientsTyped
  <2> QED
    BY <1>1, <2>1, <2>2, <2>3, <2>4, ClientsStayTyped
<1>3. CASE UNCHANGED allVars
  BY <1>1, <1>3 DEF HTTPTypeInv, TypeInvariant, TypeInv, Working, InItems, Admitted,
                    allVars, vars
<1> QED
  BY <1>2, <1>3, EnvironmentTyped DEF HTTPNext

LEMMA HTTPInitTyped == HTTPInit => HTTPTypeInv
<1> SUFFICES ASSUME HTTPInit PROVE HTTPTypeInv
  OBVIOUS
<1>1. TypeInv
  BY InitTyped DEF HTTPInit
<1>2. TypeInvariant
  BY <1>1 DEF HTTPInit, TypeInvariant, TypeInv
<1> QED
  BY <1>1, <1>2, ClientsAsk DEF HTTPInit, HTTPTypeInv, Working, InItems, Init

\* Whatever clients ask for and sources publish between the steps: a request
\* the server works on is one that may be asked, a call of Items is open just
\* when a request waits for it, answers kept are bodies of routes that may be
\* kept, and no body is made of a payload that is no dictionary.
THEOREM RequestsAndAnswersTyped == HTTPSpec => []TypeInvariant
<1>1. HTTPTypeInv => TypeInvariant
  BY DEF HTTPTypeInv
<1> QED
  BY <1>1, HTTPInitTyped, HTTPStepTyped, PTL DEF HTTPSpec

-----------------------------------------------------------------------------
(***************************************************************************)
(* The age of answers.  The tables that were the committed ones slack      *)
(* before an instant, or later: every part of what a client keeps, or the  *)
(* server has read for it, is of some such tables, counted from when the   *)
(* request was sent.                                                       *)
(***************************************************************************)
RecentTables(instant, slack) ==
  {db} \cup {d \in DOMAIN held : instant <= held[d] + slack}

\* The texts could be read in a transaction of the host then.
DraftedSince(instant, slack, q, t) ==
  \/ draft # NoDraft /\ t = TextsIn(draft, q)
  \/ \E txts \in DOMAIN past.draft :
       Reading(txts, q) = t /\ instant <= past.draft[txts] + slack

ReadSince(c, url, body, instant) ==
  /\ DOMAIN body.txts \subseteq {Home[c]} \X TextKeys
  /\ \E d \in RecentTables(instant, 0) : Enableds(d, DOMAIN body.defs) = body.defs
  /\ \E d \in RecentTables(instant, 0) : TextRows(d, DOMAIN body.txts) = body.txts
  /\ \E d \in RecentTables(instant, 0) : body.proj \in {<<>>, d.proj}
  /\ body.items # NoItems =>
       /\ \E d \in RecentTables(instant, 0) :
            DefinitionIn(d, QueryOf(c, url)) = body.items.content
       /\ \/ \E d \in RecentTables(instant, TTL - 1) :
                TextsIn(d, QueryOf(c, url)) = body.items.labels
          \/ /\ HostReaders # {}
             /\ DraftedSince(instant, TTL - 1, QueryOf(c, url), body.items.labels)

\* Texts that are no longer to be read were those of tables noted as replaced.
TextsHeld ==
  \A txts \in DOMAIN past.committed :
    \E d \in DOMAIN held : d.txts = txts /\ past.committed[txts] <= held[d]

CachedReadings ==
  \A q \in Queries : cache[q] # NoEntry => cache[q].items.labels \in Readings(q)

\* A call of Items could read its definition, and looks at the clock, after
\* the request for it was sent.
CallSince(c, instant) ==
  /\ \A h \in current[c] : \E d \in RecentTables(instant, 0) :
       DefinitionIn(d, query[c]) = h
  /\ pc[c] \in {"cache", "texts", "fill"} => instant <= started[c]

RequestRecent(c) ==
  request[c] # NoRequest =>
    /\ ReadSince(c, request[c].url, request[c].read, request[c].asked)
    /\ request[c].step = "items" => CallSince(c, request[c].asked)

KeptRecent(c) ==
  kept[c] # NoEntry => ReadSince(c, kept[c].url, kept[c].body, kept[c].asked)

HTTPInv ==
  /\ HTTPTypeInv /\ LabelsInv /\ ContentInv
  /\ TextsHeld /\ CachedReadings
  /\ \A c \in Clients : RequestRecent(c) /\ KeptRecent(c)

(***************************************************************************)
(* Nothing that could be read since an instant gets older than it.         *)
(***************************************************************************)
LEMMA Numbers ==
  ASSUME HTTPTypeInv
  PROVE  /\ clock \in Nat /\ TTL \in Nat \ {0} /\ MaxAge \in Nat \ {0}
         /\ \A d \in DOMAIN held : held[d] \in Nat /\ held[d] <= clock
         /\ \A c \in Clients : started[c] \in Nat
         /\ \A c \in Clients : request[c] # NoRequest =>
              request[c].asked \in Nat /\ request[c].asked <= clock
         /\ \A c \in Clients : kept[c] # NoEntry =>
              /\ kept[c].asked \in Nat /\ kept[c].sent \in Nat
              /\ kept[c].asked <= clock
<1>1. clock \in Nat /\ TTL \in Nat \ {0} /\ MaxAge \in Nat \ {0}
  BY ClockRuns, AnswersAge DEF HTTPTypeInv, TypeInvariant, TypeOK
<1>2. \A d \in DOMAIN held : held[d] \in Nat /\ held[d] <= clock
  BY <1>1 DEF HTTPTypeInv, TypeInvariant
<1>3. \A c \in Clients : started[c] \in Nat
  BY ClientsAsk DEF HTTPTypeInv, TypeInvariant, TypeOK
<1>4. ASSUME NEW c \in Clients, request[c] # NoRequest
      PROVE  request[c].asked \in Nat /\ request[c].asked <= clock
  <2>1. request[c] \in Pending /\ request[c].asked <= clock
    BY <1>4 DEF HTTPTypeInv, TypeInvariant
  <2> QED
    BY <2>1 DEF Pending
<1>5. ASSUME NEW c \in Clients, kept[c] # NoEntry
      PROVE  /\ kept[c].asked \in Nat /\ kept[c].sent \in Nat
             /\ kept[c].asked <= clock
  <2>1. kept[c] \in KeptAnswer /\ kept[c].asked <= kept[c].sent /\ kept[c].sent <= clock
    BY <1>5 DEF HTTPTypeInv, TypeInvariant
  <2>2. kept[c].asked \in Nat /\ kept[c].sent \in Nat
    BY <2>1 DEF KeptAnswer
  <2> QED
    BY <1>1, <2>1, <2>2
<1> QED
  BY <1>1, <1>2, <1>3, <1>4, <1>5

LEMMA ServeLeavesTables ==
  ASSUME HTTPTypeInv, TypeInv', NEW c \in Clients, Serve(c)
  PROVE  UNCHANGED <<db, draft, clock, past, held>>
<1>1. UNCHANGED <<db, draft, clock, past>>
  BY ClientsAsk, ServeCallsOrIdles, IdleLeavesService, CallLeavesEnvironment
<1> QED
  BY <1>1, ServeTypesClient

LEMMA TablesStay ==
  ASSUME HTTPTypeInv, Environment, NEW instant \in Nat, instant <= clock,
         NEW slack \in Nat, NEW d \in RecentTables(instant, slack)
  PROVE  d \in RecentTables(instant, slack)'
<1>1. CASE db' = db
  BY <1>1 DEF Environment, RecentTables
<1>2. CASE db' # db
  <2>1. held' = [e \in DOMAIN held \cup {db} |-> IF e = db THEN clock ELSE held[e]]
    BY <1>2 DEF Environment
  <2>2. CASE d = db
    <3>1. d \in DOMAIN held' /\ held'[d] = clock
      BY <2>1, <2>2
    <3> QED
      BY <3>1, Numbers DEF RecentTables
  <2>3. CASE d # db
    <3>1. d \in DOMAIN held /\ instant <= held[d] + slack
      BY <2>3 DEF RecentTables
    <3>2. d \in DOMAIN held' /\ held'[d] = held[d]
      BY <2>1, <2>3, <3>1
    <3> QED
      BY <3>1, <3>2 DEF RecentTables
  <2> QED
    BY <2>2, <2>3
<1> QED
  BY <1>1, <1>2

LEMMA DraftedStays ==
  ASSUME HTTPTypeInv, Environment, NEW instant \in Nat, instant <= clock,
         NEW slack \in Nat, NEW q, NEW t, DraftedSince(instant, slack, q, t)
  PROVE  DraftedSince(instant, slack, q, t)'
<1>0. TypeInv /\ clock \in Nat
  BY Numbers DEF HTTPTypeInv
<1>1. CASE UNCHANGED <<db, draft, past>>
  BY <1>1 DEF DraftedSince, TextsIn
<1>2. CASE Remember
  <2>1. CASE draft # NoDraft /\ t = TextsIn(draft, q) /\ draft' = draft
    BY <2>1 DEF DraftedSince, TextsIn
  <2>2. CASE draft # NoDraft /\ t = TextsIn(draft, q) /\ draft' # draft
    <3>1. draft.txts \in DOMAIN past'.draft /\ past'.draft[draft.txts] = clock
      BY <1>0, <1>2, <2>2, ReplacedIsNoted
    <3> QED
      BY <1>0, <2>2, <3>1 DEF DraftedSince, TextsIn
  <2>3. ASSUME NEW txts \in DOMAIN past.draft, Reading(txts, q) = t,
               instant <= past.draft[txts] + slack
        PROVE  DraftedSince(instant, slack, q, t)'
    <3>1. txts \in DOMAIN past'.draft
          /\ past'.draft[txts] \in {past.draft[txts], clock}
      BY <1>0, <1>2, NothingForgotten
    <3>2. instant <= past'.draft[txts] + slack
      BY <1>0, <2>3, <3>1
    <3> QED
      BY <2>3, <3>1, <3>2 DEF DraftedSince
  <2> QED
    BY <2>1, <2>2, <2>3 DEF DraftedSince
<1> QED
  BY <1>0, <1>1, <1>2, EnvironmentLeavesClients

LEMMA ReadStays ==
  ASSUME HTTPTypeInv, Environment, NEW c, NEW url, NEW body,
         NEW instant \in Nat, instant <= clock, ReadSince(c, url, body, instant)
  PROVE  ReadSince(c, url, body, instant)'
<1>0. TTL - 1 \in Nat
  BY Numbers
<1>1. /\ \A d \in RecentTables(instant, 0) : d \in RecentTables(instant, 0)'
      /\ \A d \in RecentTables(instant, TTL - 1) : d \in RecentTables(instant, TTL - 1)'
  BY <1>0, TablesStay
<1>2. \A q, t : DraftedSince(instant, TTL - 1, q, t) => DraftedSince(instant, TTL - 1, q, t)'
  BY <1>0, DraftedStays
<1> QED
  BY <1>1, <1>2 DEF ReadSince

LEMMA ReadStaysServed ==
  ASSUME UNCHANGED <<db, draft, past, held>>, NEW c, NEW url, NEW body, NEW instant,
         ReadSince(c, url, body, instant)
  PROVE  ReadSince(c, url, body, instant)'
BY DEF ReadSince, RecentTables, DraftedSince, TextsIn

(***************************************************************************)
(* What is read from the committed tables is recent, and so is what the    *)
(* cache of the service adds.                                              *)
(***************************************************************************)
LEMMA EmptyIsRecent ==
  ASSUME NEW c, NEW url, NEW instant
  PROVE  ReadSince(c, url, Empty, instant)
<1>1. db \in RecentTables(instant, 0)
  BY DEF RecentTables
<1>2. DOMAIN Empty.defs = {} /\ DOMAIN Empty.txts = {}
  BY DEF Empty
<1>3. Enableds(db, {}) = <<>> /\ TextRows(db, {}) = <<>>
  BY DEF Enableds, TextRows
<1> QED
  BY <1>1, <1>2, <1>3 DEF ReadSince, Empty

LEMMA ItemsAreRecent ==
  ASSUME VersionsDiffer, HTTPInv, NEW c \in Clients, request[c] # NoRequest,
         request[c].step = "items", Call(c), Gives(c, "items")
  PROVE  LET q == QueryOf(c, request[c].url)
             asked == request[c].asked
         IN  /\ \E d \in RecentTables(asked, 0) :
                  DefinitionIn(d, q) = answer'.items.content
             /\ \/ \E d \in RecentTables(asked, TTL - 1) :
                      TextsIn(d, q) = answer'.items.labels
                \/ /\ HostReaders # {}
                   /\ DraftedSince(asked, TTL - 1, q, answer'.items.labels)
<1> DEFINE q == QueryOf(c, request[c].url)
           asked == request[c].asked
           t == answer'.items.labels
<1>1. /\ TypeInv /\ c \in Readers /\ Next
      /\ query[c] = q /\ q \in Queries
      /\ CallSince(c, asked)
  <2>1. query[c] = q /\ request[c].url.route = "items"
    BY DEF HTTPInv, HTTPTypeInv, Working
  <2> QED
    BY <2>1, ClientsAsk, PendingTyped DEF HTTPInv, HTTPTypeInv, RequestRecent, Next
<1>2. \E d \in RecentTables(asked, 0) : DefinitionIn(d, q) = answer'.items.content
  <2>1. answer'.items.content \in current[c]
    BY <1>1, AnswersAreCurrent DEF HTTPInv
  <2> QED
    BY <1>1, <2>1 DEF CallSince
<1>3. \/ \E d \in RecentTables(asked, TTL - 1) : TextsIn(d, q) = t
      \/ HostReaders # {} /\ DraftedSince(asked, TTL - 1, q, t)
  <2>1. \/ AnswerFromCache(c) /\ t = cache[q].items.labels
        \/ Fill(c) /\ t = labels[c]
    <3>1. \/ AnswerFromCache(c) /\ answer'.items = cache[query[c]].items
          \/ Fill(c) /\ answer'.items = Items(c)
      BY <1>1, WhoAnswers
    <3>2. Items(c).labels = labels[c]
      BY DEF Items
    <3> QED
      BY <1>1, <3>1, <3>2
  <2>2. asked <= started[c]
    BY <1>1, <2>1 DEF CallSince, AnswerFromCache, Fill
  <2>3. CASE q.locale = Blank
    <3>1. t \in Readings(q)
      <4>1. CASE Fill(c) /\ t = labels[c]
        BY <1>1, <4>1 DEF Fill, TypeInv, InCall
      <4>2. CASE AnswerFromCache(c) /\ t = cache[q].items.labels
        BY <1>1, <4>2 DEF AnswerFromCache, Hit, CacheKey, HTTPInv, CachedReadings
      <4> QED
        BY <2>1, <4>1, <4>2
    <3>2. Wanted(q) = {}
      BY <2>3 DEF Wanted
    <3>3. t = TextsIn(db, q)
      BY <3>1, <3>2 DEF Readings, TextsIn, Reading
    <3> QED
      BY <3>3 DEF RecentTables
  <2>4. CASE q.locale # Blank
    <3>1. PICK instant \in Nat :
            started[c] < instant + TTL /\ ReadableSince(instant, q, t)
      BY <1>1, <2>4, AnswersAreReadable DEF HTTPInv
    <3>2. asked \in Nat /\ started[c] \in Nat /\ TTL \in Nat
      BY Numbers DEF HTTPInv
    <3>3. CASE t = TextsIn(db, q)
      BY <3>3 DEF RecentTables
    <3>4. CASE HostReaders # {} /\ draft # NoDraft /\ t = TextsIn(draft, q)
      BY <3>4 DEF DraftedSince
    <3>5. ASSUME NEW txts \in DOMAIN past.committed,
                 Reading(txts, q) = t, past.committed[txts] >= instant
          PROVE  \E d \in RecentTables(asked, TTL - 1) : TextsIn(d, q) = t
      <4>1. PICK d \in DOMAIN held : d.txts = txts /\ past.committed[txts] <= held[d]
        BY DEF HTTPInv, TextsHeld
      <4>2. past.committed[txts] \in Nat /\ held[d] \in Nat
        BY <1>1, ClockRuns, Numbers DEF TypeInv, TypeOK, HTTPInv
      <4>3. asked <= held[d] + (TTL - 1)
        BY <2>2, <3>1, <3>2, <3>5, <4>1, <4>2
      <4>4. TextsIn(d, q) = t
        BY <3>5, <4>1 DEF TextsIn
      <4> QED
        BY <4>3, <4>4 DEF RecentTables
    <3>6. ASSUME NEW txts \in DOMAIN past.draft,
                 Reading(txts, q) = t, past.draft[txts] >= instant
          PROVE  DraftedSince(asked, TTL - 1, q, t)
      <4>1. past.draft[txts] \in Nat
        BY <1>1, ClockRuns DEF TypeInv, TypeOK
      <4>2. asked <= past.draft[txts] + (TTL - 1)
        BY <2>2, <3>1, <3>2, <3>6, <4>1
      <4> QED
        BY <3>6, <4>2 DEF DraftedSince
    <3>7. \/ t = TextsIn(db, q)
          \/ HostReaders # {} /\ draft # NoDraft /\ t = TextsIn(draft, q)
          \/ \E txts \in DOMAIN past["committed"] :
               Reading(txts, q) = t /\ past["committed"][txts] >= instant
          \/ /\ HostReaders # {}
             /\ \E txts \in DOMAIN past["draft"] :
                  Reading(txts, q) = t /\ past["draft"][txts] >= instant
      BY <3>1 DEF ReadableSince, Readable
    <3> QED
      BY <3>3, <3>4, <3>5, <3>6, <3>7
  <2> QED
    BY <2>3, <2>4
<1> QED
  BY <1>2, <1>3

LEMMA ReadIsRecent ==
  ASSUME VersionsDiffer, HTTPInv, NEW c \in Clients, request[c] # NoRequest,
         Admitted(c), NEW body, ReadInStep(c, body)
  PROVE  ReadSince(c, request[c].url, body, request[c].asked)
<1> DEFINE r == request[c]
<1>1. \A slack : db \in RecentTables(r.asked, slack)
  BY DEF RecentTables
<1>2. /\ DOMAIN Empty.defs = {} /\ DOMAIN Empty.txts = {}
      /\ Empty.defs = <<>> /\ Empty.txts = <<>> /\ Empty.proj = <<>>
      /\ Empty.items = NoItems
  BY DEF Empty
<1>3. Enableds(db, {}) = <<>> /\ TextRows(db, {}) = <<>>
  BY DEF Enableds, TextRows
<1>4. ReadSince(c, r.url, r.read, r.asked) /\ r.read \in Bodies
  BY PendingTyped DEF HTTPInv, RequestRecent, Pending
<1>5. ASSUME NEW rs, body = [Empty EXCEPT !.defs = Enableds(db, rs)]
      PROVE  ReadSince(c, r.url, body, r.asked)
  <2>1. DOMAIN body.defs = rs /\ body.defs = Enableds(db, rs)
    BY <1>5 DEF Empty, Enableds
  <2>2. body.txts = <<>> /\ DOMAIN body.txts = {} /\ body.proj = <<>>
        /\ body.items = NoItems
    BY <1>5 DEF Empty
  <2> QED
    BY <1>1, <1>3, <2>1, <2>2 DEF ReadSince
<1>6. ASSUME NEW ks, ks \subseteq TextKeys,
             body = [Empty EXCEPT !.txts = TextRows(db, {Home[c]} \X ks)]
      PROVE  ReadSince(c, r.url, body, r.asked)
  <2>1. /\ DOMAIN body.txts = {Home[c]} \X ks
        /\ body.txts = TextRows(db, {Home[c]} \X ks)
    BY <1>6 DEF Empty, TextRows
  <2>2. body.defs = <<>> /\ DOMAIN body.defs = {} /\ body.proj = <<>>
        /\ body.items = NoItems
    BY <1>6 DEF Empty
  <2>3. DOMAIN body.txts \subseteq {Home[c]} \X TextKeys
    BY <1>6, <2>1
  <2> QED
    BY <1>1, <1>3, <2>1, <2>2, <2>3 DEF ReadSince
<1>7. CASE r.url.route = "definitions" /\ body = ListDefinitions(db, r.url.about)
  BY <1>5, <1>7 DEF ListDefinitions
<1>8. CASE body = GetDefinition(db, r.url.about)
  BY <1>5, <1>8 DEF GetDefinition
<1>9. CASE /\ r.url.route \in {"texts", "csv", "xlsx"}
           /\ body = ListLocalizedTexts(db, Home[c], r.url.about)
  BY <1>6, <1>9, PendingTyped DEF ListLocalizedTexts, HTTPInv
<1>10. CASE body = [Empty EXCEPT !.txts = TextRows(db, {Home[c]} \X TextKeys)]
  BY <1>6, <1>10
<1>11. CASE body = [r.read EXCEPT !.defs = Enableds(db, Resources)]
  <2>1. DOMAIN body.defs = Resources /\ body.defs = Enableds(db, Resources)
    BY <1>4, <1>11 DEF Bodies, Enableds
  <2>2. body.txts = r.read.txts /\ body.proj = r.read.proj /\ body.items = r.read.items
    BY <1>4, <1>11 DEF Bodies
  <2> QED
    BY <1>1, <1>4, <2>1, <2>2 DEF ReadSince
<1>12. CASE body = [r.read EXCEPT !.proj = db.proj]
  <2>1. /\ body.proj = db.proj /\ body.defs = r.read.defs
        /\ body.txts = r.read.txts /\ body.items = r.read.items
    BY <1>4, <1>12 DEF Bodies
  <2> QED
    BY <1>1, <1>4, <2>1 DEF ReadSince
<1>13. CASE body = Empty
  BY <1>13, EmptyIsRecent
<1>14. CASE /\ r.step = "items" /\ Call(c) /\ Gives(c, "items")
            /\ body = [Empty EXCEPT !.items = answer'.items]
  <2>1. /\ body.defs = <<>> /\ DOMAIN body.defs = {} /\ body.proj = <<>>
        /\ body.txts = <<>> /\ DOMAIN body.txts = {} /\ body.items = answer'.items
    BY <1>14 DEF Empty
  <2> QED
    BY <1>1, <1>3, <1>14, <2>1, ItemsAreRecent DEF ReadSince
<1> QED
  BY <1>7, <1>8, <1>9, <1>10, <1>11, <1>12, <1>13, <1>14 DEF ReadInStep

-----------------------------------------------------------------------------
(***************************************************************************)
(* The invariants of the service, and of the tables.                       *)
(***************************************************************************)
LEMMA IdleInvariants ==
  ASSUME LabelsInv, ContentInv, Idle
  PROVE  LabelsInv' /\ ContentInv'
<1>1. TypeInv'
  BY IdleTyped DEF LabelsInv
<1>2. Clocked'
  BY IdleLeavesService DEF LabelsInv, Clocked
<1>3. ReadLabels' /\ CachedLabels'
  <2>1. UNCHANGED <<db, draft, past, cache, pc, query, labels, started>>
    BY IdleLeavesService
  <2> QED
    BY <2>1 DEF LabelsInv, ReadLabels, CachedLabels, ReadableSince, TextsIn
<1>4. ReadCurrent'
  BY IdleLeavesService DEF ContentInv, ReadCurrent, Asking, DefinitionIn, Seen
<1>5. CachedVersions'
  BY IdleLeavesService DEF ContentInv, CachedVersions
<1> QED
  BY <1>1, <1>2, <1>3, <1>4, <1>5 DEF LabelsInv, ContentInv

LEMMA ServiceStep ==
  ASSUME LabelsInv, ContentInv, [HTTPNext]_allVars
  PROVE  LabelsInv' /\ ContentInv'
<1>1. CASE Environment
  BY <1>1, EnvironmentIsNext, LabelsStep, ContentStep
<1>2. ASSUME NEW c \in Clients, Serve(c) PROVE LabelsInv' /\ ContentInv'
  <2>1. CASE Call(c)
    BY <2>1, ClientsAsk, LabelsStep, ContentStep DEF Next
  <2> QED
    BY <1>2, <2>1, ServeCallsOrIdles, IdleInvariants
<1>3. CASE UNCHANGED allVars
  BY <1>3, LabelsStep, ContentStep DEF allVars
<1> QED
  BY <1>1, <1>2, <1>3 DEF HTTPNext

LEMMA TextsHeldStep ==
  ASSUME HTTPTypeInv, HTTPTypeInv', LabelsInv, TextsHeld, [HTTPNext]_allVars
  PROVE  TextsHeld'
<1>1. CASE Environment
  <2>0. past'.committed = IF db'.txts = db.txts THEN past.committed
                          ELSE Note(past.committed, db)
    BY <1>1, EnvironmentLeavesClients DEF Remember, HTTPTypeInv
  <2>1. CASE db' = db
    <3>1. past'.committed = past.committed
      BY <2>0, <2>1
    <3>2. held' = held
      BY <1>1, <2>1 DEF Environment
    <3> QED
      BY <3>1, <3>2 DEF TextsHeld
  <2>2. CASE db' # db
    <3>1. held' = [d \in DOMAIN held \cup {db} |-> IF d = db THEN clock ELSE held[d]]
      BY <1>1, <2>2 DEF Environment
    <3>3. \A txts \in DOMAIN past.committed : past.committed[txts] \in Nat
      BY ClockRuns DEF HTTPTypeInv, TypeInv, TypeOK
    <3>4. ASSUME NEW txts \in DOMAIN past.committed
          PROVE  \E d \in DOMAIN held' :
                   d.txts = txts /\ past.committed[txts] <= held'[d]
      <4>1. PICK d \in DOMAIN held : d.txts = txts /\ past.committed[txts] <= held[d]
        BY DEF TextsHeld
      <4>2. d \in DOMAIN held' /\ held'[d] \in {held[d], clock}
        BY <3>1
      <4>3. past.committed[txts] <= held'[d]
        BY <3>3, <4>1, <4>2, Numbers
      <4> QED
        BY <4>1, <4>2, <4>3
    <3>5. CASE db'.txts = db.txts
      BY <2>0, <3>4, <3>5 DEF TextsHeld
    <3>6. CASE db'.txts # db.txts
      <4>1. past'.committed = Note(past.committed, db)
        BY <2>0, <3>6
      <4>2. ASSUME NEW txts \in DOMAIN past'.committed
            PROVE  \E d \in DOMAIN held' :
                     d.txts = txts /\ past'.committed[txts] <= held'[d]
        <5>1. CASE txts = db.txts
          <6>1. past'.committed[txts] = clock
            BY <4>1, <5>1 DEF Note
          <6>2. db \in DOMAIN held' /\ held'[db] = clock
            BY <3>1
          <6> QED
            BY <5>1, <6>1, <6>2, Numbers
        <5>2. CASE txts # db.txts
          <6>1. txts \in DOMAIN past.committed
                /\ past'.committed[txts] = past.committed[txts]
            BY <4>1, <4>2, <5>2 DEF Note
          <6> QED
            BY <3>4, <6>1
        <5> QED
          BY <5>1, <5>2
      <4> QED
        BY <4>2 DEF TextsHeld
    <3> QED
      BY <3>5, <3>6
  <2> QED
    BY <2>1, <2>2
<1>2. ASSUME NEW c \in Clients, Serve(c) PROVE TextsHeld'
  BY <1>2, ServeLeavesTables DEF TextsHeld, HTTPTypeInv
<1>3. CASE UNCHANGED allVars
  BY <1>3 DEF allVars, vars, TextsHeld
<1> QED
  BY <1>1, <1>2, <1>3 DEF HTTPNext

LEMMA CachedReadingsStep ==
  ASSUME HTTPTypeInv, CachedReadings, [HTTPNext]_allVars
  PROVE  CachedReadings'
<1>0. TypeInv
  BY DEF HTTPTypeInv
<1>1. ASSUME NEW r \in Readers, Call(r) PROVE CachedReadings'
  <2>1. CASE cache' = cache
    BY <2>1 DEF CachedReadings
  <2>2. CASE /\ pc[r] = "fill" /\ query[r] \in Queries
             /\ cache' = [cache EXCEPT ![query[r]] = Filled(r)]
    <3>1. Filled(r).items.labels \in Readings(query[r])
      BY <1>0, <2>2 DEF TypeInv, InCall, Filled, Items
    <3>2. DOMAIN cache = Queries
      BY <1>0 DEF TypeInv, TypeOK
    <3> QED
      BY <2>2, <3>1, <3>2 DEF CachedReadings
  <2> QED
    BY <1>0, <1>1, <2>1, <2>2, OnlyFillsCache
<1>2. CASE Environment
  <2>1. CASE StoreChanges \/ Tick
    BY <1>0, <2>1, EnvironmentLeavesCalls DEF CachedReadings
  <2> QED
    BY <1>1, <1>2, <2>1 DEF Environment, StoreChanges
<1>3. ASSUME NEW c \in Clients, Serve(c) PROVE CachedReadings'
  <2>1. CASE Idle
    BY <2>1, IdleLeavesService DEF CachedReadings
  <2> QED
    BY <1>1, <1>3, <2>1, ClientsAsk, ServeCallsOrIdles
<1>4. CASE UNCHANGED allVars
  BY <1>4 DEF allVars, vars, CachedReadings
<1> QED
  BY <1>2, <1>3, <1>4 DEF HTTPNext

-----------------------------------------------------------------------------
(***************************************************************************)
(* The steps of clients and of the environment leave answers recent.       *)
(***************************************************************************)
LEMMA CallStaysSince ==
  ASSUME HTTPInv, NEW c \in Clients, Call(c), pc[c] # "idle", answer' = NoAnswer,
         NEW instant \in Nat, instant <= clock, CallSince(c, instant)
  PROVE  /\ current' = current /\ query' = query
         /\ pc'[c] \in {"cache", "texts", "fill"} => instant <= started'[c]
<1> USE DEF TypeInv, TypeOK, Goto
<1>1. TypeInv /\ c \in Readers
  BY ClientsAsk DEF HTTPInv, HTTPTypeInv
<1>2. ~Ask(c)
  BY DEF Ask
<1>3. ASSUME NEW outcome, NEW items, Return(c, outcome, items) PROVE FALSE
  <2>1. answer' # NoAnswer
    BY <1>1, <1>3, CallEnds DEF Return
  <2> QED
    BY <2>1
<1>4. \/ ReadClock(c) \/ Miss(c) \/ ReadTexts(c)
      \/ ReadDefinition(c) /\ pc'[c] # "idle"
  BY <1>1, <1>2, <1>3, Returns DEF AnswerFromCache, Fill
<1>5. CASE ReadClock(c)
  BY <1>1, <1>5 DEF ReadClock
<1>6. CASE Miss(c) \/ ReadTexts(c)
  BY <1>1, <1>6 DEF Miss, ReadTexts, CallSince
<1>7. CASE ReadDefinition(c) /\ pc'[c] # "idle"
  BY <1>1, <1>3, <1>7 DEF ReadDefinition
<1> QED
  BY <1>4, <1>5, <1>6, <1>7

\* The call a request waits for after a step of its client.
LEMMA ServeLeavesCall ==
  ASSUME HTTPInv, TypeInv', NEW c \in Clients, Serve(c),
         request'[c] # NoRequest, request'[c].step = "items"
  PROVE  CallSince(c, request[c].asked)' /\ request[c] # NoRequest
<1>0. HTTPTypeInv /\ UNCHANGED <<db, held>>
  BY ServeLeavesTables DEF HTTPInv
<1>1. ~Send(c)
  BY <1>0, SendTyped
<1>2. CASE \/ Forbid(c) \/ AnswerDefinitions(c) \/ AnswerDefinition(c)
           \/ AnswerTexts(c) \/ AnswerExport(c) \/ CoverageTexts(c)
           \/ CoverageDefinitions(c) \/ CoverageName(c) \/ FailHandler(c)
  BY <1>0, <1>2, HandlerLeavesQuery
<1>3. CASE AskForItems(c)
  <2>1. request[c] # NoRequest /\ request'[c].asked = request[c].asked
    BY <1>0, <1>3, ItemsWork, WorksTyped
  <2>2. PICK q \in Queries :
          /\ query' = [query EXCEPT ![c] = q]
          /\ current' = [current EXCEPT ![c] = {DefinitionIn(Seen(c), q)}]
          /\ pc' = [pc EXCEPT ![c] = "definition"]
    BY <1>3 DEF AskForItems, Ask, Goto
  <2>3. /\ query'[c] = q /\ current'[c] = {DefinitionIn(db, q)}
        /\ pc'[c] = "definition"
    BY <1>0, <2>2, ClientsAsk DEF Seen, HTTPTypeInv, TypeInv, TypeOK
  <2>4. db \in RecentTables(request[c].asked, 0)'
    BY <1>0 DEF RecentTables
  <2>5. CallSince(c, request[c].asked)'
    BY <2>1, <2>3, <2>4 DEF CallSince, RecentTables
  <2> QED
    BY <2>1, <2>5
<1>4. CASE AnswerItems(c)
  <2>1. request[c] # NoRequest /\ request[c].step = "items"
    BY <1>0, <1>4, AnswerQuery
  <2>2. request \in [Clients -> Pending \cup {NoRequest}]
    BY <1>0 DEF HTTPTypeInv, TypeInvariant
  <2>3. answer' = NoAnswer /\ request' = request
    BY <1>4, <2>2 DEF AnswerItems, Respond
  <2>4. pc[c] # "idle" /\ Call(c)
    BY <1>0, <1>4, <2>1 DEF AnswerItems, HTTPTypeInv, TypeInvariant, InItems
  <2>5. CallSince(c, request[c].asked)
    BY <2>1 DEF HTTPInv, RequestRecent
  <2>6. request[c].asked \in Nat /\ request[c].asked <= clock
    BY <1>0, <2>1, Numbers
  <2>7. /\ current' = current /\ query' = query
        /\ pc'[c] \in {"cache", "texts", "fill"} => request[c].asked <= started'[c]
    BY <2>3, <2>4, <2>5, <2>6, CallStaysSince
  <2> QED
    BY <1>0, <2>1, <2>3, <2>5, <2>7 DEF CallSince, RecentTables
<1> QED
  BY <1>1, <1>2, <1>3, <1>4 DEF Serve

LEMMA ServeStaysRecent ==
  ASSUME VersionsDiffer, HTTPInv, TypeInv', NEW c \in Clients, Serve(c),
         NEW o \in Clients
  PROVE  RequestRecent(o)' /\ KeptRecent(o)'
<1>0. /\ HTTPTypeInv /\ UNCHANGED <<db, draft, past, held>> /\ clock' = clock
      /\ request' = [request EXCEPT ![c] = request'[c]]
      /\ kept' = [kept EXCEPT ![c] = kept'[c]]
  BY ServeLeavesTables, ServeTypesClient DEF HTTPInv
<1>1. CASE o # c
  <2>1. /\ request'[o] = request[o] /\ kept'[o] = kept[o]
        /\ pc'[o] = pc[o] /\ query'[o] = query[o] /\ current'[o] = current[o]
        /\ started'[o] = started[o]
    BY <1>0, <1>1, OtherClientsTyped
  <2>2. RequestRecent(o) /\ KeptRecent(o)
    BY DEF HTTPInv
  <2> QED
    BY <1>0, <2>1, <2>2, ReadStaysServed
       DEF RequestRecent, KeptRecent, CallSince, RecentTables
<1>2. CASE Send(c) /\ o = c
  <2>1. /\ request'[c].read = Empty /\ request'[c].step = "handler"
        /\ kept'[c] = kept[c]
    BY <1>0, <1>2, SendTyped
  <2>2. ReadSince(c, request'[c].url, Empty, request'[c].asked)
    BY EmptyIsRecent
  <2>3. KeptRecent(c)
    BY DEF HTTPInv
  <2> QED
    BY <1>0, <1>2, <2>1, <2>2, <2>3
    DEF RequestRecent, KeptRecent, ReadSince, RecentTables, DraftedSince, TextsIn
<1>3. CASE ~Send(c) /\ o = c
  <2>1. request[c] # NoRequest /\ Works(c)
    BY <1>0, <1>3, HandlerWorks, ItemsWork DEF Serve
  <2>2. /\ ReadSince(c, request[c].url, request[c].read, request[c].asked)
        /\ kept[c] # NoEntry => ReadSince(c, kept[c].url, kept[c].body, kept[c].asked)
    BY <2>1 DEF HTTPInv, RequestRecent, KeptRecent
  <2>3. ASSUME NEW body, Reaches(c, body)
        PROVE  ReadSince(c, request[c].url, body, request[c].asked)
    BY <2>1, <2>3, ReadIsRecent DEF Reaches
  <2>4. /\ request \in [Clients -> Pending \cup {NoRequest}]
        /\ kept \in [Clients -> KeptAnswer \cup {NoEntry}]
        /\ request[c] \in Pending
    BY <1>0, <2>1 DEF HTTPTypeInv, TypeInvariant
  <2>5. /\ request'[c] # NoRequest =>
             ReadSince(c, request'[c].url, request'[c].read, request'[c].asked)
        /\ kept'[c] # NoEntry =>
             ReadSince(c, kept'[c].url, kept'[c].body, kept'[c].asked)
    <3>1. CASE Waits(c)
      BY <2>2, <3>1 DEF Waits
    <3>2. CASE Ends(c) /\ UNCHANGED kept
      BY <2>2, <2>4, <3>2 DEF Ends
    <3>3. CASE Ends(c) /\ \E body : Reaches(c, body) /\ Keep(c, body)
      <4>1. PICK body : Reaches(c, body) /\ Keep(c, body)
        BY <3>3
      <4>2. request'[c] = NoRequest
        BY <2>4, <3>3 DEF Ends
      <4>3. kept'[c] = [url |-> request[c].url, body |-> body,
                        asked |-> request[c].asked, sent |-> clock]
        BY <2>4, <4>1 DEF Keep
      <4> QED
        BY <2>3, <4>1, <4>2, <4>3
    <3>4. CASE \E body, step :
                 step \in Steps /\ Reaches(c, body) /\ GoesOn(c, body, step)
      <4>1. PICK body, step : Reaches(c, body) /\ GoesOn(c, body, step)
        BY <3>4
      <4>2. request'[c] = [request[c] EXCEPT !.read = body, !.step = step]
        BY <2>4, <4>1 DEF GoesOn
      <4>3. /\ request'[c].url = request[c].url /\ request'[c].read = body
            /\ request'[c].asked = request[c].asked
        BY <2>4, <4>2 DEF Pending
      <4> QED
        BY <2>2, <2>3, <4>1, <4>3 DEF GoesOn
    <3> QED
      BY <2>1, <3>1, <3>2, <3>3, <3>4 DEF Works
  <2>6. request'[c] # NoRequest /\ request'[c].step = "items" =>
          CallSince(c, request[c].asked)'
    BY ServeLeavesCall
  <2> QED
    BY <1>0, <1>3, <2>5, <2>6
    DEF RequestRecent, KeptRecent, ReadSince, RecentTables, DraftedSince, TextsIn
<1> QED
  BY <1>1, <1>2, <1>3

LEMMA EnvironmentStaysRecent ==
  ASSUME HTTPInv, Environment, NEW c \in Clients
  PROVE  RequestRecent(c)' /\ KeptRecent(c)'
<1>0. /\ HTTPTypeInv /\ TypeInv /\ UNCHANGED <<request, kept>>
      /\ pc'[c] = pc[c] /\ query'[c] = query[c] /\ started'[c] = started[c]
      /\ current'[c] \subseteq current[c] \cup {DefinitionIn(db', query[c])}
  BY EnvironmentIsNext, EnvironmentLeavesClients DEF HTTPInv, HTTPTypeInv
<1>1. ASSUME kept[c] # NoEntry
      PROVE  ReadSince(c, kept[c].url, kept[c].body, kept[c].asked)'
  BY <1>0, <1>1, ReadStays, Numbers DEF HTTPInv, KeptRecent
<1>2. ASSUME request[c] # NoRequest
      PROVE  ReadSince(c, request[c].url, request[c].read, request[c].asked)'
  BY <1>0, <1>2, ReadStays, Numbers DEF HTTPInv, RequestRecent
<1>3. ASSUME request[c] # NoRequest, request[c].step = "items"
      PROVE  CallSince(c, request[c].asked)'
  <2> DEFINE asked == request[c].asked
  <2>1. CallSince(c, asked) /\ asked \in Nat /\ asked <= clock
    BY <1>0, <1>3, Numbers DEF HTTPInv, RequestRecent
  <2>2. \A d \in RecentTables(asked, 0) : d \in RecentTables(asked, 0)'
    BY <1>0, <2>1, TablesStay
  <2>3. db' \in RecentTables(asked, 0)'
    BY DEF RecentTables
  <2> QED
    BY <1>0, <2>1, <2>2, <2>3 DEF CallSince
<1> QED
  BY <1>0, <1>1, <1>2, <1>3 DEF RequestRecent, KeptRecent

LEMMA HTTPStep ==
  ASSUME VersionsDiffer
  PROVE  HTTPInv /\ [HTTPNext]_allVars => HTTPInv'
<1> SUFFICES ASSUME HTTPInv, [HTTPNext]_allVars PROVE HTTPInv'
  OBVIOUS
<1>1. /\ HTTPTypeInv /\ HTTPTypeInv' /\ TypeInv'
      /\ LabelsInv' /\ ContentInv' /\ TextsHeld' /\ CachedReadings'
  BY HTTPStepTyped, ServiceStep, TextsHeldStep, CachedReadingsStep
     DEF HTTPInv, LabelsInv
<1>2. ASSUME NEW c \in Clients
      PROVE  RequestRecent(c)' /\ KeptRecent(c)'
  <2>1. CASE Environment
    BY <2>1, EnvironmentStaysRecent
  <2>2. ASSUME NEW o \in Clients, Serve(o)
        PROVE  RequestRecent(c)' /\ KeptRecent(c)'
    BY <1>1, <2>2, ServeStaysRecent
  <2>3. CASE UNCHANGED allVars
    BY <2>3 DEF allVars, vars, HTTPInv, RequestRecent, KeptRecent, ReadSince,
                CallSince, RecentTables, DraftedSince, TextsIn
  <2> QED
    BY <2>1, <2>2, <2>3 DEF HTTPNext
<1> QED
  BY <1>1, <1>2 DEF HTTPInv

LEMMA HTTPInitRecent == HTTPInit => HTTPInv
<1> SUFFICES ASSUME HTTPInit PROVE HTTPInv
  OBVIOUS
<1>1. HTTPTypeInv /\ LabelsInv /\ ContentInv
  BY HTTPInitTyped, InitLabels, InitContent DEF HTTPInit
<1>2. TextsHeld /\ CachedReadings
  BY DEF HTTPInit, Init, TextsHeld, CachedReadings
<1>3. \A c \in Clients : RequestRecent(c) /\ KeptRecent(c)
  BY DEF HTTPInit, RequestRecent, KeptRecent
<1> QED
  BY <1>1, <1>2, <1>3 DEF HTTPInv

\* What is recent when an answer is sent is so for MaxAge after it.
LEMMA KeptAnswersAreRecent == HTTPInv => FreshAnswersAreRecent
<1> SUFFICES ASSUME HTTPInv, NEW c \in Clients, kept[c] # NoEntry,
                    clock < kept[c].sent + MaxAge
             PROVE  LET k    == kept[c]
                        body == k.body
                        age  == MaxAge + k.sent - k.asked
                        q    == [workspace |-> Home[c], dictionary |-> k.url.about,
                                 locale |-> k.url.locale]
                    IN  /\ DOMAIN body.txts \subseteq {Home[c]} \X TextKeys
                        /\ HeldWithin(age,
                             LAMBDA d : Enableds(d, DOMAIN body.defs) = body.defs)
                        /\ HeldWithin(age,
                             LAMBDA d : TextRows(d, DOMAIN body.txts) = body.txts)
                        /\ HeldWithin(age, LAMBDA d : body.proj \in {<<>>, d.proj})
                        /\ body.items # NoItems =>
                             /\ HeldWithin(age,
                                  LAMBDA d : DefinitionIn(d, q) = body.items.content)
                             /\ \/ HeldWithin(age + (TTL - 1),
                                     LAMBDA d : TextsIn(d, q) = body.items.labels)
                                \/ /\ HostReaders # {}
                                   /\ DraftedWithin(age + (TTL - 1), q, body.items.labels)
  BY DEF FreshAnswersAreRecent
<1> DEFINE k == kept[c]
           body == k.body
           age == MaxAge + k.sent - k.asked
           q == QueryOf(c, k.url)
<1>1. ReadSince(c, k.url, body, k.asked)
  BY DEF HTTPInv, KeptRecent
<1>2. /\ k.asked \in Nat /\ k.sent \in Nat /\ clock \in Nat
      /\ TTL \in Nat /\ MaxAge \in Nat
      /\ \A d \in DOMAIN held : held[d] \in Nat
  BY Numbers DEF HTTPInv
<1>3. ASSUME NEW slack \in {0, TTL - 1}, NEW d \in RecentTables(k.asked, slack), d # db
      PROVE  d \in DOMAIN held /\ clock < held[d] + (age + slack)
  <2>1. d \in DOMAIN held /\ k.asked <= held[d] + slack
    BY <1>3 DEF RecentTables
  <2> QED
    BY <1>2, <2>1
<1>4. age = age + 0
  BY <1>2
<1>5. \A d \in RecentTables(k.asked, 0) :
        d = db \/ (d \in DOMAIN held /\ clock < held[d] + age)
  BY <1>3, <1>4
<1>6. \A d \in RecentTables(k.asked, TTL - 1) :
        d = db \/ (d \in DOMAIN held /\ clock < held[d] + (age + (TTL - 1)))
  BY <1>3
<1>7. HeldWithin(age, LAMBDA d : Enableds(d, DOMAIN body.defs) = body.defs)
  BY <1>1, <1>5 DEF HeldWithin, ReadSince
<1>8. HeldWithin(age, LAMBDA d : TextRows(d, DOMAIN body.txts) = body.txts)
  BY <1>1, <1>5 DEF HeldWithin, ReadSince
<1>9. HeldWithin(age, LAMBDA d : body.proj \in {<<>>, d.proj})
  BY <1>1, <1>5 DEF HeldWithin, ReadSince
<1>10. ASSUME body.items # NoItems
       PROVE  /\ HeldWithin(age, LAMBDA d : DefinitionIn(d, q) = body.items.content)
              /\ \/ HeldWithin(age + (TTL - 1),
                      LAMBDA d : TextsIn(d, q) = body.items.labels)
                 \/ /\ HostReaders # {}
                    /\ DraftedWithin(age + (TTL - 1), q, body.items.labels)
  <2> DEFINE t == body.items.labels
  <2>1. ASSUME DraftedSince(k.asked, TTL - 1, q, t)
        PROVE  DraftedWithin(age + (TTL - 1), q, t)
    <3>1. ASSUME NEW txts \in DOMAIN past.draft, k.asked <= past.draft[txts] + (TTL - 1)
          PROVE  clock < past.draft[txts] + (age + (TTL - 1))
      <4>1. past.draft[txts] \in Nat
        BY ClockRuns DEF HTTPInv, HTTPTypeInv, TypeInv, TypeOK
      <4> QED
        BY <1>2, <3>1, <4>1
    <3> QED
      BY <2>1, <3>1 DEF DraftedSince, DraftedWithin
  <2>2. \/ \E d \in RecentTables(k.asked, TTL - 1) : TextsIn(d, q) = t
        \/ HostReaders # {} /\ DraftedSince(k.asked, TTL - 1, q, t)
    BY <1>1, <1>10 DEF ReadSince
  <2>3. (\E d \in RecentTables(k.asked, TTL - 1) : TextsIn(d, q) = t) =>
          HeldWithin(age + (TTL - 1), LAMBDA d : TextsIn(d, q) = t)
    BY <1>6 DEF HeldWithin
  <2>4. HeldWithin(age, LAMBDA d : DefinitionIn(d, q) = body.items.content)
    BY <1>1, <1>5, <1>10 DEF HeldWithin, ReadSince
  <2> QED
    BY <2>1, <2>2, <2>3, <2>4
<1> QED
  BY <1>1, <1>7, <1>8, <1>9, <1>10 DEF ReadSince, QueryOf

\* As long as no two versions collide, no client shows texts of another
\* workspace, nor any part of an answer that was replaced longer ago than the
\* answer may be kept and took to arrive, labels of items by the lifetime of
\* the server's cache longer: also if the answer was made in several reads,
\* or was confirmed by its tag again and again.  All that is shown was
\* committed, but for one thing: if the host calls Items in its transaction,
\* the labels of a dictionary's items may be those of the transaction.
THEOREM ClientsShowRecentAnswers ==
  ASSUME VersionsDiffer
  PROVE  HTTPSpec => []FreshAnswersAreRecent
BY HTTPInitRecent, HTTPStep, KeptAnswersAreRecent, PTL DEF HTTPSpec

-----------------------------------------------------------------------------
(***************************************************************************)
(* Authorization.  The loop over the policies of a bundle is a recursive   *)
(* function.  Its closed form satisfies the equation that defines it, so   *)
(* there is such a function; that the one chosen is the closed form        *)
(* follows by looking at the least number of rounds after which the two    *)
(* would differ.                                                           *)
(***************************************************************************)
LEMMA LeastNumber ==
  ASSUME NEW T, T \subseteq Nat, T # {}
  PROVE  \E n \in T : \A m \in T : n <= m
<1>1. PICK n \in T : \A m \in T : <<m, n>> \notin OpToRel(<, Nat)
  BY NatLessThanWellFounded, WFMin, Zenon
<1>2. \A m \in T : ~(m < n)
  BY <1>1, Zenon DEF OpToRel
<1> QED
  BY <1>2

\* What the first n policies decide.
Own(policies, action, n) == {m \in 1 .. n : policies[m].action = action}

Decided(policies, action, n) ==
  IF \E m \in Own(policies, action, n) : policies[m].effect = "deny" THEN "denied"
  ELSE IF \E m \in Own(policies, action, n) : Allows(policies[m]) THEN "allowed"
  ELSE "silent"

LEMMA NextDecides ==
  ASSUME NEW policies, NEW action, NEW n \in Nat \ {0}
  PROVE  Decided(policies, action, n) =
           IF policies[n].action = action
           THEN ApplyPolicy(Decided(policies, action, n - 1), policies[n])
           ELSE Decided(policies, action, n - 1)
<1> DEFINE D(m) == policies[m].effect = "deny"
           A(m) == Allows(policies[m])
<1>1. Own(policies, action, n) =
        IF policies[n].action = action
        THEN Own(policies, action, n - 1) \cup {n} ELSE Own(policies, action, n - 1)
  <2>1. 1 .. n = (1 .. n - 1) \cup {n}
    OBVIOUS
  <2> QED
    BY <2>1 DEF Own
<1>2. D(n) => ~A(n)
  BY DEF Allows
<1> HIDE DEF A
<1>3. CASE policies[n].action = action
  BY <1>1, <1>2, <1>3 DEF Decided, ApplyPolicy, A
<1>4. CASE policies[n].action # action
  BY <1>1, <1>4 DEF Decided
<1> QED
  BY <1>3, <1>4

LEMMA VerdictIsDecided ==
  ASSUME NEW policies \in Seq(Policy), NEW action
  PROVE  Verdict(policies, action) = Decided(policies, action, Len(policies))
<1> DEFINE N == 0 .. Len(policies)
           closed == [n \in N |-> Decided(policies, action, n)]
           Equation(f) ==
             f = [n \in N |->
                    IF n = 0 THEN "silent"
                    ELSE IF policies[n].action = action
                         THEN ApplyPolicy(f[n - 1], policies[n])
                         ELSE f[n - 1]]
           after == CHOOSE f : Equation(f)
<1>0. Len(policies) \in Nat
  OBVIOUS
<1>1. Equation(closed)
  <2>1. Decided(policies, action, 0) = "silent"
    BY DEF Decided, Own
  <2> QED
    BY <1>0, <2>1, NextDecides
<1>2. Equation(after)
  <2> HIDE DEF Equation
  <2> QED
    BY <1>1
<1>3. Verdict(policies, action) = after[Len(policies)]
  BY DEF Verdict
<1> HIDE DEF after
<1>4. \A n \in N : after[n] = closed[n]
  <2> DEFINE T == {n \in N : after[n] # closed[n]}
  <2> SUFFICES ASSUME T # {} PROVE FALSE
    OBVIOUS
  <2>1. T \subseteq Nat
    BY <1>0
  <2>2. PICK n \in T : \A m \in T : n <= m
    <3> HIDE DEF T
    <3> QED
      BY <2>1, LeastNumber
  <2>3. n \in N /\ after[n] # closed[n]
    OBVIOUS
  <2>4. n # 0 => after[n - 1] = closed[n - 1]
    BY <1>0, <2>2
  <2>5. n = 0 => after[n] = "silent" /\ closed[n] = "silent"
    BY <1>1, <1>2, <2>3
  <2>6. n # 0 =>
          \A f \in {after, closed} :
            f[n] = IF policies[n].action = action
                   THEN ApplyPolicy(f[n - 1], policies[n]) ELSE f[n - 1]
    <3> HIDE DEF closed
    <3> QED
      BY <1>1, <1>2, <2>3
  <2> QED
    BY <2>3, <2>4, <2>5, <2>6
<1> QED
  BY <1>0, <1>3, <1>4

LEMMA AdmittedIsEntitled ==
  ASSUME NEW p \in Principal, NEW url \in Url
  PROVE  Authorized(p, url) <=>
           /\ Entitled(p, url)
           /\ url.route \in NamesWorkspace => url.workspace \in {Blank, p.workspace}
<1>1. ASSUME p.bundle # NoBundle
      PROVE  LET policies == p.bundle.policies
                 mine == {n \in DOMAIN policies : policies[n].action = url.route}
             IN  Verdict(policies, url.route) = "allowed" <=>
                   /\ \E n \in mine : Allows(policies[n])
                   /\ \A n \in mine : policies[n].effect # "deny"
  <2> DEFINE policies == p.bundle.policies
  <2>1. policies \in Seq(Policy)
    BY <1>1 DEF Principal
  <2> HIDE DEF policies
  <2>2. Own(policies, url.route, Len(policies)) =
          {n \in DOMAIN policies : policies[n].action = url.route}
    BY <2>1 DEF Own
  <2>3. Verdict(policies, url.route) = "allowed" <=>
          /\ \E n \in Own(policies, url.route, Len(policies)) : Allows(policies[n])
          /\ \A n \in Own(policies, url.route, Len(policies)) :
               policies[n].effect # "deny"
    BY <2>1, VerdictIsDecided DEF Decided
  <2> QED
    BY <2>2, <2>3 DEF policies
<1>2. MetadataPrincipal(p, url.route) <=> Entitled(p, url)
  BY <1>1 DEF MetadataPrincipal, MetadataWorkspacePermission, Entitled
<1> QED
  BY <1>2 DEF Authorized, SameWorkspace

\* Whoever is answered has a request, and is refused, without any rows, just
\* if it is not admitted, at whatever step of the request the answer is given.
LEMMA RepliesAreJustified ==
  ASSUME HTTPTypeInv, NEW c \in Clients, Serve(c), reply' # NoReply
  PROVE  /\ request[c] # NoRequest
         /\ reply'.client = c
         /\ reply'.status = 403 <=> ~Admitted(c)
         /\ ~Admitted(c) => reply'.body = Empty
<1> DEFINE Answered(statuses) ==
             /\ request[c] # NoRequest
             /\ \E status \in statuses : \E body :
                  reply' = [client |-> c, status |-> status, body |-> body]
<1>1. ASSUME request[c] # NoRequest, request[c].step # "handler" PROVE Admitted(c)
  BY <1>1 DEF HTTPTypeInv, Working
<1>2. \A body : WriteCachedJSON(c, body) =>
        \E status \in {200, 304} : \E rows :
          reply' = [client |-> c, status |-> status, body |-> rows]
  BY DEF WriteCachedJSON, Respond
<1>3. CASE Forbid(c)
  BY <1>3 DEF Forbid, RespondError, Respond
<1>4. CASE AnswerDefinitions(c) \/ AnswerDefinition(c) \/ AnswerTexts(c)
  <2>1. Answered({200, 304, 400, 404}) /\ Admitted(c)
    BY <1>2, <1>4
    DEF AnswerDefinitions, AnswerDefinition, AnswerTexts, At, RespondError, Respond
  <2> QED
    BY <2>1
<1>5. CASE AnswerExport(c) \/ CoverageTexts(c) \/ FailHandler(c)
  <2>1. Answered({200, 400, 500}) /\ Admitted(c)
    BY <1>1, <1>5
    DEF AnswerExport, CoverageTexts, FailHandler, At, Read, RespondError, Respond
  <2> QED
    BY <2>1
<1>6. CASE CoverageName(c)
  <2>1. Answered({200, 304, 500}) /\ Admitted(c)
    BY <1>1, <1>2, <1>6 DEF CoverageName, At, RespondError, Respond
  <2> QED
    BY <2>1
<1>7. CASE AnswerItems(c)
  <2>1. Answered({200, 400, 404, 500}) /\ Admitted(c)
    BY <1>1, <1>7 DEF AnswerItems, At, Respond, StatusOf
  <2> QED
    BY <2>1
<1>8. CASE Send(c) \/ CoverageDefinitions(c) \/ AskForItems(c)
  BY <1>8 DEF Send, CoverageDefinitions, AskForItems, Read
<1> QED
  BY <1>3, <1>4, <1>5, <1>6, <1>7, <1>8 DEF Serve

LEMMA AuthorizedStep ==
  ASSUME HTTPTypeInv, TypeInv', HTTPNext, NEW c \in Clients,
         reply' # NoReply, reply'.client = c
  PROVE  LET url == request[c].url
             p   == request[c].principal
         IN  /\ reply'.status = 403 <=>
                  \/ ~Entitled(p, url)
                  \/ /\ url.route \in NamesWorkspace
                     /\ url.workspace \notin {Blank, p.workspace}
             /\ DOMAIN reply'.body.txts \subseteq {p.workspace} \X TextKeys
<1>1. PICK d \in Clients : Serve(d)
  BY DEF HTTPNext, Environment
<1>2. /\ d = c /\ request[c] # NoRequest /\ (reply'.status = 403 <=> ~Admitted(c))
      /\ ~Admitted(c) => reply'.body = Empty
  BY <1>1, RepliesAreJustified
<1>3. request[c].principal \in Principal /\ request[c].url \in Url
  BY <1>2 DEF HTTPTypeInv, TypeInvariant, Pending
<1>4. DOMAIN reply'.body.txts \subseteq {request[c].principal.workspace} \X TextKeys
  <2>1. CASE Admitted(c)
    <3>1. request[c].principal.workspace = Home[c]
      BY <1>2, <2>1, PendingTyped
    <3>2. Works(c)
      <4>1. ~Send(c)
        BY DEF Send
      <4> QED
        BY <1>1, <1>2, <4>1, HandlerWorks, ItemsWork DEF Serve
    <3>3. OwnTexts(c, reply'.body)
      BY <3>2 DEF Works, Waits, GoesOn, Ends
    <3> QED
      BY <3>1, <3>3 DEF OwnTexts
  <2>2. CASE ~Admitted(c)
    BY <1>2, <2>2 DEF Empty
  <2> QED
    BY <2>1, <2>2
<1> QED
  BY <1>2, <1>3, <1>4, AdmittedIsEntitled DEF Admitted

\* Whatever the policies of a bundle, in whatever order, and whatever is
\* published while the server reads: a request is refused if no policy for
\* its action allows it on all data, or one denies it, or the workspace it
\* names is not its principal's, and only then.  An answer, an export too, has
\* no texts but those of the principal's workspace.
THEOREM OnlyTheEntitledAreAnswered == HTTPSpec => AuthorizedAnswers
<1>1. HTTPTypeInv /\ [HTTPNext]_allVars =>
        [\A c \in Clients :
           reply' # NoReply /\ reply'.client = c =>
             LET url == request[c].url
                 p   == request[c].principal
             IN  /\ reply'.status = 403 <=>
                      \/ ~Entitled(p, url)
                      \/ /\ url.route \in NamesWorkspace
                         /\ url.workspace \notin {Blank, p.workspace}
                 /\ DOMAIN reply'.body.txts \subseteq
                      {p.workspace} \X TextKeys]_allVars
  BY AuthorizedStep, ServiceTyped DEF HTTPTypeInv
<1> QED
  BY <1>1, HTTPInitTyped, HTTPStepTyped, PTL DEF HTTPSpec, AuthorizedAnswers

=============================================================================
