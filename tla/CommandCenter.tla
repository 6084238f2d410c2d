--------------------------- MODULE CommandCenter ---------------------------
(***************************************************************************)
(* The dashboard page (web/components/sdr/CommandCenterV2.tsx): its        *)
(* handlers await requests whose answers arrive in any order, while the    *)
(* user selects another workspace, other filters or another list.          *)
(*                                                                         *)
(* A handler that changes the selection waits for its views or workspaces  *)
(* first, then for its report, and then asks for the operating reports and *)
(* the preferences, whose answers nobody awaits.  What a handler needs is  *)
(* captured when it is called.  The requests themselves are external.      *)
(***************************************************************************)
EXTENDS Naturals, FiniteSets

CONSTANTS
    Companies,      \* the workspaces of the user
    FirstCompany,   \* the one that is shown first
    FilterChoices,        \* the filters a user may apply
    Plain,          \* DEFAULT_FILTERS
    DefaultView,    \* DefaultView[w]: the filters of the default view of w
    Handlers,       \* calls of a handler that may be under way at once
    Lists,          \* calls of loadDrilldown that may be under way at once
    Titles,         \* the drilldowns: key and title
    NoTitle,        \* no drilldown
    MaxClicks       \* bound of the model: calls of handlers and of loadDrilldown

ASSUME CommandCenterAssumption ==
    /\ FirstCompany \in Companies
    /\ Plain \in FilterChoices /\ DefaultView \in [Companies -> FilterChoices]
    /\ IsFiniteSet(Handlers) /\ Handlers # {} /\ NoTitle \notin Titles
    /\ MaxClicks \in Nat \ {0}

VARIABLES
    selectedId, filters, loading,
    viewsOf,           \* the workspace of savedViews
    payload,           \* the report that is shown
    operating,         \* the operating reports that are shown
    preferencesOf,     \* the workspace of the preferences that are shown
    drilldown,         \* the list in the drawer
    drillTitle,
    requestVersion, operatingVersion, preferencesVersion,
    handler,           \* handler[h]: a call and its captured variables
    operatingCall,     \* operatingCall[h]: the request for operating reports it left
    preferencesCall,   \* preferencesCall[h]: the request for preferences it left
    list,              \* list[d]: a call of loadDrilldown
    clicks,            \* history: calls of handlers
    opened,            \* history: calls of loadDrilldown
    failed,            \* history: a handler has failed since the last call of one
    late, incomplete, mixed   \* history: what else PageIsOfSelection excepts

shownVars == <<payload, operating, preferencesOf, drilldown>>
callVars == <<handler, operatingCall, preferencesCall, list>>
pageVars == <<selectedId, filters, loading, viewsOf, drillTitle, requestVersion,
              operatingVersion, preferencesVersion, clicks, opened, failed, late, incomplete, mixed,
              shownVars, callVars>>

-----------------------------------------------------------------------------
Nowhere == "nowhere"

Report == [of: Companies, filters: FilterChoices]

Request == [version: 0 .. MaxClicks, of: Companies, filters: FilterChoices]

NoReport == [of |-> Nowhere, filters |-> Plain]

Idle == [at |-> "idle", of |-> FirstCompany, filters |-> Plain, version |-> 0, click |-> 0,
         full |-> FALSE, loads |-> TRUE]

NoCall == [version |-> 0, of |-> FirstCompany, filters |-> Plain]

NoList == [title |-> NoTitle, of |-> FirstCompany]

CommandCenterTypeOK ==
    /\ selectedId \in Companies /\ viewsOf \in Companies \cup {Nowhere}
    /\ filters \in FilterChoices
    /\ {loading, failed, late, incomplete, mixed} \subseteq BOOLEAN
    /\ {payload, operating} \subseteq Report \cup {NoReport}
    /\ preferencesOf \in Companies \cup {Nowhere}
    /\ drilldown \in [title: Titles \cup {NoTitle}, of: Companies]
    /\ drillTitle \in Titles \cup {NoTitle}
    /\ {requestVersion, operatingVersion, preferencesVersion} \subseteq 0 .. MaxClicks
    /\ {clicks, opened} \subseteq 0 .. MaxClicks
    /\ handler \in [Handlers -> [at: {"idle", "views", "workspaces", "report"}, of: Companies,
                                 filters: FilterChoices, version: 0 .. MaxClicks,
                                 click: 0 .. MaxClicks, full: BOOLEAN, loads: BOOLEAN]]
    /\ operatingCall \in [Handlers -> Request]
    /\ preferencesCall \in [Handlers -> Request]
    /\ list \in [Lists -> [title: Titles \cup {NoTitle}, of: Companies]]

\* The page has its workspaces and waits for the views of the first of them.
CommandCenterInit ==
    /\ selectedId = FirstCompany /\ filters = Plain /\ loading = TRUE
    /\ viewsOf = Nowhere /\ preferencesOf = Nowhere
    /\ payload = NoReport /\ operating = NoReport
    /\ drilldown = NoList /\ drillTitle = NoTitle
    /\ requestVersion = 0 /\ operatingVersion = 0 /\ preferencesVersion = 0
    /\ LET first == CHOOSE h \in Handlers : TRUE
       IN  handler = [h \in Handlers |->
              IF h = first THEN [Idle EXCEPT !.at = "views", !.click = 1, !.full = TRUE] ELSE Idle]
    /\ operatingCall = [h \in Handlers |-> NoCall]
    /\ preferencesCall = [h \in Handlers |-> NoCall]
    /\ list = [d \in Lists |-> NoList]
    /\ clicks = 1 /\ opened = 0
    /\ failed = FALSE /\ late = FALSE /\ incomplete = FALSE /\ mixed = FALSE

-----------------------------------------------------------------------------
(* Handlers that change the selection                                      *)

\* A new call h; what the handler captures and where it waits first.  Only a page
\* that has a report has anything to click on.
Call(h, at, of, chosen, full, loads) ==
    /\ payload # NoReport
    /\ handler[h].at = "idle" /\ operatingCall[h].version = 0 /\ preferencesCall[h].version = 0
    /\ clicks + opened < MaxClicks
    /\ clicks' = clicks + 1
    /\ handler' = [handler EXCEPT ![h] =
          [at |-> at, of |-> of, filters |-> chosen, full |-> full, loads |-> loads,
           click |-> clicks',
           version |-> IF at = "report" THEN requestVersion + 1 ELSE 0]]
    /\ requestVersion' = IF at = "report" THEN requestVersion + 1 ELSE requestVersion
    /\ failed' = FALSE
    /\ UNCHANGED <<viewsOf, drillTitle, operatingVersion, preferencesVersion, operatingCall,
                   preferencesCall, list, opened, late, incomplete>>

\* changeWorkspace, to the await of loadViews.
ChangeWorkspace(h, w) ==
    /\ w # selectedId
    /\ Call(h, "views", w, Plain, TRUE, TRUE)
    /\ selectedId' = w /\ loading' = TRUE
    /\ payload' = NoReport /\ operating' = NoReport
    /\ preferencesOf' = Nowhere /\ drilldown' = NoList
    /\ mixed' = (mixed \/ \E d \in Lists : list[d] # NoList)
    /\ UNCHANGED filters

\* applyFilters; its button is disabled while the page is loading.
ApplyFilters(h, chosen) ==
    /\ ~loading
    /\ Call(h, "report", selectedId, chosen, FALSE, TRUE)
    /\ filters' = chosen /\ loading' = TRUE
    /\ UNCHANGED <<selectedId, shownVars, mixed>>

ResetFilters(h) ==
    /\ Call(h, "report", selectedId, Plain, FALSE, TRUE)
    /\ filters' = Plain /\ loading' = TRUE
    /\ UNCHANGED <<selectedId, shownVars, mixed>>

\* applyView: any filters may have been saved; it does not say that it loads.
ApplyView(h, chosen) ==
    /\ viewsOf # Nowhere
    /\ Call(h, "report", selectedId, chosen, FALSE, FALSE)
    /\ filters' = chosen
    /\ UNCHANGED <<selectedId, loading, shownVars, mixed>>

\* refresh, to the await of the list of workspaces; disabled while loading.
Refresh(h) ==
    /\ ~loading
    /\ Call(h, "workspaces", selectedId, filters, FALSE, TRUE)
    /\ loading' = TRUE
    /\ UNCHANGED <<selectedId, filters, shownVars, mixed>>

-----------------------------------------------------------------------------
(* Answers                                                                 *)

\* A handler goes on although the user has called another one since.
OutOfOrder(h) == handler[h].click < clicks

\* loadReport, to its await.
AskForReport(h, chosen) ==
    /\ requestVersion' = requestVersion + 1
    /\ handler' = [handler EXCEPT ![h].at = "report", ![h].filters = chosen,
                                  ![h].version = requestVersion']
    /\ late' = (late \/ OutOfOrder(h))
    /\ UNCHANGED <<selectedId, loading, drillTitle, operatingVersion,
                   preferencesVersion, clicks, opened, failed, incomplete, mixed, shownVars,
                   operatingCall, preferencesCall, list>>

\* loadViews returns: no views when its request failed.
ViewsArrive(h) ==
    /\ handler[h].at = "views"
    /\ \E chosen \in {DefaultView[handler[h].of], Plain} :
          /\ filters' = chosen
          /\ AskForReport(h, chosen)
    /\ viewsOf' = handler[h].of

WorkspacesArrive(h) ==
    /\ handler[h].at = "workspaces"
    /\ AskForReport(h, handler[h].filters)
    /\ UNCHANGED <<filters, viewsOf>>

\* Faulty variant of IsLatest: the version of a request is not compared.
AlwaysLatest(version, current) == TRUE

IsLatest(version, current) == version = current

HandlerEnds(h) ==
    /\ handler' = [handler EXCEPT ![h] = Idle]
    /\ loading' = (loading /\ ~handler[h].loads)

\* loadReport returns, and the handler asks for what is not awaited.
ReportArrives(h) ==
    LET call == handler[h] IN
    /\ call.at = "report"
    /\ payload' = IF IsLatest(call.version, requestVersion)
                  THEN [of |-> call.of, filters |-> call.filters] ELSE payload
    /\ operatingVersion' = operatingVersion + 1
    /\ operatingCall' = [operatingCall EXCEPT ![h] =
          [version |-> operatingVersion', of |-> call.of, filters |-> call.filters]]
    /\ preferencesVersion' = IF call.full THEN preferencesVersion + 1 ELSE preferencesVersion
    /\ preferencesCall' = IF call.full
          THEN [preferencesCall EXCEPT ![h] =
                  [version |-> preferencesVersion', of |-> call.of, filters |-> Plain]]
          ELSE preferencesCall
    /\ incomplete' = (incomplete \/ OutOfOrder(h))
    /\ HandlerEnds(h)
    /\ UNCHANGED <<selectedId, filters, viewsOf, operating, preferencesOf, drilldown,
                   drillTitle, requestVersion, list, clicks, opened, failed, late, mixed>>

\* The list of workspaces or the report cannot be loaded.
HandlerFails(h) ==
    /\ handler[h].at \in {"workspaces", "report"}
    /\ failed' = TRUE
    /\ incomplete' = (incomplete \/ handler[h].full)
    /\ HandlerEnds(h)
    /\ UNCHANGED <<selectedId, filters, viewsOf, drillTitle, requestVersion, operatingVersion,
                   preferencesVersion, clicks, opened, late, mixed, shownVars,
                   operatingCall, preferencesCall, list>>

\* loadOperatingReport returns or fails.
OperatingArrives(h) ==
    LET call == operatingCall[h] IN
    /\ call.version # 0
    /\ IF IsLatest(call.version, operatingVersion)
       THEN operating' \in {[of |-> call.of, filters |-> call.filters], NoReport}
       ELSE operating' = operating
    /\ operatingCall' = [operatingCall EXCEPT ![h] = NoCall]
    /\ UNCHANGED <<selectedId, filters, loading, viewsOf, drillTitle, requestVersion,
                   operatingVersion, preferencesVersion, clicks, opened, failed, late, incomplete,
                   mixed, payload, preferencesOf, drilldown, handler, preferencesCall, list>>

\* loadPreferences returns or fails.
PreferencesArrive(h) ==
    LET call == preferencesCall[h] IN
    /\ call.version # 0
    /\ \/ /\ preferencesOf' = IF IsLatest(call.version, preferencesVersion)
                              THEN call.of ELSE preferencesOf
          /\ UNCHANGED incomplete
       \/ preferencesOf' = preferencesOf /\ incomplete' = TRUE
    /\ preferencesCall' = [preferencesCall EXCEPT ![h] = NoCall]
    /\ UNCHANGED <<selectedId, filters, loading, viewsOf, drillTitle, requestVersion,
                   operatingVersion, preferencesVersion, clicks, opened, failed, late, mixed,
                   payload, operating, drilldown, handler, operatingCall, list>>

-----------------------------------------------------------------------------
(* The drawer                                                              *)

\* loadDrilldown, to its await; nothing numbers or cancels its requests.
OpenList(d, title) ==
    /\ list[d] = NoList
    /\ payload # NoReport
    /\ clicks + opened < MaxClicks
    /\ opened' = opened + 1
    /\ list' = [list EXCEPT ![d] = [title |-> title, of |-> selectedId]]
    /\ mixed' = (mixed \/ \E other \in Lists : list[other] # NoList)
    /\ drillTitle' = title /\ loading' = TRUE
    /\ UNCHANGED <<selectedId, filters, viewsOf, requestVersion, operatingVersion,
                   preferencesVersion, clicks, failed, late, incomplete, shownVars, handler,
                   operatingCall, preferencesCall>>

\* loadDrilldown returns, or fails and leaves the list that is shown.
ListArrives(d) ==
    /\ list[d] # NoList
    /\ \/ drilldown' = list[d] /\ UNCHANGED mixed
       \/ drilldown' = drilldown
          /\ mixed' = (mixed \/ drilldown # NoList)
    /\ loading' = FALSE
    /\ list' = [list EXCEPT ![d] = NoList]
    /\ UNCHANGED <<selectedId, filters, viewsOf, drillTitle, requestVersion, operatingVersion,
                   preferencesVersion, clicks, opened, failed, late, incomplete, payload, operating,
                   preferencesOf, handler, operatingCall, preferencesCall>>

CloseList ==
    /\ payload # NoReport /\ drilldown # NoList
    /\ drilldown' = NoList
    /\ UNCHANGED <<selectedId, filters, loading, viewsOf, drillTitle, requestVersion,
                   operatingVersion, preferencesVersion, clicks, opened, failed, late, incomplete,
                   mixed, payload, operating, preferencesOf, callVars>>

CommandCenterNext ==
    \/ \E h \in Handlers :
          \/ \E w \in Companies : ChangeWorkspace(h, w)
          \/ \E chosen \in FilterChoices : ApplyFilters(h, chosen) \/ ApplyView(h, chosen)
          \/ ResetFilters(h)
          \/ Refresh(h)
          \/ ViewsArrive(h) \/ WorkspacesArrive(h)
          \/ ReportArrives(h) \/ HandlerFails(h)
          \/ OperatingArrives(h) \/ PreferencesArrive(h)
    \/ \E d \in Lists :
          \/ \E title \in Titles : OpenList(d, title)
          \/ ListArrives(d)
    \/ CloseList

CommandCenterSpec == CommandCenterInit /\ [][CommandCenterNext]_pageVars

-----------------------------------------------------------------------------
(* Properties                                                              *)

Settled == \A h \in Handlers : handler[h].at = "idle"

NothingAwaited == \A h \in Handlers : operatingCall[h] = NoCall /\ preferencesCall[h] = NoCall

\* Whatever order the answers arrive in: once no handler is under way and none has
\* failed since the last call of one, the report is that of the selected workspace
\* and of the filters that are set, unless a handler asked for its report after the
\* user had called another one; and once nothing is awaited, the operating reports
\* and the preferences are those of the selection too, unless a handler went on to
\* ask for them after the user had called another one, or a request for preferences
\* failed or was left out because the report failed.  A list in the drawer belongs
\* to its title and to the selected workspace unless its request overlapped with
\* another one or with a change of the workspace, or failed under an open drawer.
PageIsOfSelection ==
    /\ ~late /\ Settled /\ ~failed => payload = [of |-> selectedId, filters |-> filters]
    /\ ~late /\ ~incomplete /\ Settled /\ NothingAwaited /\ ~failed =>
          /\ operating \in {NoReport, [of |-> selectedId, filters |-> filters]}
          /\ preferencesOf \in {Nowhere, selectedId}
    /\ ~mixed /\ drilldown # NoList => drilldown.of = selectedId
    /\ ~mixed /\ drilldown # NoList /\ (\A d \in Lists : list[d] = NoList)
          => drilldown.title = drillTitle
=============================================================================
