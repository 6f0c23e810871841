------------------------------ MODULE Console ------------------------------
(***************************************************************************)
(* What the pages of the admin console (internal/admin/web/src) have in    *)
(* common: one view is mounted at a time, it keeps React state, sends      *)
(* requests with api(), and runs their continuations when it gets answers, *)
(* in any order.  Continuations survive the view: React ignores what they  *)
(* set, but the requests they send go out; to the view that is mounted by  *)
(* then these are changes like those of another administrator.             *)
(*                                                                         *)
(* Tables are abstracted to their version, settings excepted.  The texts   *)
(* of forms, their checks and notifications are left out.                  *)
(***************************************************************************)
EXTENDS Naturals, FiniteSets

CONSTANTS
    Slots,        \* bound: requests in flight
    MaxVersion,   \* bound: changes of the server's tables
    Texts,        \* what can be searched for
    Ids,          \* rows whose details can be shown
    Keys,         \* settings
    None

Values == {0, 1}      \* values of a setting
Pages == {1, 2}       \* pages of a table

VARIABLES
    view,         \* the mounted view
    page,         \* its React state
    form,         \* React state of ConfigPage, and which keys were edited
    flight,       \* request in each slot, or None
    version,      \* changes of the server's tables so far
    stored,       \* value of each setting in the server
    mine,         \* history: version of the view's last write known to be done
    failed,       \* history: the last load of the view has failed
    crossed       \* history: its last load overlapped another load, or was
                  \* for a query that is no longer the view's

vars == <<view, page, form, flight, version, stored, mine, failed, crossed>>
server == <<version, stored>>
history == <<mine, failed, crossed>>

Routes == {"dashboard", "cache", "apk", "apt", "upstreams", "proxy", "config",
           "logs", "system"}

ApkTabs == {"packages", "indexes", "keys"}
AptTabs == {"records", "byhash", "aptindexes", "mirrors", "validate"}
Views == (Routes \ {"apk", "apt"}) \cup ApkTabs \cup AptTabs

\* The tab in which a route is mounted.
FirstView(route) ==
    CASE route = "apk" -> "packages"
      [] route = "apt" -> "records"
      [] OTHER -> route

\* Views with a loading flag of their own, and those that hide everything
\* while it is set; views that show nothing until they have data.
HasLoading == {"logs", "cache", "packages", "records", "byhash", "upstreams",
               "config"}
LoadingHides == HasLoading \ {"logs", "cache"}
NeedsData == {"dashboard", "system", "proxy"}

\* Views that keep the error of a load, and those it replaces.
HasError == HasLoading \cup NeedsData \cup {"mirrors"}
ErrorHides == HasError \ {"logs"}

Query == [text : Texts, page : Pages]
AnyText == CHOOSE x \in Texts : TRUE
FirstQuery == [text |-> AnyText, page |-> 1]

Settings == [Keys -> Values]

\* The rows that a page shows: of which query, and how old.
Rows == [query : Query, at : 0 .. MaxVersion]

Page == [query : Query,             \* what effects and loads ask for
         draft : Texts,             \* what is typed in the search field
         shown : Rows \cup {None},
         loading : BOOLEAN, error : BOOLEAN,
         detail : [id : Ids, loading : BOOLEAN] \cup {None}, \* CachePage's dialog
         editing : BOOLEAN]         \* a row is in the form, not a new one

Form == [settings : Settings, draft : Settings, touched : SUBSET Keys]

\* Settings to be saved, and which of them were edited.
Edits == [body : UNION {[K -> Values] : K \in SUBSET Keys}, touched : SUBSET Keys]

Reads == {"load", "detail", "dry", "validate", "report"}
Writes == {"write", "batch", "reindex", "submit", "put"}

Request == [op : Reads \cup Writes,
            arg : Query \cup Ids \cup Edits \cup {None},
            stage : {"sent", "answered"},
            ok : BOOLEAN, at : 0 .. MaxVersion,
            data : Settings \cup {None}]

ASSUME ConsoleAssumption ==
    /\ MaxVersion \in Nat
    /\ Texts # {} /\ Keys # {}
    /\ None \notin Rows \cup Request

Unloaded == [settings |-> [k \in Keys |-> 0], draft |-> [k \in Keys |-> 0],
             touched |-> {}]

Mounted(v) ==
    [query |-> FirstQuery, draft |-> AnyText, shown |-> None,
     loading |-> v \in HasLoading, error |-> FALSE, detail |-> None,
     editing |-> FALSE]

Message(op, arg) ==
    [op |-> op, arg |-> arg, stage |-> "sent", ok |-> FALSE, at |-> 0,
     data |-> None]

NoRequests == [s \in Slots |-> None]

Pending(s) == flight[s] # None

\* A load, among the requests f, of the mounted view.
Loading(f) == \E s \in Slots : f[s] # None /\ f[s].op = "load"
-----------------------------------------------------------------------------
(* Sending.                                                                *)

Free(f) == {s \in Slots : f[s] = None}

\* A handler of the view, in state p, calls load() for q.
BeginLoad(f, p, q) ==
    /\ \E s \in Free(f) : flight' = [f EXCEPT ![s] = Message("load", q)]
    /\ page' = [p EXCEPT !.loading = view' \in HasLoading, !.error = FALSE]
    /\ crossed' = (Loading(f) \/ q # p.query)
    /\ failed' = FALSE

\* It calls load() for q, and its effect does for the new query of p.
BeginLoads(f, p, q) ==
    /\ \E s1, s2 \in Free(f) :
           /\ s1 # s2
           /\ flight' = [f EXCEPT ![s1] = Message("load", q),
                                  ![s2] = Message("load", p.query)]
    /\ page' = [p EXCEPT !.loading = view' \in HasLoading, !.error = FALSE]
    /\ crossed' = (Loading(f) \/ q # p.query)
    /\ failed' = FALSE

\* A button that only sends a request.
Ask(op, arg) ==
    /\ \E s \in Free(flight) : flight' = [flight EXCEPT ![s] = Message(op, arg)]
    /\ UNCHANGED <<view, page, form, server, history>>

Reload ==
    /\ UNCHANGED <<view, form, server, mine>>
    /\ BeginLoad(flight, page, page.query)

SetPage(p) ==
    /\ page' = p
    /\ UNCHANGED <<view, form, flight, server, history>>

\* The query of the view changes and its effect loads.
SetQuery(q, p) ==
    /\ UNCHANGED <<view, form, server, mine>>
    /\ BeginLoad(flight, [p EXCEPT !.query = q], q)

\* Controls are there: the page is not replaced, no dialog lies over it.
Open ==
    /\ view \in ErrorHides => ~page.error
    /\ view \in LoadingHides => ~page.loading
    /\ view \in NeedsData => page.shown # None
    /\ page.detail = None
-----------------------------------------------------------------------------
(* Another view is mounted.                                                *)

\* The requests under way are no longer the mounted view's.
Mount(v) ==
    /\ view' = v
    /\ form' = Unloaded
    /\ mine' = 0
    /\ IF v = "validate"
       THEN /\ page' = Mounted(v)
            /\ flight' = NoRequests
            /\ failed' = FALSE /\ crossed' = FALSE
       ELSE BeginLoad(NoRequests, Mounted(v), FirstQuery)
    /\ UNCHANGED server

\* navigate() or the browser's history; the present route is not mounted anew.
Navigate(route) ==
    LET here == CASE view \in ApkTabs -> "apk" [] view \in AptTabs -> "apt"
                  [] OTHER -> view IN
    /\ route # here
    /\ Mount(FirstView(route))

\* The tabs of APKPage and APTPage.
ApkTab(v) == view \in ApkTabs /\ v \in ApkTabs \ {view} /\ Mount(v)
AptTab(v) == view \in AptTabs /\ v \in AptTabs \ {view} /\ Mount(v)
-----------------------------------------------------------------------------
(* The server.                                                             *)

\* The answer, with what its continuation uses: how old the rows are, or how
\* new the write is, and the settings.
Served(s, ok) ==
    flight' = [flight EXCEPT
        ![s].stage = "answered",
        ![s].ok = ok,
        ![s].at = IF ok THEN version' ELSE 0,
        ![s].data = IF ok /\ view = "config" /\ flight[s].op = "load"
                    THEN stored ELSE None]

\* Reads answer with the tables of the moment.
ServeRead(s) ==
    /\ Pending(s) /\ flight[s].stage = "sent"
    /\ flight[s].op \in Reads
    /\ UNCHANGED <<view, page, form, server, history>>
    /\ \E ok \in BOOLEAN : Served(s, ok)

\* A write is done, and may yet be reported as failed: the configuration it
\* leads to is refused after the row is written, or the answer is lost.
ServeWrite(s) ==
    /\ Pending(s) /\ flight[s].stage = "sent"
    /\ flight[s].op \in Writes
    /\ version < MaxVersion
    /\ version' = version + 1
    /\ stored' = IF flight[s].op # "put" THEN stored
                 ELSE [k \in Keys |-> IF k \in DOMAIN flight[s].arg.body
                                      THEN flight[s].arg.body[k] ELSE stored[k]]
    /\ \E ok \in BOOLEAN : Served(s, ok)
    /\ UNCHANGED <<view, page, form, history>>

\* A write is refused, or does not get through.
Refuse(s) ==
    /\ Pending(s) /\ flight[s].stage = "sent"
    /\ flight[s].op \in Writes
    /\ UNCHANGED <<view, page, form, server, history>>
    /\ Served(s, FALSE)

\* Another administrator, a request, or a view that was left changes a table,
\* and if it is that of ConfigPage any settings.
Elsewhere ==
    /\ version < MaxVersion
    /\ version' = version + 1
    /\ stored' \in IF view = "config" THEN Settings ELSE {stored}
    /\ UNCHANGED <<view, page, form, flight, history>>
-----------------------------------------------------------------------------
(* Continuations.                                                          *)

Answered(s, op) ==
    Pending(s) /\ flight[s].op = op /\ flight[s].stage = "answered"

End(s) == [flight EXCEPT ![s] = None]

(* Mutant: loading is only reset by a load that succeeds.                  *)
LoadAnsweredNoFinally(s) ==
    LET r == flight[s] IN
    /\ Answered(s, "load")
    /\ page' = IF r.ok
               THEN [page EXCEPT !.shown = [query |-> r.arg, at |-> r.at],
                                 !.loading = FALSE]
               ELSE [page EXCEPT !.error = view \in HasError]
    /\ form' = form
    /\ failed' = ~r.ok
    /\ flight' = End(s)
    /\ UNCHANGED <<view, server, mine, crossed>>

(* Mutant: edits under way are kept when the settings are loaded again.    *)
LoadAnsweredKeepsDraft(s) ==
    LET r == flight[s] IN
    /\ Answered(s, "load")
    /\ page' = IF r.ok
               THEN [page EXCEPT !.shown = [query |-> r.arg, at |-> r.at],
                                 !.loading = FALSE]
               ELSE [page EXCEPT !.error = view \in HasError, !.loading = FALSE]
    /\ form' = IF r.ok /\ view = "config"
               THEN [form EXCEPT !.settings = r.data, !.touched = {}] ELSE form
    /\ failed' = ~r.ok
    /\ flight' = End(s)
    /\ UNCHANGED <<view, server, mine, crossed>>

\* load(): the rows, or the error; either way it is no longer loading.
LoadAnswered(s) ==
    LET r == flight[s] IN
    /\ Answered(s, "load")
    /\ page' = IF r.ok
               THEN [page EXCEPT !.shown = [query |-> r.arg, at |-> r.at],
                                 !.loading = FALSE]
               ELSE [page EXCEPT !.error = view \in HasError, !.loading = FALSE]
    /\ form' = IF r.ok /\ view = "config"
               THEN [settings |-> r.data, draft |-> r.data, touched |-> {}]
               ELSE form
    /\ failed' = ~r.ok
    /\ flight' = End(s)
    /\ UNCHANGED <<view, server, mine, crossed>>

(* Mutant: the handler forgets to load the table again.                    *)
WrittenUnloaded(s, op, p, q) ==
    /\ Answered(s, op) /\ flight[s].ok
    /\ page' = p
    /\ flight' = End(s)
    /\ mine' = flight[s].at
    /\ UNCHANGED <<view, form, server, failed, crossed>>

\* A write of the view is done: load() with the query the handler captured.
Written(s, op, p, q) ==
    /\ Answered(s, op) /\ flight[s].ok
    /\ UNCHANGED <<view, form, server>>
    /\ mine' = flight[s].at
    /\ BeginLoad(End(s), p, q)

\* After its confirmation the handler goes on with another request.
Confirmed(s, op, next) ==
    /\ Answered(s, op) /\ flight[s].ok
    /\ flight' = [flight EXCEPT ![s] = Message(next, @.arg)]
    /\ UNCHANGED <<view, page, form, server, history>>

\* Nothing is left to do: a report, a confirmation that is declined, or a
\* failure that is shown or ignored.
Finished(s) ==
    /\ Pending(s) /\ flight[s].stage = "answered"
    /\ flight[s].op \notin {"load", "detail"}
    /\ flight[s].ok => flight[s].op \in {"dry", "validate", "report"}
    /\ flight' = End(s)
    /\ UNCHANGED <<view, page, form, server, history>>
=============================================================================
