--------------------------- MODULE AdminConsole ---------------------------
(***************************************************************************)
(* The admin console: every page of ListPages and EditPages under the      *)
(* router of App.tsx, with the server and other administrators.            *)
(***************************************************************************)
EXTENDS ListPages, EditPages

Init ==
    /\ view = "dashboard"
    /\ page = Mounted("dashboard")
    /\ form = Unloaded
    /\ \E s \in Slots :
           flight = [NoRequests EXCEPT ![s] = Message("load", FirstQuery)]
    /\ version = 0
    /\ stored = [k \in Keys |-> 0]
    /\ mine = 0
    /\ failed = FALSE /\ crossed = FALSE

\* The routes and the tabs.
RouteView ==
    \/ \E route \in Routes : Navigate(route)
    \/ \E v \in Views : ApkTab(v) \/ AptTab(v)

Serve(s) == ServeRead(s) \/ ServeWrite(s) \/ Refuse(s)

\* Any page: a write that is followed by load().
Reloaded(s) == Written(s, "write", page, flight[s].arg)

Resume(s) ==
    \/ LoadAnswered(s) \/ Reloaded(s) \/ Finished(s)
    \/ ListAnswer(s) \/ EditAnswer(s)

Next ==
    \/ RouteView \/ ListAction \/ EditAction
    \/ \E s \in Slots : Serve(s) \/ Resume(s)
    \/ Elsewhere

Spec == Init /\ [][Next]_vars
-----------------------------------------------------------------------------
(* Properties.                                                             *)

\* Types, and the histories: no write is known before it is done.
TypeOK ==
    /\ view \in Views
    /\ page \in Page
    /\ form \in Form
    /\ flight \in [Slots -> Request \cup {None}]
    /\ \A s \in Slots :
           Pending(s) /\ flight[s].op = "detail" => view = "cache"
    /\ version \in 0 .. MaxVersion
    /\ stored \in Settings
    /\ mine \in 0 .. version
    /\ {failed, crossed} \subseteq BOOLEAN

Settled == flight = NoRequests /\ view # "validate"

\* When nothing is under way a page shows the rows of the query it displays,
\* or says that they could not be read, provided its last load ran alone: a
\* search, a tab or a page that is chosen is always loaded in the end, through
\* an effect or directly (load, applySearch, useEffect of the pages).
PageShowsQuery ==
    Settled /\ ~crossed =>
        IF failed THEN view \in HasError => page.error
        ELSE page.shown # None /\ page.shown.query = page.query

\* When nothing is under way, what the administrator has changed in the page
\* and was told of is what the page shows, even when other requests and other
\* administrators come in between (the load() at the end of every handler).
PageShowsOwnWrites ==
    Settled /\ ~crossed /\ ~failed => page.shown.at >= mine

\* Nobody looks at a loading message that no answer will end: a failure ends
\* it as well, and a dialog is only loading while its answer is to come
\* (finally of load, catch of showDetail).
NothingWaitsInVain ==
    /\ page.loading => Loading(flight)
    /\ page.detail # None /\ page.detail.loading =>
           \E s \in Slots : /\ Pending(s) /\ flight[s].op = "detail"
                           /\ flight[s].arg = page.detail.id

\* Saving the settings never writes one that the administrator has not edited
\* since the page last took its values from the server: what other
\* administrators have changed is not put back (ConfigPage changedSettings and
\* load, which replaces the values and the drafts together).
OnlyTouchedWritten ==
    \A s \in Slots :
        Pending(s) /\ flight[s].op \in {"validate", "put"}
            => DOMAIN flight[s].arg.body \subseteq flight[s].arg.touched
=============================================================================
