----------------------------- MODULE ListPages -----------------------------
(***************************************************************************)
(* The pages that show tables of the server: what each offers in which     *)
(* state, what its controls send, and the continuations of their handlers. *)
(***************************************************************************)
EXTENDS Console

\* The rows and what is under them are there too.
TableOpen == Open /\ ~page.loading

\* The search field, and the buttons of Pagination.
Type(text) == text # page.draft /\ SetPage([page EXCEPT !.draft = text])

(* Mutant: the last page has a next one.                                   *)
TurnBeyond(p) ==
    p # page.query.page /\ SetQuery([page.query EXCEPT !.page = @ + 1], page)

Turn(p) == p # page.query.page /\ SetQuery([page.query EXCEPT !.page = p], page)
-----------------------------------------------------------------------------
DashboardPage == view = "dashboard" /\ Open /\ Reload

\* The diagnostics package is a report.
SystemPage == view = "system" /\ Open /\ Ask("report", None)

\* Tabs, limits and the refresh button stay while the table is loading.
LogsPage ==
    /\ view = "logs"
    /\ \/ Reload
       \/ \E text \in Texts \ {page.query.text} :
              SetQuery([page.query EXCEPT !.text = text], page)
-----------------------------------------------------------------------------
(* CachePage.                                                              *)

\* search(): new filters, even when they are the same, close the dialog.
SearchCache ==
    SetQuery([text |-> page.draft, page |-> 1], [page EXCEPT !.detail = None])

ShowDetail(i) ==
    /\ \E s \in Free(flight) : flight' = [flight EXCEPT ![s] = Message("detail", i)]
    /\ page' = [page EXCEPT !.detail = [id |-> i, loading |-> TRUE]]
    /\ UNCHANGED <<view, form, server, history>>

CloseDetail ==
    /\ page.detail # None /\ ~page.error
    /\ SetPage([page EXCEPT !.detail = None])

\* The answer opens its dialog, whatever the dialog shows by then.
DetailAnswered(s) ==
    /\ Answered(s, "detail")
    /\ page' = [page EXCEPT !.detail = [id |-> flight[s].arg, loading |-> FALSE]]
    /\ flight' = End(s)
    /\ UNCHANGED <<view, form, server, history>>

\* The handlers capture the filters of the render they belong to: for the
\* deletion of what matches them, and for the load that follows.
CachePage ==
    /\ view = "cache"
    /\ \/ Open /\ \E text \in Texts : Type(text)
       \/ Open /\ SearchCache
       \/ TableOpen /\ \E p \in Pages : Turn(p)
       \/ TableOpen /\ \E i \in Ids : ShowDetail(i)
       \/ CloseDetail
       \/ Open /\ Ask("dry", page.query)          \* batchDelete
       \/ TableOpen /\ Ask("write", page.query)   \* deleteOne, confirmed
       \/ Open /\ Ask("write", page.query)        \* reconcile
       \/ Open /\ Ask("report", None)             \* clear memory, prewarm

\* batchDelete: the dry run has told how many objects match.
BatchConfirmed(s) == Confirmed(s, "dry", "batch")

BatchDeleted(s) == Written(s, "batch", page, flight[s].arg)
-----------------------------------------------------------------------------
(* APKPage and APTPage: tables of records, lists of indexes, the keys.     *)

(* Mutant: the effect depends on the page alone.                           *)
ApplySearchUnloaded ==
    IF page.query = [text |-> page.draft, page |-> 1]
    THEN Reload
    ELSE IF page.query.page = 1
         THEN SetPage([page EXCEPT !.query.text = page.draft])
         ELSE SetQuery([text |-> page.draft, page |-> 1], page)

\* applySearch(): the first page of what is typed; without a change there is
\* no effect to load it, so it is loaded directly.
ApplySearch ==
    IF page.query = [text |-> page.draft, page |-> 1]
    THEN Reload
    ELSE SetQuery([text |-> page.draft, page |-> 1], page)

\* APTRecords is mounted for the records and, apart, for the by-hash ones.
APKPackages ==
    /\ view = "packages" /\ Open
    /\ \/ \E text \in Texts : Type(text)
       \/ ApplySearch
       \/ \E p \in Pages : Turn(p)
       \/ Ask("reindex", page.query)

APTRecords ==
    /\ view \in {"records", "byhash"} /\ Open
    /\ \/ \E text \in Texts : Type(text)
       \/ ApplySearch
       \/ \E p \in Pages : Turn(p)
       \/ Ask("reindex", page.query)

\* The indexes are loaded anew: setPage(1), and load() for the first page of
\* the text that was searched for at the click.  Only a change of page has an
\* effect, which then loads too.
Reindexed(s) ==
    LET q == [text |-> flight[s].arg.text, page |-> 1]
        p == [page EXCEPT !.query.page = 1] IN
    /\ Answered(s, "reindex") /\ flight[s].ok
    /\ UNCHANGED <<view, form, server>>
    /\ mine' = flight[s].at
    /\ IF page.query.page = 1
       THEN BeginLoad(End(s), p, q) ELSE BeginLoads(End(s), p, q)

APKIndexes == view = "indexes" /\ Ask("write", page.query)

APKKeys == view = "keys" /\ Ask("write", page.query)

APTIndexes == view = "aptindexes" /\ Ask("write", page.query)

\* The verdict is a report.
APTValidate == view = "validate" /\ Ask("report", None)
-----------------------------------------------------------------------------
ListAction ==
    \/ DashboardPage \/ SystemPage \/ LogsPage \/ CachePage
    \/ APKPackages \/ APKIndexes \/ APKKeys
    \/ APTRecords \/ APTIndexes \/ APTValidate

ListAnswer(s) ==
    \/ DetailAnswered(s) \/ BatchConfirmed(s) \/ BatchDeleted(s) \/ Reindexed(s)
=============================================================================
