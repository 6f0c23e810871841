----------------------------- MODULE EditPages -----------------------------
(***************************************************************************)
(* The pages that change the configuration: settings, the proxy and its    *)
(* host rules, upstreams, and APT mirrors.                                 *)
(***************************************************************************)
EXTENDS Console

(* ConfigPage.                                                             *)

EditSetting(k, x) ==
    /\ form.draft[k] # x
    /\ form' = [form EXCEPT !.draft[k] = x, !.touched = @ \cup {k}]
    /\ UNCHANGED <<view, page, flight, server, history>>

\* changedSettings(): the drafts that differ from what was loaded.
Changed ==
    LET K == {k \in Keys : form.draft[k] # form.settings[k]} IN
    [k \in K |-> form.draft[k]]

\* save(): without changes nothing is sent.
SaveConfig ==
    /\ DOMAIN Changed # {}
    /\ Ask("validate", [body |-> Changed, touched |-> form.touched])

\* The administrator confirms what has been validated, and that is sent.
ConfigConfirmed(s) == Confirmed(s, "validate", "put")

ConfigSaved(s) == Written(s, "put", page, page.query)

ConfigPage ==
    /\ view = "config" /\ Open
    /\ \/ \E k \in Keys, x \in Values : EditSetting(k, x)
       \/ SaveConfig
       \/ Ask("report", None)           \* validate
       \/ Ask("write", page.query)      \* reload
-----------------------------------------------------------------------------
(* Tables with a form.                                                     *)

\* A row is taken into the form, or the form is emptied.
Edit == SetPage([page EXCEPT !.editing = TRUE])

ResetForm == page.editing /\ SetPage([page EXCEPT !.editing = FALSE])

\* submit(), save(): the form is emptied once its row is written, whatever
\* has been taken into it since.
Submitted(s) == Written(s, "submit", [page EXCEPT !.editing = FALSE], page.query)

UpstreamsPage ==
    /\ view = "upstreams" /\ Open
    /\ \/ Edit \/ ResetForm
       \/ Ask("submit", page.query)     \* create or update
       \/ Ask("write", page.query)      \* toggle, delete
       \/ Ask("report", None)           \* test

\* No loading flag: the controls stay during loads.
APTMirrors ==
    /\ view = "mirrors" /\ Open
    /\ \/ Edit \/ ResetForm
       \/ Ask("submit", page.query)     \* create or update
       \/ Ask("write", page.query)      \* toggle, delete
       \/ Ask("report", None)           \* test, sources.list

\* The forms are filled by the loads; saving and the rules are writes.
ProxyPage ==
    /\ view = "proxy" /\ Open
    /\ Ask("write", page.query)
-----------------------------------------------------------------------------
EditAction == ConfigPage \/ UpstreamsPage \/ APTMirrors \/ ProxyPage

EditAnswer(s) == ConfigConfirmed(s) \/ ConfigSaved(s) \/ Submitted(s)
=============================================================================
