--------------------------- MODULE AdminSession ---------------------------
(***************************************************************************)
(* Signing in to the admin console: the tabs of one browser, which run     *)
(* App.tsx and api.ts and share one cookie jar, and the sessions and the   *)
(* administrator's row kept by the server (internal/app/admin.go).         *)
(*                                                                         *)
(* A session, its cookie and its CSRF token are one model value: the       *)
(* server makes and the browser stores the three together.  The account    *)
(* is "default" until its name or password is changed.  A request goes     *)
(* through requireAdmin and through its handler in two steps, other        *)
(* requests in between; until the page has the answer it may be refused,   *)
(* or lost on either way.  The browser minds the cookies of an answer when *)
(* its headers arrive; the page goes on when it has read the body, which   *)
(* may yet fail.                                                           *)
(***************************************************************************)
EXTENDS Naturals, FiniteSets

CONSTANTS
    Tabs,
    Sessions,     \* bound: the sessions that logins may create
    Slots,        \* bound: requests of a tab in flight besides its boot
    Repeats,      \* bound: those that only take a form submitted once more
    InFlight,     \* bound: such requests of all tabs together
    None

VARIABLES
    sessions,     \* rows of admin_sessions that have not expired
    issued,       \* sessions ever created: tokens are random, never reused
    account,      \* is_default_credential of the administrator's row
    jar,          \* the browser's cookies: a session, or None
    user,         \* App's user per tab: None shows the sign-in form
    csrf,         \* csrfToken of api.ts per tab
    flight,       \* request in each slot of each tab, or None
    disturbed     \* history: tabs whose page, since it was loaded, has seen the
                  \* cookies change by other hands, two of its own answers
                  \* with cookies under way at once, one without its body, or
                  \* its boot answered after it was signed in

vars == <<sessions, issued, account, jar, user, csrf, flight, disturbed>>
server == <<sessions, issued, account>>
page == <<user, csrf>>

Credential == {"default", "changed"}
Cookie == Sessions \cup {None}
AllSlots == Slots \cup {"boot"}

Request == [op : {"me", "login", "logout", "account"},
            cookie : Cookie,      \* cookies sent; for a login, those it is given
            csrf : Cookie,        \* X-CSRF-Token, until it has been checked
            stage : {"sent", "admitted", "answered", "arrived"},
            seen : Credential,    \* is_default_credential of the row read
            orphan : BOOLEAN]     \* the page that sent it has gone

ASSUME SessionAssumption ==
    /\ None \notin Sessions \cup Credential \cup Request
    /\ "boot" \notin Slots

Pending(t, s) == flight[t][s] # None

Put(t, s, r) == flight' = [flight EXCEPT ![t][s] = r]

\* request(): the browser adds the cookies of this moment, api.ts its token.
Message(op, cookie, token) ==
    [op |-> op, cookie |-> cookie, csrf |-> token, stage |-> "sent",
     seen |-> "default", orphan |-> FALSE]

\* Every tab shows a page just loaded, in a browser without cookies.
Init ==
    /\ sessions = {} /\ issued = {}
    /\ account = "default"
    /\ jar = None
    /\ user = [t \in Tabs |-> None]
    /\ csrf = [t \in Tabs |-> None]
    /\ flight = [t \in Tabs |-> [s \in AllSlots |->
                    IF s = "boot" THEN Message("me", None, None) ELSE None]]
    /\ disturbed = {}
-----------------------------------------------------------------------------
(* What the administrator does.                                            *)

\* Requests of tab t when its page goes: those that the server has still to
\* work on run on, and answers may have cookies for the browser; the others,
\* and the GET of boot, change nothing any more and are forgotten.
Orphaned(t) ==
    [flight EXCEPT ![t] = [s \in AllSlots |->
        IF \/ s = "boot" \/ ~Pending(t, s)
           \/ flight[t][s].stage = "arrived"
           \/ flight[t][s].stage = "answered" /\ flight[t][s].op \notin {"login", "logout"}
        THEN None
        ELSE [flight[t][s] EXCEPT !.orphan = TRUE, !.seen = "default"]]]

\* The scripts start over with cookies c: api.ts reads the token, boot asks
\* who is signed in.
LoadPage(t, c, inFlight) ==
    /\ user' = [user EXCEPT ![t] = None]
    /\ csrf' = [csrf EXCEPT ![t] = c]
    /\ flight' = [inFlight EXCEPT ![t]["boot"] = Message("me", c, None)]

\* The tab is reloaded, or closed and opened again.
Load(t) ==
    /\ LoadPage(t, jar, Orphaned(t))
    /\ disturbed' = disturbed \ {t}
    /\ UNCHANGED <<server, jar>>

\* api() with a method other than GET.
Send(t, op, cookie, token) ==
    /\ Cardinality({p \in Tabs \X Slots : Pending(p[1], p[2])}) < InFlight
    /\ \E s \in Slots :
           /\ ~Pending(t, s)
           /\ s \in Repeats => op = "login"
           /\ Put(t, s, Message(op, cookie, token))
    /\ UNCHANGED <<server, jar, page, disturbed>>

\* The form stays enabled while boot, or an earlier submit, is under way.
Submit(t) == user[t] = None /\ Send(t, "login", None, None)

Logout(t) == user[t] # None /\ Send(t, "logout", jar, csrf[t])

\* saveUsername or savePassword, the two forms of the dialog.
SaveAccount(t) == user[t] # None /\ Send(t, "account", jar, csrf[t])
-----------------------------------------------------------------------------
(* The server and the network.                                             *)

\* What the page will learn: that it worked and, of a sign-in, whose cookies
\* and account it is about.
Answer(t, s, cookie) ==
    LET r == flight[t][s] IN
    Put(t, s, [op |-> r.op, cookie |-> cookie, csrf |-> None,
               stage |-> "answered",
               seen |-> IF cookie = None THEN "default" ELSE r.seen,
               orphan |-> r.orphan])

\* requireAdmin lets the request in, or adminLogin has found the name.  Both
\* read the administrator's row; adminMe and adminLogin answer from it.
Admit(t, s) ==
    LET r == flight[t][s] IN
    /\ Pending(t, s) /\ r.stage = "sent"
    /\ r.op # "login" =>
           /\ r.cookie \in sessions
           /\ r.op # "me" => r.csrf = r.cookie
    /\ Put(t, s, [r EXCEPT !.stage = "admitted", !.csrf = None,
                           !.seen = IF r.op \in {"me", "login"} THEN account ELSE @])
    /\ UNCHANGED <<server, jar, page, disturbed>>

Handled(t, s, op) ==
    /\ Pending(t, s) /\ flight[t][s].op = op /\ flight[t][s].stage = "admitted"
    /\ UNCHANGED <<jar, page, disturbed>>

AdminMe(t) ==
    /\ Handled(t, "boot", "me")
    /\ Answer(t, "boot", flight[t]["boot"].cookie)
    /\ UNCHANGED server

(* Mutant: as with MarkAdminLogin, an error of CreateSession is ignored.   *)
AdminLoginUnsaved(t, s) ==
    /\ Handled(t, s, "login")
    /\ \E new \in Sessions \ issued : Answer(t, s, new)
    /\ UNCHANGED server

AdminLogin(t, s) ==
    /\ Handled(t, s, "login")
    /\ \E new \in Sessions \ issued :
           /\ sessions' = sessions \cup {new}
           /\ issued' = issued \cup {new}
           /\ Answer(t, s, new)
    /\ UNCHANGED account

AdminLogout(t, s) ==
    /\ Handled(t, s, "logout")
    /\ sessions' = sessions \ {flight[t][s].cookie}
    /\ Answer(t, s, None)
    /\ UNCHANGED <<issued, account>>

\* adminUpdateUsername, adminChangePassword.
AdminUpdateAccount(t, s) ==
    /\ Handled(t, s, "account")
    /\ account' = "changed"
    /\ Answer(t, s, None)
    /\ UNCHANGED <<sessions, issued>>

\* adminSessionTTL passes; the cookies expire with the session.
Expire(x) ==
    /\ x \in sessions
    /\ sessions' = sessions \ {x}
    /\ UNCHANGED <<issued, account, jar, page, flight, disturbed>>

CookiesExpire ==
    /\ jar # None /\ jar \notin sessions
    /\ jar' = None
    /\ disturbed' = Tabs
    /\ UNCHANGED <<server, page, flight>>
-----------------------------------------------------------------------------
(* The browser, and the continuations of api() in the page.                *)

\* The answer has headers that set cookies, which have taken effect, and its
\* body is being read: `await response.json()`.
HalfWay(t, s) ==
    /\ Pending(t, s) /\ flight[t][s].stage = "arrived" /\ ~flight[t][s].orphan

\* The headers of a sign-in, or of a sign-out, arrive.
Arrive(t, s) ==
    LET r == flight[t][s] IN
    /\ Pending(t, s) /\ r.stage = "answered" /\ r.op \in {"login", "logout"}
    /\ ~r.orphan
    /\ jar' = IF r.op = "login" THEN r.cookie ELSE None
    /\ disturbed' = disturbed \cup (Tabs \ {t}) \cup
                       {u \in {t} : \E x \in AllSlots : HalfWay(t, x)}
    /\ Put(t, s, [r EXCEPT !.stage = "arrived"])
    /\ UNCHANGED <<server, page>>

\* The body of the answer to op has been read and parsed.
Answered(t, s, op) ==
    /\ Pending(t, s) /\ flight[t][s].op = op /\ ~flight[t][s].orphan
    /\ flight[t][s].stage = IF op = "login" THEN "arrived" ELSE "answered"

\* api() throws: no session, a wrong token or password, an error of the
\* database, or a request or an answer that does not get through or loses its
\* body.  The form or the dialog shows the failure, boot ignores it; cookies
\* that have arrived stay.
ShowFailure(t, s) ==
    /\ Pending(t, s) /\ flight[t][s].op # "logout"
    /\ ~flight[t][s].orphan
    /\ disturbed' = disturbed \cup {u \in {t} : HalfWay(t, s)}
    /\ Put(t, s, None)
    /\ UNCHANGED <<server, jar, page>>

\* boot(): the user and the token of whoever the answer is about.
Booted(t) ==
    /\ Answered(t, "boot", "me")
    /\ csrf' = [csrf EXCEPT ![t] = flight[t]["boot"].cookie]
    /\ user' = [user EXCEPT ![t] = flight[t]["boot"].seen]
    /\ disturbed' = disturbed \cup {u \in {t} : user[t] # None}
    /\ Put(t, "boot", None)
    /\ UNCHANGED <<server, jar>>

(* Mutant: the token read when the page was loaded is kept.                *)
OnLoginKeepsToken(t, s) ==
    /\ Answered(t, s, "login")
    /\ user' = [user EXCEPT ![t] = flight[t][s].seen]
    /\ Put(t, s, None)
    /\ UNCHANGED <<server, jar, csrf, disturbed>>

OnLogin(t, s) ==
    /\ Answered(t, s, "login")
    /\ csrf' = [csrf EXCEPT ![t] = flight[t][s].cookie]
    /\ user' = [user EXCEPT ![t] = flight[t][s].seen]
    /\ Put(t, s, None)
    /\ UNCHANGED <<server, jar, disturbed>>

\* logout(): the page is left for /admin/login whether api() returns or
\* throws.  Only headers that have arrived have removed the cookies.
LoggedOut(t, s) ==
    /\ Pending(t, s) /\ flight[t][s].op = "logout" /\ ~flight[t][s].orphan
    /\ LoadPage(t, jar, [Orphaned(t) EXCEPT ![t][s] = None])
    /\ disturbed' = disturbed \ {t}
    /\ UNCHANGED <<server, jar>>

(* Mutant: the dialog shows the change before it knows of it.              *)
AccountSavedEarly(t, s) ==
    /\ Pending(t, s) /\ ~flight[t][s].orphan
    /\ flight[t][s].op = "account"
    /\ user' = [user EXCEPT ![t] = "changed"]
    /\ Put(t, s, None)
    /\ UNCHANGED <<server, jar, csrf, disturbed>>

\* Either form of the dialog: the credential is the default no longer.
AccountSaved(t, s) ==
    /\ Answered(t, s, "account")
    /\ user' = [user EXCEPT ![t] = "changed"]
    /\ Put(t, s, None)
    /\ UNCHANGED <<server, jar, csrf, disturbed>>

\* A request whose page has gone ends: if it is answered, the browser still
\* minds the cookies, once.
Land(t, s) ==
    LET r == flight[t][s] IN
    /\ Pending(t, s) /\ r.orphan
    /\ \/ /\ r.stage = "answered" /\ r.op \in {"login", "logout"}
          /\ jar' = IF r.op = "login" THEN r.cookie ELSE None
          /\ disturbed' = Tabs
       \/ UNCHANGED <<jar, disturbed>>
    /\ Put(t, s, None)
    /\ UNCHANGED <<server, page>>
-----------------------------------------------------------------------------
Act(t) ==
    \/ Load(t) \/ Submit(t) \/ Logout(t) \/ SaveAccount(t)

Serve(t, s) ==
    \/ Admit(t, s)
    \/ s = "boot" /\ AdminMe(t)
    \/ AdminLogin(t, s) \/ AdminLogout(t, s) \/ AdminUpdateAccount(t, s)

Resume(t, s) ==
    \/ Arrive(t, s) \/ ShowFailure(t, s)
    \/ s = "boot" /\ Booted(t)
    \/ OnLogin(t, s) \/ LoggedOut(t, s) \/ AccountSaved(t, s) \/ Land(t, s)

Next ==
    \/ \E t \in Tabs : Act(t)
    \/ \E t \in Tabs, s \in AllSlots :
           Serve(t, s) \/ Resume(t, s)
    \/ \E x \in Sessions : Expire(x)
    \/ CookiesExpire

Spec == Init /\ [][Next]_vars
-----------------------------------------------------------------------------
(* Properties.                                                             *)

\* Types: boot has its slot to itself, and cookies and tokens are of sessions
\* that the server has created.
TypeOK ==
    /\ sessions \subseteq issued /\ issued \subseteq Sessions
    /\ account \in Credential
    /\ jar \in issued \cup {None}
    /\ user \in [Tabs -> Credential \cup {None}]
    /\ csrf \in [Tabs -> issued \cup {None}]
    /\ flight \in [Tabs -> [AllSlots -> Request \cup {None}]]
    /\ \A t \in Tabs : Pending(t, "boot") => flight[t]["boot"].op = "me"
    /\ \A t \in Tabs, s \in AllSlots :
           Pending(t, s) => flight[t][s].cookie \in issued \cup {None}
    /\ disturbed \subseteq Tabs

\* A console without the warning about default credentials shows the truth:
\* the name or the password has been changed.  It holds whichever of the
\* answers about the account a tab applies last: boot, login and the two forms
\* each carry what some handler has read or written before (App.tsx,
\* is_default_credential).
WarningNotHidden ==
    \A t \in Tabs : user[t] = "changed" => account = "changed"

\* Between the answers to its own sign-ins and sign-outs a page has the token
\* of the cookies, so requireAdmin does not refuse its changes for their token:
\* what api.ts read when it was loaded, what boot or the form has set since, is
\* that of the cookies the browser will send.  The code does not promise more.
\* Other tabs, and answers to pages that have gone, change the cookies under a
\* page; so do two submits of a form that stays enabled, whose bodies may be
\* read in another order than their headers, and an answer whose body is lost;
\* and a boot that answers after the sign-in brings back an older token.  Each
\* of them lasts until the page is loaded again (App.tsx boot, onLogin and
\* logout, api.ts setCSRF).
TokenMatchesCookie ==
    \A t \in Tabs \ disturbed :
        (\A s \in AllSlots : ~HalfWay(t, s)) => csrf[t] = jar
=============================================================================
