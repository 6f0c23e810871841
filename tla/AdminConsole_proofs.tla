------------------------ MODULE AdminConsole_proofs ------------------------
(***************************************************************************)
(* Proofs about AdminConsole.  Sent types what a request carries, by what  *)
(* it asks for; Drafts says which settings can differ from what was        *)
(* loaded; LoadFollows follows the last load of a view from where it is    *)
(* sent to where it is shown.  With these the four properties are          *)
(* inductive.  There is one lemma per shape of step: a load is begun, a    *)
(* request is sent or answered, a continuation ends.                       *)
(***************************************************************************)
EXTENDS AdminConsole, TLAPS

ByQuery == {"load", "dry", "batch", "write", "reindex", "submit"}

Sent ==
    \A s \in Slots : Pending(s) =>
        /\ flight[s].op \in ByQuery => flight[s].arg \in Query
        /\ flight[s].op = "detail" => flight[s].arg \in Ids
        /\ flight[s].op \in {"validate", "put"} => flight[s].arg \in Edits
        /\ flight[s].stage = "answered" => flight[s].at <= version
        /\ /\ flight[s].op = "load" /\ view = "config"
           /\ flight[s].stage = "answered" /\ flight[s].ok
           => flight[s].data \in Settings

Drafts ==
    \A k \in Keys : form.draft[k] # form.settings[k] => k \in form.touched

LoadFollows ==
    ~crossed =>
        /\ \A s \in Slots :
               Pending(s) /\ flight[s].op = "load" =>
                   /\ flight[s].arg = page.query
                   /\ flight[s].stage = "answered" /\ flight[s].ok
                          => flight[s].at >= mine
        /\ ~Loading(flight) /\ view # "validate" =>
               IF failed THEN view \in HasError => page.error
               ELSE /\ page.shown # None
                    /\ page.shown.query = page.query
                    /\ page.shown.at >= mine

IInv ==
    /\ TypeOK
    /\ Sent
    /\ Drafts
    /\ OnlyTouchedWritten
    /\ NothingWaitsInVain
    /\ LoadFollows
-----------------------------------------------------------------------------
(* Requests and pages.                                                     *)

LEMMA MessageFacts ==
    ASSUME NEW op \in Reads \cup Writes,
           NEW arg \in Query \cup Ids \cup Edits \cup {None}
    PROVE  /\ Message(op, arg) \in Request /\ Message(op, arg) # None
           /\ Message(op, arg).op = op /\ Message(op, arg).arg = arg
           /\ Message(op, arg).stage = "sent"
<1>1. Message(op, arg) \in Request
  BY ConsoleAssumption DEF Message, Request
<1> QED
  BY <1>1, ConsoleAssumption DEF Message

LEMMA FirstQueryType == FirstQuery \in Query
BY ConsoleAssumption DEF FirstQuery, Query, AnyText, Pages

LEMMA MountedType == ASSUME NEW v PROVE Mounted(v) \in Page
BY FirstQueryType, ConsoleAssumption DEF Mounted, Page, AnyText

LEMMA UnloadedType == Unloaded \in Form
BY DEF Unloaded, Form, Settings, Values

\* One slot of the requests f is filled.
LEMMA PutFacts ==
    ASSUME NEW f \in [Slots -> Request \cup {None}], NEW s \in Slots,
           NEW r \in Request \cup {None}, flight' = [f EXCEPT ![s] = r]
    PROVE  /\ flight' \in [Slots -> Request \cup {None}]
           /\ \A x \in Slots : flight'[x] = IF x = s THEN r ELSE f[x]
OBVIOUS

\* The state of a page that loads.
LEMMA BeginPage ==
    ASSUME NEW p \in Page, NEW v,
           page' = [p EXCEPT !.loading = v \in HasLoading, !.error = FALSE]
    PROVE  /\ page' \in Page /\ page'.query = p.query /\ page'.shown = p.shown
           /\ page'.error = FALSE /\ page'.detail = p.detail
<1> DEFINE b == v \in HasLoading
<1>1. b \in BOOLEAN
  OBVIOUS
<1> HIDE DEF b
<1>2. ASSUME page' = [p EXCEPT !.loading = b, !.error = FALSE]
      PROVE  /\ page' \in Page /\ page'.query = p.query /\ page'.shown = p.shown
             /\ page'.error = FALSE /\ page'.detail = p.detail
  BY <1>1, <1>2 DEF Page
<1> QED
  BY <1>2 DEF b

\* A view sends load(), with requests f and state p, and q for the query.
LEMMA BeginLoadStep ==
    ASSUME IInv,
           NEW f \in [Slots -> Request \cup {None}], NEW p \in Page,
           NEW q \in Query, BeginLoad(f, p, q),
           \A s \in Slots : f[s] \in {None, flight[s]},
           view' \in Views,
           \/ view' = view /\ form' = form
           \/ form' = Unloaded /\ \A s \in Slots : f[s] = None,
           version' = version, stored' = stored, mine' \in 0 .. version,
           \/ p.detail = None
           \/ /\ p.detail = page.detail
              /\ \A s \in Slots :
                     Pending(s) /\ flight[s].op = "detail" => f[s] = flight[s]
    PROVE  IInv'
<1> DEFINE m == Message("load", q)
<1>1. m \in Request /\ m # None /\ m.op = "load" /\ m.arg = q /\ m.stage = "sent"
  BY MessageFacts DEF Reads, Writes
<1>2. PICK s0 \in Slots : f[s0] = None /\ flight' = [f EXCEPT ![s0] = m]
  BY DEF BeginLoad, Free
<1>3. /\ flight' \in [Slots -> Request \cup {None}]
      /\ \A x \in Slots : flight'[x] = IF x = s0 THEN m ELSE f[x]
  BY <1>1, <1>2, PutFacts
<1>4. /\ page' \in Page /\ page'.query = p.query /\ page'.shown = p.shown
      /\ page'.error = FALSE /\ page'.detail = p.detail
  BY BeginPage DEF BeginLoad
<1>5. failed' = FALSE /\ crossed' = (Loading(f) \/ q # p.query)
  BY DEF BeginLoad
<1>6. form' \in Form /\ Drafts'
  <2>1. CASE form' = form
    BY <2>1 DEF IInv, TypeOK, Drafts
  <2>2. CASE form' = Unloaded
    BY <2>2, UnloadedType DEF Drafts, Unloaded
  <2> QED
    BY <2>1, <2>2
<1>7. \A s \in Slots : Pending(s)' =>
          \/ s = s0 /\ flight'[s] = m
          \/ flight'[s] = flight[s] /\ Pending(s) /\ view' = view
  BY <1>1, <1>2, <1>3 DEF Pending
<1>8. TypeOK'
  <2>1. \A s \in Slots : Pending(s)' /\ flight'[s].op = "detail" => view' = "cache"
    BY <1>1, <1>7 DEF IInv, TypeOK
  <2> QED
    BY <1>3, <1>4, <1>5, <1>6, <2>1 DEF IInv, TypeOK
<1>9. Sent'
  BY <1>1, <1>7 DEF IInv, Sent, ByQuery
<1>10. OnlyTouchedWritten'
  BY <1>1, <1>7 DEF IInv, OnlyTouchedWritten
<1>11. NothingWaitsInVain'
  <2>1. Loading(flight)'
    BY <1>1, <1>2, <1>3 DEF Loading
  <2>2. ASSUME page'.detail # None, page'.detail.loading
        PROVE  \E s \in Slots : /\ Pending(s)' /\ flight'[s].op = "detail"
                                /\ flight'[s].arg = page'.detail.id
    <3>1. p.detail = page.detail /\ p.detail # None /\ page.detail.loading
      BY <1>4, <2>2
    <3>2. PICK s \in Slots : /\ Pending(s) /\ flight[s].op = "detail"
                             /\ flight[s].arg = page.detail.id
      BY <3>1 DEF IInv, NothingWaitsInVain
    <3>3. s # s0 /\ flight'[s] = flight[s]
      BY <1>2, <1>3, <3>1, <3>2 DEF Pending
    <3> QED
      BY <1>4, <3>1, <3>2, <3>3 DEF Pending
  <2> QED
    BY <2>1, <2>2 DEF NothingWaitsInVain
<1>12. LoadFollows'
  <2> SUFFICES ASSUME ~crossed' PROVE LoadFollows'
    BY DEF LoadFollows
  <2>1. ~Loading(f) /\ q = p.query
    BY <1>5
  <2>2. ASSUME NEW s \in Slots, Pending(s)', flight'[s].op = "load"
        PROVE  flight'[s].arg = page'.query /\ flight'[s].stage = "sent"
    <3>1. s = s0
      BY <1>3, <2>1, <2>2 DEF Pending, Loading
    <3> QED
      BY <1>1, <1>3, <1>4, <2>1, <3>1
  <2>3. Loading(flight)'
    BY <1>1, <1>2, <1>3 DEF Loading
  <2> QED
    BY <2>2, <2>3 DEF LoadFollows
<1> QED
  BY <1>6, <1>8, <1>9, <1>10, <1>11, <1>12 DEF IInv

\* The same for two loads at once.
LEMMA BeginLoadsStep ==
    ASSUME IInv,
           NEW f \in [Slots -> Request \cup {None}], NEW p \in Page,
           NEW q \in Query, BeginLoads(f, p, q),
           \A s \in Slots : f[s] \in {None, flight[s]},
           view' = view, form' = form,
           version' = version, stored' = stored, mine' \in 0 .. version,
           p.detail = page.detail,
           \A s \in Slots :
               Pending(s) /\ flight[s].op = "detail" => f[s] = flight[s]
    PROVE  IInv'
<1> DEFINE m == Message("load", q)
           n == Message("load", p.query)
<1>0. p.query \in Query
  BY DEF Page
<1>1. /\ m \in Request /\ m # None /\ m.op = "load" /\ m.arg = q /\ m.stage = "sent"
      /\ n \in Request /\ n # None /\ n.op = "load" /\ n.arg = p.query
      /\ n.stage = "sent"
  BY <1>0, MessageFacts DEF Reads, Writes
<1>2. PICK s1 \in Slots, s2 \in Slots :
          /\ s1 # s2 /\ f[s1] = None /\ f[s2] = None
          /\ flight' = [f EXCEPT ![s1] = m, ![s2] = n]
  BY DEF BeginLoads, Free
<1>3. /\ flight' \in [Slots -> Request \cup {None}]
      /\ \A x \in Slots : flight'[x] = IF x = s1 THEN m
                                       ELSE IF x = s2 THEN n ELSE f[x]
  BY <1>1, <1>2
<1>4. /\ page' \in Page /\ page'.query = p.query /\ page'.shown = p.shown
      /\ page'.error = FALSE /\ page'.detail = p.detail
  BY BeginPage DEF BeginLoads
<1>5. failed' = FALSE /\ crossed' = (Loading(f) \/ q # p.query)
  BY DEF BeginLoads
<1>7. \A s \in Slots : Pending(s)' =>
          \/ flight'[s] \in {m, n}
          \/ flight'[s] = flight[s] /\ Pending(s)
  BY <1>1, <1>2, <1>3 DEF Pending
<1>8. TypeOK'
  <2>1. \A s \in Slots : Pending(s)' /\ flight'[s].op = "detail" => view' = "cache"
    BY <1>1, <1>7 DEF IInv, TypeOK
  <2> QED
    BY <1>3, <1>4, <1>5, <2>1 DEF IInv, TypeOK
<1>9. Sent'
  BY <1>0, <1>1, <1>7 DEF IInv, Sent, ByQuery
<1>10. OnlyTouchedWritten' /\ Drafts'
  BY <1>1, <1>7 DEF IInv, OnlyTouchedWritten, Drafts
<1>11. Loading(flight)'
  BY <1>1, <1>2, <1>3 DEF Loading
<1>12. NothingWaitsInVain'
  <2>1. ASSUME page'.detail # None, page'.detail.loading
        PROVE  \E s \in Slots : /\ Pending(s)' /\ flight'[s].op = "detail"
                                /\ flight'[s].arg = page'.detail.id
    <3>1. PICK s \in Slots : /\ Pending(s) /\ flight[s].op = "detail"
                             /\ flight[s].arg = page.detail.id
      BY <1>4, <2>1 DEF IInv, NothingWaitsInVain
    <3>2. flight'[s] = flight[s]
      BY <1>2, <1>3, <3>1 DEF Pending
    <3> QED
      BY <1>4, <3>1, <3>2 DEF Pending
  <2> QED
    BY <1>11, <2>1 DEF NothingWaitsInVain
<1>13. LoadFollows'
  <2> SUFFICES ASSUME ~crossed' PROVE LoadFollows'
    BY DEF LoadFollows
  <2>1. ~Loading(f) /\ q = p.query
    BY <1>5
  <2>2. ASSUME NEW s \in Slots, Pending(s)', flight'[s].op = "load"
        PROVE  flight'[s].arg = page'.query /\ flight'[s].stage = "sent"
    <3>1. flight'[s] \in {m, n}
      BY <1>3, <2>1, <2>2 DEF Pending, Loading
    <3> QED
      BY <1>1, <1>4, <2>1, <3>1
  <2> QED
    BY <1>11, <2>2 DEF LoadFollows
<1> QED
  BY <1>8, <1>9, <1>10, <1>12, <1>13 DEF IInv

\* A button sends a request.
LEMMA AskStep ==
    ASSUME IInv, NEW op \in (Reads \cup Writes) \ {"load", "detail"},
           NEW arg, Ask(op, arg),
           \/ op \in ByQuery /\ arg \in Query
           \/ op = "report" /\ arg = None
           \/ op = "validate" /\ arg \in Edits /\ DOMAIN arg.body \subseteq arg.touched
    PROVE  IInv'
<1> DEFINE m == Message(op, arg)
<1>1. m \in Request /\ m # None /\ m.op = op /\ m.arg = arg /\ m.stage = "sent"
  BY MessageFacts
<1>2. PICK s0 \in Slots : flight[s0] = None /\ flight' = [flight EXCEPT ![s0] = m]
  BY DEF Ask, Free
<1>3. /\ flight' \in [Slots -> Request \cup {None}]
      /\ \A x \in Slots : flight'[x] = IF x = s0 THEN m ELSE flight[x]
  BY <1>1, <1>2, PutFacts DEF IInv, TypeOK
<1>4. UNCHANGED <<view, page, form, version, stored, mine, failed, crossed>>
  BY DEF Ask, server, history
<1>5. TypeOK'
  BY <1>1, <1>3, <1>4 DEF IInv, TypeOK, Pending
<1>6. Sent'
  BY <1>1, <1>3, <1>4 DEF IInv, Sent, Pending, ByQuery
<1>7. OnlyTouchedWritten' /\ Drafts'
  BY <1>1, <1>3, <1>4 DEF IInv, OnlyTouchedWritten, Drafts, Pending, ByQuery
<1>8. NothingWaitsInVain'
  BY <1>1, <1>2, <1>3, <1>4 DEF IInv, NothingWaitsInVain, Loading, Pending
<1>9. LoadFollows'
  BY <1>1, <1>2, <1>3, <1>4 DEF IInv, LoadFollows, Loading, Pending
<1> QED
  BY <1>5, <1>6, <1>7, <1>8, <1>9 DEF IInv

\* Only what is typed, chosen or closed changes.
LEMMA SetPageStep ==
    ASSUME IInv, NEW p \in Page, SetPage(p),
           p.query = page.query, p.shown = page.shown,
           p.loading = page.loading, p.error = page.error,
           p.detail \in {None, page.detail}
    PROVE  IInv'
<1>1. page' = p /\ UNCHANGED <<view, form, flight, version, stored, mine, failed, crossed>>
  BY DEF SetPage, server, history
<1>2. TypeOK' /\ Sent' /\ Drafts' /\ OnlyTouchedWritten'
  BY <1>1 DEF IInv, TypeOK, Sent, Drafts, OnlyTouchedWritten, Pending
<1>3. NothingWaitsInVain'
  BY <1>1 DEF IInv, NothingWaitsInVain, Loading, Pending
<1>4. LoadFollows'
  BY <1>1 DEF IInv, LoadFollows, Loading, Pending
<1> QED
  BY <1>2, <1>3, <1>4 DEF IInv

\* The server answers, as it is then.
LEMMA ServedStep ==
    ASSUME IInv, NEW s \in Slots, Pending(s), NEW ok \in BOOLEAN,
           version' \in version .. MaxVersion, stored' \in Settings,
           Served(s, ok), UNCHANGED <<view, page, form, history>>
    PROVE  IInv'
<1> DEFINE r == flight[s]
           a == flight'[s]
<1>0. MaxVersion \in Nat /\ version \in 0 .. MaxVersion /\ mine \in 0 .. version
  BY ConsoleAssumption DEF IInv, TypeOK
<1>1. r \in Request /\ stored \in Settings
  BY DEF IInv, TypeOK, Pending
<1>2. /\ flight' = [flight EXCEPT ![s] = a]
      /\ a = [r EXCEPT !.stage = "answered", !.ok = ok,
                       !.at = IF ok THEN version' ELSE 0,
                       !.data = IF ok /\ view = "config" /\ r.op = "load"
                                THEN stored ELSE None]
  BY DEF Served, IInv, TypeOK
<1>3. /\ a \in Request /\ a.op = r.op /\ a.arg = r.arg /\ a.stage = "answered"
      /\ a.ok = ok /\ a.at = IF ok THEN version' ELSE 0
      /\ a.data = IF ok /\ view = "config" /\ r.op = "load" THEN stored ELSE None
  <2> DEFINE t == IF ok THEN version' ELSE 0
             d == IF ok /\ view = "config" /\ r.op = "load" THEN stored ELSE None
  <2>1. t \in 0 .. MaxVersion /\ d \in Settings \cup {None}
    BY <1>0, <1>1
  <2>2. a = [r EXCEPT !.stage = "answered", !.ok = ok, !.at = t, !.data = d]
    BY <1>2
  <2> HIDE DEF t, d, a, r
  <2>3. r \in Request
    BY <1>1 DEF r
  <2>4. /\ a \in Request /\ a.op = r.op /\ a.arg = r.arg /\ a.stage = "answered"
        /\ a.ok = ok /\ a.at = t /\ a.data = d
    BY <2>1, <2>2, <2>3 DEF Request
  <2> QED
    BY <2>4 DEF t, d
<1>4. /\ flight' \in [Slots -> Request \cup {None}]
      /\ \A x \in Slots : x # s => flight'[x] = flight[x]
      /\ a # None
  BY <1>2, <1>3, ConsoleAssumption DEF IInv, TypeOK
<1>5. UNCHANGED <<view, page, form, mine, failed, crossed>>
  BY DEF history
<1>6. TypeOK'
  <2>1. \A x \in Slots : Pending(x)' /\ flight'[x].op = "detail" => view' = "cache"
    BY <1>3, <1>4, <1>5 DEF IInv, TypeOK, Pending
  <2> QED
    BY <1>0, <1>4, <1>5, <2>1 DEF IInv, TypeOK
<1>7. Sent'
  <2>1. ASSUME NEW x \in Slots, Pending(x)', x # s
        PROVE  /\ Pending(x) /\ flight'[x] = flight[x]
               /\ flight[x] \in Request
    BY <1>4, <2>1 DEF Pending, IInv, TypeOK
  <2>2. \A x \in Slots : Pending(x)' /\ x # s /\ flight'[x].stage = "answered"
                             => flight'[x].at <= version'
    <3> SUFFICES ASSUME NEW x \in Slots, Pending(x)', x # s,
                        flight'[x].stage = "answered"
                 PROVE  flight'[x].at <= version'
      OBVIOUS
    <3>1. flight'[x].at \in 0 .. MaxVersion /\ flight'[x].at <= version
      BY <2>1 DEF Request, IInv, Sent
    <3> QED
      BY <1>0, <3>1
  <2>3. a.at <= version'
    BY <1>0, <1>3
  <2>4. /\ r.op \in ByQuery => r.arg \in Query
        /\ r.op = "detail" => r.arg \in Ids
        /\ r.op \in {"validate", "put"} => r.arg \in Edits
    BY DEF IInv, Sent
  <2>5. \A x \in Slots : Pending(x)' =>
          /\ flight'[x].op \in ByQuery => flight'[x].arg \in Query
          /\ flight'[x].op = "detail" => flight'[x].arg \in Ids
          /\ flight'[x].op \in {"validate", "put"} => flight'[x].arg \in Edits
          /\ /\ flight'[x].op = "load" /\ view = "config"
             /\ flight'[x].stage = "answered" /\ flight'[x].ok
             => flight'[x].data \in Settings
    <3> SUFFICES ASSUME NEW x \in Slots, Pending(x)'
                 PROVE  /\ flight'[x].op \in ByQuery => flight'[x].arg \in Query
                        /\ flight'[x].op = "detail" => flight'[x].arg \in Ids
                        /\ flight'[x].op \in {"validate", "put"} => flight'[x].arg \in Edits
                        /\ /\ flight'[x].op = "load" /\ view = "config"
                           /\ flight'[x].stage = "answered" /\ flight'[x].ok
                           => flight'[x].data \in Settings
      OBVIOUS
    <3>1. CASE x = s
      BY <1>1, <1>3, <2>4, <3>1
    <3>2. CASE x # s
      BY <2>1, <3>2 DEF IInv, Sent
    <3> QED
      BY <3>1, <3>2
  <2> QED
    BY <1>5, <2>2, <2>3, <2>5 DEF Sent
<1>8. OnlyTouchedWritten' /\ Drafts'
  BY <1>3, <1>4, <1>5 DEF IInv, OnlyTouchedWritten, Drafts, Pending
<1>9. Loading(flight)' <=> Loading(flight)
  BY <1>3, <1>4 DEF Loading, Pending
<1>10. NothingWaitsInVain'
  BY <1>3, <1>4, <1>5, <1>9 DEF IInv, NothingWaitsInVain, Pending
<1>11. LoadFollows'
  <2>1. ok => a.at >= mine
    BY <1>0, <1>3
  <2>2. ASSUME ~crossed', NEW x \in Slots, Pending(x)', flight'[x].op = "load"
        PROVE  /\ flight'[x].arg = page'.query
               /\ flight'[x].stage = "answered" /\ flight'[x].ok
                      => flight'[x].at >= mine'
    <3>1. CASE x = s
      BY <1>3, <1>5, <2>1, <2>2, <3>1 DEF IInv, LoadFollows
    <3>2. CASE x # s
      BY <1>4, <1>5, <2>2, <3>2 DEF IInv, LoadFollows, Pending
    <3> QED
      BY <3>1, <3>2
  <2> QED
    BY <1>5, <1>9, <2>2 DEF IInv, LoadFollows
<1> QED
  BY <1>6, <1>7, <1>8, <1>10, <1>11 DEF IInv

\* A continuation ends, without a load or a detail.
LEMMA EndStep ==
    ASSUME IInv, NEW s \in Slots, Pending(s),
           flight[s].op \notin {"load", "detail"}, flight' = End(s),
           UNCHANGED <<view, page, form, server, history>>
    PROVE  IInv'
<1>1. /\ flight' \in [Slots -> Request \cup {None}]
      /\ \A x \in Slots : flight'[x] = IF x = s THEN None ELSE flight[x]
  BY PutFacts DEF End, IInv, TypeOK
<1>2. UNCHANGED <<view, page, form, version, stored, mine, failed, crossed>>
  BY DEF server, history
<1>3. TypeOK' /\ Sent' /\ Drafts' /\ OnlyTouchedWritten'
  BY <1>1, <1>2 DEF IInv, TypeOK, Sent, Drafts, OnlyTouchedWritten, Pending
<1>4. NothingWaitsInVain'
  BY <1>1, <1>2 DEF IInv, NothingWaitsInVain, Loading, Pending
<1>5. LoadFollows'
  BY <1>1, <1>2 DEF IInv, LoadFollows, Loading, Pending
<1> QED
  BY <1>3, <1>4, <1>5 DEF IInv

\* A confirmed request goes on as another one about the same.
LEMMA ConfirmedStep ==
    ASSUME IInv, NEW s \in Slots, NEW op, NEW next,
           <<op, next>> \in {<<"dry", "batch">>, <<"validate", "put">>},
           Confirmed(s, op, next)
    PROVE  IInv'
<1> DEFINE m == Message(next, flight[s].arg)
<1>0. Pending(s) /\ flight[s] \in Request /\ flight[s].op = op
  BY DEF Confirmed, Answered, Pending, IInv, TypeOK
<1>1. m \in Request /\ m # None /\ m.op = next /\ m.arg = flight[s].arg /\ m.stage = "sent"
  BY <1>0, MessageFacts DEF Request, Reads, Writes
<1>2. /\ flight' \in [Slots -> Request \cup {None}]
      /\ \A x \in Slots : flight'[x] = IF x = s THEN m ELSE flight[x]
  BY <1>1, PutFacts DEF Confirmed, IInv, TypeOK
<1>3. UNCHANGED <<view, page, form, version, stored, mine, failed, crossed>>
  BY DEF Confirmed, server, history
<1>4. TypeOK'
  BY <1>1, <1>2, <1>3 DEF IInv, TypeOK, Pending
<1>5. Sent'
  BY <1>0, <1>1, <1>2, <1>3 DEF IInv, Sent, Pending, ByQuery
<1>6. OnlyTouchedWritten' /\ Drafts'
  BY <1>0, <1>1, <1>2, <1>3 DEF IInv, OnlyTouchedWritten, Drafts, Pending
<1>7. NothingWaitsInVain'
  BY <1>0, <1>1, <1>2, <1>3 DEF IInv, NothingWaitsInVain, Loading, Pending
<1>8. LoadFollows'
  BY <1>0, <1>1, <1>2, <1>3 DEF IInv, LoadFollows, Loading, Pending
<1> QED
  BY <1>4, <1>5, <1>6, <1>7, <1>8 DEF IInv

\* load() has its answer.
LEMMA LoadAnsweredStep ==
    ASSUME IInv, NEW s \in Slots, LoadAnswered(s)
    PROVE  IInv'
<1> DEFINE r == flight[s]
           rows == [query |-> r.arg, at |-> r.at]
<1>0. /\ Pending(s) /\ r.op = "load" /\ r.stage = "answered"
      /\ r \in Request /\ r.ok \in BOOLEAN
  BY DEF LoadAnswered, Answered, Pending, IInv, TypeOK, Request
<1>1. r.arg \in Query /\ r.at \in 0 .. MaxVersion
  BY <1>0 DEF IInv, Sent, ByQuery, Request
<1>2. rows \in Rows /\ rows # None
  BY <1>1, ConsoleAssumption DEF Rows
<1>3. /\ flight' \in [Slots -> Request \cup {None}]
      /\ \A x \in Slots : flight'[x] = IF x = s THEN None ELSE flight[x]
  BY PutFacts DEF LoadAnswered, End, IInv, TypeOK
<1>4. UNCHANGED <<view, version, stored, mine, crossed>> /\ failed' = ~r.ok
  BY DEF LoadAnswered, server
<1>5. CASE r.ok
  <2>1. page' = [page EXCEPT !.shown = rows, !.loading = FALSE]
    BY <1>5 DEF LoadAnswered
  <2>2. /\ page' \in Page /\ page'.shown = rows /\ page'.query = page.query
        /\ page'.loading = FALSE /\ page'.detail = page.detail
    BY <1>2, <2>1 DEF IInv, TypeOK, Page
  <2>3. form' \in Form /\ Drafts'
    <3>1. CASE view = "config"
      <4>1. r.data \in Settings
        BY <1>0, <1>5, <3>1 DEF IInv, Sent
      <4>2. form' = [settings |-> r.data, draft |-> r.data, touched |-> {}]
        BY <1>5, <3>1 DEF LoadAnswered
      <4> QED
        BY <4>1, <4>2 DEF Form, Drafts
    <3>2. CASE view # "config"
      BY <3>2 DEF LoadAnswered, IInv, TypeOK, Drafts
    <3> QED
      BY <3>1, <3>2
  <2>4. TypeOK' /\ Sent' /\ OnlyTouchedWritten'
    BY <1>0, <1>3, <1>4, <2>2, <2>3 DEF IInv, TypeOK, Sent, OnlyTouchedWritten, Pending
  <2>5. NothingWaitsInVain'
    BY <1>0, <1>3, <2>2 DEF IInv, NothingWaitsInVain, Loading, Pending
  <2>6. LoadFollows'
    <3> SUFFICES ASSUME ~crossed' PROVE LoadFollows'
      BY DEF LoadFollows
    <3>1. r.arg = page.query /\ r.at >= mine
      BY <1>0, <1>4, <1>5 DEF IInv, LoadFollows
    <3>2. failed' = FALSE
      BY <1>4, <1>5
    <3>3. /\ page'.shown # None
          /\ page'.shown.query = page'.query
          /\ page'.shown.at >= mine'
      BY <1>2, <1>4, <2>2, <3>1
    <3>4. ASSUME NEW x \in Slots, Pending(x)', flight'[x].op = "load"
          PROVE  /\ flight'[x].arg = page'.query
                 /\ flight'[x].stage = "answered" /\ flight'[x].ok
                        => flight'[x].at >= mine'
      BY <1>3, <1>4, <2>2, <3>4 DEF IInv, LoadFollows, Pending
    <3> QED
      BY <3>2, <3>3, <3>4 DEF LoadFollows
  <2> QED
    BY <2>3, <2>4, <2>5, <2>6 DEF IInv
<1>6. CASE ~r.ok
  <2>1. page' = [page EXCEPT !.error = view \in HasError, !.loading = FALSE]
    BY <1>6 DEF LoadAnswered
  <2>2. /\ page' \in Page /\ page'.shown = page.shown /\ page'.query = page.query
        /\ page'.loading = FALSE /\ page'.detail = page.detail
        /\ view \in HasError => page'.error
    <3> DEFINE e == view \in HasError
    <3>1. e \in BOOLEAN /\ (view \in HasError => e)
      OBVIOUS
    <3>2. page' = [page EXCEPT !.error = e, !.loading = FALSE]
      BY <2>1
    <3> HIDE DEF e
    <3> QED
      BY <3>1, <3>2 DEF IInv, TypeOK, Page
  <2>3. form' = form
    BY <1>6 DEF LoadAnswered
  <2>4. TypeOK' /\ Sent' /\ OnlyTouchedWritten' /\ Drafts'
    BY <1>0, <1>3, <1>4, <2>2, <2>3
    DEF IInv, TypeOK, Sent, OnlyTouchedWritten, Drafts, Pending
  <2>5. NothingWaitsInVain'
    BY <1>0, <1>3, <2>2 DEF IInv, NothingWaitsInVain, Loading, Pending
  <2>6. LoadFollows'
    BY <1>0, <1>3, <1>4, <1>6, <2>2 DEF IInv, LoadFollows, Loading, Pending
  <2> QED
    BY <2>4, <2>5, <2>6 DEF IInv
<1> QED
  BY <1>0, <1>5, <1>6

\* Details are asked for, and shown.
LEMMA DetailStep ==
    ASSUME IInv,
           \/ view = "cache" /\ \E i \in Ids : ShowDetail(i)
           \/ \E s \in Slots : DetailAnswered(s)
    PROVE  IInv'
<1>1. ASSUME view = "cache", NEW i \in Ids, ShowDetail(i) PROVE IInv'
  <2> DEFINE m == Message("detail", i)
  <2>1. m \in Request /\ m # None /\ m.op = "detail" /\ m.arg = i /\ m.stage = "sent"
    BY MessageFacts DEF Reads
  <2>2. PICK s0 \in Slots : flight[s0] = None /\ flight' = [flight EXCEPT ![s0] = m]
    BY <1>1 DEF ShowDetail, Free
  <2>3. /\ flight' \in [Slots -> Request \cup {None}]
        /\ \A x \in Slots : flight'[x] = IF x = s0 THEN m ELSE flight[x]
    BY <2>1, <2>2, PutFacts DEF IInv, TypeOK
  <2>4. /\ page' = [page EXCEPT !.detail = [id |-> i, loading |-> TRUE]]
        /\ UNCHANGED <<view, form, version, stored, mine, failed, crossed>>
    BY <1>1 DEF ShowDetail, server, history
  <2>5. /\ page' \in Page /\ page'.query = page.query /\ page'.shown = page.shown
        /\ page'.loading = page.loading /\ page'.error = page.error
        /\ page'.detail.id = i
    BY <2>4 DEF IInv, TypeOK, Page
  <2>6. TypeOK' /\ Drafts'
    BY <1>1, <2>3, <2>4, <2>5 DEF IInv, TypeOK, Drafts, Pending
  <2>7. Sent' /\ OnlyTouchedWritten'
    BY <2>1, <2>3, <2>4 DEF IInv, Sent, OnlyTouchedWritten, Pending, ByQuery
  <2>8. NothingWaitsInVain'
    BY <2>1, <2>2, <2>3, <2>5 DEF IInv, NothingWaitsInVain, Loading, Pending
  <2>9. LoadFollows'
    BY <2>1, <2>2, <2>3, <2>4, <2>5 DEF IInv, LoadFollows, Loading, Pending
  <2> QED
    BY <2>6, <2>7, <2>8, <2>9 DEF IInv
<1>2. ASSUME NEW s \in Slots, DetailAnswered(s) PROVE IInv'
  <2>1. Pending(s) /\ flight[s].op = "detail" /\ flight[s].arg \in Ids
    BY <1>2 DEF DetailAnswered, Answered, IInv, Sent
  <2>2. /\ flight' \in [Slots -> Request \cup {None}]
        /\ \A x \in Slots : flight'[x] = IF x = s THEN None ELSE flight[x]
    BY <1>2, PutFacts DEF DetailAnswered, End, IInv, TypeOK
  <2>3. /\ page' = [page EXCEPT !.detail = [id |-> flight[s].arg, loading |-> FALSE]]
        /\ UNCHANGED <<view, form, version, stored, mine, failed, crossed>>
    BY <1>2 DEF DetailAnswered, server, history
  <2>4. /\ page' \in Page /\ page'.query = page.query /\ page'.shown = page.shown
        /\ page'.loading = page.loading /\ page'.error = page.error
        /\ page'.detail.loading = FALSE
    BY <2>1, <2>3 DEF IInv, TypeOK, Page
  <2>5. TypeOK' /\ Sent' /\ OnlyTouchedWritten' /\ Drafts'
    BY <2>2, <2>3, <2>4
    DEF IInv, TypeOK, Sent, OnlyTouchedWritten, Drafts, Pending
  <2>6. NothingWaitsInVain'
    BY <2>1, <2>2, <2>4 DEF IInv, NothingWaitsInVain, Loading, Pending
  <2>7. LoadFollows'
    BY <2>1, <2>2, <2>3, <2>4 DEF IInv, LoadFollows, Loading, Pending
  <2> QED
    BY <2>5, <2>6, <2>7 DEF IInv
<1> QED
  BY <1>1, <1>2

\* A setting is edited.
LEMMA EditSettingStep ==
    ASSUME IInv, NEW k \in Keys, NEW x \in Values, EditSetting(k, x)
    PROVE  IInv'
<1>1. /\ form' = [form EXCEPT !.draft[k] = x, !.touched = @ \cup {k}]
      /\ UNCHANGED <<view, page, flight, version, stored, mine, failed, crossed>>
  BY DEF EditSetting, server, history
<1>2. form' \in Form /\ Drafts'
  BY <1>1 DEF IInv, TypeOK, Drafts, Form, Settings
<1>3. TypeOK' /\ Sent' /\ OnlyTouchedWritten'
  BY <1>1, <1>2 DEF IInv, TypeOK, Sent, OnlyTouchedWritten, Pending
<1>4. NothingWaitsInVain' /\ LoadFollows'
  BY <1>1 DEF IInv, NothingWaitsInVain, LoadFollows, Loading, Pending
<1> QED
  BY <1>2, <1>3, <1>4 DEF IInv

\* Somebody else changes a table.
LEMMA ElsewhereStep ==
    ASSUME IInv, Elsewhere
    PROVE  IInv'
<1>0. MaxVersion \in Nat /\ version \in 0 .. MaxVersion /\ mine \in 0 .. version
  BY ConsoleAssumption DEF IInv, TypeOK
<1>1. /\ version' = version + 1 /\ version < MaxVersion /\ stored' \in Settings
      /\ UNCHANGED <<view, page, form, flight, mine, failed, crossed>>
  BY DEF Elsewhere, history, IInv, TypeOK
<1>2. TypeOK' /\ OnlyTouchedWritten' /\ Drafts'
  BY <1>0, <1>1 DEF IInv, TypeOK, OnlyTouchedWritten, Drafts, Pending
<1>3. Sent'
  <2>1. ASSUME NEW s \in Slots, Pending(s), flight[s].stage = "answered"
        PROVE  flight[s].at <= version'
    <3>1. flight[s].at \in 0 .. MaxVersion /\ flight[s].at <= version
      BY <2>1 DEF IInv, TypeOK, Sent, Pending, Request
    <3> QED
      BY <1>0, <1>1, <3>1
  <2> QED
    BY <1>1, <2>1 DEF IInv, Sent, Pending
<1>4. NothingWaitsInVain' /\ LoadFollows'
  BY <1>1 DEF IInv, NothingWaitsInVain, LoadFollows, Loading, Pending
<1> QED
  BY <1>2, <1>3, <1>4 DEF IInv

\* A write of the view is done, and the table is loaded again.
LEMMA WrittenStep ==
    ASSUME IInv, NEW s \in Slots, NEW op \in {"write", "batch", "submit", "put"},
           NEW p \in Page, NEW q \in Query, Written(s, op, p, q),
           p.detail = page.detail
    PROVE  IInv'
<1>1. Pending(s) /\ flight[s].op = op /\ flight[s].stage = "answered"
  BY DEF Written, Answered
<1>2. /\ End(s) \in [Slots -> Request \cup {None}]
      /\ \A x \in Slots : End(s)[x] = IF x = s THEN None ELSE flight[x]
  BY DEF End, IInv, TypeOK
<1>3. mine' \in 0 .. version
  <2>1. flight[s].at \in 0 .. MaxVersion /\ flight[s].at <= version
    BY <1>1 DEF IInv, TypeOK, Sent, Pending, Request
  <2> QED
    BY <2>1, ConsoleAssumption DEF Written, IInv, TypeOK
<1>4. /\ view' = view /\ form' = form /\ version' = version /\ stored' = stored
      /\ view' \in Views /\ BeginLoad(End(s), p, q)
  BY DEF Written, server, IInv, TypeOK
<1>5. \A x \in Slots : End(s)[x] \in {None, flight[x]}
  BY <1>2
<1>6. \A x \in Slots : Pending(x) /\ flight[x].op = "detail" => End(s)[x] = flight[x]
  BY <1>1, <1>2
<1> HIDE DEF End
<1> QED
  BY <1>2, <1>3, <1>4, <1>5, <1>6, BeginLoadStep

LEMMA ReindexedStep ==
    ASSUME IInv, NEW s \in Slots, Reindexed(s)
    PROVE  IInv'
<1> DEFINE q == [text |-> flight[s].arg.text, page |-> 1]
           p == [page EXCEPT !.query.page = 1]
<1>1. Pending(s) /\ flight[s].op = "reindex" /\ flight[s].stage = "answered"
  BY DEF Reindexed, Answered
<1>2. /\ End(s) \in [Slots -> Request \cup {None}]
      /\ \A x \in Slots : End(s)[x] = IF x = s THEN None ELSE flight[x]
  BY DEF End, IInv, TypeOK
<1>3. mine' \in 0 .. version
  <2>1. flight[s].at \in 0 .. MaxVersion /\ flight[s].at <= version
    BY <1>1 DEF IInv, TypeOK, Sent, Pending, Request
  <2> QED
    BY <2>1, ConsoleAssumption DEF Reindexed, IInv, TypeOK
<1>4. /\ view' = view /\ form' = form /\ version' = version /\ stored' = stored
      /\ view' \in Views
      /\ BeginLoad(End(s), p, q) \/ BeginLoads(End(s), p, q)
  BY DEF Reindexed, server, IInv, TypeOK
<1>5. \A x \in Slots : End(s)[x] \in {None, flight[x]}
  BY <1>2
<1>6. \A x \in Slots : Pending(x) /\ flight[x].op = "detail" => End(s)[x] = flight[x]
  BY <1>1, <1>2
<1>7. q \in Query /\ p \in Page /\ p.detail = page.detail
  <2>1. flight[s].arg \in Query /\ page \in Page
    BY <1>1 DEF IInv, TypeOK, Sent, ByQuery
  <2> QED
    BY <2>1 DEF Query, Page, Pages
<1> HIDE DEF q, p
<1> QED
  BY <1>2, <1>3, <1>4, <1>5, <1>6, <1>7, BeginLoadStep, BeginLoadsStep

\* Another view is mounted.
LEMMA MountStep ==
    ASSUME IInv, NEW v \in Views, Mount(v)
    PROVE  IInv'
<1>1. /\ view' = v /\ form' = Unloaded /\ mine' = 0
      /\ version' = version /\ stored' = stored
  BY DEF Mount, server
<1>2. /\ NoRequests \in [Slots -> Request \cup {None}]
      /\ \A s \in Slots : NoRequests[s] = None
  BY DEF NoRequests
<1>3. mine' \in 0 .. version
  BY <1>1, ConsoleAssumption DEF IInv, TypeOK
<1>4. CASE v = "validate"
  <2>1. /\ page' = Mounted(v) /\ flight' = NoRequests
        /\ failed' = FALSE /\ crossed' = FALSE
    BY <1>4 DEF Mount
  <2>2. page'.loading = FALSE /\ page'.detail = None
    <3>1. (v \in HasLoading) = FALSE
      BY <1>4 DEF HasLoading
    <3>2. page'.loading = (v \in HasLoading) /\ page'.detail = None
      BY <2>1 DEF Mounted
    <3> QED
      BY <3>1, <3>2
  <2>3. TypeOK'
    BY <1>1, <1>2, <1>3, <2>1, MountedType, UnloadedType DEF IInv, TypeOK, Pending
  <2>4. Sent' /\ OnlyTouchedWritten' /\ Drafts'
    BY <1>1, <1>2, <2>1 DEF Sent, OnlyTouchedWritten, Drafts, Pending, Unloaded
  <2>5. NothingWaitsInVain' /\ LoadFollows'
    BY <1>1, <1>2, <1>4, <2>1, <2>2 DEF NothingWaitsInVain, LoadFollows, Pending
  <2> QED
    BY <2>3, <2>4, <2>5 DEF IInv
<1>5. CASE v # "validate"
  <2>1. BeginLoad(NoRequests, Mounted(v), FirstQuery)
    BY <1>5 DEF Mount
  <2>2. Mounted(v).detail = None
    BY DEF Mounted
  <2> QED
    BY <1>1, <1>2, <1>3, <2>1, <2>2, FirstQueryType, MountedType, BeginLoadStep
<1> QED
  BY <1>4, <1>5
-----------------------------------------------------------------------------
(* The pages.                                                              *)

\* A page of which another query is to be shown.
LEMMA SetQueryStep ==
    ASSUME IInv, NEW q \in Query, NEW p \in Page, SetQuery(q, p),
           \/ p.detail = None
           \/ p.detail = page.detail
    PROVE  IInv'
<1> DEFINE p1 == [p EXCEPT !.query = q]
<1>1. p1 \in Page /\ p1.detail = p.detail
  BY DEF Page
<1>2. /\ view' = view /\ form' = form /\ version' = version /\ stored' = stored
      /\ mine' = mine /\ BeginLoad(flight, p1, q)
  BY DEF SetQuery, server
<1> HIDE DEF p1
<1> QED
  BY <1>1, <1>2, BeginLoadStep DEF IInv, TypeOK

LEMMA ReloadStep ==
    ASSUME IInv, Reload
    PROVE  IInv'
<1>1. /\ view' = view /\ form' = form /\ version' = version /\ stored' = stored
      /\ mine' = mine /\ BeginLoad(flight, page, page.query)
  BY DEF Reload, server
<1>2. page.query \in Query
  BY DEF IInv, TypeOK, Page
<1> QED
  BY <1>1, <1>2, BeginLoadStep DEF IInv, TypeOK

\* What is typed, the search, and another page of the table.
LEMMA SearchStep ==
    ASSUME IInv,
           \/ \E text \in Texts : Type(text)
           \/ ApplySearch
           \/ \E p \in Pages : Turn(p)
           \/ SearchCache
           \/ CloseDetail
    PROVE  IInv'
<1>0. page \in Page
  BY DEF IInv, TypeOK
<1> DEFINE typed == [text |-> page.draft, page |-> 1]
<1>1. typed \in Query
  BY <1>0 DEF Page, Query, Pages
<1>2. ASSUME NEW text \in Texts, Type(text) PROVE IInv'
  <2> DEFINE p == [page EXCEPT !.draft = text]
  <2>1. /\ p \in Page /\ p.query = page.query /\ p.shown = page.shown
        /\ p.loading = page.loading /\ p.error = page.error
        /\ p.detail = page.detail
    BY <1>0 DEF Page
  <2>2. SetPage(p)
    BY <1>2 DEF Type
  <2> HIDE DEF p
  <2> QED
    BY <2>1, <2>2, SetPageStep
<1>3. ASSUME ApplySearch PROVE IInv'
  BY <1>0, <1>1, <1>3, ReloadStep, SetQueryStep DEF ApplySearch
<1>4. ASSUME NEW p \in Pages, Turn(p) PROVE IInv'
  <2>1. [page.query EXCEPT !.page = p] \in Query
    BY <1>0 DEF Page, Query
  <2> QED
    BY <1>0, <1>4, <2>1, SetQueryStep DEF Turn
<1>5. ASSUME SearchCache PROVE IInv'
  <2> DEFINE p == [page EXCEPT !.detail = None]
  <2>1. p \in Page /\ p.detail = None
    BY <1>0 DEF Page
  <2>2. SetQuery(typed, p)
    BY <1>5 DEF SearchCache
  <2> HIDE DEF p, typed
  <2> QED
    BY <1>1, <2>1, <2>2, SetQueryStep
<1>6. ASSUME CloseDetail PROVE IInv'
  <2> DEFINE p == [page EXCEPT !.detail = None]
  <2>1. /\ p \in Page /\ p.query = page.query /\ p.shown = page.shown
        /\ p.loading = page.loading /\ p.error = page.error
        /\ p.detail = None
    BY <1>0 DEF Page
  <2>2. SetPage(p)
    BY <1>6 DEF CloseDetail
  <2> HIDE DEF p
  <2> QED
    BY <2>1, <2>2, SetPageStep
<1> QED
  BY <1>2, <1>3, <1>4, <1>5, <1>6

\* The buttons, but for the one that saves the settings.
LEMMA ButtonStep ==
    ASSUME IInv,
           \/ Ask("report", None)
           \/ \E op \in {"dry", "write", "reindex", "submit"} : Ask(op, page.query)
    PROVE  IInv'
<1>1. page.query \in Query
  BY DEF IInv, TypeOK, Page
<1>2. CASE Ask("report", None)
  BY <1>2, AskStep DEF Reads
<1>3. ASSUME NEW op \in {"dry", "write", "reindex", "submit"}, Ask(op, page.query)
      PROVE  IInv'
  BY <1>1, <1>3, AskStep DEF Reads, Writes, ByQuery
<1> QED
  BY <1>2, <1>3

LEMMA ListActionStep ==
    ASSUME IInv, ListAction
    PROVE  IInv'
<1>1. CASE DashboardPage
  BY <1>1, ReloadStep DEF DashboardPage
<1>2. CASE SystemPage
  BY <1>2, ButtonStep DEF SystemPage
<1>3. CASE LogsPage
  <2>1. CASE Reload
    BY <2>1, ReloadStep
  <2>2. ASSUME NEW text \in Texts,
               SetQuery([page.query EXCEPT !.text = text], page)
        PROVE  IInv'
    <3>1. page \in Page /\ [page.query EXCEPT !.text = text] \in Query
      BY DEF IInv, TypeOK, Page, Query
    <3> QED
      BY <2>2, <3>1, SetQueryStep
  <2> QED
    BY <1>3, <2>1, <2>2 DEF LogsPage
<1>4. CASE CachePage
  BY <1>4, SearchStep, DetailStep, ButtonStep DEF CachePage
<1>5. CASE APKPackages
  BY <1>5, SearchStep, ButtonStep DEF APKPackages
<1>6. CASE APTRecords
  BY <1>6, SearchStep, ButtonStep DEF APTRecords
<1>7. CASE APKIndexes \/ APKKeys \/ APTIndexes \/ APTValidate
  BY <1>7, ButtonStep DEF APKIndexes, APKKeys, APTIndexes, APTValidate
<1> QED
  BY <1>1, <1>2, <1>3, <1>4, <1>5, <1>6, <1>7 DEF ListAction

\* Saving: what has changed was edited.
LEMMA SaveConfigStep ==
    ASSUME IInv, SaveConfig
    PROVE  IInv'
<1> DEFINE K == {k \in Keys : form.draft[k] # form.settings[k]}
           e == [body |-> Changed, touched |-> form.touched]
<1>1. Changed = [k \in K |-> form.draft[k]]
  BY DEF Changed
<1>2. form.draft \in [Keys -> Values] /\ form.touched \in SUBSET Keys
  BY DEF IInv, TypeOK, Form, Settings
<1>3. Changed \in [K -> Values] /\ DOMAIN Changed = K
  BY <1>1, <1>2
<1>4. e \in Edits
  BY <1>2, <1>3 DEF Edits
<1>5. DOMAIN e.body \subseteq e.touched
  BY <1>3 DEF IInv, Drafts
<1>6. Ask("validate", e)
  BY DEF SaveConfig
<1> HIDE DEF e
<1> QED
  BY <1>4, <1>5, <1>6, AskStep DEF Reads

LEMMA EditActionStep ==
    ASSUME IInv, EditAction
    PROVE  IInv'
<1>1. CASE ConfigPage
  BY <1>1, EditSettingStep, SaveConfigStep, ButtonStep DEF ConfigPage
<1>2. CASE Edit \/ ResetForm
  <2>1. PICK b \in BOOLEAN : SetPage([page EXCEPT !.editing = b])
    BY <1>2 DEF Edit, ResetForm
  <2> DEFINE p == [page EXCEPT !.editing = b]
  <2>2. /\ p \in Page /\ p.query = page.query /\ p.shown = page.shown
        /\ p.loading = page.loading /\ p.error = page.error
        /\ p.detail = page.detail
    BY DEF IInv, TypeOK, Page
  <2>3. SetPage(p)
    BY <2>1
  <2> HIDE DEF p
  <2> QED
    BY <2>2, <2>3, SetPageStep
<1>3. CASE UpstreamsPage
  BY <1>2, <1>3, ButtonStep DEF UpstreamsPage
<1>4. CASE APTMirrors
  BY <1>2, <1>4, ButtonStep DEF APTMirrors
<1>5. CASE ProxyPage
  BY <1>5, ButtonStep DEF ProxyPage
<1> QED
  BY <1>1, <1>3, <1>4, <1>5 DEF EditAction

\* The router and the tabs.
LEMMA RouteViewStep ==
    ASSUME IInv, RouteView
    PROVE  IInv'
<1>1. PICK v \in Views : Mount(v)
  <2>1. ASSUME NEW route \in Routes, Navigate(route) PROVE \E v \in Views : Mount(v)
    <3>1. FirstView(route) \in Views
      BY DEF FirstView, Views, Routes, ApkTabs, AptTabs
    <3>2. Mount(FirstView(route))
      BY <2>1 DEF Navigate
    <3> QED
      BY <3>1, <3>2
  <2>2. ASSUME NEW v \in Views, ApkTab(v) \/ AptTab(v) PROVE Mount(v)
    BY <2>2 DEF ApkTab, AptTab
  <2> QED
    BY <2>1, <2>2 DEF RouteView
<1> QED
  BY <1>1, MountStep

\* The server answers a request.
LEMMA ServeStep ==
    ASSUME IInv, NEW s \in Slots, Serve(s)
    PROVE  IInv'
<1>0. /\ MaxVersion \in Nat /\ version \in 0 .. MaxVersion /\ stored \in Settings
  BY ConsoleAssumption DEF IInv, TypeOK
<1>1. CASE ServeRead(s)
  <2>1. /\ Pending(s) /\ version' = version /\ stored' = stored
        /\ UNCHANGED <<view, page, form, history>>
    BY <1>1 DEF ServeRead, server
  <2>2. PICK ok \in BOOLEAN : Served(s, ok)
    BY <1>1 DEF ServeRead
  <2> QED
    BY <1>0, <2>1, <2>2, ServedStep
<1>2. CASE ServeWrite(s)
  <2>1. /\ Pending(s) /\ version' = version + 1 /\ version < MaxVersion
        /\ UNCHANGED <<view, page, form, history>>
    BY <1>2 DEF ServeWrite
  <2>2. PICK ok \in BOOLEAN : Served(s, ok)
    BY <1>2 DEF ServeWrite
  <2>3. stored' \in Settings
    <3>1. CASE flight[s].op # "put"
      BY <1>0, <1>2, <3>1 DEF ServeWrite
    <3>2. CASE flight[s].op = "put"
      <4> DEFINE b == flight[s].arg.body
      <4>1. flight[s].arg \in Edits
        BY <2>1, <3>2 DEF IInv, Sent
      <4>2. PICK K \in SUBSET Keys : b \in [K -> Values]
        BY <4>1 DEF Edits
      <4>3. \A k \in DOMAIN b : b[k] \in Values
        BY <4>2
      <4>4. stored' = [k \in Keys |-> IF k \in DOMAIN b THEN b[k] ELSE stored[k]]
        BY <1>2, <3>2 DEF ServeWrite
      <4> HIDE DEF b
      <4> QED
        BY <1>0, <4>3, <4>4 DEF Settings
    <3> QED
      BY <3>1, <3>2
  <2> QED
    BY <1>0, <2>1, <2>2, <2>3, ServedStep
<1>3. CASE Refuse(s)
  <2>1. /\ Pending(s) /\ version' = version /\ stored' = stored /\ Served(s, FALSE)
        /\ UNCHANGED <<view, page, form, history>>
    BY <1>3 DEF Refuse, server
  <2>2. version' \in version .. MaxVersion /\ stored' \in Settings
    BY <1>0, <2>1
  <2> DEFINE ok == FALSE
  <2>3. ok \in BOOLEAN /\ Served(s, ok)
    BY <2>1
  <2> HIDE DEF ok
  <2> QED
    BY <2>1, <2>2, <2>3, ServedStep
<1> QED
  BY <1>1, <1>2, <1>3 DEF Serve

\* A continuation runs.
LEMMA ResumeStep ==
    ASSUME IInv, NEW s \in Slots, Resume(s)
    PROVE  IInv'
<1>0. page \in Page /\ page.query \in Query
  BY DEF IInv, TypeOK, Page
<1>1. CASE LoadAnswered(s)
  BY <1>1, LoadAnsweredStep
<1>2. CASE Finished(s)
  BY <1>2, EndStep DEF Finished
<1>3. CASE Reloaded(s) \/ BatchDeleted(s)
  <2>1. PICK op \in {"write", "batch"} : Written(s, op, page, flight[s].arg)
    BY <1>3 DEF Reloaded, BatchDeleted
  <2>2. flight[s].arg \in Query
    BY <2>1 DEF Written, Answered, IInv, Sent, ByQuery
  <2> QED
    BY <1>0, <2>1, <2>2, WrittenStep
<1>4. CASE ConfigSaved(s)
  BY <1>0, <1>4, WrittenStep DEF ConfigSaved
<1>5. CASE Submitted(s)
  <2> DEFINE p == [page EXCEPT !.editing = FALSE]
  <2>1. p \in Page /\ p.detail = page.detail
    BY <1>0 DEF Page
  <2>2. Written(s, "submit", p, page.query)
    BY <1>5 DEF Submitted
  <2> HIDE DEF p
  <2> QED
    BY <1>0, <2>1, <2>2, WrittenStep
<1>6. CASE BatchConfirmed(s) \/ ConfigConfirmed(s)
  BY <1>6, ConfirmedStep DEF BatchConfirmed, ConfigConfirmed
<1>7. CASE DetailAnswered(s)
  BY <1>7, DetailStep
<1>8. CASE Reindexed(s)
  BY <1>8, ReindexedStep
<1> QED
  BY <1>1, <1>2, <1>3, <1>4, <1>5, <1>6, <1>7, <1>8
  DEF Resume, ListAnswer, EditAnswer
-----------------------------------------------------------------------------
(* The invariant and the properties.                                       *)

LEMMA InitIInv ==
    ASSUME Init
    PROVE  IInv
<1> DEFINE m == Message("load", FirstQuery)
<1>1. m \in Request /\ m # None /\ m.op = "load" /\ m.arg = FirstQuery /\ m.stage = "sent"
  BY FirstQueryType, MessageFacts DEF Reads, Writes
<1>2. PICK s0 \in Slots : flight = [NoRequests EXCEPT ![s0] = m]
  BY DEF Init
<1>3. /\ flight \in [Slots -> Request \cup {None}]
      /\ \A x \in Slots : flight[x] = IF x = s0 THEN m ELSE None
  BY <1>1, <1>2 DEF NoRequests
<1>4. /\ view = "dashboard" /\ page = Mounted("dashboard") /\ form = Unloaded
      /\ version = 0 /\ stored = [k \in Keys |-> 0] /\ mine = 0
      /\ failed = FALSE /\ crossed = FALSE
  BY DEF Init
<1>5. page.detail = None /\ page.query = FirstQuery
  BY <1>4 DEF Mounted
<1>6. Loading(flight)
  BY <1>1, <1>3 DEF Loading
<1>7. TypeOK
  <2>1. view \in Views
    BY <1>4 DEF Views, Routes
  <2>2. version \in 0 .. MaxVersion /\ mine \in 0 .. version
    BY <1>4, ConsoleAssumption
  <2>3. stored \in Settings
    BY <1>4 DEF Settings, Values
  <2> QED
    BY <1>1, <1>3, <1>4, <2>1, <2>2, <2>3, MountedType, UnloadedType
    DEF TypeOK, Pending
<1>8. Sent /\ OnlyTouchedWritten
  BY <1>1, <1>3, FirstQueryType DEF Sent, OnlyTouchedWritten, Pending, ByQuery
<1>9. Drafts
  BY <1>4 DEF Drafts, Unloaded
<1>10. NothingWaitsInVain
  BY <1>5, <1>6 DEF NothingWaitsInVain
<1>11. LoadFollows
  BY <1>1, <1>3, <1>5, <1>6 DEF LoadFollows, Pending
<1> QED
  BY <1>7, <1>8, <1>9, <1>10, <1>11 DEF IInv

LEMMA StutterStep ==
    ASSUME IInv, UNCHANGED vars
    PROVE  IInv'
<1>1. UNCHANGED <<view, page, form, flight, version, stored, mine, failed, crossed>>
  BY DEF vars
<1>2. TypeOK' /\ Sent' /\ Drafts' /\ OnlyTouchedWritten'
  BY <1>1 DEF IInv, TypeOK, Sent, Drafts, OnlyTouchedWritten, Pending
<1>3. NothingWaitsInVain' /\ LoadFollows'
  BY <1>1 DEF IInv, NothingWaitsInVain, LoadFollows, Loading, Pending
<1> QED
  BY <1>2, <1>3 DEF IInv

LEMMA Invariance == Spec => []IInv
<1>1. Init => IInv
  BY InitIInv
<1>2. IInv /\ [Next]_vars => IInv'
  BY RouteViewStep, ListActionStep, EditActionStep, ServeStep, ResumeStep,
     ElsewhereStep, StutterStep DEF Next
<1> QED
  BY <1>1, <1>2, PTL DEF Spec

\* What the pages keep and send has its types in every reachable state, for any
\* number of requests in flight, of rows, texts and settings.
THEOREM TypeCorrect == Spec => []TypeOK
<1>1. IInv => TypeOK
  BY DEF IInv
<1> QED
  BY <1>1, Invariance, PTL

\* No page is left showing rows of another query than the one it displays
\* without saying that its load failed, unless loads overlapped (load and the
\* effects of the pages).
THEOREM PageShowsQueryHolds == Spec => []PageShowsQuery
<1>1. IInv => PageShowsQuery
  BY DEF IInv, LoadFollows, PageShowsQuery, Settled, NoRequests, Loading
<1> QED
  BY <1>1, Invariance, PTL

\* What the administrator has changed in a page is in what it shows, however
\* many other requests and administrators there are (the load() after every
\* write).
THEOREM PageShowsOwnWritesHolds == Spec => []PageShowsOwnWrites
<1>1. IInv => PageShowsOwnWrites
  BY DEF IInv, LoadFollows, PageShowsOwnWrites, Settled, NoRequests, Loading
<1> QED
  BY <1>1, Invariance, PTL

\* A loading message always has an answer to come that ends it (finally of
\* load, catch of showDetail).
THEOREM NothingWaitsInVainHolds == Spec => []NothingWaitsInVain
<1>1. IInv => NothingWaitsInVain
  BY DEF IInv
<1> QED
  BY <1>1, Invariance, PTL

\* Whatever the settings are, and whoever changes them, saving writes none that
\* was not edited since they were loaded (ConfigPage changedSettings).
THEOREM OnlyTouchedWrittenHolds == Spec => []OnlyTouchedWritten
<1>1. IInv => OnlyTouchedWritten
  BY DEF IInv
<1> QED
  BY <1>1, Invariance, PTL
=============================================================================
