------------------------ MODULE AdminSession_proofs ------------------------
(***************************************************************************)
(* Proofs about AdminSession.  SeenTrue says that no request in flight     *)
(* carries news of the account that is not so; with it WarningNotHidden is *)
(* inductive.  BootCurrent says that the boot of a page that is not        *)
(* disturbed asks about the browser's cookies, ArrivedCurrent that the one *)
(* sign-in whose body it is reading has set them; with the two of them     *)
(* TokenMatchesCookie is inductive.                                        *)
(***************************************************************************)
EXTENDS AdminSession, TLAPS

SeenTrue ==
    \A t \in Tabs, s \in AllSlots :
        /\ Pending(t, s)
        /\ \/ flight[t][s].seen = "changed"
           \/ /\ flight[t][s].op = "account"
              /\ flight[t][s].stage = "answered"
        => account = "changed"

BootCurrent ==
    \A t \in Tabs \ disturbed :
        /\ Pending(t, "boot") /\ user[t] = None
        /\ \A s \in AllSlots : ~HalfWay(t, s)
        => flight[t]["boot"].cookie = jar

ArrivedCurrent ==
    \A t \in Tabs \ disturbed, s \in AllSlots :
        HalfWay(t, s) =>
            /\ flight[t][s].op = "login" => flight[t][s].cookie = jar
            /\ \A x \in AllSlots : HalfWay(t, x) => x = s

\* No answer of a page that has gone is being read by one.
OnlyCookies ==
    \A t \in Tabs, s \in AllSlots :
        HalfWay(t, s) => flight[t][s].op \in {"login", "logout"}

IInv ==
    /\ TypeOK
    /\ WarningNotHidden
    /\ SeenTrue
    /\ TokenMatchesCookie
    /\ BootCurrent
    /\ ArrivedCurrent
    /\ OnlyCookies
-----------------------------------------------------------------------------
(* What the operators on requests do.                                      *)

Ops == {"me", "login", "logout", "account"}

LEMMA MessageFacts ==
    ASSUME NEW op \in Ops, NEW c \in Cookie, NEW k \in Cookie
    PROVE  /\ Message(op, c, k) \in Request /\ Message(op, c, k) # None
           /\ Message(op, c, k).op = op
           /\ Message(op, c, k).cookie = c
           /\ Message(op, c, k).stage = "sent"
           /\ Message(op, c, k).seen = "default"
<1>1. Message(op, c, k) \in Request
  BY DEF Ops, Message, Request, Credential
<1>2. /\ Message(op, c, k).op = op
      /\ Message(op, c, k).cookie = c
      /\ Message(op, c, k).stage = "sent"
      /\ Message(op, c, k).seen = "default"
  BY DEF Message
<1> QED
  BY <1>1, <1>2, SessionAssumption

\* Put changes one slot.
LEMMA PutFacts ==
    ASSUME TypeOK, NEW t \in Tabs, NEW s \in AllSlots,
           NEW r \in Request \cup {None}, Put(t, s, r)
    PROVE  /\ flight' \in [Tabs -> [AllSlots -> Request \cup {None}]]
           /\ \A x \in Tabs, y \in AllSlots :
                  flight'[x][y] = IF x = t /\ y = s THEN r ELSE flight[x][y]
BY DEF TypeOK, Put

\* An answer keeps what was asked, and tells no more than was seen.
LEMMA AnswerFacts ==
    ASSUME TypeOK, NEW t \in Tabs, NEW s \in AllSlots, NEW c \in Cookie,
           Pending(t, s), Answer(t, s, c)
    PROVE  \E r \in Request :
               /\ Put(t, s, r)
               /\ r.op = flight[t][s].op /\ r.cookie = c
               /\ r.stage = "answered"
               /\ r.seen \in {"default", flight[t][s].seen}
<1> DEFINE q == flight[t][s]
           r == [op |-> q.op, cookie |-> c, csrf |-> None,
                 stage |-> "answered",
                 seen |-> IF c = None THEN "default" ELSE q.seen,
                 orphan |-> q.orphan]
<1>1. q \in Request
  BY DEF TypeOK, Pending
<1>2. r \in Request
  BY <1>1 DEF Request, Cookie, Credential
<1>3. Put(t, s, r)
  BY DEF Answer
<1> QED
  BY <1>2, <1>3

\* The slots of a page that goes keep what was asked; no page reads them.
LEMMA OrphanedFacts ==
    ASSUME TypeOK, NEW t \in Tabs
    PROVE  /\ Orphaned(t) \in [Tabs -> [AllSlots -> Request \cup {None}]]
           /\ \A x \in Tabs \ {t} : Orphaned(t)[x] = flight[x]
           /\ \A y \in AllSlots :
                \/ Orphaned(t)[t][y] = None
                \/ /\ Pending(t, y)
                   /\ Orphaned(t)[t][y].op = flight[t][y].op
                   /\ Orphaned(t)[t][y].cookie = flight[t][y].cookie
                   /\ Orphaned(t)[t][y].stage = flight[t][y].stage
                   /\ Orphaned(t)[t][y].seen = "default"
                   /\ Orphaned(t)[t][y].orphan
<1> DEFINE h(s) == [flight[t][s] EXCEPT !.orphan = TRUE, !.seen = "default"]
           gone(s) == \/ s = "boot" \/ ~Pending(t, s)
                      \/ flight[t][s].stage = "arrived"
                      \/ flight[t][s].stage = "answered"
                            /\ flight[t][s].op \notin {"login", "logout"}
           g == [s \in AllSlots |-> IF gone(s) THEN None ELSE h(s)]
<1>1. Orphaned(t) = [flight EXCEPT ![t] = g]
  BY DEF Orphaned
<1>2. \A y \in AllSlots : Pending(t, y) => flight[t][y] \in Request
  BY DEF TypeOK, Pending
<1>3. ASSUME NEW y \in AllSlots, Pending(t, y)
      PROVE  /\ h(y) \in Request
             /\ h(y).op = flight[t][y].op
             /\ h(y).cookie = flight[t][y].cookie
             /\ h(y).stage = flight[t][y].stage
             /\ h(y).seen = "default" /\ h(y).orphan
  BY <1>2, <1>3 DEF Request, Credential
<1>4. \A y \in AllSlots : ~gone(y) => Pending(t, y)
  OBVIOUS
<1> HIDE DEF h, gone
<1>5. g \in [AllSlots -> Request \cup {None}]
  BY <1>3, <1>4
<1>6. \A y \in AllSlots : g[y] = None \/ (Pending(t, y) /\ g[y] = h(y))
  BY <1>4
<1> HIDE DEF g
<1>7. /\ Orphaned(t)[t] = g
      /\ \A x \in Tabs \ {t} : Orphaned(t)[x] = flight[x]
      /\ Orphaned(t) \in [Tabs -> [AllSlots -> Request \cup {None}]]
  BY <1>1, <1>5 DEF TypeOK
<1> QED
  BY <1>3, <1>6, <1>7
-----------------------------------------------------------------------------
(* The steps, by what they do to the requests.                             *)

\* A tab is loaded with the cookies there are, whether reloaded or after a
\* sign-out.
LEMMA LoadKeeps ==
    ASSUME IInv, NEW t \in Tabs, NEW f, UNCHANGED server,
           jar' = jar, disturbed' = disturbed \ {t},
           f \in [Tabs -> [AllSlots -> Request \cup {None}]],
           \A x \in Tabs \ {t} : f[x] = flight[x],
           \A y \in AllSlots :
               \/ f[t][y] = None
               \/ /\ Pending(t, y)
                  /\ f[t][y].op = flight[t][y].op
                  /\ f[t][y].cookie = flight[t][y].cookie
                  /\ f[t][y].stage = flight[t][y].stage
                  /\ f[t][y].seen = "default" /\ f[t][y].orphan,
           LoadPage(t, jar, f)
    PROVE  IInv'
<1> USE SessionAssumption
<1>0. /\ jar \in Cookie /\ jar \in issued \cup {None} /\ issued \subseteq Sessions
      /\ "boot" \in AllSlots /\ "me" \in Ops /\ None \in Cookie
  BY DEF IInv, TypeOK, Cookie, AllSlots, Ops
<1> DEFINE me == Message("me", jar, None)
<1>1. me \in Request /\ me # None /\ me.op = "me" /\ me.cookie = jar
      /\ me.stage = "sent" /\ me.seen = "default"
  BY <1>0, MessageFacts
<1> HIDE DEF me
<1>2. flight' = [f EXCEPT ![t]["boot"] = me]
  BY DEF LoadPage, me
<1>3. /\ flight' \in [Tabs -> [AllSlots -> Request \cup {None}]]
      /\ flight'[t]["boot"] = me
      /\ \A x \in Tabs, y \in AllSlots :
             \/ x = t /\ y = "boot"
             \/ flight'[x][y] = f[x][y]
  BY <1>0, <1>1, <1>2
<1>4. /\ \A x \in Tabs \ {t}, y \in AllSlots : flight'[x][y] = flight[x][y]
      /\ \A y \in AllSlots :
           \/ y = "boot" /\ flight'[t][y] = me
           \/ flight'[t][y] = None
           \/ /\ Pending(t, y)
              /\ flight'[t][y].op = flight[t][y].op
              /\ flight'[t][y].cookie = flight[t][y].cookie
              /\ flight'[t][y].stage = flight[t][y].stage
              /\ flight'[t][y].seen = "default" /\ flight'[t][y].orphan
  BY <1>3 DEF Pending
<1>5. /\ user' = [user EXCEPT ![t] = None]
      /\ csrf' = [csrf EXCEPT ![t] = jar]
  BY DEF LoadPage
<1>6. TypeOK'
  <2>1. \A x \in Tabs : Pending(x, "boot")' => flight'[x]["boot"].op = "me"
    BY <1>0, <1>1, <1>4 DEF IInv, TypeOK, Pending
  <2>2. \A x \in Tabs, y \in AllSlots :
            Pending(x, y)' => flight'[x][y].cookie \in issued' \cup {None}
    <3>1. /\ \A x \in Tabs, y \in AllSlots :
                Pending(x, y) => flight[x][y].cookie \in issued \cup {None}
          /\ issued' = issued
      BY DEF IInv, TypeOK, server
    <3> QED
      BY <1>0, <1>1, <1>4, <3>1 DEF Pending
  <2>3. /\ user' \in [Tabs -> Credential \cup {None}]
        /\ csrf' \in [Tabs -> issued' \cup {None}]
    BY <1>0, <1>5 DEF IInv, TypeOK, server
  <2> QED
    BY <1>0, <1>3, <2>1, <2>2, <2>3 DEF IInv, TypeOK, server
<1>7. WarningNotHidden'
  BY <1>5 DEF IInv, WarningNotHidden, TypeOK, server, Credential
<1>8. SeenTrue'
  <2> SUFFICES ASSUME NEW x \in Tabs, NEW y \in AllSlots, Pending(x, y)',
                      \/ flight'[x][y].seen = "changed"
                      \/ /\ flight'[x][y].op = "account"
                         /\ flight'[x][y].stage = "answered"
               PROVE  account' = "changed"
    BY DEF SeenTrue
  <2>1. /\ Pending(x, y)
        /\ \/ flight[x][y].seen = "changed"
           \/ /\ flight[x][y].op = "account"
              /\ flight[x][y].stage = "answered"
    BY <1>1, <1>4 DEF Pending
  <2> QED
    BY <2>1 DEF IInv, SeenTrue, server
<1>9. /\ \A y \in AllSlots : ~HalfWay(t, y)'
      /\ \A x \in Tabs \ {t}, y \in AllSlots : HalfWay(x, y)' <=> HalfWay(x, y)
  BY <1>1, <1>4 DEF HalfWay, Pending
<1>10. TokenMatchesCookie'
  BY <1>5, <1>9 DEF IInv, TokenMatchesCookie, TypeOK
<1>11. BootCurrent'
  <2> SUFFICES ASSUME NEW x \in Tabs \ disturbed', Pending(x, "boot")',
                      user'[x] = None, \A y \in AllSlots : ~HalfWay(x, y)'
               PROVE  flight'[x]["boot"].cookie = jar'
    BY DEF BootCurrent
  <2>1. CASE x = t
    BY <1>1, <1>3, <2>1
  <2>2. CASE x # t
    BY <1>0, <1>4, <1>5, <1>9, <2>2 DEF IInv, BootCurrent, TypeOK, Pending
  <2> QED
    BY <2>1, <2>2
<1>12. ArrivedCurrent'
  BY <1>4, <1>9 DEF IInv, ArrivedCurrent
<1>13. OnlyCookies'
  BY <1>4, <1>9 DEF IInv, OnlyCookies
<1> QED
  BY <1>6, <1>7, <1>8, <1>10, <1>11, <1>12, <1>13 DEF IInv

\* A request is sent.
LEMMA SendKeeps ==
    ASSUME IInv, NEW t \in Tabs, NEW op \in Ops \ {"me"},
           NEW c \in issued \cup {None}, NEW k \in issued \cup {None},
           Send(t, op, c, k)
    PROVE  IInv'
<1> USE SessionAssumption
<1>0. c \in Cookie /\ k \in Cookie /\ Slots \subseteq AllSlots
  BY DEF IInv, TypeOK, Cookie, AllSlots
<1>1. PICK s \in Slots : ~Pending(t, s) /\ Put(t, s, Message(op, c, k))
  BY DEF Send
<1> DEFINE r == Message(op, c, k)
<1>2. r \in Request /\ r # None /\ r.op = op /\ r.cookie = c
      /\ r.stage = "sent" /\ r.seen = "default"
  BY <1>0, MessageFacts
<1> HIDE DEF r
<1>3. /\ flight' \in [Tabs -> [AllSlots -> Request \cup {None}]]
      /\ \A x \in Tabs, y \in AllSlots :
             flight'[x][y] = IF x = t /\ y = s THEN r ELSE flight[x][y]
  BY <1>0, <1>1, <1>2, PutFacts DEF IInv, r
<1>4. s # "boot"
  OBVIOUS
<1>5. UNCHANGED <<server, jar, page, disturbed>>
  BY DEF Send
<1>6. \A x \in Tabs, y \in AllSlots :
        /\ HalfWay(x, y)' <=> HalfWay(x, y)
        /\ HalfWay(x, y) => flight'[x][y] = flight[x][y]
  BY <1>1, <1>2, <1>3 DEF HalfWay, Pending
<1>7. TypeOK'
  <2>1. \A x \in Tabs : Pending(x, "boot")' => flight'[x]["boot"].op = "me"
    BY <1>3, <1>4 DEF IInv, TypeOK, Pending, AllSlots
  <2>2. \A x \in Tabs, y \in AllSlots :
            Pending(x, y)' => flight'[x][y].cookie \in issued' \cup {None}
    BY <1>2, <1>3, <1>5 DEF IInv, TypeOK, server, Pending
  <2> QED
    BY <1>3, <1>5, <2>1, <2>2 DEF IInv, TypeOK, server, page
<1>8. SeenTrue'
  BY <1>2, <1>3, <1>5 DEF IInv, SeenTrue, server, Pending
<1>9. BootCurrent'
  BY <1>3, <1>4, <1>5, <1>6 DEF IInv, BootCurrent, TypeOK, page, Pending, AllSlots
<1>10. TokenMatchesCookie'
  BY <1>5, <1>6 DEF IInv, TokenMatchesCookie, page
<1>11. ArrivedCurrent' /\ OnlyCookies'
  BY <1>5, <1>6 DEF IInv, ArrivedCurrent, OnlyCookies
<1> QED
  BY <1>5, <1>7, <1>8, <1>9, <1>10, <1>11
     DEF IInv, WarningNotHidden, server, page

\* The server takes a request a stage further and may change its own state.
LEMMA ServeKeeps ==
    ASSUME IInv, NEW t \in Tabs, NEW s \in AllSlots, NEW r \in Request,
           Pending(t, s), Put(t, s, r), r.op = flight[t][s].op,
           flight[t][s].stage # "arrived", r.stage # "arrived",
           r.cookie \in issued' \cup {None},
           s = "boot" => r.cookie = flight[t][s].cookie,
           sessions' \subseteq issued', issued \subseteq issued',
           issued' \subseteq Sessions,
           account' \in {account, "changed"},
           r.seen = "changed" => account' = "changed",
           r.op = "account" /\ r.stage = "answered"
               => account' = "changed",
           UNCHANGED <<jar, page, disturbed>>
    PROVE  IInv'
<1> USE SessionAssumption
<1>1. /\ flight' \in [Tabs -> [AllSlots -> Request \cup {None}]]
      /\ \A x \in Tabs, y \in AllSlots :
             flight'[x][y] = IF x = t /\ y = s THEN r ELSE flight[x][y]
  BY PutFacts DEF IInv
<1>2. TypeOK'
  <2>1. \A x \in Tabs : Pending(x, "boot")' => flight'[x]["boot"].op = "me"
    BY <1>1 DEF IInv, TypeOK, Pending, AllSlots
  <2>2. \A x \in Tabs, y \in AllSlots :
            Pending(x, y)' => flight'[x][y].cookie \in issued' \cup {None}
    BY <1>1 DEF IInv, TypeOK, Pending
  <2>3. account' \in Credential
    BY DEF IInv, TypeOK, Credential
  <2>4. csrf' \in [Tabs -> issued' \cup {None}] /\ jar' \in issued' \cup {None}
    BY DEF IInv, TypeOK, page
  <2> QED
    BY <1>1, <2>1, <2>2, <2>3, <2>4 DEF IInv, TypeOK, page
<1>3. WarningNotHidden'
  BY DEF IInv, WarningNotHidden, page
<1>4. SeenTrue'
  BY <1>1 DEF IInv, SeenTrue, Pending
<1>5. \A x \in Tabs, y \in AllSlots :
        /\ HalfWay(x, y)' <=> HalfWay(x, y)
        /\ HalfWay(x, y) => flight'[x][y] = flight[x][y]
  BY <1>1 DEF HalfWay, Pending
<1>6. BootCurrent'
  BY <1>1, <1>5 DEF IInv, BootCurrent, TypeOK, Pending, page, AllSlots
<1>7. TokenMatchesCookie'
  BY <1>5 DEF IInv, TokenMatchesCookie, page
<1>8. ArrivedCurrent' /\ OnlyCookies'
  BY <1>5 DEF IInv, ArrivedCurrent, OnlyCookies
<1> QED
  BY <1>2, <1>3, <1>4, <1>6, <1>7, <1>8 DEF IInv

\* A request ends: its slot is emptied, and nothing else comes into flight.
LEMMA EndFacts ==
    ASSUME IInv, NEW t \in Tabs, NEW s \in AllSlots, Pending(t, s),
           Put(t, s, None)
    PROVE  /\ flight' \in [Tabs -> [AllSlots -> Request \cup {None}]]
           /\ \A x \in Tabs, y \in AllSlots :
                  Pending(x, y)' => flight'[x][y] = flight[x][y] /\ Pending(x, y)
           /\ ~Pending(t, s)'
           /\ flight[t][s] \in Request
           /\ flight[t][s].cookie \in issued \cup {None}
           /\ flight[t][s].seen \in Credential
<1>1. flight[t][s] \in Request
  BY DEF IInv, TypeOK, Pending
<1> QED
  BY <1>1, PutFacts DEF IInv, TypeOK, Pending, Request

\* The page takes up an answer, or the cookies one that no page reads.
LEMMA EndKeeps ==
    ASSUME IInv, NEW t \in Tabs, NEW s \in AllSlots, Pending(t, s),
           Put(t, s, None), UNCHANGED server,
           jar' \in issued \cup {None},
           user' \in [Tabs -> Credential \cup {None}],
           csrf' \in [Tabs -> issued \cup {None}],
           disturbed \subseteq disturbed', disturbed' \subseteq Tabs,
           jar' = jar \/ disturbed' = Tabs,
           \A x \in Tabs \ {t} : user'[x] = user[x] /\ csrf'[x] = csrf[x],
           user'[t] = "changed" => user[t] = "changed" \/ account = "changed",
           (\A y \in AllSlots : ~HalfWay(t, y)') =>
               \/ t \in disturbed'
               \/ csrf'[t] = jar,
           \/ t \in disturbed'
           \/ user'[t] = user[t] /\ ~HalfWay(t, s)
           \/ user'[t] # None
           \/ ~Pending(t, "boot")'
    PROVE  IInv'
<1>1. TypeOK'
  <2>1. \A x \in Tabs : Pending(x, "boot")' => flight'[x]["boot"].op = "me"
    BY EndFacts DEF IInv, TypeOK, AllSlots
  <2>2. \A x \in Tabs, y \in AllSlots :
            Pending(x, y)' => flight'[x][y].cookie \in issued' \cup {None}
    BY EndFacts DEF IInv, TypeOK, server
  <2> QED
    BY EndFacts, <2>1, <2>2 DEF IInv, TypeOK, server
<1>2. WarningNotHidden'
  BY DEF IInv, WarningNotHidden, server
<1>3. SeenTrue'
  BY EndFacts DEF IInv, SeenTrue, server
<1>4. \A x \in Tabs, y \in AllSlots :
        /\ HalfWay(x, y)' <=> HalfWay(x, y) /\ ~(x = t /\ y = s)
        /\ HalfWay(x, y)' => flight'[x][y] = flight[x][y]
  <2>1. \A x \in Tabs, y \in AllSlots :
          flight'[x][y] = IF x = t /\ y = s THEN None ELSE flight[x][y]
    BY PutFacts DEF IInv
  <2> QED
    BY <2>1 DEF HalfWay, Pending
<1>5. TokenMatchesCookie'
  BY <1>4 DEF IInv, TokenMatchesCookie
<1>6. BootCurrent'
  <2> SUFFICES ASSUME NEW x \in Tabs \ disturbed', Pending(x, "boot")',
                      user'[x] = None, \A y \in AllSlots : ~HalfWay(x, y)'
               PROVE  flight'[x]["boot"].cookie = jar'
    BY DEF BootCurrent
  <2>1. flight'[x]["boot"] = flight[x]["boot"] /\ Pending(x, "boot")
    BY EndFacts DEF AllSlots
  <2>2. user[x] = None /\ \A y \in AllSlots : ~HalfWay(x, y)
    BY <1>4
  <2> QED
    BY <2>1, <2>2 DEF IInv, BootCurrent
<1>7. ArrivedCurrent' /\ OnlyCookies'
  BY <1>4 DEF IInv, ArrivedCurrent, OnlyCookies
<1> QED
  BY <1>1, <1>2, <1>3, <1>5, <1>6, <1>7 DEF IInv
-----------------------------------------------------------------------------
(* The invariant.                                                          *)

LEMMA InitIInv == Init => IInv
<1> SUFFICES ASSUME Init PROVE IInv
  OBVIOUS
<1> USE SessionAssumption
<1>1. "me" \in Ops /\ None \in Cookie /\ "boot" \in AllSlots
  BY DEF Ops, Cookie, AllSlots
<1> DEFINE me == Message("me", None, None)
<1>2. me \in Request /\ me # None /\ me.op = "me" /\ me.cookie = None
      /\ me.seen = "default" /\ me.stage = "sent"
  BY <1>1, MessageFacts
<1> HIDE DEF me
<1>3. flight = [t \in Tabs |-> [s \in AllSlots |->
                    IF s = "boot" THEN me ELSE None]]
  BY DEF Init, me
<1>4. TypeOK
  BY <1>1, <1>2, <1>3 DEF Init, TypeOK, Pending, Credential, Cookie
<1>5. SeenTrue
  BY <1>1, <1>2, <1>3 DEF SeenTrue, Pending
<1>6. BootCurrent
  BY <1>1, <1>2, <1>3 DEF Init, BootCurrent, Pending
<1>7. WarningNotHidden /\ TokenMatchesCookie
  BY DEF Init, WarningNotHidden, TokenMatchesCookie, Credential
<1>8. ArrivedCurrent /\ OnlyCookies
  BY <1>2, <1>3 DEF ArrivedCurrent, OnlyCookies, HalfWay, Pending
<1> QED
  BY <1>4, <1>5, <1>6, <1>7, <1>8 DEF IInv

LEMMA ActKeeps ==
    ASSUME IInv, NEW t \in Tabs, Act(t)
    PROVE  IInv'
<1>0. jar \in issued \cup {None} /\ csrf[t] \in issued \cup {None}
  BY DEF IInv, TypeOK
<1>1. CASE Load(t)
  BY <1>1, LoadKeeps, OrphanedFacts DEF Load, IInv
<1>2. CASE Submit(t)
  BY <1>2, SendKeeps DEF Submit, Ops
<1>3. CASE Logout(t)
  BY <1>0, <1>3, SendKeeps DEF Logout, Ops
<1>4. CASE SaveAccount(t)
  BY <1>0, <1>4, SendKeeps DEF SaveAccount, Ops
<1> QED
  BY <1>1, <1>2, <1>3, <1>4 DEF Act

LEMMA AdmitKeeps ==
    ASSUME IInv, NEW t \in Tabs, NEW s \in AllSlots, Admit(t, s)
    PROVE  IInv'
<1> DEFINE q == flight[t][s]
           r == [q EXCEPT !.stage = "admitted", !.csrf = None,
                          !.seen = IF q.op \in {"me", "login"} THEN account ELSE @]
<1>1. /\ Pending(t, s) /\ Put(t, s, r) /\ q.stage = "sent"
      /\ UNCHANGED <<server, jar, page, disturbed>>
  BY DEF Admit
<1>2. q \in Request /\ q.cookie \in issued \cup {None} /\ account \in Credential
  BY <1>1 DEF IInv, TypeOK, Pending
<1>3. /\ r \in Request /\ r.op = q.op /\ r.cookie = q.cookie
      /\ r.stage = "admitted" /\ r.seen \in {account, q.seen}
  BY <1>2 DEF Request, Cookie
<1>4. r.seen = "changed" => account = "changed"
  BY <1>1, <1>3 DEF IInv, SeenTrue
<1> HIDE DEF r
<1> QED
  BY <1>1, <1>2, <1>3, <1>4, ServeKeeps DEF IInv, TypeOK, server

\* The handlers answer what was asked about what they have seen.
LEMMA AnswerKeeps ==
    ASSUME IInv, NEW t \in Tabs, NEW s \in AllSlots, NEW op, NEW c \in Cookie,
           Handled(t, s, op), Answer(t, s, c),
           c \in issued' \cup {None},
           s = "boot" => c = flight[t][s].cookie,
           sessions' \subseteq issued', issued \subseteq issued',
           issued' \subseteq Sessions,
           account' \in {account, "changed"},
           op = "account" => account' = "changed"
    PROVE  IInv'
<1>1. /\ Pending(t, s) /\ flight[t][s].op = op
      /\ flight[t][s].stage = "admitted"
      /\ UNCHANGED <<jar, page, disturbed>>
  BY DEF Handled
<1>2. PICK r \in Request :
        /\ Put(t, s, r)
        /\ r.op = flight[t][s].op /\ r.cookie = c
        /\ r.stage = "answered"
        /\ r.seen \in {"default", flight[t][s].seen}
  BY <1>1, AnswerFacts DEF IInv
<1>3. r.seen = "changed" => account' = "changed"
  BY <1>1, <1>2 DEF IInv, SeenTrue
<1> QED
  BY <1>1, <1>2, <1>3, ServeKeeps

LEMMA HandlersKeep ==
    ASSUME IInv, NEW t \in Tabs, NEW s \in AllSlots,
           \/ s = "boot" /\ AdminMe(t)
           \/ AdminLogin(t, s)
           \/ AdminLogout(t, s)
           \/ AdminUpdateAccount(t, s)
    PROVE  IInv'
<1>0. /\ sessions \subseteq issued /\ issued \subseteq Sessions
      /\ None \in Cookie /\ Sessions \subseteq Cookie
      /\ Pending(t, "boot") => flight[t]["boot"].op = "me"
      /\ \A y \in AllSlots :
             Pending(t, y) => flight[t][y].cookie \in issued \cup {None}
  BY DEF IInv, TypeOK, Cookie
<1>1. \A op : op # "me" /\ Handled(t, s, op) => s # "boot"
  BY <1>0 DEF Handled
<1>2. CASE s = "boot" /\ AdminMe(t)
  <2>1. /\ Handled(t, s, "me") /\ Answer(t, s, flight[t][s].cookie)
        /\ UNCHANGED server /\ Pending(t, s)
    BY <1>2 DEF AdminMe, Handled
  <2> QED
    BY <1>0, <2>1, AnswerKeeps DEF server, Cookie
<1>3. CASE AdminLogin(t, s)
  <2>1. PICK new \in Sessions \ issued :
          /\ sessions' = sessions \cup {new}
          /\ issued' = issued \cup {new}
          /\ Answer(t, s, new)
    BY <1>3 DEF AdminLogin
  <2>2. Handled(t, s, "login") /\ account' = account
    BY <1>3 DEF AdminLogin
  <2> QED
    BY <1>0, <1>1, <2>1, <2>2, AnswerKeeps
<1>4. CASE AdminLogout(t, s)
  BY <1>0, <1>1, <1>4, AnswerKeeps DEF AdminLogout
<1>5. CASE AdminUpdateAccount(t, s)
  BY <1>0, <1>1, <1>5, AnswerKeeps DEF AdminUpdateAccount
<1> QED
  BY <1>2, <1>3, <1>4, <1>5

\* The headers of an answer set the cookies; its page is reading the body.
LEMMA ArriveKeeps ==
    ASSUME IInv, NEW t \in Tabs, NEW s \in AllSlots, Arrive(t, s)
    PROVE  IInv'
<1> USE SessionAssumption
<1> DEFINE q == flight[t][s]
           r == [q EXCEPT !.stage = "arrived"]
<1>1. /\ Pending(t, s) /\ Put(t, s, r) /\ UNCHANGED <<server, page>>
      /\ q.op \in {"login", "logout"} /\ q.stage = "answered"
      /\ jar' = IF q.op = "login" THEN q.cookie ELSE None
      /\ disturbed' = disturbed \cup (Tabs \ {t}) \cup
                         {u \in {t} : \E x \in AllSlots : HalfWay(t, x)}
  BY DEF Arrive
<1>2. q \in Request /\ q.cookie \in issued \cup {None}
  BY <1>1 DEF IInv, TypeOK, Pending
<1>3. /\ r \in Request /\ r.op = q.op /\ r.cookie = q.cookie
      /\ r.stage = "arrived" /\ r.seen = q.seen /\ r # None
  BY <1>2 DEF Request
<1>4. s # "boot"
  BY <1>1 DEF IInv, TypeOK
<1> HIDE DEF r
<1>5. /\ flight' \in [Tabs -> [AllSlots -> Request \cup {None}]]
      /\ \A x \in Tabs, y \in AllSlots :
             flight'[x][y] = IF x = t /\ y = s THEN r ELSE flight[x][y]
  BY <1>1, <1>3, PutFacts DEF IInv
<1>6. \A x \in Tabs \ disturbed' :
        x = t /\ x \notin disturbed /\ \A y \in AllSlots : ~HalfWay(t, y)
  BY <1>1
<1>7. HalfWay(t, s)' /\ \A y \in AllSlots \ {s} : HalfWay(t, y)' <=> HalfWay(t, y)
  <2>1. ~q.orphan /\ r.orphan = q.orphan
    BY <1>2 DEF Arrive, Request, r
  <2> QED
    BY <1>3, <1>5, <2>1 DEF HalfWay, Pending
<1>8. TypeOK'
  <2>1. \A x \in Tabs : Pending(x, "boot")' => flight'[x]["boot"].op = "me"
    BY <1>4, <1>5 DEF IInv, TypeOK, Pending, AllSlots
  <2>2. \A x \in Tabs, y \in AllSlots :
            Pending(x, y)' => flight'[x][y].cookie \in issued' \cup {None}
    BY <1>1, <1>2, <1>3, <1>5 DEF IInv, TypeOK, server, Pending
  <2>3. jar' \in issued \cup {None} /\ disturbed' \subseteq Tabs
    BY <1>1, <1>2 DEF IInv, TypeOK
  <2> QED
    BY <1>1, <1>5, <2>1, <2>2, <2>3 DEF IInv, TypeOK, server, page
<1>9. WarningNotHidden'
  BY <1>1 DEF IInv, WarningNotHidden, server, page
<1>10. SeenTrue'
  BY <1>1, <1>3, <1>5 DEF IInv, SeenTrue, server, Pending
<1>11. TokenMatchesCookie' /\ BootCurrent'
  BY <1>6, <1>7 DEF TokenMatchesCookie, BootCurrent
<1>12. ArrivedCurrent'
  BY <1>1, <1>3, <1>5, <1>6, <1>7 DEF ArrivedCurrent
<1>13. OnlyCookies'
  BY <1>1, <1>3, <1>5 DEF IInv, OnlyCookies, HalfWay, Pending
<1> QED
  BY <1>8, <1>9, <1>10, <1>11, <1>12, <1>13 DEF IInv

LEMMA ResumeKeeps ==
    ASSUME IInv, NEW t \in Tabs, NEW s \in AllSlots, Resume(t, s)
    PROVE  IInv'
<1> USE SessionAssumption
<1>0. /\ jar \in issued \cup {None} /\ disturbed \subseteq Tabs
      /\ user \in [Tabs -> Credential \cup {None}]
      /\ csrf \in [Tabs -> issued \cup {None}]
      /\ "boot" \in AllSlots /\ None \notin Credential
  BY DEF IInv, TypeOK, AllSlots
<1>1. ASSUME Pending(t, s), Put(t, s, None), ~HalfWay(t, s)
      PROVE  (\A y \in AllSlots : ~HalfWay(t, y)') =>
                 t \in disturbed \/ csrf[t] = jar
  <2>1. \A y \in AllSlots : HalfWay(t, y) => HalfWay(t, y)'
    BY <1>1, PutFacts DEF IInv, HalfWay, Pending
  <2> QED
    BY <2>1 DEF IInv, TokenMatchesCookie
<1>2. CASE Arrive(t, s)
  BY <1>2, ArriveKeeps
<1>3. CASE ShowFailure(t, s)
  <2>1. /\ Pending(t, s) /\ Put(t, s, None) /\ UNCHANGED <<server, jar, page>>
        /\ disturbed' = disturbed \cup {u \in {t} : HalfWay(t, s)}
    BY <1>3 DEF ShowFailure
  <2>2. CASE HalfWay(t, s)
    BY <1>0, <2>1, <2>2, EndKeeps DEF page
  <2>3. CASE ~HalfWay(t, s)
    BY <1>0, <1>1, <2>1, <2>3, EndKeeps DEF page
  <2> QED
    BY <2>2, <2>3
<1>4. CASE s = "boot" /\ Booted(t)
  <2>1. /\ Pending(t, s) /\ Put(t, s, None) /\ UNCHANGED <<server, jar>>
        /\ flight[t][s].op = "me"
        /\ csrf' = [csrf EXCEPT ![t] = flight[t][s].cookie]
        /\ user' = [user EXCEPT ![t] = flight[t][s].seen]
        /\ disturbed' = disturbed \cup {u \in {t} : user[t] # None}
    BY <1>4 DEF Booted, Answered
  <2>2. /\ flight[t][s].cookie \in issued \cup {None}
        /\ flight[t][s].seen \in Credential
        /\ flight[t][s].seen = "changed" => account = "changed"
        /\ ~Pending(t, "boot")'
    BY <1>4, <2>1, EndFacts DEF IInv, SeenTrue
  <2>3. /\ \A x \in Tabs \ {t} : csrf'[x] = csrf[x] /\ user'[x] = user[x]
        /\ csrf'[t] = flight[t][s].cookie /\ user'[t] = flight[t][s].seen
        /\ user' \in [Tabs -> Credential \cup {None}]
        /\ csrf' \in [Tabs -> issued \cup {None}]
    BY <1>0, <2>1, <2>2
  <2>4. ~HalfWay(t, s)
    BY <2>1 DEF IInv, OnlyCookies
  <2>5. \A y \in AllSlots : HalfWay(t, y) => HalfWay(t, y)'
    BY <2>1, <2>4, PutFacts DEF IInv, HalfWay, Pending
  <2>6. (\A y \in AllSlots : ~HalfWay(t, y)') =>
            t \in disturbed' \/ csrf'[t] = jar
    BY <1>4, <2>1, <2>3, <2>5 DEF IInv, BootCurrent
  <2> QED
    BY <1>0, <2>1, <2>2, <2>3, <2>6, EndKeeps
<1>5. CASE OnLogin(t, s)
  <2>1. /\ Pending(t, s) /\ Put(t, s, None) /\ UNCHANGED <<server, jar, disturbed>>
        /\ flight[t][s].op = "login"
        /\ csrf' = [csrf EXCEPT ![t] = flight[t][s].cookie]
        /\ user' = [user EXCEPT ![t] = flight[t][s].seen]
        /\ HalfWay(t, s)
    BY <1>5 DEF OnLogin, Answered, HalfWay
  <2>2. /\ flight[t][s].cookie \in issued \cup {None}
        /\ flight[t][s].seen \in Credential
        /\ flight[t][s].seen = "changed" => account = "changed"
    BY <2>1, EndFacts DEF IInv, SeenTrue
  <2>3. /\ \A x \in Tabs \ {t} : csrf'[x] = csrf[x] /\ user'[x] = user[x]
        /\ csrf'[t] = flight[t][s].cookie /\ user'[t] = flight[t][s].seen
        /\ user' \in [Tabs -> Credential \cup {None}]
        /\ csrf' \in [Tabs -> issued \cup {None}]
    BY <1>0, <2>1, <2>2
  <2>4. t \in disturbed' \/ csrf'[t] = jar
    BY <2>1, <2>3 DEF IInv, ArrivedCurrent
  <2> QED
    BY <1>0, <2>1, <2>2, <2>3, <2>4, EndKeeps
<1>6. CASE LoggedOut(t, s)
  <2> DEFINE f == [Orphaned(t) EXCEPT ![t][s] = None]
  <2>1. /\ f \in [Tabs -> [AllSlots -> Request \cup {None}]]
        /\ \A x \in Tabs \ {t} : f[x] = flight[x]
        /\ \A y \in AllSlots : f[t][y] = None \/ f[t][y] = Orphaned(t)[t][y]
    BY OrphanedFacts DEF IInv
  <2>2. /\ LoadPage(t, jar, f) /\ UNCHANGED <<server, jar>>
        /\ disturbed' = disturbed \ {t}
    BY <1>6 DEF LoggedOut
  <2>3. \A y \in AllSlots :
          \/ f[t][y] = None
          \/ /\ Pending(t, y)
             /\ f[t][y].op = flight[t][y].op
             /\ f[t][y].cookie = flight[t][y].cookie
             /\ f[t][y].stage = flight[t][y].stage
             /\ f[t][y].seen = "default" /\ f[t][y].orphan
    BY <2>1, OrphanedFacts DEF IInv
  <2> HIDE DEF f
  <2> QED
    BY <2>1, <2>2, <2>3, LoadKeeps
<1>7. CASE AccountSaved(t, s)
  <2>1. /\ Pending(t, s) /\ Put(t, s, None)
        /\ UNCHANGED <<server, jar, csrf, disturbed>>
        /\ user' = [user EXCEPT ![t] = "changed"]
        /\ flight[t][s].op = "account"
        /\ flight[t][s].stage = "answered"
    BY <1>7 DEF AccountSaved, Answered
  <2>2. account = "changed"
    BY <2>1 DEF IInv, SeenTrue
  <2>3. ~HalfWay(t, s)
    BY <2>1 DEF HalfWay
  <2>4. /\ user' \in [Tabs -> Credential \cup {None}]
        /\ \A x \in Tabs \ {t} : user'[x] = user[x]
        /\ user'[t] = "changed" /\ "changed" # None
    BY <1>0, <2>1 DEF Credential
  <2> QED
    BY <1>0, <1>1, <2>1, <2>2, <2>3, <2>4, EndKeeps
<1>8. CASE Land(t, s)
  <2>1. /\ Pending(t, s) /\ Put(t, s, None) /\ UNCHANGED <<server, page>>
        /\ ~HalfWay(t, s)
    BY <1>8 DEF Land, HalfWay
  <2>2. /\ jar' \in issued \cup {None}
        /\ disturbed' = Tabs \/ UNCHANGED <<jar, disturbed>>
    BY <1>8, <2>1, EndFacts DEF Land, IInv, TypeOK
  <2>3. CASE disturbed' = Tabs
    BY <1>0, <2>1, <2>2, <2>3, EndKeeps DEF page
  <2>4. CASE UNCHANGED <<jar, disturbed>>
    BY <1>0, <1>1, <2>1, <2>2, <2>4, EndKeeps DEF page
  <2> QED
    BY <2>2, <2>3, <2>4
<1> QED
  BY <1>2, <1>3, <1>4, <1>5, <1>6, <1>7, <1>8 DEF Resume

LEMMA NextIInv == IInv /\ [Next]_vars => IInv'
<1> SUFFICES ASSUME IInv, [Next]_vars PROVE IInv'
  OBVIOUS
<1>1. ASSUME NEW t \in Tabs, Act(t) PROVE IInv'
  BY <1>1, ActKeeps
<1>2. ASSUME NEW t \in Tabs, NEW s \in AllSlots, Serve(t, s) PROVE IInv'
  BY <1>2, AdmitKeeps, HandlersKeep DEF Serve
<1>3. ASSUME NEW t \in Tabs, NEW s \in AllSlots, Resume(t, s) PROVE IInv'
  BY <1>3, ResumeKeeps
<1>4. ASSUME NEW x \in Sessions, Expire(x) PROVE IInv'
  BY <1>4 DEF Expire, IInv, TypeOK, WarningNotHidden, SeenTrue,
       TokenMatchesCookie, BootCurrent, ArrivedCurrent, OnlyCookies, HalfWay,
       page, Pending
<1>5. CASE CookiesExpire
  BY <1>5 DEF CookiesExpire, IInv, TypeOK, WarningNotHidden, SeenTrue,
       TokenMatchesCookie, BootCurrent, ArrivedCurrent, OnlyCookies, HalfWay,
       server, page, Pending
<1>6. CASE UNCHANGED vars
  BY <1>6 DEF vars, IInv, TypeOK, WarningNotHidden, SeenTrue,
       TokenMatchesCookie, BootCurrent, ArrivedCurrent, OnlyCookies, HalfWay,
       Pending
<1> QED
  BY <1>1, <1>2, <1>3, <1>4, <1>5, <1>6 DEF Next

LEMMA Invariance == Spec => []IInv
BY InitIInv, NextIInv, PTL DEF Spec

\* The types hold for any number of tabs, sessions and requests in flight.
THEOREM TypeCorrect == Spec => []TypeOK
BY Invariance, PTL DEF IInv

\* No tab hides the warning about the default credentials while they are valid
\* (App.tsx, is_default_credential).
THEOREM WarningNotHiddenHolds == Spec => []WarningNotHidden
BY Invariance, PTL DEF IInv

\* Between the answers to its own sign-ins and sign-outs a page has the token
\* of the cookies, unless one of the exceptions that TokenMatchesCookie names
\* has disturbed it (App.tsx boot, onLogin and logout, api.ts setCSRF).
THEOREM TokenMatchesCookieHolds == Spec => []TokenMatchesCookie
BY Invariance, PTL DEF IInv
=============================================================================
