-------------------------- MODULE Upstream_proofs --------------------------
(***************************************************************************)
(* Proofs about Upstream, for any number of fetches and servers.  The two  *)
(* scans of orderedServers divide the servers by a flag that may change    *)
(* between them.  The invariant says what the scans have made of a server  *)
(* whose flag has not changed: it is listed by the first scan once that    *)
(* has passed it, if it is healthy, and by the second one otherwise.       *)
(***************************************************************************)
EXTENDS Upstream, Integers, TLAPS

Listed(t, s) == \E i \in DOMAIN order[t] : order[t][i] = s

\* The scan under way has been at server s.
Visited(t, s) == \E i \in 0 .. at[t] - 1 : s = ((start[t] + i) % N) + 1

\* Positions and lengths.
Bounds(t) ==
    /\ pc[t] = "idle" => order[t] = <<>> /\ at[t] = 0 /\ flipped[t] = {}
    /\ Scanning(t) => at[t] < N
    /\ pc[t] = "healthy" => Len(order[t]) <= at[t]
    /\ pc[t] = "unhealthy" => Len(order[t]) <= N + at[t]
    /\ pc[t] = "ask" => at[t] < Len(order[t]) \/ (order[t] = <<>> /\ at[t] = 0)
    /\ pc[t] = "mark" => at[t] < Len(order[t])
    /\ pc[t] = "served" => at[t] <= Len(order[t])
    /\ pc[t] = "failed" => at[t] = Len(order[t])

\* What has been listed of the servers whose flags have not changed.
Lists(t) ==
    \A s \in Servers \ flipped[t] :
        /\ pc[t] = "healthy" => (Listed(t, s) <=> healthy[s] /\ Visited(t, s))
        /\ pc[t] = "unhealthy" => (Listed(t, s) <=> healthy[s] \/ Visited(t, s))
        /\ pc[t] \in {"ask", "mark", "served", "failed"} => Listed(t, s)

\* AskedOnce, of one fetch.
Once(t) ==
    \A i, j \in DOMAIN order[t] :
        i # j /\ order[t][i] = order[t][j] => order[t][i] \in flipped[t]

IInv == TypeOK /\ \A t \in Fetches : Bounds(t) /\ Lists(t) /\ Once(t)
-----------------------------------------------------------------------------
(* The rotation.                                                           *)

\* A position that is at most one round behind.
LEMMA Wrap ==
    ASSUME NEW x \in 0 .. 2 * N - 1
    PROVE  x % N = IF x < N THEN x ELSE x - N
BY UpstreamAssumption

\* Within a round every server comes once.
LEMMA Rotation ==
    ASSUME NEW b \in 0 .. N - 1
    PROVE  /\ \A i \in 0 .. N - 1 : ((b + i) % N) + 1 \in Servers
           /\ \A i, j \in 0 .. N - 1 : (b + i) % N = (b + j) % N => i = j
           /\ \A s \in Servers : \E i \in 0 .. N - 1 : s = ((b + i) % N) + 1
<1>0. N \in Nat \ {0}
  BY UpstreamAssumption
<1>1. \A i \in 0 .. N - 1 : (b + i) % N = IF b + i < N THEN b + i ELSE b + i - N
  BY <1>0, Wrap
<1>2. \A i \in 0 .. N - 1 : ((b + i) % N) + 1 \in Servers
  BY <1>0, <1>1 DEF Servers
<1>3. \A i, j \in 0 .. N - 1 : (b + i) % N = (b + j) % N => i = j
  BY <1>0, <1>1
<1>4. ASSUME NEW s \in Servers
      PROVE  \E i \in 0 .. N - 1 : s = ((b + i) % N) + 1
  <2> DEFINE i == IF s - 1 >= b THEN s - 1 - b ELSE s - 1 - b + N
  <2>1. i \in 0 .. N - 1 /\ b + i = IF s - 1 >= b THEN s - 1 ELSE s - 1 + N
    BY <1>0 DEF Servers
  <2>2. (b + i) % N = s - 1
    BY <1>0, <1>1, <2>1 DEF Servers
  <2>3. s = ((b + i) % N) + 1
    BY <2>2 DEF Servers
  <2> HIDE DEF i
  <2> QED
    BY <2>1, <2>3
<1> QED
  BY <1>2, <1>3, <1>4
-----------------------------------------------------------------------------
(* Steps.                                                                  *)

\* The types, for one fetch.
LEMMA Types ==
    ASSUME TypeOK, NEW t \in Fetches
    PROVE  /\ N \in Nat \ {0} /\ next \in 0 .. N - 1
           /\ start[t] \in 0 .. N - 1
           /\ at[t] \in Nat /\ at[t] <= 2 * N
           /\ order[t] \in Seq(Servers) /\ Len(order[t]) \in Nat
           /\ Len(order[t]) <= 2 * N
           /\ DOMAIN order[t] = 1 .. Len(order[t])
           /\ \A i \in 1 .. Len(order[t]) : order[t][i] \in Servers
           /\ flipped[t] \in SUBSET Servers
<1>1. order[t] \in Seq(Servers)
  BY DEF TypeOK
<1>2. N \in Nat \ {0} /\ at[t] \in 0 .. 2 * N
  BY UpstreamAssumption DEF TypeOK
<1>3. at[t] \in Nat /\ at[t] <= 2 * N
  BY <1>2
<1>4. /\ DOMAIN order[t] = 1 .. Len(order[t]) /\ Len(order[t]) \in Nat
      /\ \A i \in 1 .. Len(order[t]) : order[t][i] \in Servers
  BY <1>1
<1>5. /\ next \in 0 .. N - 1 /\ start[t] \in 0 .. N - 1
      /\ Len(order[t]) <= 2 * N /\ flipped[t] \in SUBSET Servers
  BY DEF TypeOK
<1> QED
  BY <1>1, <1>2, <1>3, <1>4, <1>5

\* What the invariant says of a fetch depends on its own state and, while it
\* scans, on the flags that have not changed.
LEMMA Others ==
    ASSUME IInv, TypeOK', NEW t \in Fetches,
           \A u \in Fetches \ {t} :
               /\ pc'[u] = pc[u] /\ start'[u] = start[u] /\ at'[u] = at[u]
               /\ order'[u] = order[u]
               /\ IF Scanning(u)
                  THEN /\ flipped[u] \subseteq flipped'[u]
                       /\ \A s \in Servers \ flipped'[u] : healthy'[s] = healthy[s]
                  ELSE flipped'[u] = flipped[u],
           Bounds(t)', Lists(t)', Once(t)'
    PROVE  IInv'
<1> SUFFICES ASSUME NEW u \in Fetches, u # t
             PROVE  Bounds(u)' /\ Lists(u)' /\ Once(u)'
  BY DEF IInv
<1>1. Bounds(u) /\ Lists(u) /\ Once(u)
  BY DEF IInv
<1>2. /\ pc'[u] = pc[u] /\ start'[u] = start[u] /\ at'[u] = at[u]
      /\ order'[u] = order[u]
      /\ flipped[u] \subseteq flipped'[u]
      /\ \A s \in Servers \ flipped'[u] : Scanning(u) => healthy'[s] = healthy[s]
      /\ ~Scanning(u) => flipped'[u] = flipped[u]
  OBVIOUS
<1>3. \A s : (Listed(u, s)' <=> Listed(u, s)) /\ (Visited(u, s)' <=> Visited(u, s))
  BY <1>2 DEF Listed, Visited
<1>4. Bounds(u)'
  BY <1>1, <1>2 DEF Bounds, Scanning
<1>5. Lists(u)'
  BY <1>1, <1>2, <1>3 DEF Lists, Scanning
<1>6. Once(u)'
  BY <1>1, <1>2 DEF Once
<1> QED
  BY <1>4, <1>5, <1>6

LEMMA BeginStep ==
    ASSUME IInv, NEW t \in Fetches, Begin(t)
    PROVE  IInv'
<1>0. N \in Nat \ {0} /\ TypeOK /\ Bounds(t)
  BY UpstreamAssumption DEF IInv
<1>1. /\ pc[t] = "idle" /\ pc'[t] = "healthy" /\ start'[t] = next
      /\ order'[t] = <<>> /\ at'[t] = 0 /\ flipped'[t] = {}
      /\ UNCHANGED <<healthy, at, order, answer, flipped>>
  BY <1>0 DEF Begin, Goto, TypeOK, Bounds
<1>2. TypeOK'
  <2>1. (next + 1) % N \in 0 .. N - 1
    BY <1>0, Wrap, Types
  <2> QED
    BY <1>0, <2>1 DEF Begin, Goto, TypeOK
<1>3. Bounds(t)' /\ Once(t)'
  BY <1>0, <1>1 DEF Bounds, Once, Scanning
<1>4. Lists(t)'
  BY <1>1 DEF Lists, Listed, Visited
<1> QED
  BY <1>0, <1>2, <1>3, <1>4, Others DEF Begin, Goto, TypeOK

\* One server is looked at, in either scan.
LEMMA ScanStep ==
    ASSUME IInv, NEW t \in Fetches,
           NEW label, NEW listed, NEW then,
           \/ label = "healthy" /\ listed = TRUE /\ then = "unhealthy"
           \/ label = "unhealthy" /\ listed = FALSE /\ then = "ask",
           Scan(t, label, listed, then)
    PROVE  IInv'
<1> DEFINE x == Scanned(t)
           o == order[t]
           a == at[t]
           add == healthy[x] = listed
<1>0. /\ N \in Nat \ {0} /\ TypeOK /\ Bounds(t) /\ Lists(t) /\ Once(t)
      /\ label \in {"healthy", "unhealthy"} /\ pc[t] = label
  BY UpstreamAssumption DEF IInv, Scan
<1>1. /\ start[t] \in 0 .. N - 1 /\ a \in 0 .. N - 1 /\ o \in Seq(Servers)
      /\ flipped[t] \in SUBSET Servers /\ Len(o) \in Nat
  BY <1>0, Types DEF Bounds, Scanning
<1>2. /\ x \in Servers /\ ~Visited(t, x)
      /\ \A s \in Servers : a = N - 1 => Visited(t, s) \/ s = x
  <2>1. x \in Servers
    BY <1>1, Rotation DEF Scanned
  <2>2. ASSUME NEW i \in 0 .. a - 1, x = ((start[t] + i) % N) + 1
        PROVE  FALSE
    <3>1. (start[t] + i) % N = (start[t] + a) % N
      <4>1. i \in 0 .. N - 1
        BY <1>0, <1>1
      <4>2. (start[t] + i) % N \in Int /\ (start[t] + a) % N \in Int
        BY <1>0, <1>1
      <4> QED
        BY <2>2, <4>2 DEF Scanned
    <3>2. i \in 0 .. N - 1 /\ i # a
      BY <1>0, <1>1
    <3> QED
      BY <1>1, <3>1, <3>2, Rotation
  <2>3. ASSUME NEW s \in Servers, a = N - 1
        PROVE  Visited(t, s) \/ s = x
    <3>1. PICK i \in 0 .. N - 1 : s = ((start[t] + i) % N) + 1
      BY <1>1, Rotation
    <3>2. CASE i = a
      BY <3>1, <3>2 DEF Scanned
    <3>3. CASE i # a
      BY <1>0, <1>1, <2>3, <3>1, <3>3 DEF Visited
    <3> QED
      BY <3>2, <3>3
  <2> QED
    BY <2>1, <2>2, <2>3 DEF Visited
<1>3. /\ order'[t] = IF add THEN Append(o, x) ELSE o
      /\ at'[t] = (a + 1) % N
      /\ pc'[t] = IF a + 1 < N THEN label ELSE then
      /\ UNCHANGED <<healthy, next, start, answer, flipped>>
  BY <1>0 DEF Scan, Goto, TypeOK
<1>4. /\ at'[t] = IF a + 1 < N THEN a + 1 ELSE 0
      /\ at'[t] \in 0 .. N - 1
  <2>1. a + 1 \in 0 .. 2 * N - 1 /\ a + 1 <= N
    BY <1>0, <1>1
  <2>2. (a + 1) % N = IF a + 1 < N THEN a + 1 ELSE a + 1 - N
    <3> DEFINE z == a + 1
    <3>1. z \in 0 .. 2 * N - 1
      BY <2>1
    <3> HIDE DEF z
    <3>2. z % N = IF z < N THEN z ELSE z - N
      BY <3>1, Wrap
    <3> QED
      BY <1>0, <1>1, <3>1, <3>2 DEF z
  <2> QED
    BY <1>0, <1>1, <1>3, <2>1, <2>2
<1>5. /\ order'[t] \in Seq(Servers)
      /\ Len(order'[t]) = IF add THEN Len(o) + 1 ELSE Len(o)
      /\ \A i \in 1 .. Len(o) : order'[t][i] = o[i]
      /\ add => order'[t][Len(o) + 1] = x
  BY <1>1, <1>2, <1>3
<1>6. Len(o) <= IF label = "healthy" THEN a ELSE N + a
  BY <1>0 DEF Bounds
<1>7. TypeOK'
  <2>1. Len(order'[t]) <= 2 * N
    BY <1>0, <1>1, <1>5, <1>6
  <2>2. at'[t] \in 0 .. 2 * N /\ then \in {"unhealthy", "ask"}
    <3>1. 0 .. N - 1 \subseteq 0 .. 2 * N
      BY <1>0
    <3> QED
      BY <1>0, <1>4, <3>1
  <2>3. order' \in [Fetches -> Seq(Servers)] /\ at' \in [Fetches -> 0 .. 2 * N]
    BY <1>0, <1>3, <1>5, <2>2 DEF Scan, TypeOK
  <2>4. \A u \in Fetches : Len(order'[u]) <= 2 * N
    BY <1>0, <2>1 DEF Scan, TypeOK
  <2>5. pc' \in [Fetches -> {"idle", "healthy", "unhealthy", "ask", "mark",
                             "served", "failed"}]
    BY <1>0, <2>2 DEF Scan, Goto, TypeOK
  <2> QED
    BY <1>0, <1>3, <2>3, <2>4, <2>5 DEF TypeOK
<1>8. \A s : Listed(t, s)' <=> Listed(t, s) \/ (add /\ s = x)
  <2>1. DOMAIN o = 1 .. Len(o) /\ DOMAIN order'[t] = 1 .. Len(order'[t])
    BY <1>1, <1>5
  <2>2. CASE add
    <3>1. \A i : i \in 1 .. Len(order'[t]) <=> i \in 1 .. Len(o) \/ i = Len(o) + 1
      BY <1>1, <1>5, <2>2
    <3> QED
      BY <1>5, <2>1, <2>2, <3>1 DEF Listed
  <2>3. CASE ~add
    BY <1>3, <2>3 DEF Listed
  <2> QED
    BY <2>2, <2>3
<1>9. \A s \in Servers : a + 1 < N => (Visited(t, s)' <=> Visited(t, s) \/ s = x)
  <2> SUFFICES ASSUME NEW s \in Servers, a + 1 < N
               PROVE  Visited(t, s)' <=> Visited(t, s) \/ s = x
    OBVIOUS
  <2>1. at'[t] = a + 1 /\ start'[t] = start[t]
    BY <1>3, <1>4
  <2>2. \A i : i \in 0 .. at'[t] - 1 <=> i \in 0 .. a - 1 \/ i = a
    BY <1>1, <2>1
  <2> QED
    BY <2>1, <2>2 DEF Visited, Scanned
<1>10. Lists(t)'
  <2> SUFFICES ASSUME NEW s \in Servers \ flipped[t]
               PROVE  /\ pc'[t] = "healthy"
                             => (Listed(t, s)' <=> healthy[s] /\ Visited(t, s)')
                      /\ pc'[t] = "unhealthy"
                             => (Listed(t, s)' <=> healthy[s] \/ Visited(t, s)')
                      /\ pc'[t] = "ask" => Listed(t, s)'
    BY <1>0, <1>3 DEF Lists
  <2>1. healthy[s] \in BOOLEAN /\ healthy[x] \in BOOLEAN
    BY <1>0, <1>2 DEF TypeOK
  <2>2. CASE label = "healthy"
    <3>1. Listed(t, s) <=> healthy[s] /\ Visited(t, s)
      BY <1>0, <2>2 DEF Lists
    <3>2. Listed(t, s)' <=> healthy[s] /\ (Visited(t, s) \/ s = x)
      BY <1>0, <1>8, <2>1, <2>2, <3>1
    <3>3. CASE a + 1 < N
      BY <1>3, <1>9, <2>2, <3>2, <3>3
    <3>4. CASE ~(a + 1 < N)
      <4>1. Visited(t, s) \/ s = x
        BY <1>0, <1>1, <1>2, <3>4
      <4>2. ~Visited(t, s)'
        BY <1>4, <3>4 DEF Visited
      <4> QED
        BY <1>0, <1>3, <2>2, <3>2, <3>4, <4>1, <4>2
    <3> QED
      BY <3>3, <3>4
  <2>3. CASE label = "unhealthy"
    <3>1. Listed(t, s) <=> healthy[s] \/ Visited(t, s)
      BY <1>0, <2>3 DEF Lists
    <3>2. Listed(t, s)' <=> healthy[s] \/ Visited(t, s) \/ s = x
      BY <1>0, <1>8, <2>1, <2>3, <3>1
    <3>3. CASE a + 1 < N
      BY <1>3, <1>9, <2>3, <3>2, <3>3
    <3>4. CASE ~(a + 1 < N)
      BY <1>0, <1>1, <1>2, <1>3, <2>3, <3>2, <3>4
    <3> QED
      BY <3>3, <3>4
  <2> QED
    BY <1>0, <2>2, <2>3
<1>11. Once(t)'
  <2>1. add /\ x \notin flipped[t] => ~Listed(t, x)
    BY <1>0, <1>2 DEF Lists, TypeOK
  <2> SUFFICES ASSUME NEW i \in 1 .. Len(order'[t]), NEW j \in 1 .. Len(order'[t]),
                      i # j, order'[t][i] = order'[t][j]
               PROVE  order'[t][i] \in flipped[t]
    BY <1>3, <1>5 DEF Once
  <2>2. CASE i \in 1 .. Len(o) /\ j \in 1 .. Len(o)
    BY <1>0, <1>1, <1>5, <2>2 DEF Once
  <2>3. CASE ~(i \in 1 .. Len(o) /\ j \in 1 .. Len(o))
    <3>1. add /\ (i = Len(o) + 1 \/ j = Len(o) + 1) /\ order'[t][i] = x
      BY <1>1, <1>5, <2>3
    <3>2. PICK k \in 1 .. Len(o) : o[k] = x
      <4>1. CASE i = Len(o) + 1
        <5>1. j \in 1 .. Len(o)
          BY <1>1, <1>5, <3>1, <4>1
        <5> QED
          BY <1>5, <3>1, <5>1
      <4>2. CASE j = Len(o) + 1
        <5>1. i \in 1 .. Len(o)
          BY <1>1, <1>5, <3>1, <4>2
        <5> QED
          BY <1>5, <3>1, <5>1
      <4> QED
        BY <3>1, <4>1, <4>2
    <3> QED
      BY <1>1, <2>1, <3>1, <3>2 DEF Listed
  <2> QED
    BY <2>2, <2>3
<1>12. Bounds(t)'
  <2>1. CASE a + 1 < N
    BY <1>0, <1>1, <1>3, <1>4, <1>5, <1>6, <2>1 DEF Bounds, Scanning
  <2>2. CASE ~(a + 1 < N)
    <3>1. at'[t] = 0 /\ a = N - 1
      BY <1>0, <1>1, <1>4, <2>2
    <3>2. CASE label = "healthy"
      <4>1. pc'[t] = "unhealthy"
        BY <1>0, <1>3, <2>2, <3>2
      <4>2. Len(order'[t]) <= N
        <5>1. Len(o) <= N - 1
          BY <1>6, <3>1, <3>2
        <5>2. Len(order'[t]) <= Len(o) + 1
          BY <1>1, <1>5
        <5> QED
          BY <1>0, <1>1, <1>5, <5>1, <5>2
      <4> QED
        BY <1>0, <3>1, <4>1, <4>2 DEF Bounds, Scanning
    <3>3. CASE label = "unhealthy"
      <4>1. pc'[t] = "ask"
        BY <1>0, <1>3, <2>2, <3>3
      <4>2. order'[t] = <<>> \/ 0 < Len(order'[t])
        BY <1>5
      <4> QED
        BY <3>1, <4>1, <4>2 DEF Bounds, Scanning
    <3> QED
      BY <1>0, <3>2, <3>3
  <2> QED
    BY <2>1, <2>2
<1> QED
  BY <1>0, <1>3, <1>7, <1>10, <1>11, <1>12, Others DEF Scan, Goto, TypeOK

\* A fetch goes on without a scan or a mark.
LEMMA FetchStep ==
    ASSUME IInv, NEW t \in Fetches, NoServers(t) \/ Ask(t) \/ Return(t)
    PROVE  IInv'
<1>0. N \in Nat \ {0} /\ TypeOK /\ Bounds(t) /\ Lists(t) /\ Once(t)
  BY UpstreamAssumption DEF IInv
<1>1. CASE NoServers(t) \/ Ask(t)
  <2>1. /\ pc[t] = "ask" /\ pc'[t] \in {"mark", "failed"}
        /\ pc'[t] = "mark" => at[t] < Len(order[t])
        /\ pc'[t] = "failed" => order[t] = <<>>
        /\ UNCHANGED <<healthy, next, start, at, order, flipped>>
    BY <1>0, <1>1 DEF NoServers, Ask, Goto, TypeOK
  <2>2. TypeOK'
    BY <1>0, <1>1 DEF NoServers, Ask, Goto, Outcomes, TypeOK
  <2>3. Bounds(t)'
    <3>1. CASE pc'[t] = "mark"
      BY <2>1, <3>1 DEF Bounds, Scanning
    <3>2. CASE pc'[t] = "failed"
      <4>1. order[t] = <<>> /\ at[t] = 0 /\ Len(order[t]) = 0
        BY <1>0, <2>1, <3>2, Types DEF Bounds
      <4> QED
        BY <2>1, <3>2, <4>1 DEF Bounds, Scanning
    <3> QED
      BY <2>1, <3>1, <3>2
  <2>4. Lists(t)' /\ Once(t)'
    BY <1>0, <2>1 DEF Lists, Once, Listed, Visited
  <2> QED
    BY <1>0, <1>1, <2>2, <2>3, <2>4, Others DEF NoServers, Ask, Goto, TypeOK
<1>2. CASE Return(t)
  <2>1. /\ pc'[t] = "idle" /\ order'[t] = <<>> /\ at'[t] = 0 /\ flipped'[t] = {}
    BY <1>0, <1>2 DEF Return, Goto, TypeOK
  <2>2. TypeOK'
    <3>1. \A u \in Fetches : order'[u] = IF u = t THEN <<>> ELSE order[u]
      BY <1>0, <1>2 DEF Return, TypeOK
    <3>2. order' \in [Fetches -> Seq(Servers)] /\ \A u \in Fetches : Len(order'[u]) <= 2 * N
      <4>1. Len(<<>>) = 0 /\ <<>> \in Seq(Servers)
        OBVIOUS
      <4>2. \A u \in Fetches : order'[u] \in Seq(Servers) /\ Len(order'[u]) <= 2 * N
        <5>1. ASSUME NEW u \in Fetches
              PROVE  order'[u] \in Seq(Servers) /\ Len(order'[u]) <= 2 * N
          <6>1. CASE u = t
            <7>1. order'[u] = <<>> /\ 0 <= 2 * N
              BY <1>0, <3>1, <6>1
            <7> QED
              BY <4>1, <7>1
          <6>2. CASE u # t
            BY <1>0, <3>1, <6>2, Types
          <6> QED
            BY <6>1, <6>2
        <5> QED
          BY <5>1
      <4> QED
        BY <1>0, <1>2, <4>2 DEF Return, TypeOK
    <3>3. 0 \in 0 .. N - 1 /\ 0 \in 0 .. 2 * N
      BY <1>0
    <3>4. /\ start' \in [Fetches -> 0 .. N - 1] /\ at' \in [Fetches -> 0 .. 2 * N]
          /\ flipped' \in [Fetches -> SUBSET Servers]
      BY <1>0, <1>2, <3>3 DEF Return, TypeOK
    <3> QED
      BY <1>0, <1>2, <3>2, <3>4 DEF Return, Goto, TypeOK
  <2>3. Bounds(t)' /\ Lists(t)' /\ Once(t)'
    BY <2>1 DEF Bounds, Scanning, Lists, Once
  <2> QED
    BY <1>0, <1>2, <2>2, <2>3, Others DEF Return, Goto, TypeOK
<1> QED
  BY <1>1, <1>2

\* A flag changes, and every fetch that is scanning notes it.
LEMMA MarkStep ==
    ASSUME IInv, NEW t \in Fetches, Mark(t)
    PROVE  IInv'
<1> DEFINE ok == answer[t] = "ok"
           s == order[t][at[t] + 1]
<1>0. N \in Nat \ {0} /\ TypeOK /\ Bounds(t) /\ Lists(t) /\ Once(t) /\ pc[t] = "mark"
  BY UpstreamAssumption DEF IInv, Mark
<1>1. at[t] \in Nat /\ Len(order[t]) \in Nat /\ at[t] < Len(order[t]) /\ s \in Servers
  <2>1. at[t] \in Nat /\ Len(order[t]) \in Nat /\ at[t] < Len(order[t])
    BY <1>0, Types DEF Bounds
  <2> QED
    BY <1>0, <2>1, Types
<1>2. /\ at'[t] = at[t] + 1
      /\ pc'[t] = IF ok THEN "served"
                  ELSE IF at[t] + 1 < Len(order[t]) THEN "ask" ELSE "failed"
      /\ UNCHANGED <<next, start, order, answer>>
      /\ MarkServer(s, ok)
  BY <1>0 DEF Mark, Goto, TypeOK
<1>3. flipped'[t] = flipped[t]
  BY <1>0, <1>2 DEF MarkServer, Scanning
<1>4. TypeOK'
  <2>1. ok \in BOOLEAN
    OBVIOUS
  <2> HIDE DEF ok
  <2>2. healthy' \in [Servers -> BOOLEAN] /\ flipped' \in [Fetches -> SUBSET Servers]
    BY <1>0, <1>1, <1>2, <2>1 DEF MarkServer, TypeOK
  <2>3. at' \in [Fetches -> 0 .. 2 * N]
    <3>1. at[t] + 1 \in 0 .. 2 * N
      BY <1>0, <1>1, Types
    <3> QED
      BY <1>0, <3>1 DEF Mark, TypeOK
  <2>4. pc' \in [Fetches -> {"idle", "healthy", "unhealthy", "ask", "mark",
                             "served", "failed"}]
    BY <1>0 DEF Mark, Goto, TypeOK
  <2> QED
    BY <1>0, <1>2, <2>2, <2>3, <2>4 DEF TypeOK
<1>5. Bounds(t)'
  BY <1>1, <1>2 DEF Bounds, Scanning
<1>6. Lists(t)' /\ Once(t)'
  BY <1>0, <1>2, <1>3 DEF Lists, Once, Listed
<1>7. \A u \in Fetches \ {t} :
          /\ pc'[u] = pc[u] /\ start'[u] = start[u] /\ at'[u] = at[u]
          /\ order'[u] = order[u]
  BY <1>0 DEF Mark, Goto, TypeOK
<1>8. \A u \in Fetches :
          IF Scanning(u)
          THEN /\ flipped[u] \subseteq flipped'[u]
               /\ \A x \in Servers \ flipped'[u] : healthy'[x] = healthy[x]
          ELSE flipped'[u] = flipped[u]
  BY <1>0, <1>1, <1>2 DEF MarkServer, TypeOK
<1> QED
  BY <1>4, <1>5, <1>6, <1>7, <1>8, Others
-----------------------------------------------------------------------------
(* The invariant and the properties.                                       *)

LEMMA Invariance == SafeSpec => []IInv
<1>1. Init => IInv
  BY UpstreamAssumption DEF Init, IInv, TypeOK, Bounds, Lists, Once, Scanning
<1>2. IInv /\ [Next]_vars => IInv'
  <2> SUFFICES ASSUME IInv, [Next]_vars PROVE IInv'
    OBVIOUS
  <2>1. ASSUME NEW t \in Fetches, Begin(t) \/ Step(t) PROVE IInv'
    <3>1. CASE ScanHealthy(t)
      BY <3>1, ScanStep DEF ScanHealthy
    <3>2. CASE ScanUnhealthy(t)
      BY <3>2, ScanStep DEF ScanUnhealthy
    <3> QED
      BY <2>1, <3>1, <3>2, BeginStep, FetchStep, MarkStep DEF Step
  <2>2. CASE UNCHANGED vars
    <3>1. UNCHANGED <<healthy, next, pc, start, at, order, answer, flipped>>
      BY <2>2 DEF vars
    <3>2. TypeOK'
      BY <3>1 DEF IInv, TypeOK
    <3>3. ASSUME NEW t \in Fetches PROVE Bounds(t)' /\ Lists(t)' /\ Once(t)'
      <4>1. Bounds(t)' /\ Once(t)'
        BY <3>1 DEF IInv, Bounds, Once, Scanning
      <4>2. Lists(t)'
        BY <3>1 DEF IInv, Lists, Listed, Visited
      <4> QED
        BY <4>1, <4>2
    <3> QED
      BY <3>2, <3>3 DEF IInv
  <2> QED
    BY <2>1, <2>2 DEF Next
<1> QED
  BY <1>1, <1>2, PTL DEF SafeSpec

\* The counter, the positions and the lists stay within their ranges, for any
\* number of fetches and servers: no list grows beyond two rounds.
THEOREM TypeCorrect == Spec => []TypeOK
<1>1. IInv => TypeOK
  BY DEF IInv
<1> QED
  BY <1>1, Invariance, PTL DEF Spec

\* A fetch fails only after every server has refused it, apart from those that
\* changed their flag while it listed them (Fetch, orderedServers).
THEOREM FailoverCompleteHolds == Spec => []FailoverComplete
<1>1. IInv => FailoverComplete
  <2> SUFFICES ASSUME IInv, NEW t \in Fetches, pc[t] = "failed"
               PROVE  Refused(t) \cup flipped[t] = Servers
    BY DEF FailoverComplete
  <2>1. at[t] = Len(order[t]) /\ order[t] \in Seq(Servers) /\ flipped[t] \in SUBSET Servers
    BY DEF IInv, Bounds, TypeOK
  <2>2. Refused(t) = {s \in Servers : Listed(t, s)}
    BY <2>1 DEF Refused, Listed
  <2>3. \A s \in Servers \ flipped[t] : Listed(t, s)
    BY DEF IInv, Lists
  <2> QED
    BY <2>1, <2>2, <2>3
<1> QED
  BY <1>1, Invariance, PTL DEF Spec

\* A fetch asks a server a second time only if its flag changed between the two
\* scans (orderedServers).
THEOREM AskedOnceHolds == Spec => []AskedOnce
<1>1. IInv => AskedOnce
  BY DEF IInv, Once, AskedOnce
<1> QED
  BY <1>1, Invariance, PTL DEF Spec
-----------------------------------------------------------------------------
(***************************************************************************)
(* How long a fetch is.  EveryFetchReturns rests on the fairness of a      *)
(* fetch; that its steps are numbered does not.                            *)
(***************************************************************************)

\* A bound on the steps a fetch still takes: the rest of its scans, and two
\* steps for every server it may have to ask.
Left(t) ==
    CASE pc[t] = "healthy" -> 6 * N + 2 - at[t]
      [] pc[t] = "unhealthy" -> 5 * N + 2 - at[t]
      [] pc[t] = "ask" -> 2 * (Len(order[t]) - at[t]) + 2
      [] pc[t] = "mark" -> 2 * (Len(order[t]) - at[t]) + 1
      [] pc[t] \in {"served", "failed"} -> 1
      [] pc[t] = "idle" -> 0

\* Every step of a fetch brings its return nearer, and no step of another
\* fetch, whatever it does to the flags, makes its way longer.
EveryStepCounts ==
    [][\A t \in Fetches :
           /\ Left(t) \in 0 .. 6 * N + 2
           /\ Step(t) => Left(t)' < Left(t)
           /\ pc[t] # "idle" => Step(t) \/ Left(t)' = Left(t)]_vars

LEMMA LeftBounded ==
    ASSUME IInv, NEW t \in Fetches
    PROVE  Left(t) \in 0 .. 6 * N + 2
<1>1. /\ N \in Nat \ {0} /\ at[t] \in Nat /\ at[t] <= 2 * N
      /\ Len(order[t]) \in Nat /\ Len(order[t]) <= 2 * N
  BY Types DEF IInv
<1>2. /\ Bounds(t)
      /\ pc[t] \in {"idle", "healthy", "unhealthy", "ask", "mark", "served", "failed"}
  BY DEF IInv, TypeOK
<1>3. order[t] = <<>> => Len(order[t]) = 0
  OBVIOUS
<1>4. CASE pc[t] = "healthy"
  BY <1>1, <1>2, <1>4 DEF Left, Bounds, Scanning
<1>5. CASE pc[t] = "unhealthy"
  BY <1>1, <1>2, <1>5 DEF Left, Bounds, Scanning
<1>6. CASE pc[t] = "ask"
  <2>1. at[t] <= Len(order[t])
    BY <1>1, <1>2, <1>3, <1>6 DEF Bounds
  <2> QED
    BY <1>1, <1>6, <2>1 DEF Left
<1>7. CASE pc[t] = "mark"
  BY <1>1, <1>2, <1>7 DEF Left, Bounds
<1>8. CASE pc[t] \in {"served", "failed", "idle"}
  BY <1>1, <1>8 DEF Left
<1> QED
  BY <1>2, <1>4, <1>5, <1>6, <1>7, <1>8

\* A fetch that does not move keeps its place.
LEMMA LeftStays ==
    ASSUME NEW t, pc'[t] = pc[t], at'[t] = at[t], order'[t] = order[t]
    PROVE  Left(t)' = Left(t)
BY DEF Left

\* The step of a fetch brings it forward.
LEMMA LeftDrops ==
    ASSUME IInv, IInv', NEW t \in Fetches, Step(t)
    PROVE  Left(t)' < Left(t)
<1>0. /\ N \in Nat \ {0} /\ at[t] \in Nat /\ at[t] <= 2 * N
      /\ Len(order[t]) \in Nat /\ Len(order[t]) <= 2 * N
      /\ order[t] \in Seq(Servers) /\ Bounds(t)
  BY Types DEF IInv
<1>1. Len(order'[t]) \in Nat /\ Len(order'[t]) <= 2 * N
  <2>1. order'[t] \in Seq(Servers) /\ Len(order'[t]) <= 2 * N
    BY DEF IInv, TypeOK
  <2> QED
    BY <2>1
<1>2. /\ pc \in [Fetches -> {"idle", "healthy", "unhealthy", "ask", "mark",
                             "served", "failed"}]
      /\ at \in [Fetches -> 0 .. 2 * N]
  BY DEF IInv, TypeOK
<1>3. ASSUME NEW label, NEW then, NEW listed, Scan(t, label, listed, then),
             Scanning(t)
      PROVE  /\ pc[t] = label
             /\ IF at[t] + 1 < N THEN at'[t] = at[t] + 1 /\ pc'[t] = label
                                 ELSE at'[t] = 0 /\ pc'[t] = then /\ at[t] = N - 1
  <2>1. at[t] < N
    BY <1>0, <1>3 DEF Bounds
  <2>2. at'[t] = (at[t] + 1) % N
    BY <1>2, <1>3 DEF Scan
  <2>3. (at[t] + 1) % N = IF at[t] + 1 < N THEN at[t] + 1 ELSE 0
    BY <1>0, <2>1, Wrap
  <2> QED
    BY <1>0, <1>2, <1>3, <2>1, <2>2, <2>3 DEF Scan, Goto
<1>4. CASE ScanHealthy(t)
  <2>1. Scanning(t)
    BY <1>4 DEF ScanHealthy, Scan, Scanning
  <2> QED
    <3>1. /\ pc[t] = "healthy"
          /\ IF at[t] + 1 < N THEN at'[t] = at[t] + 1 /\ pc'[t] = "healthy"
             ELSE at'[t] = 0 /\ pc'[t] = "unhealthy" /\ at[t] = N - 1
      BY <1>3, <1>4, <2>1 DEF ScanHealthy
    <3>2. CASE at[t] + 1 < N
      BY <1>0, <3>1, <3>2 DEF Left
    <3>3. CASE ~(at[t] + 1 < N)
      <4>1. Left(t) = 6 * N + 2 - at[t] /\ Left(t)' = 5 * N + 2 - at'[t]
        BY <3>1, <3>3 DEF Left
      <4> QED
        BY <1>0, <3>1, <3>3, <4>1
    <3> QED
      BY <3>2, <3>3
<1>5. CASE ScanUnhealthy(t)
  <2>1. Scanning(t)
    BY <1>5 DEF ScanUnhealthy, Scan, Scanning
  <2> QED
    <3>1. /\ pc[t] = "unhealthy"
          /\ IF at[t] + 1 < N THEN at'[t] = at[t] + 1 /\ pc'[t] = "unhealthy"
             ELSE at'[t] = 0 /\ pc'[t] = "ask" /\ at[t] = N - 1
      BY <1>3, <1>5, <2>1 DEF ScanUnhealthy
    <3>2. CASE at[t] + 1 < N
      BY <1>0, <3>1, <3>2 DEF Left
    <3>3. CASE ~(at[t] + 1 < N)
      <4>1. /\ Left(t) = 5 * N + 2 - at[t]
            /\ Left(t)' = 2 * (Len(order'[t]) - at'[t]) + 2
        BY <3>1, <3>3 DEF Left
      <4> QED
        BY <1>0, <1>1, <3>1, <3>3, <4>1
    <3> QED
      BY <3>2, <3>3
<1>6. CASE NoServers(t)
  <2>1. pc[t] = "ask" /\ pc'[t] = "failed"
    BY <1>2, <1>6 DEF NoServers, Goto
  <2>2. order[t] = <<>> /\ Len(order[t]) = 0
    BY <1>6 DEF NoServers
  <2>3. at[t] = 0
    BY <1>0, <2>1, <2>2 DEF Bounds
  <2> QED
    BY <2>1, <2>2, <2>3 DEF Left
<1>7. CASE Ask(t)
  BY <1>0, <1>2, <1>7 DEF Ask, Goto, Left
<1>8. CASE Mark(t)
  <2>1. /\ pc[t] = "mark" /\ at'[t] = at[t] + 1 /\ order'[t] = order[t]
        /\ pc'[t] \in {"served", "ask", "failed"}
        /\ at[t] < Len(order[t])
    BY <1>0, <1>2, <1>8 DEF Mark, Goto, Bounds
  <2> QED
    BY <1>0, <2>1 DEF Left
<1>9. CASE Return(t)
  BY <1>0, <1>2, <1>9 DEF Return, Goto, Left
<1> QED
  BY <1>4, <1>5, <1>6, <1>7, <1>8, <1>9 DEF Step

\* A fetch of N servers returns after at most 6 * N + 2 steps of its own,
\* however the other fetches change the flags it reads: the two scans look at
\* every server twice, the loop of Fetch asks each listed one once, and no
\* list is longer than two rounds.
THEOREM EveryStepCountsHolds == Spec => EveryStepCounts
<1>1. ASSUME IInv, IInv', Next, NEW t \in Fetches
      PROVE  /\ Left(t) \in 0 .. 6 * N + 2
             /\ Step(t) => Left(t)' < Left(t)
             /\ pc[t] # "idle" => Step(t) \/ Left(t)' = Left(t)
  <2>1. Left(t) \in 0 .. 6 * N + 2
    BY <1>1, LeftBounded
  <2>2. Step(t) => Left(t)' < Left(t)
    BY <1>1, LeftDrops
  <2>3. ASSUME pc[t] # "idle", ~Step(t) PROVE Left(t)' = Left(t)
    <3>1. PICK u \in Fetches : Begin(u) \/ Step(u)
      BY <1>1 DEF Next
    <3>2. u # t
      BY <2>3, <3>1 DEF Begin
    <3>3. pc'[t] = pc[t] /\ at'[t] = at[t] /\ order'[t] = order[t]
      BY <1>1, <3>1, <3>2
         DEF IInv, TypeOK, Begin, Step, ScanHealthy, ScanUnhealthy, Scan,
             NoServers, Ask, Mark, Return, Goto
    <3> QED
      BY <3>3, LeftStays
  <2> QED
    BY <2>1, <2>2, <2>3
<1>2. IInv /\ IInv' /\ [Next]_vars =>
          [\A t \in Fetches :
               /\ Left(t) \in 0 .. 6 * N + 2
               /\ Step(t) => Left(t)' < Left(t)
               /\ pc[t] # "idle" => Step(t) \/ Left(t)' = Left(t)]_vars
  BY <1>1
<1> QED
  BY <1>2, Invariance, PTL DEF Spec, SafeSpec, EveryStepCounts
=============================================================================
