------------------------------ MODULE Upstream ------------------------------
(***************************************************************************)
(* The APK upstream manager of internal/upstream/upstream.go.  A fetch     *)
(* first puts the servers in order, rotating the start and reading the     *)
(* health flag of every server twice: once to list the healthy ones, once  *)
(* to list the rest.  The flags are atomics that other fetches store while *)
(* the scan goes on; the lock of the manager does not cover them.  It then *)
(* asks one server after the other and marks each by its answer.           *)
(*                                                                         *)
(* Counting m.next modulo the number of servers is exact until its         *)
(* conversion to int turns negative, after 2^63 fetches.                   *)
(***************************************************************************)
EXTENDS Naturals, Sequences, FiniteSets

CONSTANTS
    Fetches,    \* goroutines that call Fetch
    N           \* number of configured servers

ASSUME UpstreamAssumption == N \in Nat \ {0}

VARIABLES
    healthy,    \* Server.healthy
    next,       \* m.next modulo the number of servers
    pc,
    start,      \* where the rotation of a fetch begins
    at,         \* position in a scan, then number of servers asked
    order,      \* the list orderedServers builds
    answer,     \* of the server asked last
    flipped     \* history: servers whose flag changed during the scan

Servers == 1 .. N

vars == <<healthy, next, pc, start, at, order, answer, flipped>>

Init ==
    /\ healthy = [s \in Servers |-> TRUE]
    /\ next = 0
    /\ pc = [t \in Fetches |-> "idle"]
    /\ start = [t \in Fetches |-> 0]
    /\ at = [t \in Fetches |-> 0]
    /\ order = [t \in Fetches |-> <<>>]
    /\ answer = [t \in Fetches |-> "none"]
    /\ flipped = [t \in Fetches |-> {}]

Goto(t, label) == pc' = [pc EXCEPT ![t] = label]

(* Mutant: the counter is not taken modulo the number of servers.          *)
BeginUnwrapped(t) ==
    /\ pc[t] = "idle"
    /\ next' = next + 1
    /\ start' = [start EXCEPT ![t] = next]
    /\ Goto(t, "healthy")
    /\ UNCHANGED <<healthy, at, order, answer, flipped>>

\* orderedServers: the counter is advanced and the scans begin.
Begin(t) ==
    /\ pc[t] = "idle"
    /\ next' = (next + 1) % N
    /\ start' = [start EXCEPT ![t] = next]
    /\ Goto(t, "healthy")
    /\ UNCHANGED <<healthy, at, order, answer, flipped>>

\* The server at the position a scan has reached.
Scanned(t) == ((start[t] + at[t]) % N) + 1

(* Mutant: the second scan lists every server again.                       *)
ScanRepeats(t, label, listed, then) ==
    /\ pc[t] = label
    /\ order' = [order EXCEPT ![t] =
                    IF healthy[Scanned(t)] = listed \/ label = "unhealthy"
                    THEN Append(@, Scanned(t)) ELSE @]
    /\ at' = [at EXCEPT ![t] = (@ + 1) % N]
    /\ Goto(t, IF at[t] + 1 < N THEN label ELSE then)
    /\ UNCHANGED <<healthy, next, start, answer, flipped>>

\* One iteration of a scan: the flag is read and the server listed or not.
Scan(t, label, listed, then) ==
    /\ pc[t] = label
    /\ order' = [order EXCEPT ![t] =
                    IF healthy[Scanned(t)] = listed
                    THEN Append(@, Scanned(t)) ELSE @]
    /\ at' = [at EXCEPT ![t] = (@ + 1) % N]
    /\ Goto(t, IF at[t] + 1 < N THEN label ELSE then)
    /\ UNCHANGED <<healthy, next, start, answer, flipped>>

ScanHealthy(t) == Scan(t, "healthy", TRUE, "unhealthy")

ScanUnhealthy(t) == Scan(t, "unhealthy", FALSE, "ask")

\* Fetch has nothing to ask: "no configured upstream servers".
NoServers(t) ==
    /\ pc[t] = "ask" /\ order[t] = <<>>
    /\ answer' = [answer EXCEPT ![t] = "no servers"]
    /\ Goto(t, "failed")
    /\ UNCHANGED <<healthy, next, start, at, order, flipped>>

\* What a request may end with: 200 or 206, another status, no answer, or the
\* cancellation of the context, which every later request of the fetch meets.
Outcomes(t) ==
    IF answer[t] = "cancelled" THEN {"cancelled"}
    ELSE {"ok", "status", "error", "cancelled"}

\* One request of the loop.
Ask(t) ==
    /\ pc[t] = "ask" /\ at[t] < Len(order[t])
    /\ \E outcome \in Outcomes(t) : answer' = [answer EXCEPT ![t] = outcome]
    /\ Goto(t, "mark")
    /\ UNCHANGED <<healthy, next, start, at, order, flipped>>

Scanning(u) == pc[u] \in {"healthy", "unhealthy"}

\* server.mark, seen by the fetches that are scanning.
MarkServer(s, ok) ==
    /\ healthy' = [healthy EXCEPT ![s] = ok]
    /\ flipped' = [u \in Fetches |->
                      IF Scanning(u) /\ healthy[s] # ok
                      THEN flipped[u] \cup {s} ELSE flipped[u]]

(* Mutants: the loop ends at the first bad answer; it stays on the server. *)
MarkGivesUp(t) ==
    LET ok == answer[t] = "ok"
    IN  /\ pc[t] = "mark"
        /\ MarkServer(order[t][at[t] + 1], ok)
        /\ at' = [at EXCEPT ![t] = @ + 1]
        /\ Goto(t, IF ok THEN "served" ELSE "failed")
        /\ UNCHANGED <<next, start, order, answer>>

MarkRetries(t) ==
    LET ok == answer[t] = "ok"
    IN  /\ pc[t] = "mark"
        /\ MarkServer(order[t][at[t] + 1], ok)
        /\ Goto(t, IF ok THEN "served" ELSE "ask")
        /\ UNCHANGED <<next, start, at, order, answer>>

\* The server asked is marked; the loop goes on or ends.
Mark(t) ==
    LET ok == answer[t] = "ok"
    IN  /\ pc[t] = "mark"
        /\ MarkServer(order[t][at[t] + 1], ok)
        /\ at' = [at EXCEPT ![t] = @ + 1]
        /\ Goto(t, IF ok THEN "served"
                   ELSE IF at[t] + 1 < Len(order[t]) THEN "ask" ELSE "failed")
        /\ UNCHANGED <<next, start, order, answer>>

\* Fetch returns the response it served, or the last response of another
\* status, or the last error.
Return(t) ==
    /\ pc[t] \in {"served", "failed"}
    /\ Goto(t, "idle")
    /\ start' = [start EXCEPT ![t] = 0]
    /\ at' = [at EXCEPT ![t] = 0]
    /\ order' = [order EXCEPT ![t] = <<>>]
    /\ answer' = [answer EXCEPT ![t] = "none"]
    /\ flipped' = [flipped EXCEPT ![t] = {}]
    /\ UNCHANGED <<healthy, next>>

Step(t) ==
    \/ ScanHealthy(t) \/ ScanUnhealthy(t) \/ NoServers(t)
    \/ Ask(t) \/ Mark(t) \/ Return(t)

Next == \E t \in Fetches : Begin(t) \/ Step(t)

SafeSpec == Init /\ [][Next]_vars

\* Requests are answered or time out; nobody has to call Fetch or to leave.
Spec == SafeSpec /\ \A t \in Fetches : WF_vars(Step(t))
-----------------------------------------------------------------------------
\* Types of the variables.
TypeOK ==
    /\ healthy \in [Servers -> BOOLEAN]
    /\ next \in 0 .. N - 1
    /\ pc \in [Fetches -> {"idle", "healthy", "unhealthy", "ask", "mark",
                           "served", "failed"}]
    /\ start \in [Fetches -> 0 .. N - 1]
    /\ at \in [Fetches -> 0 .. 2 * N]
    /\ order \in [Fetches -> Seq(Servers)]
    /\ \A t \in Fetches : Len(order[t]) <= 2 * N
    /\ answer \in [Fetches -> {"none", "ok", "status", "error", "cancelled",
                               "no servers"}]
    /\ flipped \in [Fetches -> SUBSET Servers]

\* The servers a fetch has asked and that did not serve it.
Refused(t) == {order[t][i] : i \in 1 .. at[t]}

\* Failover is complete: a fetch only fails when every server refused it or
\* had its flag changed by another fetch during the scan.
FailoverComplete ==
    \A t \in Fetches :
        pc[t] = "failed" => Refused(t) \cup flipped[t] = Servers

\* A fetch asks no server twice, unless its flag changed during the scan.
AskedOnce ==
    \A t \in Fetches : \A i, j \in DOMAIN order[t] :
        i # j /\ order[t][i] = order[t][j] => order[t][i] \in flipped[t]

\* Every fetch returns.
EveryFetchReturns == \A t \in Fetches : pc[t] # "idle" ~> pc[t] = "idle"
=============================================================================
