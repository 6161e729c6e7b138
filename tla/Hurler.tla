------------------------------- MODULE Hurler -------------------------------
(***************************************************************************)
(* The hurler (src/hurler): a table of routes, synced from etcd, and the   *)
(* two ways in which a call is passed on to the endpoints of its host.     *)
(*                                                                         *)
(* A call keeps the route it found, whatever happens to the table.  The    *)
(* body of an answer, and an etcd listing that changes while it is read,   *)
(* are left out.                                                           *)
(***************************************************************************)
EXTENDS Naturals, SequencesExt

CONSTANTS
    Hosts,          \* names in the Host header
    Addresses,      \* what the endpoints of a host are listening on
    Registrable,    \* the nodes that processes keep under /v1/routes
    Calls           \* bound: the calls made

DispatchKind == {"fanout", "round-robin"}

ASSUME RegistrableAssumption == Registrable \subseteq DispatchKind \X Hosts \X Addresses
ASSUME AddressesAssumption == IsFiniteSet(Addresses)

VARIABLES
    nodes,          \* the nodes under /v1/routes
    table,          \* host -> its route
    pc,             \* call -> where ServeHTTP is
    route,          \* call -> the route it found
    next,           \* call -> RoundRobin's i
    attempts,       \* call -> answers and failures the dispatch has seen
    outcome,        \* call -> position -> what became of the request sent there
    read,           \* call -> positions whose outcome Fanout has received
    taken,          \* history: call -> positions whose endpoint took it up
    answer          \* call -> what its caller was told

routeVars == <<nodes, table>>
callVars == <<pc, route, next, attempts, outcome, read, taken, answer>>
vars == <<routeVars, callVars>>

Route == [dispatch: DispatchKind, endpoints: Seq(Addresses)]
NoRoute == [dispatch |-> "fanout", endpoints |-> <<>>]
Size(c) == Len(route[c].endpoints)
Positions(c) == 1 .. Size(c)

Outcome == {"unasked", "flying", "accepted", "refused", "silent"}

TypeOK ==
    /\ nodes \subseteq Registrable
    /\ table \in [Hosts -> Route]
    /\ pc \in [Calls -> {"idle", "round-robin", "fanout", "answered"}]
    /\ route \in [Calls -> Route]
    /\ next \in [Calls -> Nat] /\ attempts \in [Calls -> Nat]
    /\ DOMAIN outcome = Calls
    /\ read \in [Calls -> SUBSET Nat] /\ taken \in [Calls -> SUBSET Nat]
    /\ \A c \in Calls :
        /\ next[c] \in 0 .. Size(c)
        /\ attempts[c] \in 0 .. Size(c)
        /\ outcome[c] \in [Positions(c) -> Outcome]
        /\ read[c] \subseteq Positions(c)
        /\ taken[c] \subseteq Positions(c)
    /\ answer \in [Calls -> {"none", "accepted", "refused", "unavailable", "unknown"}]

Init ==
    /\ nodes = {}
    /\ table = [h \in Hosts |-> NoRoute]
    /\ pc = [c \in Calls |-> "idle"]
    /\ route = [c \in Calls |-> NoRoute]
    /\ next = [c \in Calls |-> 0]
    /\ attempts = [c \in Calls |-> 0]
    /\ outcome = [c \in Calls |-> <<>>]
    /\ read = [c \in Calls |-> {}]
    /\ taken = [c \in Calls |-> {}]
    /\ answer = [c \in Calls |-> "none"]

-----------------------------------------------------------------------------
(* The table.                                                               *)

Register(n) ==
    /\ n \notin nodes
    /\ nodes' = nodes \cup {n}
    /\ UNCHANGED <<table, callVars>>

Expire(n) ==
    /\ n \in nodes
    /\ nodes' = nodes \ {n}
    /\ UNCHANGED <<table, callVars>>

Listed(ns, kind, h) == SetToSeq({a \in Addresses : <<kind, h, a>> \in ns})

\* A host registered both ways is dispatched round robin to all the endpoints;
\* one whose directories are empty has no route.
RouteOf(ns, h) ==
    LET fanouts == Listed(ns, "fanout", h)
        roundRobins == Listed(ns, "round-robin", h)
    IN  [dispatch |-> IF roundRobins = <<>> THEN "fanout" ELSE "round-robin",
         endpoints |-> fanouts \o roundRobins]

\* The error of ListRecursively is dropped: the table comes out empty.
SyncTable ==
    /\ \E listing \in {nodes, {}} : table' = [h \in Hosts |-> RouteOf(listing, h)]
    /\ UNCHANGED <<nodes, callVars>>

-----------------------------------------------------------------------------
(* A call.                                                                  *)

Answered(c, code) ==
    /\ pc' = [pc EXCEPT ![c] = "answered"]
    /\ answer' = [answer EXCEPT ![c] = code]

Unanswered == UNCHANGED <<pc, answer>>

ServeUnknown(c, h) ==
    /\ pc[c] = "idle"
    /\ table[h] = NoRoute
    /\ Answered(c, "unknown")
    /\ UNCHANGED <<routeVars, route, next, attempts, outcome, read, taken>>

\* The body of the request could not be read.
ServeUnread(c, h) ==
    /\ pc[c] = "idle"
    /\ table[h] # NoRoute
    /\ Answered(c, "unavailable")
    /\ UNCHANGED <<routeVars, route, next, attempts, outcome, read, taken>>

\* RoundRobin starts anywhere; Fanout sends to every endpoint at once.
ServeHTTP(c, h) ==
    LET n == Len(table[h].endpoints)
        kind == table[h].dispatch
    IN  /\ pc[c] = "idle"
        /\ table[h] # NoRoute
        /\ pc' = [pc EXCEPT ![c] = kind]
        /\ route' = [route EXCEPT ![c] = table[h]]
        /\ IF kind = "fanout"
           THEN /\ outcome' = [outcome EXCEPT ![c] = [p \in 1 .. n |-> "flying"]]
                /\ UNCHANGED next
           ELSE /\ outcome' = [outcome EXCEPT ![c] = [p \in 1 .. n |-> "unasked"]]
                /\ \E start \in 0 .. n - 1 : next' = [next EXCEPT ![c] = start]
        /\ UNCHANGED <<routeVars, attempts, read, taken, answer>>

\* What transport.RoundTrip may come to.  An endpoint that is too late with its
\* answer (ResponseHeaderTimeout) may have taken the call up all the same.
RoundTrip(c, p) ==
    \E o \in {"accepted", "refused", "silent"}, takes \in BOOLEAN :
        /\ o = "accepted" => takes
        /\ o = "refused" => ~takes
        /\ outcome' = [outcome EXCEPT ![c][p] = o]
        /\ taken' = [taken EXCEPT ![c] = IF takes THEN @ \cup {p} ELSE @]

Code(o) == IF o = "silent" THEN "unavailable" ELSE o

\* One turn of the loop: ask the endpoint at i, and return its answer or not.
Walk(c, i, Returns(_)) ==
    /\ pc[c] = "round-robin"
    /\ RoundTrip(c, i + 1)
    /\ attempts' = [attempts EXCEPT ![c] = @ + 1]
    /\ next' = [next EXCEPT ![c] = i + 1]
    /\ LET o == outcome'[c][i + 1]
       IN  IF Returns(o) THEN Answered(c, Code(o)) ELSE Unanswered
    /\ UNCHANGED <<routeVars, route, read>>

Turn(c) == IF next[c] = Size(c) THEN 0 ELSE next[c]

\* Mutants: the loop goes on after an endpoint has accepted; i does not start
\* again at the beginning; the attempts are compared before they are counted.
RoundRobinOn(c) ==
    LET Returns(o) == attempts[c] + 1 = Size(c)
    IN  Walk(c, Turn(c), Returns)

RoundRobinNoWrap(c) ==
    LET Returns(o) == next[c] + 1 = Size(c) \/ o = "accepted"
    IN  Walk(c, next[c], Returns)

RoundRobinPast(c) ==
    LET Returns(o) == attempts[c] = Size(c) \/ o = "accepted"
    IN  Walk(c, Turn(c), Returns)

\* The last endpoint's answer is passed on whatever it is, an earlier one's if
\* it is below 400.
RoundRobin(c) ==
    LET Returns(o) == attempts[c] + 1 = Size(c) \/ o = "accepted"
    IN  Walk(c, Turn(c), Returns)

\* What the channels responses and errs hold.
Queued(c, os) == {p \in Positions(c) \ read[c] : outcome[c][p] \in os}

\* Mutant: the channels have no room, and a goroutine waits for the loop.
SendUnbuffered(c, p) ==
    /\ route[c].dispatch = "fanout"
    /\ outcome[c][p] = "flying"
    /\ pc[c] = "fanout"
    /\ RoundTrip(c, p)
    /\ UNCHANGED <<routeVars, pc, route, next, attempts, read, answer>>

\* A goroutine of Fanout, which may outlive the call.  Both channels have room
\* for an outcome of every endpoint.
Send(c, p) ==
    /\ route[c].dispatch = "fanout"
    /\ outcome[c][p] = "flying"
    /\ RoundTrip(c, p)
    /\ \A os \in {{"accepted", "refused"}, {"silent"}} :
        outcome'[c][p] \in os => Cardinality(Queued(c, os)) < Size(c)
    /\ UNCHANGED <<routeVars, pc, route, next, attempts, read, answer>>

\* Mutant: the goroutines drop the errors of RoundTrip.
FanoutResponses(c) ==
    /\ pc[c] = "fanout"
    /\ attempts' = [attempts EXCEPT ![c] = @ + 1]
    /\ \E p \in Queued(c, {"accepted", "refused"}) :
        /\ read' = [read EXCEPT ![c] = @ \cup {p}]
        /\ IF outcome[c][p] = "accepted" \/ attempts'[c] = Size(c)
           THEN Answered(c, outcome[c][p])
           ELSE Unanswered
    /\ UNCHANGED <<routeVars, route, next, outcome, taken>>

\* One turn of the loop over the outcomes, in whatever order they come.
Fanout(c) ==
    /\ pc[c] = "fanout"
    /\ attempts' = [attempts EXCEPT ![c] = @ + 1]
    /\ \E p \in Queued(c, {"accepted", "refused", "silent"}) :
        LET responded == {q \in read[c] \cup {p} : outcome[c][q] # "silent"}
        IN  /\ read' = [read EXCEPT ![c] = @ \cup {p}]
            /\ IF outcome[c][p] = "accepted"
               THEN Answered(c, "accepted")
               ELSE IF attempts'[c] < Size(c)
               THEN Unanswered
               ELSE Answered(c, IF responded # {} THEN "refused" ELSE "unavailable")
    /\ UNCHANGED <<routeVars, route, next, outcome, taken>>

-----------------------------------------------------------------------------
Next ==
    \/ \E n \in Registrable : Register(n) \/ Expire(n)
    \/ SyncTable
    \/ \E c \in Calls :
        \/ \E h \in Hosts : ServeUnknown(c, h) \/ ServeUnread(c, h) \/ ServeHTTP(c, h)
        \/ RoundRobin(c) \/ Fanout(c)
        \/ \E p \in Positions(c) : Send(c, p)

Spec == Init /\ [][Next]_vars

\* Every round trip ends: with an answer, or an error after ten seconds.
Fairness ==
    \A c \in Calls :
        /\ WF_vars(RoundRobin(c))
        /\ WF_vars(Fanout(c))
        /\ WF_vars(\E p \in Positions(c) : Send(c, p))

FairSpec == Spec /\ Fairness

-----------------------------------------------------------------------------
\* A caller is told what the endpoints said: that the call was accepted if one
\* of them accepted it; that it was not, only after every endpoint of the route
\* was asked and none accepted, or when none could be asked
\* (hurler/round_robin.go, hurler/fanout.go).
AnswerEarned ==
    \A c \in Calls :
        LET os == {outcome[c][p] : p \in Positions(c)}
        IN  /\ answer[c] = "accepted" => "accepted" \in os
            /\ answer[c] \in {"refused", "unavailable"} =>
                    os \cap {"unasked", "flying", "accepted"} = {}

\* A round-robin call is taken up by one endpoint, and by another only if the
\* first kept its answer back: the reason why a kicked task has to be claimed
\* (hurler/round_robin.go:37-54).
TakenOnce ==
    \A c \in Calls : route[c].dispatch = "round-robin" =>
        \A p, q \in taken[c] :
            p # q => outcome[c][p] = "silent" \/ outcome[c][q] = "silent"

\* Every call is answered, and no goroutine of a fanout is left behind, although
\* nobody reads the outcomes that come after the first acceptance
\* (hurler/fanout.go:15-16).
EveryCallAnswered == \A c \in Calls : pc[c] # "idle" ~> pc[c] = "answered"

SendersEnd ==
    \A c \in Calls :
        pc[c] = "fanout" ~> \A p \in Positions(c) : outcome[c][p] # "flying"
=============================================================================
