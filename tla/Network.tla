------------------------------- MODULE Network -------------------------------
(***************************************************************************)
(* Which interface's hardware address identifies the node: PrimaryMAC of   *)
(* internal/host/network.go, with the loop over the routing table and the  *)
(* loop over /sys/class/net it is built from, and what run of              *)
(* cmd/sparkwrangler makes of its result.                                  *)
(*                                                                         *)
(* Interfaces are numbered in the order of their names, and the address of *)
(* an interface is represented by its number.                              *)
(***************************************************************************)
EXTENDS Integers, Sequences, FiniteSets

CONSTANTS
    Names,      \* the interfaces there may be
    Metrics,    \* the metrics of routes
    MaxInt,     \* math.MaxInt
    MaxRoutes   \* bound: lines of the routing table

ASSUME NamesAssumption == Names \subseteq Nat
ASSUME MetricsAssumption == Metrics \subseteq Nat /\ MaxInt \in Nat
                            /\ \A m \in Metrics : m < MaxInt
ASSUME RoutesAssumption == MaxRoutes \in Nat

VARIABLES
    setting,    \* cfg.NetInterface: a name, NoName when empty, or Blank
    classNet,   \* whether /sys/class/net can be listed: "ok", "missing", "error"
    sys,        \* what it says of each interface
    routes,     \* the lines of /proc/net/route
    pc,         \* where run is
    line,       \* the line of the routing table being read
    best,       \* the interface of the best default route so far, or NoName
    bestMetric, \* its metric
    todo,       \* directory entries not yet looked at
    found,      \* the candidates so far
    answer,     \* what PrimaryMAC returned: an address, NoMAC or Error
    mac         \* what is published: an address or NoMAC

host == <<setting, classNet, sys, routes>>
vars == <<host, pc, line, best, bestMetric, todo, found, answer, mac>>
-----------------------------------------------------------------------------
NoName == -1
Blank == -2     \* white space, which is not empty
NoMAC == -1
Error == -2
BadMetric == -1

\* An interface that is absent has no entry; one that is no port has at least
\* the mark named ("other": a type that is not ARPHRD_ETHER).  An address may
\* be missing or malformed, or all zero.
Kinds == {"absent", "port", "lo", "virtual", "other", "wireless"}
Interface == [kind : Kinds, address : {"unreadable", "zero", "own"}]

\* One line: default when its destination and its mask are zero.
Route == [iface : Names, default : BOOLEAN, metric : Metrics \cup {BadMetric}]

Tables == UNION {[1..n -> Route] : n \in 0..MaxRoutes}

TypeOK ==
    /\ setting \in Names \cup {NoName, Blank}
    /\ classNet \in {"ok", "missing", "error"}
    /\ sys \in [Names -> Interface]
    /\ routes \in Seq(Route)
    /\ pc \in {"start", "routes", "interfaces", "answered", "started", "exited"}
    /\ line \in 1..Len(routes) + 1
    /\ best \in Names \cup {NoName}
    /\ bestMetric \in Metrics \cup {MaxInt}
    /\ todo \in SUBSET Names
    /\ found \in SUBSET Names
    /\ answer \in Names \cup {NoMAC, Error}
    /\ mac \in Names \cup {NoMAC}

\* A host that has no sysfs, or does not let it be read, has no interfaces in
\* it; an interface that is not there has no address.
Init ==
    /\ setting \in Names \cup {NoName, Blank}
    /\ classNet \in {"ok", "missing", "error"}
    /\ sys \in [Names -> Interface]
    /\ \A n \in Names : sys[n].kind = "absent" => sys[n].address = "unreadable"
    /\ classNet # "ok" => \A n \in Names : sys[n].kind = "absent"
    /\ routes \in Tables
    /\ pc = "start"
    /\ line = 1
    /\ best = NoName
    /\ bestMetric = MaxInt
    /\ todo = {}
    /\ found = {}
    /\ answer = NoMAC
    /\ mac = NoMAC
-----------------------------------------------------------------------------
\* The address of an interface; all zeros are no address.
readMAC(n) == IF sys[n].address = "own" THEN n
              ELSE IF sys[n].address = "zero" THEN NoMAC ELSE Error

HasMAC(n) == readMAC(n) \in Names

\* None of the four exclusions.
isPhysicalEthernet(n) == sys[n].kind = "port"

Entries == {n \in Names : sys[n].kind # "absent"}

Answer(a) == answer' = a /\ pc' = "answered"

\* What PrimaryMAC looks at: the setting without white space around it.
preferred == IF setting = Blank THEN NoName ELSE setting

\* A named interface answers for itself or not at all.
NamedInterface ==
    /\ pc = "start"
    /\ preferred # NoName
    /\ Answer(IF HasMAC(preferred) THEN readMAC(preferred) ELSE Error)
    /\ UNCHANGED <<host, line, best, bestMetric, todo, found, mac>>

NoNamedInterface ==
    /\ pc = "start"
    /\ preferred = NoName
    /\ pc' = "routes"
    /\ UNCHANGED <<host, line, best, bestMetric, todo, found, answer, mac>>

\* The lowest metric wins; of equal ones the first.
\* Wrong variants: the last one wins; only a physical port may win.
BetterOrEqual(r) == r.metric <= bestMetric
BetterPort(r) == r.metric < bestMetric /\ isPhysicalEthernet(r.iface)
Better(r) == r.metric < bestMetric

\* Wrong variant: a metric that is no number is not skipped.
CountsUnparsed(r) == r.default
Counts(r) == r.default /\ r.metric # BadMetric

\* One round of the loop of defaultRouteInterface.
ScansRoute ==
    /\ pc = "routes"
    /\ line <= Len(routes)
    /\ line' = line + 1
    /\ IF Counts(routes[line]) /\ Better(routes[line])
       THEN best' = routes[line].iface /\ bestMetric' = routes[line].metric
       ELSE UNCHANGED <<best, bestMetric>>
    /\ UNCHANGED <<host, pc, todo, found, answer, mac>>

\* Wrong variant: a route without an address ends the search.
RouteIsThere == best # NoName
RouteHasMAC == best # NoName /\ HasMAC(best)

\* The default route's interface is taken, whatever it is, if it has an
\* address.
FollowsRoute ==
    /\ pc = "routes"
    /\ line > Len(routes)
    /\ RouteHasMAC
    /\ Answer(readMAC(best))
    /\ UNCHANGED <<host, line, best, bestMetric, todo, found, mac>>

\* Otherwise /sys/class/net is listed.
ListsInterfaces ==
    /\ pc = "routes"
    /\ line > Len(routes)
    /\ ~RouteHasMAC
    /\ \/ classNet = "ok" /\ pc' = "interfaces" /\ todo' = Entries /\ UNCHANGED answer
       \/ classNet = "missing" /\ Answer(NoMAC) /\ UNCHANGED todo
       \/ classNet = "error" /\ Answer(Error) /\ UNCHANGED todo
    /\ UNCHANGED <<host, line, best, bestMetric, found, mac>>

\* One round of the loop of ethernetInterfaces, over the entries in any order.
ScansInterface ==
    /\ pc = "interfaces"
    /\ \E n \in todo :
          /\ todo' = todo \ {n}
          /\ found' = IF isPhysicalEthernet(n) /\ HasMAC(n) THEN found \cup {n} ELSE found
    /\ UNCHANGED <<host, pc, line, best, bestMetric, answer, mac>>

\* The first of the candidates once they are sorted.
Lowest(names) == CHOOSE n \in names : \A m \in names : n <= m

PicksCandidate ==
    /\ pc = "interfaces"
    /\ todo = {}
    /\ Answer(IF found = {} THEN NoMAC ELSE readMAC(Lowest(found)))
    /\ UNCHANGED <<host, line, best, bestMetric, todo, found, mac>>

\* run, which looks at the setting as it is: when it is empty, an error only leaves
\* the address out; otherwise it ends run, also the one of a directory that was
\* listed because the setting is blank.
\* Wrong variant: every error ends it.
RefusesToStartOnAnyError == answer = Error
RefusesToStart == answer = Error /\ setting # NoName

Exits ==
    /\ pc = "answered"
    /\ RefusesToStart
    /\ pc' = "exited"
    /\ UNCHANGED <<host, line, best, bestMetric, todo, found, answer, mac>>

Starts ==
    /\ pc = "answered"
    /\ ~RefusesToStart
    /\ pc' = "started"
    /\ mac' = IF answer = Error THEN NoMAC ELSE answer
    /\ UNCHANGED <<host, line, best, bestMetric, todo, found, answer>>

Next ==
    \/ NamedInterface \/ NoNamedInterface
    \/ ScansRoute \/ FollowsRoute
    \/ ListsInterfaces \/ ScansInterface \/ PicksCandidate
    \/ Exits \/ Starts

Spec == Init /\ [][Next]_vars
-----------------------------------------------------------------------------
(***************************************************************************)
(* What the loops compute, defined without them.                           *)
(***************************************************************************)
DefaultLines(n) == {i \in 1..n : i <= Len(routes) /\ Counts(routes[i])}

\* i is the line the kernel prefers among the default routes of the first n.
Preferred(i, n) ==
    /\ i \in DefaultLines(n)
    /\ \A j \in DefaultLines(n) :
          \/ routes[i].metric < routes[j].metric
          \/ routes[i].metric = routes[j].metric /\ i <= j

\* The ports a cable goes into that have an address.
Ports == {n \in Entries : sys[n].kind = "port" /\ sys[n].address = "own"}

IsAddressOf(a, n) == sys[n].address = "own" /\ a = n

\* The route's interface decides, if there is one with an address.
Routed(a) == \E i \in 1..Len(routes) :
                Preferred(i, Len(routes)) /\ IsAddressOf(a, routes[i].iface)

\* The node is published under the address of the interface named for it; or
\* else of the one that carries the default route with the lowest metric, be it
\* a bridge or a VLAN; or else of the first physical port by name; never under
\* the all-zero address, whatever the order of the table and of the directory.
\* (PrimaryMAC, defaultRouteInterface, ethernetInterfaces.)
IdentifiesNode ==
    pc = "started" /\ mac # NoMAC =>
        IF preferred # NoName THEN IsAddressOf(mac, preferred)
        ELSE IF \E a \in Names : Routed(a) THEN Routed(mac)
        ELSE mac \in Ports /\ \A n \in Ports : mac <= n

\* An address that exists is published: none is only when no interface was
\* named, the default route has no address to offer and no port has one.
\* (The fallback, and the errors it skips.)
AbsentOnlyWhenNone ==
    pc = "started" /\ mac = NoMAC =>
        preferred = NoName /\ Ports = {} /\ ~\E a \in Names : Routed(a)

\* The daemon refuses to start only over an interface that was named and has no
\* address, or, when the name is blank and nothing else has identified the node,
\* over a directory that cannot be read; with no name at all, a host where no
\* address can be found is still reported on.  (The test of the trimmed name in
\* PrimaryMAC, and of the untrimmed one in run.)
RefusesOnlyForNamed ==
    pc = "exited" =>
        \/ setting \in Names /\ sys[setting].address # "own"
        \/ setting = Blank /\ classNet = "error" /\ ~\E a \in Names : Routed(a)

\* What stays true of the host while it is probed.
HostInv ==
    /\ \A n \in Names : sys[n].kind = "absent" => sys[n].address = "unreadable"
    /\ classNet # "ok" => Entries = {}

\* What the loops have computed so far.
LoopInv ==
    /\ pc \in {"start", "routes", "interfaces"} =>
          IF best = NoName
          THEN bestMetric = MaxInt /\ DefaultLines(line - 1) = {}
          ELSE \E i \in DefaultLines(line - 1) :
                  /\ Preferred(i, line - 1)
                  /\ best = routes[i].iface
                  /\ bestMetric = routes[i].metric
    /\ pc \in {"routes", "interfaces"} => preferred = NoName
    /\ pc \in {"start", "routes"} => found = {}
    /\ pc = "interfaces" => /\ line = Len(routes) + 1
                            /\ ~RouteHasMAC
                            /\ todo \subseteq Entries
                            /\ found = Ports \ todo

\* What the answer is, for whatever reason it was given.
AnswerInv ==
    /\ pc \in {"answered", "started", "exited"} =>
          IF preferred # NoName
          THEN answer = IF sys[preferred].address = "own" THEN preferred ELSE Error
          ELSE IF \E a \in Names : Routed(a) THEN Routed(answer)
          ELSE IF Ports # {} THEN answer \in Ports /\ \A n \in Ports : answer <= n
          ELSE answer \in {NoMAC, Error} /\ (answer = Error => classNet = "error")
    /\ pc = "started" => ~RefusesToStart /\ mac = IF answer = Error THEN NoMAC ELSE answer
    /\ pc = "exited" => RefusesToStart

\* The inductive invariant behind the three (see NetworkProofs).
ProbeInv == HostInv /\ LoopInv /\ AnswerInv
=============================================================================
