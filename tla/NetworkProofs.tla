---------------------------- MODULE NetworkProofs ----------------------------
(***************************************************************************)
(* Proofs about Network, for any interfaces, any routing table and any     *)
(* order of the directory: what the two loops of PrimaryMAC keep, and that *)
(* the address the node is published under is the one they are to find.    *)
(***************************************************************************)
EXTENDS Network, WellFoundedInduction, TLAPS

\* A set of numbers that is not empty has a least one.
LEMMA LeastExists ==
  ASSUME NEW S, S \subseteq Nat, S # {}
  PROVE  Lowest(S) \in S /\ \A m \in S : Lowest(S) <= m
<1> DEFINE R == {ss \in Nat \X Nat : ss[1] < ss[2]}
<1>1. IsWellFoundedOn(R, Nat)
    BY NatLessThanWellFounded, Zenon DEF OpToRel
<1>2. \E x \in S : \A y \in S : <<y, x>> \notin R
    <2> HIDE DEF R
    <2> QED
        BY <1>1, WFMin, Zenon
<1>3. PICK x \in S : \A y \in S : <<y, x>> \notin R
    BY <1>2
<1>4. ASSUME NEW y \in S PROVE x <= y
    <2>1. <<y, x>> \notin R
        BY <1>3
    <2>2. y \in Nat /\ x \in Nat
        OBVIOUS
    <2> QED
        BY <2>1, <2>2
<1> QED
    BY <1>4 DEF Lowest

LEMMA InitTyped == Init => TypeOK
<1> SUFFICES ASSUME Init PROVE TypeOK
    OBVIOUS
<1>1. routes \in Seq(Route)
    BY DEF Init, Tables
<1>2. 1 \in 1..Len(routes) + 1
    BY <1>1
<1> QED
    BY <1>1, <1>2 DEF Init, TypeOK

LEMMA NextTyped == TypeOK /\ [Next]_vars => TypeOK'
<1> SUFFICES ASSUME TypeOK, [Next]_vars PROVE TypeOK'
    OBVIOUS
<1> USE NamesAssumption DEF TypeOK, host, Interface
<1>0. ASSUME NEW n \in Names PROVE readMAC(n) \in Names \cup {NoMAC, Error}
    BY <1>0 DEF readMAC
<1>1. CASE NamedInterface
    BY <1>1, <1>0 DEF NamedInterface, Answer, HasMAC
<1>2. CASE NoNamedInterface
    BY <1>2 DEF NoNamedInterface
<1>3. CASE ScansRoute
    <2>1. line \in 1..Len(routes) /\ routes[line] \in Route /\ line + 1 \in 1..Len(routes) + 1
        BY <1>3 DEF ScansRoute
    <2>2. routes[line].iface \in Names
        BY <2>1 DEF Route
    <2>3. Counts(routes[line]) => routes[line].metric \in Metrics
        BY <2>1 DEF Route, Counts
    <2> QED
        BY <1>3, <2>1, <2>2, <2>3 DEF ScansRoute
<1>4. CASE FollowsRoute
    BY <1>4, <1>0 DEF FollowsRoute, RouteHasMAC, Answer, NoName
<1>5. CASE ListsInterfaces
    BY <1>5 DEF ListsInterfaces, Answer, Entries
<1>6. CASE ScansInterface
    BY <1>6 DEF ScansInterface
<1>7. CASE PicksCandidate
    <2>1. answer' \in Names \cup {NoMAC, Error}
        <3>1. CASE found = {}
            BY <1>7, <3>1 DEF PicksCandidate, Answer
        <3>2. CASE found # {}
            <4>1. Lowest(found) \in Names
                BY <3>2, LeastExists
            <4> QED
                BY <1>7, <3>2, <4>1, <1>0 DEF PicksCandidate, Answer
        <3> QED
            BY <3>1, <3>2
    <2> QED
        BY <1>7, <2>1 DEF PicksCandidate, Answer
<1>8. CASE Exits
    BY <1>8 DEF Exits
<1>9. CASE Starts
    BY <1>9 DEF Starts, NoMAC, Error
<1>10. CASE UNCHANGED vars
    BY <1>10 DEF vars
<1> QED
    BY <1>1, <1>2, <1>3, <1>4, <1>5, <1>6, <1>7, <1>8, <1>9, <1>10 DEF Next

\* Every variable of the probe has its type.
THEOREM Typing == Spec => []TypeOK
BY InitTyped, NextTyped, PTL DEF Spec
-----------------------------------------------------------------------------
(***************************************************************************)
(* The invariant.  The host does not change under the probe, so only the   *)
(* scan variables and the answer have to be followed.                      *)
(***************************************************************************)
LEMMA ReadMACFacts ==
  ASSUME TypeOK, NEW n \in Names
  PROVE  /\ HasMAC(n) <=> sys[n].address = "own"
         /\ sys[n].address = "own" => readMAC(n) = n
BY NamesAssumption DEF TypeOK, HasMAC, readMAC, NoMAC, Error

LEMMA PortFacts ==
  ASSUME TypeOK, HostInv, NEW n \in Entries
  PROVE  n \in Ports <=> isPhysicalEthernet(n) /\ HasMAC(n)
<1>1. n \in Names /\ sys[n].kind \in Kinds /\ sys[n].kind # "absent"
    BY DEF Entries, TypeOK, Interface
<1> QED
    BY <1>1, ReadMACFacts DEF Ports, isPhysicalEthernet, Kinds

LEMMA InitProbe == Init => ProbeInv
<1> SUFFICES ASSUME Init PROVE ProbeInv
    OBVIOUS
<1>1. HostInv
    BY DEF Init, HostInv, Entries
<1>2. LoopInv
    BY DEF Init, LoopInv, DefaultLines
<1>3. AnswerInv
    BY DEF Init, AnswerInv
<1> QED
    BY <1>1, <1>2, <1>3 DEF ProbeInv

LEMMA RouteFacts ==
  ASSUME NEW r \in Route
  PROVE  r.metric \in Int /\ r.iface \in Names
<1>1. r.metric \in Metrics \cup {BadMetric} /\ r.iface \in Names
    BY DEF Route
<1>2. Metrics \subseteq Int /\ BadMetric \in Int
    BY MetricsAssumption DEF BadMetric
<1> QED
    BY <1>1, <1>2

\* Of two best lines there is only one.
LEMMA PreferredUnique ==
  ASSUME TypeOK, NEW n \in Nat, NEW i, NEW j, Preferred(i, n), Preferred(j, n)
  PROVE  i = j
<1>1. i \in DefaultLines(n) /\ j \in DefaultLines(n)
    BY DEF Preferred
<1>2. i \in 1..n /\ j \in 1..n /\ i <= Len(routes) /\ j <= Len(routes)
    BY <1>1 DEF DefaultLines
<1>3. routes[i] \in Route /\ routes[j] \in Route
    BY <1>2 DEF TypeOK
<1>4. routes[i].metric \in Int /\ routes[j].metric \in Int
    BY <1>3, RouteFacts
<1> QED
    BY <1>1, <1>2, <1>4 DEF Preferred

\* Once the whole table is read, the route's interface is the one Routed means.
LEMMA TableRead ==
  ASSUME TypeOK, LoopInv, pc = "routes", line > Len(routes)
  PROVE  \A a : Routed(a) <=> best # NoName /\ IsAddressOf(a, best)
<1> TAKE a
<1>1. line - 1 = Len(routes) /\ Len(routes) \in Nat
    BY DEF TypeOK
<1>2. CASE best = NoName
    <2>1. DefaultLines(Len(routes)) = {}
        BY <1>1, <1>2 DEF LoopInv
    <2> QED
        BY <1>2, <2>1 DEF Routed, Preferred
<1>3. CASE best # NoName
    <2>1. PICK i \in DefaultLines(Len(routes)) :
                Preferred(i, Len(routes)) /\ best = routes[i].iface
        BY <1>1, <1>3 DEF LoopInv
    <2>2. i \in 1..Len(routes)
        BY <2>1 DEF DefaultLines
    <2>3. \A j : Preferred(j, Len(routes)) => j = i
        BY <1>1, <2>1, PreferredUnique
    <2> QED
        BY <1>3, <2>1, <2>2, <2>3 DEF Routed
<1> QED
    BY <1>2, <1>3

LEMMA NextProbe == TypeOK /\ ProbeInv /\ [Next]_vars => ProbeInv'
<1> SUFFICES ASSUME TypeOK, ProbeInv, [Next]_vars PROVE ProbeInv'
    OBVIOUS
<1> USE DEF ProbeInv
<1>0. host' = host => /\ HostInv' /\ Ports' = Ports /\ Entries' = Entries
                      /\ \A a : Routed(a)' <=> Routed(a)
                      /\ \A n : HasMAC(n)' <=> HasMAC(n)
                      /\ \A i, n : Preferred(i, n)' <=> Preferred(i, n)
                      /\ \A n : DefaultLines(n)' = DefaultLines(n)
    BY DEF host, HostInv, Ports, Entries, Routed, Preferred, DefaultLines, IsAddressOf,
           HasMAC, readMAC
<1>h. /\ host' = host /\ setting' = setting /\ preferred' = preferred
      /\ classNet' = classNet /\ sys' = sys /\ routes' = routes
    BY DEF Next, vars, host, preferred, NamedInterface, NoNamedInterface, ScansRoute, FollowsRoute,
           ListsInterfaces, ScansInterface, PicksCandidate, Exits, Starts
<1>1. CASE NamedInterface
    <2>1. preferred \in Names /\ preferred # NoName
        BY <1>1 DEF NamedInterface, preferred, TypeOK
    <2>2. AnswerInv'
        BY <1>h, <1>1, <2>1, ReadMACFacts DEF NamedInterface, Answer, AnswerInv
    <2>3. LoopInv'
        BY <1>1 DEF NamedInterface, Answer, LoopInv
    <2> QED
        BY <1>0, <1>h, <2>2, <2>3
<1>2. CASE NoNamedInterface
    <2>1. AnswerInv'
        BY <1>2 DEF NoNamedInterface, AnswerInv
    <2>2. LoopInv'
        BY <1>0, <1>h, <1>2 DEF NoNamedInterface, LoopInv
    <2> QED
        BY <1>0, <1>h, <2>1, <2>2
<1>3. CASE ScansRoute
    <2>1. AnswerInv'
        BY <1>3 DEF ScansRoute, AnswerInv
    <2>2. LoopInv'
        <3>1. /\ line \in 1..Len(routes) /\ Len(routes) \in Nat /\ routes[line] \in Route
              /\ \A i \in 1..Len(routes) : routes[i] \in Route
            BY <1>3 DEF ScansRoute, TypeOK
        <3>2. \A i \in 1..Len(routes) : routes[i].metric \in Int /\ routes[i].iface \in Names
            BY <3>1, RouteFacts
        <3>3. /\ line' - 1 = line
              /\ DefaultLines(line) = DefaultLines(line - 1) \cup
                                          (IF Counts(routes[line]) THEN {line} ELSE {})
            BY <1>3, <3>1 DEF ScansRoute, DefaultLines
        <3>4. DefaultLines(line - 1) \subseteq 1..line - 1
            BY DEF DefaultLines
        <3>5. Counts(routes[line]) => routes[line].metric \in Metrics /\ routes[line].metric < MaxInt
            BY <3>1, MetricsAssumption DEF Counts, Route
        <3>6. IF best' = NoName
              THEN bestMetric' = MaxInt /\ DefaultLines(line) = {}
              ELSE \E i \in DefaultLines(line) :
                      /\ Preferred(i, line)
                      /\ best' = routes[i].iface
                      /\ bestMetric' = routes[i].metric
            <4>1. CASE Counts(routes[line]) /\ Better(routes[line])
                <5>1. best' = routes[line].iface /\ bestMetric' = routes[line].metric
                    BY <1>3, <4>1 DEF ScansRoute
                <5>2. best' # NoName
                    BY <3>1, <3>2, <5>1, NamesAssumption DEF NoName
                <5>3. \A j \in DefaultLines(line - 1) : routes[line].metric < routes[j].metric
                    <6>1. CASE best = NoName
                        BY <1>3, <6>1 DEF ScansRoute, LoopInv
                    <6>2. CASE best # NoName
                        <7>1. PICK i \in DefaultLines(line - 1) :
                                Preferred(i, line - 1) /\ bestMetric = routes[i].metric
                            BY <1>3, <6>2 DEF ScansRoute, LoopInv
                        <7>2. \A j \in DefaultLines(line - 1) :
                                routes[i].metric <= routes[j].metric
                            BY <7>1, <3>1, <3>2, <3>4 DEF Preferred
                        <7> QED
                            BY <4>1, <7>1, <7>2, <3>1, <3>2, <3>4 DEF Better
                    <6> QED
                        BY <6>1, <6>2
                <5>4. Preferred(line, line)
                    BY <3>1, <3>3, <3>4, <4>1, <5>3 DEF Preferred
                <5> QED
                    BY <3>3, <4>1, <5>1, <5>2, <5>4
            <4>2. CASE Counts(routes[line]) /\ ~Better(routes[line])
                <5>1. best' = best /\ bestMetric' = bestMetric
                    BY <1>3, <4>2 DEF ScansRoute
                <5>2. best # NoName
                    BY <1>3, <3>5, <4>2, <3>1, <3>2, MetricsAssumption
                       DEF ScansRoute, LoopInv, Better
                <5>3. PICK i \in DefaultLines(line - 1) :
                            /\ Preferred(i, line - 1)
                            /\ best = routes[i].iface
                            /\ bestMetric = routes[i].metric
                    BY <1>3, <5>2 DEF ScansRoute, LoopInv
                <5>4. i \in 1..Len(routes) /\ i <= line
                    BY <3>1, <3>4, <5>3
                <5>5. routes[i].metric <= routes[line].metric
                    BY <3>1, <3>2, <4>2, <5>3, <5>4 DEF Better
                <5>6. Preferred(i, line)
                    BY <3>1, <3>2, <3>3, <4>2, <5>3, <5>4, <5>5 DEF Preferred
                <5> QED
                    BY <3>3, <5>1, <5>2, <5>3, <5>6
            <4>3. CASE ~Counts(routes[line])
                <5>1. best' = best /\ bestMetric' = bestMetric
                    BY <1>3, <4>3 DEF ScansRoute
                <5>2. DefaultLines(line) = DefaultLines(line - 1)
                    BY <3>3, <4>3
                <5> QED
                    BY <1>3, <5>1, <5>2 DEF ScansRoute, LoopInv, Preferred
            <4> QED
                BY <4>1, <4>2, <4>3
        <3> QED
            BY <1>0, <1>h, <1>3, <3>3, <3>6 DEF ScansRoute, LoopInv
    <2> QED
        BY <1>0, <1>h, <2>1, <2>2
<1>4. CASE FollowsRoute
    <2>1. best \in Names
        BY <1>4 DEF FollowsRoute, RouteHasMAC, TypeOK
    <2>2. answer' = best /\ IsAddressOf(best, best) /\ preferred = NoName
        BY <1>4, <2>1, ReadMACFacts
           DEF FollowsRoute, RouteHasMAC, Answer, IsAddressOf, LoopInv
    <2>3. Routed(best)
        BY <1>4, <2>2, TableRead DEF FollowsRoute, RouteHasMAC
    <2>4. AnswerInv'
        BY <1>0, <1>h, <1>4, <2>1, <2>2, <2>3 DEF FollowsRoute, Answer, AnswerInv
    <2>5. LoopInv'
        BY <1>4 DEF FollowsRoute, Answer, LoopInv
    <2> QED
        BY <1>0, <1>h, <2>4, <2>5
<1>5. CASE ListsInterfaces
    <2>1. preferred = NoName /\ line = Len(routes) + 1
        BY <1>5 DEF ListsInterfaces, LoopInv, TypeOK
    <2>2. \A a : ~Routed(a)
        BY <1>5, TableRead, ReadMACFacts
           DEF ListsInterfaces, RouteHasMAC, IsAddressOf, TypeOK
    <2>3. classNet # "ok" => Ports = {}
        BY DEF HostInv, Ports
    <2>4. AnswerInv'
        BY <1>0, <1>h, <1>5, <2>1, <2>2, <2>3
           DEF ListsInterfaces, Answer, AnswerInv, NoMAC, Error
    <2>5. LoopInv'
        <3>1. CASE classNet = "ok" /\ pc' = "interfaces"
            <4>1. todo' = Entries /\ found' = found /\ line' = line /\ best' = best
                  /\ bestMetric' = bestMetric /\ ~RouteHasMAC
                BY <1>5, <3>1 DEF ListsInterfaces, Answer
            <4>2. found = {}
                BY <1>5 DEF ListsInterfaces, LoopInv
            <4>3. Ports \ Entries = {}
                BY DEF Ports
            <4>4. ~RouteHasMAC'
                BY <1>0, <1>h, <4>1 DEF RouteHasMAC
            <4> QED
                BY <1>0, <1>h, <1>5, <2>1, <3>1, <4>1, <4>2, <4>3, <4>4
                   DEF ListsInterfaces, LoopInv
        <3>2. CASE pc' = "answered"
            BY <3>2 DEF LoopInv
        <3> QED
            BY <1>5, <3>1, <3>2 DEF ListsInterfaces, Answer
    <2> QED
        BY <1>0, <1>h, <2>4, <2>5
<1>6. CASE ScansInterface
    <2>1. PICK n \in todo :
            /\ todo' = todo \ {n}
            /\ found' = IF isPhysicalEthernet(n) /\ HasMAC(n) THEN found \cup {n} ELSE found
        BY <1>6 DEF ScansInterface
    <2>2. n \in Entries /\ todo \subseteq Entries /\ found = Ports \ todo
        BY <1>6 DEF ScansInterface, LoopInv
    <2>3. found' = Ports \ todo'
        BY <2>1, <2>2, PortFacts
    <2>4. /\ pc' = pc /\ line' = line /\ best' = best /\ bestMetric' = bestMetric
          /\ pc = "interfaces"
        BY <1>6 DEF ScansInterface
    <2>5. ~RouteHasMAC'
        BY <1>0, <1>h, <2>4 DEF RouteHasMAC, LoopInv
    <2>6. LoopInv'
        BY <1>0, <1>h, <2>1, <2>2, <2>3, <2>4, <2>5 DEF LoopInv
    <2>7. AnswerInv'
        BY <2>4 DEF AnswerInv
    <2> QED
        BY <1>0, <1>h, <2>6, <2>7
<1>7. CASE PicksCandidate
    <2>1. preferred = NoName /\ found = Ports /\ line = Len(routes) + 1
        BY <1>7 DEF PicksCandidate, LoopInv
    <2>2. \A a : ~Routed(a)
        <3>1. DefaultLines(Len(routes)) = {} \/
              \E i \in DefaultLines(Len(routes)) :
                   Preferred(i, Len(routes)) /\ best = routes[i].iface /\ best # NoName
            BY <1>7, <2>1 DEF PicksCandidate, LoopInv, TypeOK
        <3>2. CASE DefaultLines(Len(routes)) = {}
            BY <3>2 DEF Routed, Preferred
        <3>3. CASE DefaultLines(Len(routes)) # {}
            <4>1. PICK i : Preferred(i, Len(routes)) /\ best = routes[i].iface /\ best # NoName
                BY <3>1, <3>3
            <4>2. best \in Names /\ ~HasMAC(best)
                BY <1>7, <4>1 DEF PicksCandidate, LoopInv, RouteHasMAC, TypeOK
            <4>3. \A j : Preferred(j, Len(routes)) => j = i
                BY <4>1, PreferredUnique DEF TypeOK
            <4> QED
                BY <4>1, <4>2, <4>3, ReadMACFacts DEF Routed, IsAddressOf
        <3> QED
            BY <3>2, <3>3
    <2>3. Ports \subseteq Names
        BY DEF Ports, Entries
    <2>4. Ports = {} => answer' = NoMAC
        BY <1>7, <2>1 DEF PicksCandidate, Answer
    <2>5. Ports # {} => answer' \in Ports /\ \A n \in Ports : answer' <= n
        <3> SUFFICES ASSUME Ports # {}
                     PROVE  answer' \in Ports /\ \A n \in Ports : answer' <= n
            OBVIOUS
        <3>1. Lowest(Ports) \in Ports /\ \A n \in Ports : Lowest(Ports) <= n
            BY <2>3, LeastExists, NamesAssumption
        <3>2. readMAC(Lowest(Ports)) = Lowest(Ports)
            BY <2>3, <3>1, ReadMACFacts DEF Ports
        <3> QED
            BY <1>7, <2>1, <3>1, <3>2 DEF PicksCandidate, Answer
    <2>6. AnswerInv'
        BY <1>0, <1>h, <1>7, <2>1, <2>2, <2>4, <2>5
           DEF PicksCandidate, Answer, AnswerInv, NoMAC, Error
    <2>7. LoopInv'
        BY <1>7 DEF PicksCandidate, Answer, LoopInv
    <2> QED
        BY <1>0, <1>h, <2>6, <2>7
<1>8. CASE Exits
    <2>1. AnswerInv'
        BY <1>0, <1>h, <1>8 DEF Exits, AnswerInv, RefusesToStart
    <2>2. LoopInv'
        BY <1>8 DEF Exits, LoopInv
    <2> QED
        BY <1>0, <1>h, <2>1, <2>2
<1>9. CASE Starts
    <2>1. AnswerInv'
        BY <1>0, <1>h, <1>9 DEF Starts, AnswerInv, RefusesToStart
    <2>2. LoopInv'
        BY <1>9 DEF Starts, LoopInv
    <2> QED
        BY <1>0, <1>h, <2>1, <2>2
<1>10. CASE UNCHANGED vars
    <2>1. AnswerInv'
        BY <1>0, <1>h, <1>10 DEF vars, AnswerInv, RefusesToStart
    <2>2. LoopInv'
        BY <1>0, <1>h, <1>10 DEF vars, LoopInv, RouteHasMAC
    <2> QED
        BY <1>0, <1>h, <2>1, <2>2
<1> QED
    BY <1>1, <1>2, <1>3, <1>4, <1>5, <1>6, <1>7, <1>8, <1>9, <1>10 DEF Next

\* What the loops have computed at each place, and what the answer is.
THEOREM ProbeCorrect == Spec => []ProbeInv
<1>1. TypeOK /\ TypeOK' /\ ProbeInv /\ [Next]_vars => ProbeInv'
    BY NextProbe
<1> QED
    BY Typing, InitProbe, <1>1, PTL DEF Spec

\* The published address is the one of the named interface, or else of the best
\* default route's, or else of the first physical port, on every host.
THEOREM IdentifiesNodeHolds == Spec => []IdentifiesNode
<1>1. TypeOK /\ ProbeInv => IdentifiesNode
    <2> SUFFICES ASSUME TypeOK, ProbeInv, pc = "started", mac # NoMAC
                 PROVE  IF preferred # NoName THEN IsAddressOf(mac, preferred)
                        ELSE IF \E a \in Names : Routed(a) THEN Routed(mac)
                        ELSE mac \in Ports /\ \A n \in Ports : mac <= n
        BY DEF IdentifiesNode
    <2>1. answer # Error /\ mac = answer
        BY DEF ProbeInv, AnswerInv
    <2> QED
        BY <2>1 DEF ProbeInv, AnswerInv, IsAddressOf
<1> QED
    BY Typing, ProbeCorrect, <1>1, PTL

\* No address is published only by a host that has none to offer.
THEOREM AbsentOnlyWhenNoneHolds == Spec => []AbsentOnlyWhenNone
<1>1. TypeOK /\ ProbeInv => AbsentOnlyWhenNone
    <2> SUFFICES ASSUME TypeOK, ProbeInv, pc = "started", mac = NoMAC
                 PROVE  preferred = NoName /\ Ports = {} /\ ~\E a \in Names : Routed(a)
        BY DEF AbsentOnlyWhenNone
    <2>1. answer \in {NoMAC, Error} /\ (answer = Error => preferred = NoName)
        BY DEF ProbeInv, AnswerInv, RefusesToStart, preferred
    <2>2. NoMAC \notin Names /\ Error \notin Names
        BY NamesAssumption DEF NoMAC, Error
    <2>3. preferred = NoName
        <3>1. preferred \in Names \cup {NoName}
            BY DEF TypeOK, preferred
        <3> QED
            BY <2>1, <2>2, <3>1 DEF ProbeInv, AnswerInv
    <2>4. ~Routed(answer)
        <3>1. \A i \in 1..Len(routes) : routes[i].iface \in Names
            BY RouteFacts DEF TypeOK
        <3> QED
            BY <2>1, <2>2, <3>1 DEF Routed, IsAddressOf
    <2>5. answer \notin Ports
        BY <2>1, <2>2 DEF Ports, Entries
    <2> QED
        BY <2>3, <2>4, <2>5 DEF ProbeInv, AnswerInv
<1> QED
    BY Typing, ProbeCorrect, <1>1, PTL

\* Only a named interface without an address keeps the daemon from starting, or,
\* for a setting of white space, a directory that cannot be read on a host whose
\* routes do not identify it: whatever the host, never an empty setting.
THEOREM RefusesOnlyForNamedHolds == Spec => []RefusesOnlyForNamed
<1>1. TypeOK /\ ProbeInv => RefusesOnlyForNamed
    <2> SUFFICES ASSUME TypeOK, ProbeInv, pc = "exited"
                 PROVE  RefusesOnlyForNamed
        BY DEF RefusesOnlyForNamed
    <2>1. AnswerInv /\ answer = Error /\ setting # NoName
        BY DEF ProbeInv, AnswerInv, RefusesToStart
    <2>2. Error \notin Names /\ NoName \notin Names /\ Blank \notin Names
        BY NamesAssumption DEF Error, NoName, Blank
    <2>3. CASE setting \in Names
        <3>1. preferred = setting /\ preferred # NoName
            BY <2>2, <2>3 DEF preferred
        <3> QED
            BY <2>1, <2>2, <2>3, <3>1 DEF AnswerInv, RefusesOnlyForNamed
    <2>4. CASE setting = Blank
        <3>1. preferred = NoName
            BY <2>4 DEF preferred
        <3>2. ~Routed(answer)
            <4>1. \A i \in 1..Len(routes) : routes[i].iface \in Names
                BY RouteFacts DEF TypeOK
            <4> QED
                BY <2>1, <2>2, <4>1 DEF Routed, IsAddressOf
        <3>3. answer \notin Ports
            BY <2>1, <2>2 DEF Ports, Entries
        <3> QED
            BY <2>1, <2>4, <3>1, <3>2, <3>3 DEF AnswerInv, RefusesOnlyForNamed
    <2> QED
        BY <2>1, <2>3, <2>4 DEF TypeOK
<1> QED
    BY Typing, ProbeCorrect, <1>1, PTL
=============================================================================
