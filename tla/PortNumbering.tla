---------------------------- MODULE PortNumbering ----------------------------
(***************************************************************************)
(* Port numbers for the connections of one topology (resolve_topology:       *)
(* resolve_port_numbers, matched_port_numbering, general_port_numbering and  *)
(* port_numbering_state).  A component may say that two of its ports match:  *)
(* the connections from the two to one remote instance get one number.       *)
(*                                                                         *)
(* The code goes through ports and connections in the order of their names;  *)
(* here any order will do.                                                   *)
(***************************************************************************)
EXTENDS Integers, FiniteSets

CONSTANTS
    Endpoints,  \* what a connection may name: ports of components, and of topologies
    Ports,      \* the ports of component instances
    SideOf,     \* the side of a connection an endpoint can be at
    SizeOf,     \* the size of the port array at an endpoint
    InstanceOf, \* the component instance a port belongs to
    Matchings,  \* the pairs of matched ports
    NoNumber

Sides == {"from", "to"}
Opposite(s) == IF s = "from" THEN "to" ELSE "from"

(* A component has its matchings from its own port arrays, of equal sizes     *)
(* (PortMatching::from_node).                                                 *)
ASSUME PortAssumption ==
    /\ Ports \subseteq Endpoints
    /\ SideOf \in [Endpoints -> Sides]
    /\ SizeOf \in [Endpoints -> Nat \ {0}]
    /\ DOMAIN InstanceOf = Ports
    /\ Matchings \subseteq [p1 : Ports, p2 : Ports]
    /\ \A m \in Matchings : /\ m.p1 # m.p2
                            /\ InstanceOf[m.p1] = InstanceOf[m.p2]
                            /\ SizeOf[m.p1] = SizeOf[m.p2]
    /\ NoNumber \notin Nat

VARIABLES
    links,      \* the connections of the topology
    instances,  \* its component instances
    number,     \* from_port_number_map and to_port_number_map
    stage,      \* what is done next, or how the numbering ended
    todo,       \* the matchings not handled yet
    matching,   \* the matching in hand
    pairs       \* the remote instances whose connections it has to number yet

pnVars == <<links, instances, number, stage, todo, matching, pairs>>

(* A connection is from an output to an input, and a number written with it   *)
(* is inside the array (Endpoint::check_port_number, check_directions).  Two   *)
(* connections may differ in their places in the source only.                 *)
NumberOption == Nat \cup {NoNumber}
LegalLink(c) ==
    /\ c.end \in [Sides -> Endpoints]
    /\ c.explicit \in [Sides -> NumberOption]
    /\ c.unmatched \in BOOLEAN
    /\ \A s \in Sides :
          /\ SideOf[c.end[s]] = s
          /\ c.explicit[s] # NoNumber => c.explicit[s] < SizeOf[c.end[s]]

-----------------------------------------------------------------------------
At(p)        == {c \in links : c.end[SideOf[p]] = p}
NumberAt(p, c) == number[SideOf[p]][c]
Numbered(p)  == {c \in At(p) : NumberAt(p, c) # NoNumber}
UsedAt(p)    == {NumberAt(p, c) : c \in Numbered(p)}

(* The numbers so far are all different (compute_port_connection_map).        *)
NumbersApart(p) ==
    \A c, d \in Numbered(p) : NumberAt(p, c) = NumberAt(p, d) => c = d

(* Faulty: the search goes on from the highest number in use.                 *)
Lowest_AfterLast(used) ==
    IF used = {} THEN 0 ELSE 1 + CHOOSE n \in used : \A k \in used : n >= k

(* PortNumberingState: the numbers in use only grow, so that the lowest unused *)
(* number is always the one found by searching on from the last.              *)
Lowest(used) ==
    CHOOSE n \in 0 .. Cardinality(used) : n \notin used /\ (0 .. n - 1) \subseteq used

(* The connections at a matched port that take part in the matching, by the   *)
(* instances at their other ends.  One that leads to a port of a topology is   *)
(* passed over (compute_instance_connection_map).                             *)
OtherEnd(p, c) == c.end[Opposite(SideOf[p])]
Matched(p)     == {c \in At(p) : ~c.unmatched /\ OtherEnd(p, c) \in Ports}
Remote(p, c)   == InstanceOf[OtherEnd(p, c)]
Remotes(p)     == {Remote(p, c) : c \in Matched(p)}
RemotesApart(p) == \A c, d \in Matched(p) : Remote(p, c) = Remote(p, d) => c = d
LinkTo(p, i)   == CHOOSE c \in Matched(p) : Remote(p, c) = i

(* handle_port_matching goes on to number the pairs.                          *)
Matchable(m) ==
    /\ NumbersApart(m.p1) /\ NumbersApart(m.p2)
    /\ RemotesApart(m.p1) /\ RemotesApart(m.p2)
    /\ Remotes(m.p1) = Remotes(m.p2)

(* is_match_constrained, of a link whose ends are at component instances: the *)
(* code follows an end at a topology down to one first, which tells only for  *)
(* a link taken over from a topology with errors, written `unmatched`.        *)
Constrained(c) == \E m \in Matchings, s \in Sides : c.end[s] \in {m.p1, m.p2}

(* check_output_ports, and the check on the keyword unmatched.                *)
OutputsFit ==
    \A p \in Endpoints : SideOf[p] = "from" =>
        /\ Cardinality(At(p)) <= SizeOf[p]
        /\ \A c, d \in At(p) : c.explicit["from"] = d.explicit["from"] =>
              c = d \/ c.explicit["from"] = NoNumber
UnmatchedFit == \A c \in links : c.unmatched => Constrained(c)

(* A connection written in the topology is numbered at a component of it.     *)
Inside(c, s) == c.end[s] \in Ports /\ InstanceOf[c.end[s]] \in instances
Owed(s)   == {c \in links : Inside(c, s) /\ number[s][c] = NoNumber}

-----------------------------------------------------------------------------
NumberingInit ==
    /\ links = {}
    /\ instances = {}
    /\ number = [s \in Sides |-> [c \in {} |-> NoNumber]]
    /\ stage = "idle"
    /\ todo = {}
    /\ matching = NoNumber
    /\ pairs = {}

(* A topology has all its connections; those with a number keep it.           *)
BeginNumbering(cs, is) ==
    /\ links' = cs
    /\ instances' = is
    /\ number' = [s \in Sides |-> [c \in cs |-> c.explicit[s]]]
    /\ stage' = "checks"
    /\ todo' = {m \in Matchings : InstanceOf[m.p1] \in is}
    /\ UNCHANGED <<matching, pairs>>

(* Any error ends the numbering where it is.                                  *)
Proceed(ok, next) == stage' = IF ok THEN next ELSE "refused"

CheckLinks ==
    /\ stage = "checks"
    /\ Proceed(OutputsFit /\ UnmatchedFit, "matchings")
    /\ UNCHANGED <<links, instances, number, todo, matching, pairs>>

StartMatching(m) ==
    /\ stage = "matchings"
    /\ m \in todo
    /\ todo' = todo \ {m}
    /\ Proceed(Matchable(m), "pairs")
    /\ matching' = m
    /\ pairs' = Remotes(m.p1)
    /\ UNCHANGED <<links, instances, number>>

(* The next remote instance of the matching in hand.                          *)
NextPair(i) ==
    /\ stage = "pairs"
    /\ i \in pairs
    /\ pairs' = pairs \ {i}
    /\ UNCHANGED <<links, instances, todo, matching>>

BothNumbered(i) ==
    LET c1 == LinkTo(matching.p1, i)
        c2 == LinkTo(matching.p2, i)
    IN  /\ NextPair(i)
        /\ c1 \in Numbered(matching.p1) /\ c2 \in Numbered(matching.p2)
        /\ Proceed(NumberAt(matching.p1, c1) = NumberAt(matching.p2, c2), "pairs")
        /\ UNCHANGED number

(* Only the connection at p has a number; the one at q gets it if it is free  *)
(* there.                                                                     *)
OneNumbered(i, p, q) ==
    LET n == NumberAt(p, LinkTo(p, i))
    IN  /\ NextPair(i)
        /\ LinkTo(p, i) \in Numbered(p) /\ LinkTo(q, i) \notin Numbered(q)
        /\ Proceed(n \notin UsedAt(q), "pairs")
        /\ number' = IF n \in UsedAt(q) THEN number
                     ELSE [number EXCEPT ![SideOf[q]][LinkTo(q, i)] = n]

(* Faulty: a number is new when no connection at the first port has it.       *)
NeitherNumbered_OneSided(i) ==
    LET p1 == matching.p1
        p2 == matching.p2
        n  == Lowest(UsedAt(p1))
    IN  /\ NextPair(i)
        /\ LinkTo(p1, i) \notin Numbered(p1) /\ LinkTo(p2, i) \notin Numbered(p2)
        /\ Proceed(n < SizeOf[p1], "pairs")
        /\ number' = IF n < SizeOf[p1]
                     THEN [number EXCEPT ![SideOf[p1]][LinkTo(p1, i)] = n,
                                         ![SideOf[p2]][LinkTo(p2, i)] = n]
                     ELSE number

(* Both get the lowest number that neither port uses, if the arrays have it.  *)
NeitherNumbered(i) ==
    LET p1 == matching.p1
        p2 == matching.p2
        n  == Lowest(UsedAt(p1) \cup UsedAt(p2))
    IN  /\ NextPair(i)
        /\ LinkTo(p1, i) \notin Numbered(p1) /\ LinkTo(p2, i) \notin Numbered(p2)
        /\ Proceed(n < SizeOf[p1], "pairs")
        /\ number' = IF n < SizeOf[p1]
                     THEN [number EXCEPT ![SideOf[p1]][LinkTo(p1, i)] = n,
                                         ![SideOf[p2]][LinkTo(p2, i)] = n]
                     ELSE number

NumberPair(i) ==
    \/ BothNumbered(i)
    \/ OneNumbered(i, matching.p1, matching.p2)
    \/ OneNumbered(i, matching.p2, matching.p1)
    \/ NeitherNumbered(i)

EndMatching ==
    /\ stage = "pairs"
    /\ pairs = {}
    /\ stage' = "matchings"
    /\ UNCHANGED <<links, instances, number, todo, matching, pairs>>

EndMatchings ==
    /\ stage = "matchings"
    /\ todo = {}
    /\ stage' = "general"
    /\ UNCHANGED <<links, instances, number, todo, matching, pairs>>

(* An output gets the lowest number its port has free.                        *)
NumberOutput(c) ==
    /\ stage = "general"
    /\ c \in Owed("from")
    /\ number' = [number EXCEPT !["from"][c] = Lowest(UsedAt(c.end["from"]))]
    /\ UNCHANGED <<links, instances, stage, todo, matching, pairs>>

(* All inputs that have no number get number 0.                               *)
NumberInputs ==
    /\ stage = "general"
    /\ Owed("from") = {}
    /\ number' = [number EXCEPT !["to"] =
                     [c \in links |-> IF c \in Owed("to") THEN 0 ELSE number["to"][c]]]
    /\ stage' = "numbered"
    /\ UNCHANGED <<links, instances, todo, matching, pairs>>

(* The topology is done with.                                                 *)
EndNumbering ==
    /\ stage \in {"numbered", "refused"}
    /\ links' = {}
    /\ instances' = {}
    /\ number' = [s \in Sides |-> [c \in {} |-> NoNumber]]
    /\ stage' = "idle"
    /\ todo' = {}
    /\ matching' = NoNumber
    /\ pairs' = {}

NumberingStep ==
    \/ CheckLinks
    \/ \E m \in todo : StartMatching(m)
    \/ \E i \in pairs : NumberPair(i)
    \/ EndMatching \/ EndMatchings
    \/ \E c \in links : NumberOutput(c)
    \/ NumberInputs

(* The numbering of any finite sets of connections, one after the other.      *)
BeginAny ==
    /\ stage = "idle"
    /\ IsFiniteSet(links')
    /\ \A c \in links' : LegalLink(c)
    /\ BeginNumbering(links', instances')
NumberingNext == BeginAny \/ NumberingStep \/ EndNumbering
NumberingSpec == NumberingInit /\ [][NumberingNext]_pnVars

-----------------------------------------------------------------------------
(* What numbers should be: inside the arrays, those written kept, all         *)
(* different at an output and, but for inputs that opted out of a matching,   *)
(* at a matched port; and one number for the two connections of a pair.       *)
InRange(num) ==
    \A s \in Sides, c \in links : Inside(c, s) =>
        num[s][c] \in 0 .. SizeOf[c.end[s]] - 1
Kept(num) ==
    \A s \in Sides, c \in links :
        c.explicit[s] # NoNumber => num[s][c] = c.explicit[s]
Apart(num, s, cs) == \A c, d \in cs : num[s][c] = num[s][d] => c = d
OutputsApart(num) ==
    \A p \in Ports : SideOf[p] = "from" /\ InstanceOf[p] \in instances =>
        Apart(num, "from", At(p))
OwnMatchings == {m \in Matchings : InstanceOf[m.p1] \in instances}
Chosen(p) == {c \in At(p) : c \in Matched(p) \/ c.explicit[SideOf[p]] # NoNumber}
MatchedApart(num) ==
    \A m \in OwnMatchings : \A p \in {m.p1, m.p2} : Apart(num, SideOf[p], Chosen(p))
PairsAgree(num) ==
    \A m \in OwnMatchings : \A c \in Matched(m.p1), d \in Matched(m.p2) :
        Remote(m.p1, c) = Remote(m.p2, d) => num[SideOf[m.p1]][c] = num[SideOf[m.p2]][d]
Solves(num) ==
    InRange(num) /\ Kept(num) /\ OutputsApart(num) /\ MatchedApart(num) /\ PairsAgree(num)

(* Every numbering that comes to its end is such a numbering: the numbers one *)
(* matching gives out stay apart from those written, those of other           *)
(* matchings, and those given to the connections in no matching.              *)
NumbersSolve == stage = "numbered" => Solves(number)

(* Where no port is in two matchings, a topology is refused only when its     *)
(* connections do not pair, or there is no such numbering: taking the lowest  *)
(* free number for a pair never spoils a later one.                           *)
Pairable ==
    /\ \A s \in Sides, c \in links : Inside(c, s)
    /\ UnmatchedFit
    /\ \A m \in OwnMatchings : /\ RemotesApart(m.p1) /\ RemotesApart(m.p2)
                               /\ Remotes(m.p1) = Remotes(m.p2)
MatchedOnce ==
    \A m, n \in OwnMatchings : m # n => {m.p1, m.p2} \cap {n.p1, n.p2} = {}
LastNumber == CHOOSE n \in {SizeOf[p] - 1 : p \in Ports} :
                  \A p \in Ports : n >= SizeOf[p] - 1
RefusedHasNone ==
    stage = "refused" /\ MatchedOnce /\ Pairable =>
        \A num \in [Sides -> [links -> 0 .. LastNumber]] : ~Solves(num)
=============================================================================
