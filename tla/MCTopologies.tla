---------------------------- MODULE MCTopologies ----------------------------
(* The topologies that are checked: a hub whose two ports of size 2 match, as *)
(* those for pings do, with two remote instances; a fan, one of whose ports   *)
(* is in two matchings; and three topologies that import each other, name     *)
(* each other's ports and have patterns.                                      *)
EXTENDS Topologies, TLC

CONSTANTS hub, fan, rx, ry,        \* component instances
          hout, hin, f1, f2, f3,   \* ports of the hub and of the fan
          xout, xin, yout, yin,    \* ports of the remote instances
          sIn, sOut, tIn           \* ports of the topologies S and T

const_Instances == {hub, fan, rx, ry}
const_Ports == {hout, hin, f1, f2, f3, xout, xin, yout, yin}
const_TopologyOf == sIn :> "S" @@ sOut :> "S" @@ tIn :> "T"
const_Endpoints == const_Ports \cup {sIn, sOut, tIn}
Outputs == {hout, f1, f2, xout, yout, sOut}
const_SideOf == [e \in const_Endpoints |-> IF e \in Outputs THEN "from" ELSE "to"]
const_SizeOf == [e \in const_Endpoints |-> IF e \in {hout, hin, f1, f2, f3} THEN 2 ELSE 1]
const_InstanceOf ==
    [e \in {hout, hin} |-> hub] @@ [e \in {f1, f2, f3} |-> fan]
        @@ [e \in {xout, xin} |-> rx] @@ [e \in {yout, yin} |-> ry]
const_Matchings ==
    {[p1 |-> hout, p2 |-> hin], [p1 |-> f1, p2 |-> f2], [p1 |-> f1, p2 |-> f3]}
const_PortsOfKind ==
    [i \in const_Instances |->
        ("ping out" :> {e \in Outputs \ {sOut} : const_InstanceOf[e] = i})
            @@ ("ping in" :> {e \in const_Ports \ Outputs : const_InstanceOf[e] = i})
            @@ [role \in UNION {{w.from, w.to} : w \in UNION {Wires[k] : k \in DOMAIN Wires}}
                   |-> {}]]

Conn(from, m, to, n, unm, at) ==
    [end       |-> [s \in Sides |-> IF s = "from" THEN from ELSE to],
     explicit  |-> [s \in Sides |-> IF s = "from" THEN m ELSE n],
     unmatched |-> unm,
     loc       |-> at]
Link(from, to) == Conn(from, NoNumber, to, NoNumber, FALSE, 0)
Unm(cs) == {[c EXCEPT !.unmatched = TRUE] : c \in cs}
Maybe(cs) == {{}} \cup {{c} : c \in cs}

Topology(is, imp, ps, cs, pats) ==
    [imports |-> imp, instances |-> is, ports |-> ps, connections |-> cs, patterns |-> pats]
Alone(is, cs) == "T" :> Topology(is, {}, <<>>, cs, {})
NoTopologies == [t \in {} |-> NoTop]

(* Each remote instance has at most one connection with each port of the hub, *)
(* written with a number or without one, in the matching or not.              *)
Number2 == {NoNumber, 0, 1}
Out(q, ns) == {Conn(hout, n, q, NoNumber, FALSE, 0) : n \in ns}
In(q, ns)  == {Conn(q, NoNumber, hin, n, FALSE, 0) : n \in ns}
Pings ==
    {Alone({hub, rx, ry}, c1 \cup c2 \cup c3 \cup c4) :
        c1 \in Maybe(Out(xin, Number2) \cup Unm(Out(xin, {NoNumber, 0}))),
        c2 \in Maybe(Out(yin, Number2) \cup Unm(Out(yin, {1}))),
        c3 \in Maybe(In(xout, Number2) \cup Unm(In(xout, {NoNumber, 1}))),
        c4 \in Maybe(In(yout, Number2) \cup Unm(In(yout, {NoNumber})))}

(* Two connections between the same ports, or from the hub to itself; and an  *)
(* unmatched connection between ports without a matching.                     *)
Twice ==
    {Alone({hub, rx}, {Link(hout, xin), Link(xout, hin)} \cup more) :
        more \in {{Conn(hout, NoNumber, xin, NoNumber, u, 1)} : u \in BOOLEAN}
              \cup {{Conn(xout, NoNumber, hin, n, u, 1)} : u \in BOOLEAN, n \in Number2}
              \cup {{Conn(hout, 0, xin, NoNumber, TRUE, 1), Conn(xout, NoNumber, hin, 1, TRUE, 1)}}
              \cup {{Conn(hout, m, hin, n, FALSE, 0)} : m \in {0, 1, NoNumber}, n \in Number2}
              \cup {{Conn(xout, NoNumber, xin, NoNumber, TRUE, 0)}}}
Fans ==
    {Alone({fan, rx, ry}, {Conn(f1, n[1], xin, NoNumber, FALSE, 0),
                           Conn(f1, n[2], yin, NoNumber, FALSE, 0),
                           Conn(f2, n[3], xin, NoNumber, FALSE, 0),
                           Conn(f2, n[4], yin, NoNumber, FALSE, 0),
                           Conn(xout, NoNumber, f3, n[5], FALSE, 0),
                           Conn(yout, NoNumber, f3, n[6], FALSE, 0)}) :
        n \in Number2 \X {NoNumber, 1} \X {NoNumber, 0} \X {NoNumber, 0}
                \X {NoNumber, 1} \X {NoNumber, 0}}

(* S has the remote instance, T the hub, and U imports T and perhaps S.       *)
Pinging(targets, at) == [kind |-> "health", source |-> hub, targets |-> targets, loc |-> at]
Nested ==
    {"S" :> Topology({rx} \cup far, {}, sIn :> xin @@ sOut :> xout,
                     {Link(xout, yin) : i \in far}, {})
       @@ "T" :> Topology({hub}, imp1, tIn :> up, cs1, pats1)
       @@ "U" :> Topology(is, {"T"} \cup imp2, <<>>, cs2, pats2) :
        far \in {{}, {ry}}, imp1 \in {{}, {"S"}}, up \in {xin, sIn, hin},
        cs1 \in {{}, {Link(hout, sIn), Link(sOut, hin)}, {Link(hout, xin)},
                 {Conn(hout, 1, sIn, NoNumber, TRUE, 3)}},
        pats1 \in {{}, {Pinging({}, 7)}, {Pinging({rx}, 7)}},
        is \in {{ry}, {hub, rx}},
        imp2 \in {{}, {"S"}},
        cs2 \in {{}, {Link(yout, tIn)}, {Link(hout, yin), Link(yout, hin)}, {Link(sOut, hin)}},
        pats2 \in {{}, {Pinging({}, 9)}}}

Designs == Pings \cup Twice \cup Fans \cup Nested

(* All of them are of the kind the theorems are about.                         *)
ASSUME DesignsAreLegal == \A d \in Designs : LegalDesign(d)
=============================================================================
