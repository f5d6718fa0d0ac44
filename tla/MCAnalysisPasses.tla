-------------------------- MODULE MCAnalysisPasses --------------------------
(* All ways three definitions may use each other, four families of state      *)
(* machines (states in states, choices of choices, choices on typed signals,  *)
(* and definitions with errors), and the topologies of MCTopologies.  The     *)
(* diagnostics emitter, which shares no state with the passes, is checked in  *)
(* the same run: it goes to work where the passes were blocked at once, so    *)
(* that the two never interleave.                                             *)
EXTENDS AnalysisPasses, MCTopologies, Diagnostics

CONSTANTS x, y, z,           \* definitions
          p, l, o, c, d, e,  \* states and choices
          g, h,              \* signals
          docA, docB, t1, t2 \* documents and units

const_Definitions == {x, y, z}
const_States == {p, l, o}
const_ChoiceDefs == {c, d, e}
const_Signals == {g, h}
U8   == [kind |-> "unsigned", width |-> 8]
U16  == [kind |-> "unsigned", width |-> 16]
Bool == [kind |-> "bool", width |-> 0]
const_Types == {U8, U16, Bool}
const_Uris == {docA, docB}
const_Units == {t1, t2}

To(n) == [to |-> n, sites |-> {}]
Enter1(n) == <<To(n)>>
Branches(n1, n2) == [if |-> To(n1), else |-> To(n2), guard |-> {}]
On(s, n) == [signal |-> s, to |-> n, sites |-> {}]
Handles(f) == f @@ [s \in States |-> <<>>]
Begins(f) == f @@ [s \in States |-> <<>>]
Flat == [n \in Nodes |-> TopLevel]
Bare == [s \in Signals |-> NoType]

(* l in p; o outside, in p, or in l; a choice outside or in p.                *)
Hierarchies ==
    {[text     |-> <<p, c, l, o>>,
      parent   |-> l :> p @@ o :> po @@ c :> pc @@ Flat,
      initial  |-> Begins(TopLevel :> Enter1(it) @@ p :> Enter1(ip)
                            @@ l :> (IF po = l THEN Enter1(o) ELSE <<>>)),
      on       |-> Handles(src :> <<On(g, trg)>> @@ l :> inner),
      choice   |-> c :> Branches(b1, b2),
      carries  |-> Bare,
      resolved |-> TRUE] :
        po \in {TopLevel, p, l}, pc \in {TopLevel, p}, it \in {p, c}, ip \in {l, o, c},
        b1 \in {p, l}, b2 \in {o, c}, src \in {p, o}, trg \in {p, l, o, c},
        inner \in {<<>>, <<On(g, Stay)>>, <<On(h, c)>>}}

(* Three choices that lead to each other.                                     *)
Choosy ==
    {[text     |-> <<o, c, d, e>>,
      parent   |-> Flat,
      initial  |-> Begins(TopLevel :> Enter1(c)),
      on       |-> Handles(<<>>),
      choice   |-> c :> Branches(f[1], f[2]) @@ d :> Branches(f[3], f[4])
                     @@ e :> Branches(f[5], f[6]),
      carries  |-> Bare,
      resolved |-> TRUE] :
        f \in {c, d} \X {o, d} \X {o, c, d} \X {o, e} \X {o, c, d} \X {o, e}}

(* Two signals with values come to a chain of choices; so may the start.      *)
Typed ==
    {[text     |-> txt,
      parent   |-> Flat,
      initial  |-> Begins(TopLevel :> Enter1(it)),
      on       |-> Handles(o :> <<On(g, to1), On(h, to2)>>),
      choice   |-> c :> [if |-> To(d), else |-> To(e), guard |-> {w1}]
                     @@ d :> [if |-> To(e), else |-> [to |-> o, sites |-> {w2}], guard |-> {}]
                     @@ e :> Branches(o, o),
      carries  |-> g :> ty1 @@ h :> ty2,
      resolved |-> TRUE] :
        it \in {o, d}, to1 \in {c, e}, to2 \in {c, d},
        ty1 \in TypeOption, ty2 \in {NoType, U16, Bool}, w1 \in {NoType, U8, U16},
        w2 \in {NoType, U16}, txt \in {<<o, c, d, e>>, <<d, c, o, e>>}}

Plain == [text     |-> <<p, l, o>>,
          parent   |-> l :> p @@ Flat,
          initial  |-> Begins(TopLevel :> Enter1(p) @@ p :> Enter1(l)),
          on       |-> Handles(p :> <<On(g, o)>> @@ o :> <<On(g, p)>>),
          choice   |-> <<>>,
          carries  |-> Bare,
          resolved |-> TRUE]
Unresolved == [Plain EXCEPT !.resolved = FALSE]
IllFormed ==
    {Unresolved,
     [Plain EXCEPT !.initial[TopLevel] = <<>>],
     [Plain EXCEPT !.initial[TopLevel] = <<To(o), To(p)>>],
     [Plain EXCEPT !.initial[p] = <<>>],
     [Plain EXCEPT !.initial[o] = <<To(o)>>],
     [Plain EXCEPT !.on[o] = <<On(g, p), On(g, l)>>]}

ASSUME MachinesAssumption ==
    \A m \in Hierarchies \cup Choosy \cup Typed \cup IllFormed : LegalMachine(m)

(* One kind of input is varied at a time.  Only x is ever a member, and       *)
(* nothing or z is used outside definitions.                                  *)
Outside == [own \in Definitions |-> Root]
Unused == [own \in Owners |-> {}]
Halted == [Plain EXCEPT !.initial[TopLevel] = <<>>]

VaryMachine ==
    \E m \in Hierarchies \cup Choosy \cup Typed \cup IllFormed :
        AnalysisStart(Unused, Outside, m, NoTopologies)
VaryUses ==
    \E f \in [Definitions -> SUBSET Definitions], named \in {{}, {z}}, own \in {Root, y, z} :
        AnalysisStart(Root :> named @@ f, x :> own @@ Outside, Plain, NoTopologies)
VaryTopologies ==
    \E ts \in Designs : AnalysisStart(Unused, Outside, Halted, ts)

Blocked == pass = "blocked" /\ machine = Unresolved
MCInit == (VaryMachine \/ VaryUses \/ VaryTopologies) /\ Init
MCNext ==
    \/ AnalysisNext /\ UNCHANGED vars
    \/ Blocked /\ Next /\ UNCHANGED analysisVars
MCSpec == MCInit /\ [][MCNext]_<<analysisVars, vars>> /\ AnalysisFairness
=============================================================================
