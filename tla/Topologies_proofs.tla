-------------------------- MODULE Topologies_proofs --------------------------
(***************************************************************************)
(* Every numbering that ends well is sound, and every refusal justified, for *)
(* any components, matchings and connections.  The numbers at a port stay    *)
(* apart because a new one is never in use at the port it is given out at;   *)
(* those of a pair stay equal because a number is given out once; the array  *)
(* never runs out for an output because the lowest unused number is at most  *)
(* the count of those in use; and until the matchings are done a number that *)
(* is not written belongs to a pair, so that a pair which finds none leaves   *)
(* none to any other numbering.                                              *)
(*                                                                         *)
(* The topologies of a model bring all their connections there, once each,   *)
(* for any definitions and any way of importing each other, and their        *)
(* numbering is the one above.                                               *)
(***************************************************************************)
EXTENDS Topologies, FiniteSetTheorems, WellFoundedInduction, TLAPS

(* A finite set of naturals misses one of the first few naturals, and the     *)
(* search finds the least it misses.                                          *)
LEMMA LowestIsFree ==
    ASSUME NEW used \in SUBSET Nat, IsFiniteSet(used)
    PROVE  /\ Cardinality(used) \in Nat
           /\ Lowest(used) \in 0 .. Cardinality(used)
           /\ Lowest(used) \notin used
           /\ (0 .. Lowest(used) - 1) \subseteq used
<1> DEFINE K == Cardinality(used)
           Free == (0 .. K) \ used
<1>1. K \in Nat
  BY FS_CardinalityType
<1>2. Free # {}
  <2>1. SUFFICES ASSUME 0 .. K \subseteq used
                 PROVE  FALSE
    OBVIOUS
  <2>2. Cardinality(0 .. K) <= K
    BY <2>1, FS_Subset
  <2>3. Cardinality(0 .. K) = K + 1
    BY <1>1, FS_Interval
  <2> QED
    BY <1>1, <2>2, <2>3
<1> DEFINE Less == {ss \in Nat \X Nat : ss[1] < ss[2]}
<1>3. PICK n \in Free : \A k \in Free : <<k, n>> \notin Less
  <2>1. Free \subseteq Nat
    BY <1>1
  <2>2. IsWellFoundedOn(Less, Nat)
    BY NatLessThanWellFounded DEF OpToRel
  <2> HIDE DEF Free, Less
  <2> QED
    BY <1>2, <2>1, <2>2, WFMin
<1>4. \A k \in Free : ~ (k < n)
  <2>1. TAKE k \in Free
  <2>2. k \in Nat /\ n \in Nat
    BY <1>1
  <2> QED
    BY <1>3, <2>2
<1>5. (0 .. n - 1) \subseteq used
  BY <1>1, <1>4
<1>6. n \in 0 .. K /\ n \notin used /\ (0 .. n - 1) \subseteq used
  BY <1>5
<1> QED
  BY <1>1, <1>6 DEF Lowest

-----------------------------------------------------------------------------
(* What is in the variables.                                                  *)
PortTypes ==
    /\ IsFiniteSet(links)
    /\ \A c \in links : LegalLink(c)
    /\ number \in [Sides -> [links -> NumberOption]]
    /\ todo \subseteq OwnMatchings
    /\ stage = "checks" => todo = OwnMatchings
    /\ stage = "general" => todo = {}
    /\ stage = "pairs" => /\ matching \in OwnMatchings \ todo
                          /\ pairs \subseteq Remotes(matching.p1)

(* No number is outside its array, and those written are kept.                *)
NumbersFit ==
    \A s \in Sides, c \in links :
        number[s][c] # NoNumber => number[s][c] < SizeOf[c.end[s]]

(* After the checks, the numbers at an output are apart; before, they are     *)
(* those written.                                                             *)
Live == stage \in {"matchings", "pairs", "general"}
Outputs == {p \in Endpoints : SideOf[p] = "from"}
OutputsApartSoFar ==
    /\ stage = "checks" =>
          \A s \in Sides, c \in links : number[s][c] = c.explicit[s]
    /\ Live => OutputsFit /\ \A p \in Outputs : NumbersApart(p)

(* A matching that was started has its ports in order, and every pair of it    *)
(* but those still to do has one number.                                      *)
Paired(m, i) ==
    /\ LinkTo(m.p1, i) \in Numbered(m.p1)
    /\ LinkTo(m.p2, i) \in Numbered(m.p2)
    /\ NumberAt(m.p1, LinkTo(m.p1, i)) = NumberAt(m.p2, LinkTo(m.p2, i))
Left(m) == IF stage = "pairs" /\ m = matching THEN pairs ELSE {}
MatchingsHold ==
    Live => \A m \in OwnMatchings \ todo :
        Matchable(m) /\ \A i \in Remotes(m.p1) \ Left(m) : Paired(m, i)

Numbering ==
    /\ PortTypes /\ NumbersFit /\ Kept(number)
    /\ OutputsApartSoFar /\ MatchingsHold /\ NumbersSolve

-----------------------------------------------------------------------------
(* What only depends on the connections stays while they do.                  *)
LEMMA SameLinks ==
    ASSUME links' = links
    PROVE  \A p : /\ At(p)' = At(p)
                  /\ Matched(p)' = Matched(p)
                  /\ Remotes(p)' = Remotes(p)
                  /\ RemotesApart(p)' = RemotesApart(p)
                  /\ \A i : LinkTo(p, i)' = LinkTo(p, i)
  BY DEF At, Matched, Remotes, RemotesApart, LinkTo

(* The ports of a matching, and the connection of a pair.                      *)
LEMMA MatchingPorts ==
    ASSUME NEW m \in Matchings
    PROVE  /\ m.p1 \in Ports /\ m.p2 \in Ports /\ m.p1 # m.p2
           /\ m.p1 \in Endpoints /\ m.p2 \in Endpoints
           /\ SideOf[m.p1] \in Sides /\ SideOf[m.p2] \in Sides
           /\ SizeOf[m.p1] \in Nat \ {0} /\ SizeOf[m.p2] = SizeOf[m.p1]
           /\ InstanceOf[m.p1] = InstanceOf[m.p2]
  BY PortAssumption

(* The link to a remote instance is one at the port that is in the matching.  *)
LEMMA LinkOfPair ==
    ASSUME NEW p, NEW i \in Remotes(p)
    PROVE  /\ LinkTo(p, i) \in Matched(p) /\ Remote(p, LinkTo(p, i)) = i
           /\ LinkTo(p, i) \in At(p) /\ LinkTo(p, i) \in links
           /\ LinkTo(p, i).end[SideOf[p]] = p
  <1>1. \E c \in Matched(p) : Remote(p, c) = i
    BY DEF Remotes
  <1>2. LinkTo(p, i) \in Matched(p) /\ Remote(p, LinkTo(p, i)) = i
    BY <1>1 DEF LinkTo
  <1> QED
    BY <1>2 DEF Matched, At

-----------------------------------------------------------------------------
(* Every step that gives out numbers gives out one, where there was none, to  *)
(* at most one connection of a port, and only where it is not in use.         *)
GivesOut(n) ==
    /\ links' = links
    /\ number' \in [Sides -> [links -> NumberOption]]
    /\ \A s \in Sides, c \in links : number'[s][c] # number[s][c] =>
          /\ number[s][c] = NoNumber
          /\ number'[s][c] = n
          /\ n < SizeOf[c.end[s]]
          /\ n \notin UsedAt(c.end[s])
          /\ \A d \in links : /\ number'[s][d] # number[s][d]
                              /\ d.end[s] = c.end[s]
                              => c = d

(* A number that fits and is given out leaves those written as they are.      *)
LEMMA GivingKeeps ==
    ASSUME PortTypes, NumbersFit, Kept(number), NEW n, GivesOut(n)
    PROVE  NumbersFit' /\ Kept(number)'
  <1>1. links' = links
    BY DEF GivesOut
  <1>2. NumbersFit'
    BY <1>1 DEF NumbersFit, GivesOut
  <1>3. ASSUME NEW s \in Sides, NEW c \in links, c.explicit[s] # NoNumber
        PROVE  number'[s][c] = c.explicit[s]
    <2>1. number[s][c] = c.explicit[s]
      BY <1>3 DEF Kept
    <2> QED
      BY <1>3, <2>1 DEF GivesOut
  <1>4. Kept(number)'
    BY <1>1, <1>3 DEF Kept
  <1> QED  BY <1>2, <1>4

(* What has a number keeps it.                                                *)
LEMMA GivingGrows ==
    ASSUME PortTypes, NEW n, GivesOut(n), NEW p \in Endpoints
    PROVE  \A c \in Numbered(p) :
              c \in Numbered(p)' /\ number'[SideOf[p]][c] = NumberAt(p, c)
  <1>1. SideOf[p] \in Sides
    BY PortAssumption
  <1>2. TAKE c \in Numbered(p)
  <1>3. c \in links /\ c \in At(p) /\ number[SideOf[p]][c] # NoNumber
    BY <1>2 DEF Numbered, NumberAt, At
  <1>4. number'[SideOf[p]][c] = number[SideOf[p]][c]
    BY <1>1, <1>3 DEF GivesOut
  <1> QED
    BY <1>3, <1>4, SameLinks DEF GivesOut, Numbered, NumberAt

(* The numbers at a port stay apart, for the new one is not in use there.     *)
LEMMA GivingApart ==
    ASSUME PortTypes, NEW n, GivesOut(n), NEW p \in Endpoints, NumbersApart(p)
    PROVE  NumbersApart(p)'
  <1> DEFINE s == SideOf[p]
  <1>0. s \in Sides
    BY PortAssumption
  <1>1. SUFFICES ASSUME NEW c \in At(p), NEW d \in At(p),
                        number'[s][c] # NoNumber, number'[s][d] # NoNumber,
                        number'[s][c] = number'[s][d]
                 PROVE  c = d
    BY SameLinks DEF GivesOut, NumbersApart, Numbered, NumberAt
  <1>2. c \in links /\ d \in links /\ c.end[s] = p /\ d.end[s] = p
    BY DEF At
  <1>3. ASSUME NEW x \in At(p), NEW y \in At(p),
               number'[s][x] # number[s][x], number'[s][y] = number[s][y],
               number'[s][y] # NoNumber
        PROVE  number'[s][x] # number'[s][y]
    <2>1. x \in links /\ x.end[s] = p
      BY DEF At
    <2>2. number'[s][x] = n /\ n \notin UsedAt(p)
      BY <1>0, <1>3, <2>1 DEF GivesOut
    <2>3. number[s][y] \in UsedAt(p)
      BY <1>3 DEF UsedAt, Numbered, NumberAt
    <2> QED
      BY <1>3, <2>2, <2>3
  <1>4. CASE number'[s][c] # number[s][c] /\ number'[s][d] # number[s][d]
    BY <1>0, <1>2, <1>4 DEF GivesOut
  <1>5. CASE number'[s][c] = number[s][c] /\ number'[s][d] = number[s][d]
    BY <1>1, <1>5 DEF NumbersApart, Numbered, NumberAt
  <1> HIDE DEF s
  <1> QED
    BY <1>1, <1>3, <1>4, <1>5

(* So the ports stay in order, and the pairs that have a number keep it.       *)
LEMMA GivingPairs ==
    ASSUME PortTypes, NEW n, GivesOut(n), NEW m \in Matchings, Matchable(m)
    PROVE  /\ Matchable(m)'
           /\ \A i \in Remotes(m.p1) : Paired(m, i) => Paired(m, i)'
  <1>1. m.p1 \in Endpoints /\ m.p2 \in Endpoints
    BY MatchingPorts
  <1>2. NumbersApart(m.p1)' /\ NumbersApart(m.p2)'
    BY <1>1, GivingApart DEF Matchable
  <1>3. Matchable(m)'
    BY <1>2, SameLinks DEF GivesOut, Matchable
  <1>4. ASSUME NEW i \in Remotes(m.p1), Paired(m, i)
        PROVE  Paired(m, i)'
    <2>1. /\ LinkTo(m.p1, i)' = LinkTo(m.p1, i)
          /\ LinkTo(m.p2, i)' = LinkTo(m.p2, i)
      BY SameLinks DEF GivesOut
    <2> DEFINE c == LinkTo(m.p1, i)
               d == LinkTo(m.p2, i)
    <2>2. c \in Numbered(m.p1)' /\ number'[SideOf[m.p1]][c] = NumberAt(m.p1, c)
      BY <1>1, <1>4, GivingGrows DEF Paired
    <2>3. d \in Numbered(m.p2)' /\ number'[SideOf[m.p2]][d] = NumberAt(m.p2, d)
      BY <1>1, <1>4, GivingGrows DEF Paired
    <2> QED
      BY <1>4, <2>1, <2>2, <2>3 DEF Paired, NumberAt
  <1> QED  BY <1>3, <1>4

(* A step that gives out a number and leaves no pair of the matching in hand  *)
(* without one keeps all of it.                                               *)
LEMMA GivingNext ==
    ASSUME Numbering, Live, NEW n, GivesOut(n),
           stage' = stage, instances' = instances, todo' = todo,
           matching' = matching, pairs' \subseteq pairs,
           \A i \in pairs \ pairs', m \in Matchings : m = matching => Paired(m, i)'
    PROVE  Numbering'
  <1> USE DEF Numbering
  <1>1. links' = links
    BY DEF GivesOut
  <1>2. OwnMatchings' = OwnMatchings
    BY DEF OwnMatchings
  <1>3. PortTypes'
    <2>1. \A p : Remotes(p)' = Remotes(p)
      BY <1>1, SameLinks
    <2> QED
      BY <1>1, <1>2, <2>1 DEF PortTypes, GivesOut, LegalLink
  <1>4. NumbersFit' /\ Kept(number)'
    BY GivingKeeps
  <1>5. OutputsApartSoFar'
    <2>1. OutputsFit'
      BY <1>1, SameLinks DEF OutputsApartSoFar, OutputsFit
    <2>2. \A p \in Outputs : NumbersApart(p)'
      BY GivingApart DEF OutputsApartSoFar, Outputs
    <2> QED
      BY <2>1, <2>2 DEF OutputsApartSoFar, Live
  <1>6. MatchingsHold'
    <2>1. SUFFICES ASSUME NEW m \in OwnMatchings \ todo
                   PROVE  /\ Matchable(m)'
                          /\ \A i \in Remotes(m.p1)' \ Left(m)' : Paired(m, i)'
      BY <1>2 DEF MatchingsHold
    <2>2. m \in Matchings /\ Matchable(m)
      BY DEF MatchingsHold, OwnMatchings
    <2>3. Matchable(m)'
      BY <2>2, GivingPairs
    <2>4. Remotes(m.p1)' = Remotes(m.p1)
      BY <1>1, SameLinks
    <2>5. ASSUME NEW i \in Remotes(m.p1) \ Left(m)' PROVE Paired(m, i)'
      <3>1. CASE i \notin Left(m)
        BY <2>2, <3>1, GivingPairs DEF MatchingsHold
      <3>2. CASE i \in Left(m)
        BY <2>2, <2>5, <3>2 DEF Left
      <3> QED  BY <3>1, <3>2
    <2> QED  BY <2>3, <2>4, <2>5
  <1>7. NumbersSolve'
    BY DEF NumbersSolve, Live
  <1> QED  BY <1>3, <1>4, <1>5, <1>6, <1>7

-----------------------------------------------------------------------------
(* The steps that give out numbers.                                           *)
LEMMA UsedIsFinite ==
    ASSUME PortTypes, NEW p \in Endpoints
    PROVE  /\ IsFiniteSet(At(p)) /\ IsFiniteSet(Numbered(p))
           /\ UsedAt(p) \subseteq Nat /\ IsFiniteSet(UsedAt(p))
           /\ Cardinality(UsedAt(p)) <= Cardinality(Numbered(p))
  <1>1. IsFiniteSet(At(p))
    BY FS_Subset DEF PortTypes, At
  <1>2. IsFiniteSet(Numbered(p))
    BY <1>1, FS_Subset DEF Numbered
  <1>3. SideOf[p] \in Sides
    BY PortAssumption
  <1>4. UsedAt(p) \subseteq Nat
    BY <1>3 DEF UsedAt, Numbered, NumberAt, At, PortTypes, NumberOption
  <1> DEFINE f == [c \in Numbered(p) |-> NumberAt(p, c)]
  <1>5. f \in Surjection(Numbered(p), UsedAt(p))
    BY DEF Surjection, UsedAt
  <1> HIDE DEF f
  <1>6. IsFiniteSet(UsedAt(p)) /\ Cardinality(UsedAt(p)) <= Cardinality(Numbered(p))
    BY <1>2, <1>5, FS_Surjection
  <1> QED  BY <1>1, <1>2, <1>4, <1>6

(* The pair that is numbered has its two links, in a matching of the topology. *)
LEMMA PairInHand ==
    ASSUME Numbering, stage = "pairs", NEW m, m = matching, NEW i \in pairs
    PROVE  /\ m \in Matchings /\ m \in OwnMatchings \ todo
           /\ Matchable(m)
           /\ i \in Remotes(m.p1) /\ i \in Remotes(m.p2)
           /\ LinkTo(m.p1, i) \in links /\ LinkTo(m.p1, i).end[SideOf[m.p1]] = m.p1
           /\ LinkTo(m.p2, i) \in links /\ LinkTo(m.p2, i).end[SideOf[m.p2]] = m.p2
           /\ LinkTo(m.p1, i) \in At(m.p1) /\ LinkTo(m.p2, i) \in At(m.p2)
  <1>1. m \in OwnMatchings \ todo /\ i \in Remotes(m.p1)
    BY DEF Numbering, PortTypes
  <1>2. m \in Matchings
    BY <1>1 DEF OwnMatchings
  <1>3. Matchable(m)
    BY <1>1 DEF Numbering, MatchingsHold, Live
  <1>4. i \in Remotes(m.p2)
    BY <1>1, <1>3 DEF Matchable
  <1>5. /\ LinkTo(m.p1, i) \in links /\ LinkTo(m.p1, i).end[SideOf[m.p1]] = m.p1
        /\ LinkTo(m.p1, i) \in At(m.p1)
    BY <1>1, LinkOfPair
  <1>6. /\ LinkTo(m.p2, i) \in links /\ LinkTo(m.p2, i).end[SideOf[m.p2]] = m.p2
        /\ LinkTo(m.p2, i) \in At(m.p2)
    BY <1>4, LinkOfPair
  <1> QED  BY <1>1, <1>2, <1>3, <1>4, <1>5, <1>6

(* A pair with one number has it given out at the other port.                 *)
LEMMA OneGives ==
    ASSUME Numbering, NEW m, m = matching, NEW i \in pairs, NEW p, NEW q,
           (p = m.p1 /\ q = m.p2) \/ (p = m.p2 /\ q = m.p1),
           OneNumbered(i, p, q), stage' = "pairs"
    PROVE  GivesOut(NumberAt(p, LinkTo(p, i))) /\ Paired(m, i)'
  <1> DEFINE c == LinkTo(p, i)
             d == LinkTo(q, i)
             s == SideOf[p]
             t == SideOf[q]
             n == NumberAt(p, c)
  <1>1. /\ stage = "pairs" /\ links' = links
        /\ c \in Numbered(p) /\ d \notin Numbered(q)
    BY DEF OneNumbered, NextPair
  <1>2. n \notin UsedAt(q) /\ number' = [number EXCEPT ![t][d] = n]
    BY DEF OneNumbered, Proceed
  <1>3. /\ m \in Matchings
        /\ c \in links /\ d \in links /\ c.end[s] = p /\ d.end[t] = q
        /\ c \in At(p) /\ d \in At(q)
    BY <1>1, PairInHand
  <1>4. /\ p \in Endpoints /\ q \in Endpoints /\ s \in Sides /\ t \in Sides
        /\ SizeOf[p] = SizeOf[q] /\ p # q
    BY <1>3, MatchingPorts
  <1>5. number \in [Sides -> [links -> NumberOption]]
    BY DEF Numbering, PortTypes
  <1>6. n \in NumberOption /\ n # NoNumber /\ n < SizeOf[q]
    BY <1>1, <1>3, <1>4, <1>5 DEF Numbering, NumbersFit, Numbered, NumberAt
  <1>7. number[t][d] = NoNumber
    BY <1>1, <1>3 DEF Numbered, NumberAt
  <1>8. /\ \A x \in links : \A u \in Sides :
               number'[u][x] = IF u = t /\ x = d THEN n ELSE number[u][x]
        /\ number' \in [Sides -> [links -> NumberOption]]
    <2> HIDE DEF c, d, s, t, n
    <2> QED  BY <1>2, <1>3, <1>4, <1>5, <1>6
  <1>9. GivesOut(n)
    <2> HIDE DEF c, d, s, t, n
    <2> QED  BY <1>1, <1>2, <1>3, <1>6, <1>7, <1>8 DEF GivesOut
  <1>10. number'[s][c] = n /\ number'[t][d] = n
    <2>1. ~(s = t /\ c = d)
      BY <1>3, <1>4
    <2>2. number[s][c] = n
      BY DEF NumberAt
    <2> HIDE DEF c, d, s, t, n
    <2> QED  BY <1>3, <1>4, <1>8, <2>1, <2>2
  <1>11. /\ LinkTo(p, i)' = LinkTo(p, i) /\ LinkTo(q, i)' = LinkTo(q, i)
         /\ At(p)' = At(p) /\ At(q)' = At(q)
    BY <1>1, SameLinks
  <1>12. Paired(m, i)'
    BY <1>3, <1>6, <1>10, <1>11 DEF Paired, Numbered, NumberAt
  <1> QED  BY <1>9, <1>12

(* A pair with two numbers has them equal.                                    *)
LEMMA BothGives ==
    ASSUME Numbering, NEW m, m = matching, NEW i \in pairs,
           BothNumbered(i), stage' = "pairs", matching' = matching
    PROVE  GivesOut(NoNumber) /\ Paired(m, i)'
  <1>1. /\ links' = links /\ number' = number
        /\ LinkTo(m.p1, i) \in Numbered(m.p1) /\ LinkTo(m.p2, i) \in Numbered(m.p2)
        /\ NumberAt(m.p1, LinkTo(m.p1, i)) = NumberAt(m.p2, LinkTo(m.p2, i))
    BY DEF BothNumbered, NextPair, Proceed
  <1>2. GivesOut(NoNumber)
    BY <1>1 DEF Numbering, PortTypes, GivesOut
  <1>3. Paired(m, i)' = Paired(m, i)
    BY <1>1 DEF Paired, Numbered, NumberAt, At, LinkTo, Matched
  <1> QED  BY <1>1, <1>2, <1>3 DEF Paired

(* A pair without numbers has one given out that neither port uses.           *)
LEMMA NeitherGives ==
    ASSUME Numbering, NEW m, m = matching, NEW i \in pairs,
           NeitherNumbered(i), stage' = "pairs"
    PROVE  /\ GivesOut(Lowest(UsedAt(m.p1) \cup UsedAt(m.p2)))
           /\ Paired(m, i)'
  <1> DEFINE p == m.p1
             q == m.p2
             c == LinkTo(p, i)
             d == LinkTo(q, i)
             s == SideOf[p]
             t == SideOf[q]
             used == UsedAt(p) \cup UsedAt(q)
             n == Lowest(used)
  <1>1. /\ stage = "pairs" /\ links' = links
        /\ c \notin Numbered(p) /\ d \notin Numbered(q)
    BY DEF NeitherNumbered, NextPair
  <1>2. /\ n < SizeOf[p]
        /\ number' = [number EXCEPT ![s][c] = n, ![t][d] = n]
    BY DEF NeitherNumbered, Proceed
  <1>3. /\ m \in Matchings
        /\ c \in links /\ d \in links /\ c.end[s] = p /\ d.end[t] = q
        /\ c \in At(p) /\ d \in At(q)
    BY <1>1, PairInHand
  <1>4. /\ p \in Endpoints /\ q \in Endpoints /\ s \in Sides /\ t \in Sides
        /\ SizeOf[p] = SizeOf[q] /\ p # q
    BY <1>3, MatchingPorts
  <1>5. number \in [Sides -> [links -> NumberOption]]
    BY DEF Numbering, PortTypes
  <1>6. n \in Nat /\ n # NoNumber /\ n \notin UsedAt(p) /\ n \notin UsedAt(q)
    <2>1. used \in SUBSET Nat /\ IsFiniteSet(used)
      BY <1>4, UsedIsFinite, FS_Union DEF Numbering
    <2> HIDE DEF p, q
    <2>2. n \in Nat /\ n \notin used
      BY <2>1, LowestIsFree
    <2> QED  BY <2>2, PortAssumption
  <1>7. number[s][c] = NoNumber /\ number[t][d] = NoNumber
    BY <1>1, <1>3 DEF Numbered, NumberAt
  <1>8. /\ \A x \in links : \A u \in Sides :
               number'[u][x] = IF (u = s /\ x = c) \/ (u = t /\ x = d)
                               THEN n ELSE number[u][x]
        /\ number' \in [Sides -> [links -> NumberOption]]
    <2> DEFINE mid == [number EXCEPT ![s][c] = n]
    <2> HIDE DEF p, q, c, d, s, t, used, n
    <2>1. mid \in [Sides -> [links -> NumberOption]]
      BY <1>3, <1>4, <1>5, <1>6 DEF NumberOption
    <2>2. \A x \in links : \A u \in Sides :
              mid[u][x] = IF u = s /\ x = c THEN n ELSE number[u][x]
      BY <1>3, <1>4, <1>5
    <2>3. number' = [mid EXCEPT ![t][d] = n]
      BY <1>2, <1>4, <1>5
    <2> HIDE DEF mid
    <2>4. number' \in [Sides -> [links -> NumberOption]]
      BY <1>3, <1>4, <1>6, <2>1, <2>3 DEF NumberOption
    <2>5. \A x \in links : \A u \in Sides :
              number'[u][x] = IF u = t /\ x = d THEN n ELSE mid[u][x]
      BY <1>3, <1>4, <2>1, <2>3
    <2> QED  BY <2>2, <2>4, <2>5
  <1>9. GivesOut(n)
    <2>1. ASSUME NEW u \in Sides, NEW x \in links, number'[u][x] # number[u][x]
          PROVE  /\ (u = s /\ x = c) \/ (u = t /\ x = d)
                 /\ number'[u][x] = n
      <3> HIDE DEF p, q, c, d, s, t, used, n
      <3> QED  BY <1>8, <2>1
    <2>2. ASSUME NEW u \in Sides, NEW x \in links, number'[u][x] # number[u][x]
          PROVE  /\ number[u][x] = NoNumber
                 /\ x.end[u] \in {p, q}
                 /\ x.end[u] = p => u = s /\ x = c
                 /\ x.end[u] = q => u = t /\ x = d
      <3>1. (u = s /\ x = c) \/ (u = t /\ x = d)
        BY <2>1, <2>2
      <3> HIDE DEF p, q, c, d, s, t, used, n
      <3> QED  BY <1>3, <1>4, <1>7, <3>1
    <2>3. n < SizeOf[p] /\ n < SizeOf[q] /\ n \notin UsedAt(p) /\ n \notin UsedAt(q)
      BY <1>2, <1>4, <1>6
    <2> HIDE DEF p, q, c, d, s, t, used, n
    <2> QED  BY <1>1, <1>8, <2>1, <2>2, <2>3 DEF GivesOut
  <1>10. number'[s][c] = n /\ number'[t][d] = n
    BY <1>3, <1>4, <1>8
  <1>11. /\ LinkTo(p, i)' = LinkTo(p, i) /\ LinkTo(q, i)' = LinkTo(q, i)
         /\ At(p)' = At(p) /\ At(q)' = At(q)
    BY <1>1, SameLinks
  <1>12. Paired(m, i)'
    <2>1. LinkTo(m.p1, i)' \in Numbered(m.p1)'
      BY <1>3, <1>6, <1>10, <1>11 DEF Numbered, NumberAt
    <2>2. LinkTo(m.p2, i)' \in Numbered(m.p2)'
      BY <1>3, <1>6, <1>10, <1>11 DEF Numbered, NumberAt
    <2> QED  BY <1>10, <1>11, <2>1, <2>2 DEF Paired, NumberAt
  <1> QED  BY <1>9, <1>12

(* An output that has no number is one of at most as many as the array has    *)
(* elements, so that those before it do not use them all.                     *)
LEMMA OutputGives ==
    ASSUME Numbering, NEW c \in links, NumberOutput(c)
    PROVE  GivesOut(Lowest(UsedAt(c.end["from"])))
  <1> DEFINE p == c.end["from"]
             n == Lowest(UsedAt(p))
  <1>1. /\ stage = "general" /\ links' = links
        /\ number' = [number EXCEPT !["from"][c] = n]
        /\ number["from"][c] = NoNumber
    BY DEF NumberOutput, Owed
  <1>2. p \in Endpoints /\ SideOf[p] = "from" /\ c \in At(p)
    BY DEF Numbering, PortTypes, LegalLink, Sides, At
  <1>3. /\ UsedAt(p) \in SUBSET Nat /\ IsFiniteSet(UsedAt(p))
        /\ IsFiniteSet(At(p)) /\ IsFiniteSet(Numbered(p))
        /\ Cardinality(UsedAt(p)) <= Cardinality(Numbered(p))
    BY <1>2, UsedIsFinite DEF Numbering
  <1>4. n \in Nat /\ n \notin UsedAt(p) /\ n <= Cardinality(UsedAt(p))
    <2> HIDE DEF p
    <2> QED  BY <1>3, LowestIsFree
  <1>5. n < SizeOf[p]
    <2>1. Cardinality(At(p)) <= SizeOf[p]
      BY <1>1, <1>2 DEF Numbering, OutputsApartSoFar, Live, OutputsFit
    <2>2. Numbered(p) \subseteq At(p) \ {c}
      BY <1>1, <1>2 DEF Numbered, NumberAt
    <2>3. /\ IsFiniteSet(At(p) \ {c})
          /\ Cardinality(At(p) \ {c}) = Cardinality(At(p)) - 1
      BY <1>2, <1>3, FS_RemoveElement
    <2>4. Cardinality(Numbered(p)) <= Cardinality(At(p) \ {c})
      BY <2>2, <2>3, FS_Subset
    <2>5. /\ Cardinality(At(p)) \in Nat /\ Cardinality(Numbered(p)) \in Nat
          /\ Cardinality(UsedAt(p)) \in Nat /\ SizeOf[p] \in Nat
      BY <1>2, <1>3, FS_CardinalityType, PortAssumption
    <2> HIDE DEF n, p
    <2> QED  BY <1>3, <1>4, <2>1, <2>3, <2>4, <2>5
  <1>6. number \in [Sides -> [links -> NumberOption]]
    BY DEF Numbering, PortTypes
  <1>7. /\ \A x \in links : \A u \in Sides :
               number'[u][x] = IF u = "from" /\ x = c THEN n ELSE number[u][x]
        /\ number' \in [Sides -> [links -> NumberOption]]
    <2> HIDE DEF n, p
    <2> QED  BY <1>1, <1>4, <1>6 DEF Sides, NumberOption
  <1>8. GivesOut(n)
    <2>1. ASSUME NEW u \in Sides, NEW x \in links, number'[u][x] # number[u][x]
          PROVE  u = "from" /\ x = c
      <3> HIDE DEF n
      <3> QED  BY <1>7, <2>1
    <2> HIDE DEF n
    <2> QED  BY <1>1, <1>4, <1>5, <1>7, <2>1 DEF GivesOut
  <1> QED  BY <1>8

-----------------------------------------------------------------------------
(* The steps that only check, and those that begin and end.                   *)
LEMMA RefusalKeeps ==
    ASSUME Numbering, stage' = "refused", links' = links, number' = number,
           instances' = instances, todo' \subseteq todo
    PROVE  Numbering'
  <1>1. OwnMatchings' = OwnMatchings
    BY DEF OwnMatchings
  <1>2. PortTypes'
    BY <1>1 DEF Numbering, PortTypes, LegalLink
  <1>3. NumbersFit' /\ Kept(number)'
    BY DEF Numbering, NumbersFit, Kept
  <1> QED
    BY <1>2, <1>3 DEF Numbering, OutputsApartSoFar, MatchingsHold, NumbersSolve, Live

(* The checks leave no output with more connections than it has ports.        *)
LEMMA ChecksKeep ==
    ASSUME Numbering, CheckLinks, stage' # "refused"
    PROVE  Numbering'
  <1>1. /\ stage = "checks" /\ stage' = "matchings" /\ OutputsFit
        /\ UNCHANGED <<links, instances, number, todo, matching, pairs>>
    BY DEF CheckLinks, Proceed
  <1>2. PortTypes' /\ NumbersFit' /\ Kept(number)'
    BY <1>1 DEF Numbering, PortTypes, NumbersFit, Kept, LegalLink, OwnMatchings
  <1>3. ASSUME NEW p \in Outputs PROVE NumbersApart(p)'
    <2>1. \A c \in links : number["from"][c] = c.explicit["from"]
      BY <1>1 DEF Numbering, OutputsApartSoFar, Sides
    <2>2. p \in Endpoints /\ SideOf[p] = "from"
      BY DEF Outputs
    <2>3. ASSUME NEW c \in Numbered(p), NEW d \in Numbered(p),
                 NumberAt(p, c) = NumberAt(p, d)
          PROVE  c = d
      <3>1. /\ c \in At(p) /\ d \in At(p) /\ c \in links /\ d \in links
            /\ NumberAt(p, c) # NoNumber
        BY DEF Numbered, At
      <3>2. c.explicit["from"] = d.explicit["from"] /\ c.explicit["from"] # NoNumber
        BY <2>1, <2>2, <2>3, <3>1 DEF NumberAt
      <3> QED  BY <1>1, <2>2, <3>1, <3>2 DEF OutputsFit
    <2>4. NumbersApart(p)
      BY <2>3 DEF NumbersApart
    <2> QED  BY <1>1, <2>4 DEF NumbersApart, Numbered, NumberAt, At
  <1>4. OutputsApartSoFar'
    BY <1>1, <1>3 DEF OutputsApartSoFar, OutputsFit, At
  <1>5. MatchingsHold'
    <2>1. OwnMatchings \ todo = {}
      BY <1>1 DEF Numbering, PortTypes
    <2> QED  BY <1>1, <2>1 DEF MatchingsHold, OwnMatchings
  <1> QED
    BY <1>1, <1>2, <1>4, <1>5 DEF Numbering, NumbersSolve

(* Where nothing but the stage, and what is to do, changes.                   *)
LEMMA QuietKeeps ==
    ASSUME Numbering, UNCHANGED <<links, instances, number>>
    PROVE  /\ OwnMatchings' = OwnMatchings
           /\ IsFiniteSet(links)' /\ \A c \in links' : LegalLink(c)'
           /\ (number \in [Sides -> [links -> NumberOption]])'
           /\ NumbersFit' /\ Kept(number)'
           /\ \A p : Remotes(p)' = Remotes(p)
           /\ \A m : Matchable(m)' = Matchable(m)
           /\ \A m, i : Paired(m, i)' = Paired(m, i)
           /\ Live /\ stage' # "checks" => OutputsApartSoFar'
  <1>1. OwnMatchings' = OwnMatchings
    BY DEF OwnMatchings
  <1>2. \A p : /\ At(p)' = At(p) /\ Numbered(p)' = Numbered(p)
               /\ NumbersApart(p)' = NumbersApart(p)
    BY DEF At, Numbered, NumberAt, NumbersApart
  <1>3. \A m : Matchable(m)' = Matchable(m)
    BY <1>2, SameLinks DEF Matchable
  <1>4. \A m, i : Paired(m, i)' = Paired(m, i)
    BY <1>2, SameLinks DEF Paired, NumberAt
  <1>5. Live /\ stage' # "checks" => OutputsApartSoFar'
    <2>1. OutputsFit' = OutputsFit
      BY <1>2 DEF OutputsFit
    <2> QED  BY <1>2, <2>1 DEF Numbering, OutputsApartSoFar
  <1>6. \A p : Remotes(p)' = Remotes(p)
    BY SameLinks
  <1> QED
    BY <1>1, <1>3, <1>4, <1>5, <1>6 DEF Numbering, PortTypes, LegalLink, NumbersFit, Kept

(* A matching that is started has all its pairs still to number.              *)
LEMMA StartKeeps ==
    ASSUME Numbering, NEW m \in todo, StartMatching(m), stage' # "refused"
    PROVE  Numbering'
  <1>1. /\ stage = "matchings" /\ stage' = "pairs" /\ Matchable(m)
        /\ todo' = todo \ {m} /\ matching' = m /\ pairs' = Remotes(m.p1)
        /\ UNCHANGED <<links, instances, number>>
    BY DEF StartMatching, Proceed
  <1>2. m \in OwnMatchings /\ m \in Matchings
    BY DEF Numbering, PortTypes, OwnMatchings
  <1>3. /\ OwnMatchings' = OwnMatchings
        /\ \A k : Matchable(k)' = Matchable(k) /\ Remotes(k)' = Remotes(k)
        /\ \A k, i : Paired(k, i)' = Paired(k, i)
    BY <1>1, QuietKeeps
  <1>4. PortTypes'
    BY <1>1, <1>2, <1>3, QuietKeeps DEF Numbering, PortTypes
  <1>5. NumbersFit' /\ Kept(number)' /\ OutputsApartSoFar'
    BY <1>1, QuietKeeps DEF Live
  <1>6. MatchingsHold'
    <2>1. SUFFICES ASSUME NEW k \in OwnMatchings \ (todo \ {m})
                   PROVE  /\ Matchable(k)
                          /\ \A i \in Remotes(k.p1) \ Left(k)' : Paired(k, i)
      BY <1>1, <1>3 DEF MatchingsHold
    <2>2. CASE k = m
      BY <1>1, <2>2 DEF Left
    <2>3. CASE k # m
      <3>1. Left(k) = {}
        BY <1>1 DEF Left
      <3> QED  BY <1>1, <2>3, <3>1 DEF Numbering, MatchingsHold, Live
    <2> QED  BY <2>2, <2>3
  <1> QED
    BY <1>1, <1>4, <1>5, <1>6 DEF Numbering, NumbersSolve

(* A matching ends with all its pairs numbered.                               *)
LEMMA EndsKeep ==
    ASSUME Numbering, EndMatching \/ EndMatchings
    PROVE  Numbering'
  <1>1. /\ stage \in {"pairs", "matchings"} /\ stage' \in {"matchings", "general"}
        /\ stage = "pairs" => pairs = {} /\ stage' = "matchings"
        /\ stage = "matchings" => todo = {}
        /\ UNCHANGED <<links, instances, number, todo, matching, pairs>>
    BY DEF EndMatching, EndMatchings
  <1>2. /\ OwnMatchings' = OwnMatchings
        /\ \A k : Matchable(k)' = Matchable(k) /\ Remotes(k)' = Remotes(k)
        /\ \A k, i : Paired(k, i)' = Paired(k, i)
    BY <1>1, QuietKeeps
  <1>3. PortTypes'
    BY <1>1, <1>2, QuietKeeps DEF Numbering, PortTypes
  <1>4. NumbersFit' /\ Kept(number)' /\ OutputsApartSoFar'
    BY <1>1, QuietKeeps DEF Live
  <1>5. \A k : Left(k) = {} /\ Left(k)' = {}
    BY <1>1 DEF Left
  <1>6. MatchingsHold'
    <2>1. \A k \in OwnMatchings \ todo :
              Matchable(k) /\ \A i \in Remotes(k.p1) : Paired(k, i)
      BY <1>1, <1>5 DEF Numbering, MatchingsHold, Live
    <2> QED  BY <1>1, <1>2, <2>1 DEF MatchingsHold
  <1> QED
    BY <1>1, <1>3, <1>4, <1>6 DEF Numbering, NumbersSolve

(* At the start the numbers are those written.                                *)
LEMMA BeginKeeps ==
    ASSUME IsFiniteSet(links'), \A c \in links' : LegalLink(c),
           BeginNumbering(links', instances')
    PROVE  Numbering'
  <1>1. /\ number' = [s \in Sides |-> [c \in links' |-> c.explicit[s]]]
        /\ stage' = "checks" /\ todo' = OwnMatchings'
    BY DEF BeginNumbering, OwnMatchings
  <1>2. PortTypes'
    BY <1>1 DEF PortTypes, LegalLink
  <1>3. \A s \in Sides, c \in links' : number'[s][c] = c.explicit[s]
    BY <1>1
  <1>4. NumbersFit' /\ Kept(number)' /\ OutputsApartSoFar'
    BY <1>1, <1>3 DEF NumbersFit, Kept, OutputsApartSoFar, Live, LegalLink
  <1> QED
    BY <1>1, <1>2, <1>4 DEF Numbering, MatchingsHold, NumbersSolve, Live

(* Nothing is numbered yet, or no longer.                                     *)
LEMMA IdleKeeps ==
    ASSUME links' = {}, instances' = {}, stage' = "idle", todo' = {},
           number' = [s \in Sides |-> [c \in {} |-> NoNumber]]
    PROVE  Numbering'
  <1>1. PortTypes'
    BY FS_EmptySet DEF PortTypes, OwnMatchings
  <1> QED
    BY <1>1 DEF Numbering, NumbersFit, Kept, OutputsApartSoFar, MatchingsHold,
                NumbersSolve, Live

-----------------------------------------------------------------------------
(* The last step: what is left are inputs, and all of them get number 0.      *)
LEMMA InputsSolve ==
    ASSUME Numbering, NumberInputs
    PROVE  /\ PortTypes' /\ NumbersFit' /\ Kept(number)'
           /\ Solves(number)'
  <1>1. /\ stage = "general" /\ stage' = "numbered" /\ Owed("from") = {}
        /\ UNCHANGED <<links, instances, todo, matching, pairs>>
        /\ number' = [number EXCEPT !["to"] =
                         [c \in links |-> IF c \in Owed("to") THEN 0 ELSE number["to"][c]]]
    BY DEF NumberInputs
  <1>2. /\ number \in [Sides -> [links -> NumberOption]] /\ todo = {}
        /\ \A c \in links : LegalLink(c)
        /\ IsFiniteSet(links)
    BY <1>1 DEF Numbering, PortTypes
  <1>3. /\ \A c \in links : number'["from"][c] = number["from"][c]
        /\ \A c \in links : number'["to"][c] =
                               IF c \in Owed("to") THEN 0 ELSE number["to"][c]
        /\ number' \in [Sides -> [links -> NumberOption]]
    BY <1>1, <1>2 DEF Sides, NumberOption
  <1>4. \A s \in Sides, c \in links :
           number[s][c] # NoNumber => number'[s][c] = number[s][c]
    BY <1>3 DEF Sides, Owed
  <1>5. \A s \in Sides, c \in links : Inside(c, s) => number'[s][c] # NoNumber
    BY <1>1, <1>3, PortAssumption DEF Sides, Owed
  <1>6. ASSUME NEW s \in Sides, NEW c \in links, number'[s][c] # NoNumber
        PROVE  number'[s][c] \in 0 .. SizeOf[c.end[s]] - 1
    <2>1. c.end[s] \in Endpoints
      BY <1>2 DEF LegalLink
    <2>2. SizeOf[c.end[s]] \in Nat \ {0}
      BY <2>1, PortAssumption
    <2>3. number'[s][c] \in Nat
      BY <1>3, <1>6 DEF NumberOption
    <2>4. number'[s][c] = number[s][c] \/ number'[s][c] = 0
      BY <1>3 DEF Sides
    <2>5. number'[s][c] < SizeOf[c.end[s]]
      BY <1>6, <2>2, <2>4 DEF Numbering, NumbersFit
    <2> QED  BY <2>2, <2>3, <2>5
  <1>7. PortTypes'
    BY <1>1, <1>2, <1>3 DEF PortTypes, LegalLink, OwnMatchings
  <1>8. NumbersFit'
    <2> SUFFICES ASSUME NEW s \in Sides, NEW c \in links, number'[s][c] # NoNumber
                 PROVE  number'[s][c] < SizeOf[c.end[s]]
      BY <1>1 DEF NumbersFit
    <2>1. c.end[s] \in Endpoints
      BY <1>2 DEF LegalLink
    <2>2. SizeOf[c.end[s]] \in Nat
      BY <2>1, PortAssumption
    <2> QED  BY <1>6, <2>2
  <1>9. Kept(number)'
    <2> SUFFICES ASSUME NEW s \in Sides, NEW c \in links, c.explicit[s] # NoNumber
                 PROVE  number'[s][c] = c.explicit[s]
      BY <1>1 DEF Kept
    <2>1. number[s][c] = c.explicit[s]
      BY DEF Numbering, Kept
    <2> QED  BY <1>4, <2>1
  <1>10. InRange(number)'
    <2>1. ASSUME NEW s \in Sides, NEW c \in links, Inside(c, s)'
          PROVE  number'[s][c] \in 0 .. SizeOf[c.end[s]] - 1
      <3>1. Inside(c, s)
        BY <1>1, <2>1 DEF Inside
      <3> QED  BY <1>5, <1>6, <3>1
    <2> QED  BY <1>1, <2>1 DEF InRange
  <1>11. OutputsApart(number)'
    <2> SUFFICES ASSUME NEW p \in Ports, SideOf[p] = "from", InstanceOf[p] \in instances,
                        NEW c \in At(p), NEW d \in At(p),
                        number'["from"][c] = number'["from"][d]
                 PROVE  c = d
      BY <1>1, SameLinks DEF OutputsApart, Apart
    <2>1. p \in Outputs
      BY PortAssumption DEF Outputs
    <2>2. NumbersApart(p)
      BY <1>1, <2>1 DEF Numbering, OutputsApartSoFar, Live
    <2>3. /\ c \in links /\ d \in links /\ c.end["from"] = p /\ d.end["from"] = p
          /\ "from" \in Sides
      BY DEF At, Sides
    <2>4. number'["from"][c] # NoNumber /\ number'["from"][d] # NoNumber
      BY <1>5, <2>3 DEF Inside
    <2> QED  BY <1>3, <2>2, <2>3, <2>4 DEF NumbersApart, Numbered, NumberAt
  <1>12. ASSUME NEW m \in OwnMatchings
         PROVE  /\ m \in Matchings /\ Matchable(m)
                /\ \A i \in Remotes(m.p1) : Paired(m, i)
    <2>1. Left(m) = {}
      BY <1>1 DEF Left
    <2> QED  BY <1>1, <1>2, <2>1 DEF Numbering, MatchingsHold, Live, OwnMatchings
  <1>13. ASSUME NEW m \in OwnMatchings, NEW p \in {m.p1, m.p2}, NEW c \in Matched(p)
         PROVE  /\ c \in Numbered(p) /\ c = LinkTo(p, Remote(p, c))
                /\ Remote(p, c) \in Remotes(m.p1)
    <2>1. Remote(p, c) \in Remotes(p) /\ Remotes(p) = Remotes(m.p1)
      BY <1>12 DEF Remotes, Matchable
    <2>2. LinkTo(p, Remote(p, c)) \in Matched(p)
          /\ Remote(p, LinkTo(p, Remote(p, c))) = Remote(p, c)
      BY <2>1, LinkOfPair
    <2>3. c = LinkTo(p, Remote(p, c))
      BY <1>12, <2>2 DEF Matchable, RemotesApart
    <2>4. LinkTo(p, Remote(p, c)) \in Numbered(p)
      BY <1>12, <2>1 DEF Paired
    <2> QED  BY <2>1, <2>3, <2>4
  <1>14. ASSUME NEW m \in OwnMatchings, NEW p \in {m.p1, m.p2}, NEW c \in Chosen(p)
         PROVE  c \in Numbered(p) /\ number'[SideOf[p]][c] = NumberAt(p, c)
    <2>1. c \in links /\ c \in At(p) /\ SideOf[p] \in Sides
      BY <1>12, MatchingPorts DEF Chosen, At
    <2>2. CASE c \in Matched(p)
      BY <1>4, <1>13, <2>1, <2>2 DEF Numbered, NumberAt
    <2>3. CASE c.explicit[SideOf[p]] # NoNumber
      <3>1. number[SideOf[p]][c] = c.explicit[SideOf[p]]
        BY <2>1, <2>3 DEF Numbering, Kept
      <3> QED  BY <1>4, <2>1, <2>3, <3>1 DEF Numbered, NumberAt
    <2> QED  BY <2>2, <2>3 DEF Chosen
  <1>15. MatchedApart(number)'
    <2>1. OwnMatchings' = OwnMatchings /\ \A p : Chosen(p)' = Chosen(p)
      BY <1>1, SameLinks DEF OwnMatchings, Chosen
    <2>2. ASSUME NEW m \in OwnMatchings, NEW p \in {m.p1, m.p2},
                 NEW c \in Chosen(p), NEW d \in Chosen(p),
                 number'[SideOf[p]][c] = number'[SideOf[p]][d]
          PROVE  c = d
      BY <1>12, <1>14, <2>2 DEF Matchable, NumbersApart
    <2> QED  BY <2>1, <2>2 DEF MatchedApart, Apart
  <1>16. PairsAgree(number)'
    <2>1. OwnMatchings' = OwnMatchings /\ \A p : Matched(p)' = Matched(p)
      BY <1>1, SameLinks DEF OwnMatchings
    <2>2. ASSUME NEW m \in OwnMatchings, NEW c \in Matched(m.p1), NEW d \in Matched(m.p2),
                 Remote(m.p1, c) = Remote(m.p2, d)
          PROVE  number'[SideOf[m.p1]][c] = number'[SideOf[m.p2]][d]
      <3> DEFINE i == Remote(m.p1, c)
      <3>1. /\ c = LinkTo(m.p1, i) /\ d = LinkTo(m.p2, i) /\ i \in Remotes(m.p1)
        BY <1>13, <2>2
      <3>2. NumberAt(m.p1, c) = NumberAt(m.p2, d)
        BY <1>12, <3>1 DEF Paired
      <3>3. c \in Chosen(m.p1) /\ d \in Chosen(m.p2)
        BY DEF Chosen, Matched
      <3> QED  BY <1>14, <3>2, <3>3
    <2> QED  BY <2>1, <2>2 DEF PairsAgree
  <1>17. Solves(number)'
    BY <1>9, <1>10, <1>11, <1>15, <1>16 DEF Solves
  <1> QED  BY <1>7, <1>8, <1>9, <1>17

-----------------------------------------------------------------------------
LEMMA NumberingStart == NumberingInit => Numbering
  <1> SUFFICES ASSUME NumberingInit PROVE Numbering
    OBVIOUS
  <1>1. PortTypes
    BY FS_EmptySet DEF NumberingInit, PortTypes, OwnMatchings
  <1> QED
    BY <1>1 DEF NumberingInit, Numbering, NumbersFit, Kept, OutputsApartSoFar,
                MatchingsHold, NumbersSolve, Live

(* Numbering a pair keeps the invariant.                                      *)
LEMMA PairKeeps ==
    ASSUME Numbering, NEW i \in pairs, NumberPair(i)
    PROVE  Numbering'
  <1>0. PICK m : m = matching
    OBVIOUS
  <1>1. /\ stage = "pairs" /\ stage' \in {"pairs", "refused"}
        /\ pairs' = pairs \ {i}
        /\ UNCHANGED <<links, instances, todo, matching>>
        /\ stage' = "refused" => number' = number
    BY DEF NumberPair, BothNumbered, OneNumbered, NeitherNumbered, NextPair, Proceed
  <1>2. CASE stage' = "refused"
    BY <1>1, <1>2, RefusalKeeps
  <1>3. CASE stage' = "pairs"
    <2>1. \E n : GivesOut(n) /\ Paired(m, i)'
      <3>1. CASE BothNumbered(i)
        BY <1>0, <1>1, <1>3, <3>1, BothGives
      <3>2. CASE OneNumbered(i, m.p1, m.p2)
        BY <1>0, <1>3, <3>2, OneGives
      <3>3. CASE OneNumbered(i, m.p2, m.p1)
        BY <1>0, <1>3, <3>3, OneGives
      <3>4. CASE NeitherNumbered(i)
        BY <1>0, <1>3, <3>4, NeitherGives
      <3> QED  BY <1>0, <3>1, <3>2, <3>3, <3>4 DEF NumberPair
    <2>2. \A k \in Matchings : k = matching => Paired(k, i)'
      BY <1>0, <1>1, <2>1
    <2> QED  BY <1>1, <1>3, <2>1, <2>2, GivingNext DEF Live
  <1> QED  BY <1>1, <1>2, <1>3

(* So does a step that leaves the numbering alone, ...                        *)
LEMMA StutterKeeps ==
    ASSUME Numbering, UNCHANGED <<links, instances, number, stage, todo, matching, pairs>>
    PROVE  Numbering'
  <1>1. /\ OwnMatchings' = OwnMatchings
        /\ \A m : Matchable(m)' = Matchable(m)
        /\ \A m, i : Paired(m, i)' = Paired(m, i)
        /\ \A p : Remotes(p)' = Remotes(p)
    BY QuietKeeps
  <1>2. PortTypes' /\ NumbersFit' /\ Kept(number)'
    BY <1>1, QuietKeeps DEF Numbering, PortTypes
  <1>3. OutputsApartSoFar'
    <2>1. CASE Live
      BY <2>1, QuietKeeps DEF Live
    <2>2. CASE ~Live
      BY <2>2 DEF Numbering, OutputsApartSoFar, Live
    <2> QED  BY <2>1, <2>2
  <1>4. MatchingsHold'
    <2>1. Live' = Live /\ \A m : Left(m)' = Left(m)
      BY DEF Live, Left
    <2> QED  BY <1>1, <2>1 DEF Numbering, MatchingsHold
  <1>5. NumbersSolve'
    <2>1. Solves(number)' = Solves(number)
      BY <1>1 DEF Solves, InRange, Inside, Kept, OutputsApart, MatchedApart, PairsAgree,
         Apart, Chosen, At, Matched
    <2> QED  BY <2>1 DEF Numbering, NumbersSolve
  <1> QED  BY <1>2, <1>3, <1>4, <1>5 DEF Numbering

(* ... and every step.                                                        *)
LEMMA NumberingKeeps == Numbering /\ [NumberingNext]_pnVars => Numbering'
  <1> SUFFICES ASSUME Numbering, [NumberingNext]_pnVars PROVE Numbering'
    OBVIOUS
  <1>1. CASE BeginAny
    BY <1>1, BeginKeeps DEF BeginAny
  <1>2. CASE CheckLinks
    <2>1. CASE stage' = "refused"
      BY <1>2, <2>1, RefusalKeeps DEF CheckLinks
    <2> QED  BY <1>2, <2>1, ChecksKeep
  <1>3. ASSUME NEW m \in todo, StartMatching(m) PROVE Numbering'
    <2>1. CASE stage' = "refused"
      BY <1>3, <2>1, RefusalKeeps DEF StartMatching
    <2> QED  BY <1>3, <2>1, StartKeeps
  <1>4. ASSUME NEW i \in pairs, NumberPair(i) PROVE Numbering'
    BY <1>4, PairKeeps
  <1>5. CASE EndMatching \/ EndMatchings
    BY <1>5, EndsKeep
  <1>6. ASSUME NEW c \in links, NumberOutput(c) PROVE Numbering'
    <2>1. /\ stage = "general" /\ stage' = stage
          /\ UNCHANGED <<instances, todo, matching, pairs>>
      BY <1>6 DEF NumberOutput
    <2> QED  BY <1>6, <2>1, OutputGives, GivingNext DEF Live
  <1>7. CASE NumberInputs
    <2>1. stage' = "numbered"
      BY <1>7 DEF NumberInputs
    <2> QED
      BY <1>7, <2>1, InputsSolve
         DEF Numbering, OutputsApartSoFar, MatchingsHold, NumbersSolve, Live
  <1>8. CASE EndNumbering
    BY <1>8, IdleKeeps DEF EndNumbering
  <1>9. CASE UNCHANGED pnVars
    <2>1. UNCHANGED <<links, instances, number, stage, todo, matching, pairs>>
      BY <1>9 DEF pnVars
    <2> QED  BY <2>1, StutterKeeps
  <1> QED
    BY <1>1, <1>2, <1>3, <1>4, <1>5, <1>6, <1>7, <1>8, <1>9
       DEF NumberingNext, NumberingStep

(* The invariant of the numbering.                                            *)
THEOREM NumberingInvariant == NumberingSpec => []Numbering
  BY NumberingStart, NumberingKeeps, PTL DEF NumberingSpec

(* Whatever the components, their matchings and the connections, a numbering   *)
(* that is not refused gives every connection of a component of the topology  *)
(* a number inside its array, keeps the numbers written, and gives no two of   *)
(* an output or a matched port the same (resolve_port_numbers::run).          *)
THEOREM NumberedSolves == NumberingSpec => []NumbersSolve
  <1>1. Numbering => NumbersSolve
    BY DEF Numbering
  <1> QED  BY <1>1, NumberingInvariant, PTL
-----------------------------------------------------------------------------
(* Until the matchings are done, a number that was not written was given to a  *)
(* pair that has been handled.                                                *)
Matching == stage \in {"checks", "matchings", "pairs"}
Given ==
    Matching =>
        \A s \in Sides, c \in links : number[s][c] # c.explicit[s] =>
            \E m \in OwnMatchings \ todo : \E p \in {m.p1, m.p2} :
                SideOf[p] = s /\ c \in Matched(p) /\ Remote(p, c) \notin Left(m)

(* Numbering a pair gives a number to its two links only.                     *)
LEMMA PairChanges ==
    ASSUME Numbering, NEW i \in pairs, NumberPair(i), NEW m, m = matching,
           NEW s \in Sides, NEW c \in links, number'[s][c] # number[s][c]
    PROVE  \E p \in {m.p1, m.p2} : SideOf[p] = s /\ c = LinkTo(p, i)
  <1>1. number \in [Sides -> [links -> NumberOption]]
    BY DEF Numbering, PortTypes
  <1>2. ASSUME NEW p, NEW q, OneNumbered(i, p, q)
        PROVE  SideOf[q] = s /\ c = LinkTo(q, i)
    <2> DEFINE n == NumberAt(p, LinkTo(p, i))
               t == SideOf[q]
               d == LinkTo(q, i)
    <2>1. number' = number \/ number' = [number EXCEPT ![t][d] = n]
      BY <1>2 DEF OneNumbered
    <2> HIDE DEF n, t, d
    <2>2. t = s /\ d = c
      BY <1>1, <2>1
    <2> QED  BY <2>2 DEF t, d
  <1>3. ASSUME NeitherNumbered(i)
        PROVE  \/ SideOf[m.p1] = s /\ c = LinkTo(m.p1, i)
               \/ SideOf[m.p2] = s /\ c = LinkTo(m.p2, i)
    <2> DEFINE n == Lowest(UsedAt(m.p1) \cup UsedAt(m.p2))
               t1 == SideOf[m.p1]
               d1 == LinkTo(m.p1, i)
               t2 == SideOf[m.p2]
               d2 == LinkTo(m.p2, i)
    <2>1. \/ number' = number
          \/ number' = [number EXCEPT ![t1][d1] = n, ![t2][d2] = n]
      BY <1>3 DEF NeitherNumbered
    <2> HIDE DEF n, t1, d1, t2, d2
    <2>2. (t1 = s /\ d1 = c) \/ (t2 = s /\ d2 = c)
      BY <1>1, <2>1
    <2> QED  BY <2>2 DEF t1, d1, t2, d2
  <1>4. ~BothNumbered(i)
    BY DEF BothNumbered
  <1> QED  BY <1>2, <1>3, <1>4 DEF NumberPair

(* Before a topology is numbered nothing is given out.                        *)
LEMMA GivenStart == NumberingInit => Given
  BY DEF NumberingInit, Given, Matching

(* Until the matchings are done, only pairs get numbers that are not written. *)
LEMMA GivenKeeps == Numbering /\ Given /\ [NumberingNext]_pnVars => Given'
  <1> SUFFICES ASSUME Numbering, Given, [NumberingNext]_pnVars, Matching'
               PROVE  Given'
    BY DEF Given
  <1>1. CASE BeginAny
    <2>1. number' = [s \in Sides |-> [c \in links' |-> c.explicit[s]]]
      BY <1>1 DEF BeginAny, BeginNumbering
    <2> QED  BY <2>1 DEF Given
  <1>2. ASSUME UNCHANGED <<links, instances, number>>, Matching,
               todo' \subseteq todo,
               \A m \in OwnMatchings \ todo : Left(m)' \subseteq Left(m)
        PROVE  Given'
    <2>1. \A p : Matched(p)' = Matched(p)
      BY <1>2, SameLinks
    <2>2. OwnMatchings' = OwnMatchings
      BY <1>2 DEF OwnMatchings
    <2>3. SUFFICES ASSUME NEW s \in Sides, NEW c \in links, number[s][c] # c.explicit[s]
                   PROVE  \E m \in OwnMatchings \ todo' : \E p \in {m.p1, m.p2} :
                              /\ SideOf[p] = s /\ c \in Matched(p)
                              /\ Remote(p, c) \notin Left(m)'
      BY <1>2, <2>1, <2>2 DEF Given
    <2>4. PICK m \in OwnMatchings \ todo : \E p \in {m.p1, m.p2} :
              SideOf[p] = s /\ c \in Matched(p) /\ Remote(p, c) \notin Left(m)
      BY <1>2, <2>3 DEF Given
    <2> QED  BY <1>2, <2>4
  <1>3. CASE CheckLinks
    BY <1>2, <1>3 DEF CheckLinks, Proceed, Matching, Left
  <1>4. ASSUME NEW m \in todo, StartMatching(m) PROVE Given'
    <2>1. /\ stage = "matchings" /\ todo' = todo \ {m} /\ matching' = m
          /\ UNCHANGED <<links, instances, number>>
      BY <1>4 DEF StartMatching
    <2>2. \A k \in OwnMatchings \ todo : Left(k)' = {}
      BY <2>1 DEF Left
    <2> QED  BY <1>2, <2>1, <2>2 DEF Matching
  <1>5. ASSUME NEW i \in pairs, NumberPair(i) PROVE Given'
    <2>1. /\ stage = "pairs" /\ pairs' = pairs \ {i}
          /\ UNCHANGED <<links, instances, todo, matching>>
      BY <1>5 DEF NumberPair, BothNumbered, OneNumbered, NeitherNumbered, NextPair
    <2>2. /\ OwnMatchings' = OwnMatchings
          /\ \A p : Matched(p)' = Matched(p)
      BY <2>1, SameLinks DEF OwnMatchings
    <2>3. \A k : Left(k)' \subseteq Left(k) /\ (k = matching => i \notin Left(k)')
      BY <2>1 DEF Left
    <2>4. SUFFICES ASSUME NEW s \in Sides, NEW c \in links, number'[s][c] # c.explicit[s]
                   PROVE  \E m \in OwnMatchings \ todo : \E p \in {m.p1, m.p2} :
                              /\ SideOf[p] = s /\ c \in Matched(p)
                              /\ Remote(p, c) \notin Left(m)'
      BY <2>1, <2>2 DEF Given
    <2>5. CASE number[s][c] # c.explicit[s]
      <3>1. PICK m \in OwnMatchings \ todo : \E p \in {m.p1, m.p2} :
                SideOf[p] = s /\ c \in Matched(p) /\ Remote(p, c) \notin Left(m)
        BY <2>1, <2>5 DEF Given, Matching
      <3> QED  BY <2>3, <3>1
    <2>6. CASE number'[s][c] # number[s][c]
      <3>1. PICK m : m = matching
        OBVIOUS
      <3>2. PICK p \in {m.p1, m.p2} : SideOf[p] = s /\ c = LinkTo(p, i)
        BY <1>5, <2>6, <3>1, PairChanges
      <3>3. m \in OwnMatchings \ todo /\ i \in Remotes(m.p1) /\ i \in Remotes(m.p2)
        BY <2>1, <3>1, PairInHand
      <3>4. c \in Matched(p) /\ Remote(p, c) = i
        BY <3>2, <3>3, LinkOfPair
      <3>5. i \notin Left(m)'
        BY <2>3, <3>1
      <3> QED  BY <3>2, <3>3, <3>4, <3>5
    <2> QED  BY <2>4, <2>5, <2>6
  <1>6. CASE EndMatching
    BY <1>2, <1>6 DEF EndMatching, Matching, Left
  <1>7. CASE UNCHANGED pnVars
    BY <1>2, <1>7 DEF pnVars, Matching, Left
  <1>8. CASE EndMatchings \/ (\E c \in links : NumberOutput(c)) \/ NumberInputs \/ EndNumbering
    BY <1>8 DEF EndMatchings, NumberOutput, NumberInputs, EndNumbering, Matching
  <1> QED
    BY <1>1, <1>3, <1>4, <1>5, <1>6, <1>7, <1>8 DEF NumberingNext, NumberingStep

(* At a port of one matching, what is numbered carries its written number, or  *)
(* that of a pair handled already.                                            *)
LEMMA OwnNumber ==
    ASSUME Numbering, Given, Matching, MatchedOnce, NEW m \in OwnMatchings,
           NEW p \in {m.p1, m.p2}, NEW c \in Numbered(p)
    PROVE  \/ c \in Chosen(p) /\ NumberAt(p, c) = c.explicit[SideOf[p]]
           \/ m \notin todo /\ c \in Matched(p) /\ Remote(p, c) \notin Left(m)
  <1>1. /\ c \in links /\ c \in At(p) /\ c.end[SideOf[p]] = p
        /\ NumberAt(p, c) = number[SideOf[p]][c] /\ NumberAt(p, c) # NoNumber
    BY DEF Numbered, NumberAt, At
  <1>2. SideOf[p] \in Sides
    BY MatchingPorts DEF OwnMatchings
  <1>3. CASE number[SideOf[p]][c] = c.explicit[SideOf[p]]
    BY <1>1, <1>3 DEF Chosen
  <1>4. CASE number[SideOf[p]][c] # c.explicit[SideOf[p]]
    <2>1. PICK k \in OwnMatchings \ todo : \E r \in {k.p1, k.p2} :
              SideOf[r] = SideOf[p] /\ c \in Matched(r) /\ Remote(r, c) \notin Left(k)
      BY <1>1, <1>2, <1>4 DEF Given
    <2>2. PICK r \in {k.p1, k.p2} :
              SideOf[r] = SideOf[p] /\ c \in Matched(r) /\ Remote(r, c) \notin Left(k)
      BY <2>1
    <2>3. r = p
      BY <1>1, <2>2 DEF Matched, At
    <2>4. k = m
      BY <2>2, <2>3 DEF MatchedOnce
    <2> QED  BY <2>2, <2>3, <2>4
  <1> QED  BY <1>3, <1>4

(* What there is of pairs in a numbering that solves.                          *)
LEMMA SolvedPairs ==
    ASSUME PortTypes, Pairable, NEW num, Solves(num), NEW m \in OwnMatchings
    PROVE  /\ \A i \in Remotes(m.p1) :
                  num[SideOf[m.p1]][LinkTo(m.p1, i)] = num[SideOf[m.p2]][LinkTo(m.p2, i)]
           /\ \A p \in {m.p1, m.p2} : \A c, d \in Chosen(p) :
                  num[SideOf[p]][c] = num[SideOf[p]][d] => c = d
           /\ \A p \in {m.p1, m.p2} : \A c \in At(p) :
                  /\ num[SideOf[p]][c] \in 0 .. SizeOf[p] - 1
                  /\ c.explicit[SideOf[p]] # NoNumber =>
                        num[SideOf[p]][c] = c.explicit[SideOf[p]] /\ c \in Chosen(p)
           /\ \A p \in {m.p1, m.p2} : \A i \in Remotes(m.p1) :
                  /\ i \in Remotes(p) /\ LinkTo(p, i) \in Chosen(p)
                  /\ LinkTo(p, i) \in At(p) /\ Remote(p, LinkTo(p, i)) = i
           /\ \A p \in {m.p1, m.p2} : \A c \in Matched(p) :
                  Remote(p, c) \in Remotes(m.p1) /\ c = LinkTo(p, Remote(p, c))
  <1>1. Remotes(m.p1) = Remotes(m.p2)
    BY DEF Pairable
  <1>2. ASSUME NEW p \in {m.p1, m.p2}, NEW i \in Remotes(m.p1)
        PROVE  /\ i \in Remotes(p) /\ LinkTo(p, i) \in Chosen(p)
               /\ LinkTo(p, i) \in Matched(p)
               /\ LinkTo(p, i) \in At(p) /\ Remote(p, LinkTo(p, i)) = i
    BY <1>1, LinkOfPair DEF Chosen
  <1>3. ASSUME NEW i \in Remotes(m.p1)
        PROVE  num[SideOf[m.p1]][LinkTo(m.p1, i)] = num[SideOf[m.p2]][LinkTo(m.p2, i)]
    <2>1. /\ LinkTo(m.p1, i) \in Matched(m.p1) /\ Remote(m.p1, LinkTo(m.p1, i)) = i
          /\ LinkTo(m.p2, i) \in Matched(m.p2) /\ Remote(m.p2, LinkTo(m.p2, i)) = i
      BY <1>2
    <2> QED  BY <2>1 DEF Solves, PairsAgree
  <1>4. ASSUME NEW p \in {m.p1, m.p2}, NEW c \in At(p)
        PROVE  /\ num[SideOf[p]][c] \in 0 .. SizeOf[p] - 1
               /\ c.explicit[SideOf[p]] # NoNumber =>
                     num[SideOf[p]][c] = c.explicit[SideOf[p]] /\ c \in Chosen(p)
    <2>1. c \in links /\ c.end[SideOf[p]] = p /\ SideOf[p] \in Sides
      BY MatchingPorts DEF At, OwnMatchings
    <2>2. Inside(c, SideOf[p])
      BY <2>1 DEF Pairable
    <2> QED  BY <2>1, <2>2 DEF Solves, InRange, Kept, Chosen
  <1>5. ASSUME NEW p \in {m.p1, m.p2}, NEW c \in Matched(p)
        PROVE  Remote(p, c) \in Remotes(m.p1) /\ c = LinkTo(p, Remote(p, c))
    <2>1. Remote(p, c) \in Remotes(p) /\ RemotesApart(p)
      BY DEF Remotes, Pairable
    <2> QED  BY <1>1, <2>1, LinkOfPair DEF RemotesApart
  <1>6. ASSUME NEW p \in {m.p1, m.p2}, NEW c \in Chosen(p), NEW d \in Chosen(p),
               num[SideOf[p]][c] = num[SideOf[p]][d]
        PROVE  c = d
    BY <1>6 DEF Solves, MatchedApart, Apart
  <1> QED  BY <1>2, <1>3, <1>4, <1>5, <1>6

(* In a numbering as it should be, the links in a matching differ in number.  *)
LEMMA SolvedApart ==
    ASSUME NEW num, Solves(num), NEW m \in OwnMatchings, NEW p \in {m.p1, m.p2},
           NEW c \in Chosen(p), NEW d \in Chosen(p),
           num[SideOf[p]][c] = num[SideOf[p]][d]
    PROVE  c = d
  BY DEF Solves, MatchedApart, Apart

-----------------------------------------------------------------------------
(* Why each refusal is justified.  The checks at the start: an output has no   *)
(* more numbers than its array, and what is written differs.                  *)
LEMMA ChecksRefuse ==
    ASSUME Numbering, CheckLinks, stage' = "refused", Pairable, NEW num, Solves(num)
    PROVE  FALSE
  <1>1. ~OutputsFit
    BY DEF CheckLinks, Proceed, Pairable
  <1>2. PICK p \in Endpoints :
            /\ SideOf[p] = "from"
            /\ ~ /\ Cardinality(At(p)) <= SizeOf[p]
                 /\ \A c, d \in At(p) : c.explicit["from"] = d.explicit["from"] =>
                       c = d \/ c.explicit["from"] = NoNumber
    BY <1>1 DEF OutputsFit
  <1>3. SizeOf[p] \in Nat \ {0}
    BY PortAssumption
  <1>4. PICK e : e \in At(p)
    BY <1>2, <1>3, FS_EmptySet
  <1>5. "from" \in Sides /\ \A c \in At(p) : c \in links /\ c.end["from"] = p
    BY <1>2 DEF At, Sides
  <1>6. \A c \in At(p) : Inside(c, "from")
    BY <1>5 DEF Pairable
  <1>7. p \in Ports /\ InstanceOf[p] \in instances
    BY <1>4, <1>5, <1>6 DEF Inside
  <1>8. \A c, d \in At(p) : num["from"][c] = num["from"][d] => c = d
    BY <1>2, <1>7 DEF Solves, OutputsApart, Apart
  <1>9. \A c \in At(p) : num["from"][c] \in 0 .. SizeOf[p] - 1
    BY <1>5, <1>6 DEF Solves, InRange
  <1>10. Cardinality(At(p)) <= SizeOf[p]
    <2> DEFINE f == [c \in At(p) |-> num["from"][c]]
               size == SizeOf[p]
    <2>1. f \in [At(p) -> 0 .. size - 1] /\ \A c, d \in At(p) : f[c] = f[d] => c = d
      BY <1>8, <1>9
    <2> HIDE DEF f, size
    <2>2. size \in Nat \ {0}
      BY <1>3 DEF size
    <2>3. f \in Injection(At(p), 0 .. size - 1)
      BY <2>1 DEF Injection, IsInjective
    <2>4. IsFiniteSet(0 .. size - 1) /\ Cardinality(0 .. size - 1) = size
      <3>1. 0 \in Int /\ size - 1 \in Int
        BY <2>2
      <3>2. /\ IsFiniteSet(0 .. size - 1)
            /\ Cardinality(0 .. size - 1) = IF 0 > size - 1 THEN 0 ELSE (size - 1) - 0 + 1
        BY ONLY <3>1, FS_Interval
      <3> QED  BY <2>2, <3>2
    <2> QED  BY <2>3, <2>4, FS_Injection DEF size
  <1>11. \A c \in At(p) : c.explicit["from"] # NoNumber => num["from"][c] = c.explicit["from"]
    BY <1>5 DEF Solves, Kept
  <1> QED  BY <1>2, <1>8, <1>10, <1>11

(* Before a matching is handled, the numbers at its ports are the written ones. *)
LEMMA StartRefuses ==
    ASSUME Numbering, Given, NEW m \in todo, StartMatching(m), stage' = "refused",
           MatchedOnce, Pairable, NEW num, Solves(num)
    PROVE  FALSE
  <1>1. /\ PortTypes /\ m \in OwnMatchings /\ Matching /\ ~Matchable(m)
    BY DEF StartMatching, Proceed, Numbering, PortTypes, Matching
  <1>2. PICK p \in {m.p1, m.p2} : ~NumbersApart(p)
    BY <1>1 DEF Matchable, Pairable
  <1>3. PICK c \in Numbered(p), d \in Numbered(p) : NumberAt(p, c) = NumberAt(p, d) /\ c # d
    BY <1>2 DEF NumbersApart
  <1>4. \A x \in Numbered(p) : /\ x \in At(p) /\ NumberAt(p, x) # NoNumber
                               /\ x \in Chosen(p) /\ NumberAt(p, x) = x.explicit[SideOf[p]]
    BY <1>1, OwnNumber DEF Numbered
  <1>5. \A x \in Numbered(p) : num[SideOf[p]][x] = NumberAt(p, x)
    <2> SUFFICES ASSUME NEW x \in Numbered(p) PROVE num[SideOf[p]][x] = NumberAt(p, x)
      OBVIOUS
    <2>1. /\ x \in At(p)
          /\ x.explicit[SideOf[p]] # NoNumber /\ NumberAt(p, x) = x.explicit[SideOf[p]]
      BY <1>4
    <2> QED  BY <1>1, <2>1, SolvedPairs
  <1>6. c \in Chosen(p) /\ d \in Chosen(p)
    BY <1>3, <1>4
  <1>7. num[SideOf[p]][c] = num[SideOf[p]][d]
    BY <1>3, <1>5
  <1> QED  BY <1>1, <1>3, <1>6, <1>7, SolvedPairs

(* Two numbers of a pair not handled yet are both written.                     *)
LEMMA BothRefuse ==
    ASSUME Numbering, Given, NEW i \in pairs, BothNumbered(i), stage' = "refused",
           MatchedOnce, Pairable, NEW num, Solves(num)
    PROVE  FALSE
  <1>1. PICK m : m = matching
    OBVIOUS
  <1>2. /\ stage = "pairs" /\ Matching /\ PortTypes
        /\ LinkTo(m.p1, i) \in Numbered(m.p1) /\ LinkTo(m.p2, i) \in Numbered(m.p2)
        /\ NumberAt(m.p1, LinkTo(m.p1, i)) # NumberAt(m.p2, LinkTo(m.p2, i))
    BY <1>1 DEF BothNumbered, NextPair, Proceed, Numbering, Matching
  <1>3. m \in OwnMatchings /\ i \in Remotes(m.p1) /\ Left(m) = pairs
    BY <1>1, <1>2, PairInHand DEF Left
  <1>4. ASSUME NEW p \in {m.p1, m.p2}
        PROVE  num[SideOf[p]][LinkTo(p, i)] = NumberAt(p, LinkTo(p, i))
    <2>1. LinkTo(p, i) \in Numbered(p) /\ NumberAt(p, LinkTo(p, i)) # NoNumber
      BY <1>2 DEF Numbered
    <2>2. Remote(p, LinkTo(p, i)) = i /\ LinkTo(p, i) \in At(p)
      BY <1>2, <1>3, SolvedPairs
    <2>3. NumberAt(p, LinkTo(p, i)) = LinkTo(p, i).explicit[SideOf[p]]
      BY <1>2, <1>3, <2>1, <2>2, OwnNumber
    <2> QED  BY <1>2, <1>3, <2>1, <2>2, <2>3, SolvedPairs
  <1> QED  BY <1>2, <1>3, <1>4, SolvedPairs

(* Where one of a pair has a number, it is written, and the other can only be   *)
(* refused it for one written at its own port: one given to another pair would *)
(* be in use at the first port too.                                           *)
LEMMA OneRefuses ==
    ASSUME Numbering, Given, NEW i \in pairs, NEW m, m = matching, NEW p, NEW q,
           (p = m.p1 /\ q = m.p2) \/ (p = m.p2 /\ q = m.p1),
           OneNumbered(i, p, q), stage' = "refused",
           MatchedOnce, Pairable, NEW num, Solves(num)
    PROVE  FALSE
  <1> DEFINE c == LinkTo(p, i)
             d == LinkTo(q, i)
             n == NumberAt(p, c)
  <1>1. /\ stage = "pairs" /\ Matching /\ PortTypes
        /\ c \in Numbered(p) /\ d \notin Numbered(q) /\ n \in UsedAt(q)
    BY DEF OneNumbered, NextPair, Proceed, Numbering, Matching
  <1>2. /\ m \in OwnMatchings /\ m \notin todo /\ i \in Remotes(m.p1) /\ Left(m) = pairs
        /\ p \in {m.p1, m.p2} /\ q \in {m.p1, m.p2} /\ Matchable(m)
    BY <1>1, PairInHand DEF Left
  <1>3. c \in At(p) /\ Remote(p, c) = i /\ d \in Chosen(q)
    BY <1>1, <1>2, SolvedPairs
  <1>4. n = c.explicit[SideOf[p]] /\ n # NoNumber
    BY <1>1, <1>2, <1>3, OwnNumber DEF Numbered
  <1>5. num[SideOf[q]][d] = n
    <2>1. num[SideOf[p]][c] = n
      BY <1>1, <1>2, <1>3, <1>4, SolvedPairs
    <2>2. num[SideOf[p]][c] = num[SideOf[q]][d]
      BY <1>1, <1>2, SolvedPairs
    <2> QED  BY <2>1, <2>2
  <1>6. PICK e \in Numbered(q) : NumberAt(q, e) = n
    BY <1>1 DEF UsedAt
  <1>7. e \in At(q)
    BY DEF Numbered
  <1>8. CASE e \in Chosen(q) /\ n = e.explicit[SideOf[q]]
    <2>1. num[SideOf[q]][e] = n
      BY <1>1, <1>2, <1>4, <1>7, <1>8, SolvedPairs
    <2>2. e = d
      BY <1>2, <1>3, <1>5, <1>8, <2>1, SolvedApart
    <2> QED  BY <1>1, <2>2
  <1>9. CASE e \in Matched(q) /\ Remote(q, e) \notin pairs
    <2> DEFINE j == Remote(q, e)
    <2>1. j \in Remotes(m.p1) /\ j \notin pairs /\ e = LinkTo(q, j)
      BY <1>1, <1>2, <1>9, SolvedPairs
    <2>2. Paired(m, j)
      BY <1>1, <1>2, <2>1 DEF Numbering, MatchingsHold, Live
    <2>3. LinkTo(p, j) \in Numbered(p) /\ NumberAt(p, LinkTo(p, j)) = n
      BY <1>6, <2>1, <2>2 DEF Paired
    <2>4. NumbersApart(p)
      BY <1>2 DEF Matchable
    <2>5. LinkTo(p, j) = c
      BY <1>1, <2>3, <2>4 DEF NumbersApart
    <2>6. Remote(p, LinkTo(p, j)) = j
      <3> HIDE DEF j
      <3>1. j \in Remotes(p)
        BY <1>2, <2>1 DEF Matchable
      <3> QED  BY ONLY <3>1, LinkOfPair
    <2> QED  BY <1>3, <2>1, <2>5, <2>6
  <1> QED  BY <1>1, <1>2, <1>6, <1>8, <1>9, OwnNumber

(* Where no number is left for a pair, every number not written at the two      *)
(* ports has been given to a pair without written numbers; this one is another *)
(* such pair, and in a numbering that solves all of them have numbers that are *)
(* not written at the ports.                                                  *)
LEMMA NeitherRefuses ==
    ASSUME Numbering, Given, NEW i \in pairs, NeitherNumbered(i), stage' = "refused",
           MatchedOnce, Pairable, NEW num, Solves(num)
    PROVE  FALSE
  <1>0. PICK m : m = matching
    OBVIOUS
  <1> DEFINE p == m.p1
             q == m.p2
             s == SideOf[p]
             t == SideOf[q]
             used == UsedAt(p) \cup UsedAt(q)
             n == Lowest(used)
             size == SizeOf[p]
             R == Remotes(p)
             Written(v) == \/ \E c \in At(p) : c.explicit[s] = v
                           \/ \E c \in At(q) : c.explicit[t] = v
             Rest == {v \in 0 .. size - 1 : ~Written(v)}
             Free == {j \in R : /\ LinkTo(p, j).explicit[s] = NoNumber
                                /\ LinkTo(q, j).explicit[t] = NoNumber}
             Done == Free \ pairs
  <1>1. /\ stage = "pairs" /\ Matching /\ PortTypes
        /\ LinkTo(p, i) \notin Numbered(p) /\ LinkTo(q, i) \notin Numbered(q)
        /\ ~(n < size)
    BY <1>0 DEF NeitherNumbered, NextPair, Proceed, Numbering, Matching
  <1>2. /\ m \in OwnMatchings /\ m \notin todo /\ i \in R /\ Left(m) = pairs
        /\ m \in Matchings /\ Matchable(m)
    BY <1>0, <1>1, PairInHand DEF Left
  <1>3. /\ p \in Endpoints /\ q \in Endpoints /\ s \in Sides /\ t \in Sides
        /\ size \in Nat \ {0} /\ SizeOf[q] = size
        /\ p \in {m.p1, m.p2} /\ q \in {m.p1, m.p2}
    BY <1>2, MatchingPorts
  <1>4. 0 .. size - 1 \subseteq used
    <2>1. used \in SUBSET Nat /\ IsFiniteSet(used)
      BY <1>1, <1>3, UsedIsFinite, FS_Union
    <2> HIDE DEF used, size
    <2>2. n \in Nat /\ (0 .. n - 1) \subseteq used
      BY <2>1, LowestIsFree
    <2> HIDE DEF n
    <2> QED  BY <1>1, <1>3, <2>2
  <1>5. ASSUME NEW r \in {p, q}, NEW c \in At(r), c.explicit[SideOf[r]] # NoNumber,
               c \in Numbered(r)
        PROVE  Written(NumberAt(r, c))
    <2>1. c \in links /\ number[SideOf[r]][c] = c.explicit[SideOf[r]]
      BY <1>3, <1>5 DEF Numbering, Kept, At
    <2>2. NumberAt(r, c) = c.explicit[SideOf[r]]
      BY <2>1 DEF NumberAt
    <2> QED  BY <1>5, <2>2
  <1>6. \A v \in Rest : \E j \in Done : NumberAt(p, LinkTo(p, j)) = v
    <2>1. SUFFICES ASSUME NEW v \in 0 .. size - 1, ~Written(v)
                   PROVE  \E j \in Done : NumberAt(p, LinkTo(p, j)) = v
      OBVIOUS
    <2>2. PICK r \in {p, q} : \E c \in Numbered(r) : NumberAt(r, c) = v
      BY <1>4 DEF UsedAt
    <2>0. PICK c \in Numbered(r) : NumberAt(r, c) = v
      BY <2>2
    <2>3. c \in At(r) /\ v # NoNumber
      BY <2>0 DEF Numbered
    <2>4. ~(NumberAt(r, c) = c.explicit[SideOf[r]])
      BY <2>0, <2>1, <2>3
    <2>5. c \in Matched(r) /\ Remote(r, c) \notin pairs
      BY <1>1, <1>2, <2>2, <2>4, OwnNumber
    <2> DEFINE j == Remote(r, c)
    <2>6. j \in R /\ j \notin pairs /\ c = LinkTo(r, j)
      BY <1>1, <1>2, <2>5, SolvedPairs
    <2>7. Paired(m, j)
      BY <1>1, <1>2, <2>6 DEF Numbering, MatchingsHold, Live
    <2>8. /\ LinkTo(p, j) \in Numbered(p) /\ NumberAt(p, LinkTo(p, j)) = v
          /\ LinkTo(q, j) \in Numbered(q) /\ NumberAt(q, LinkTo(q, j)) = v
      BY <2>0, <2>6, <2>7 DEF Paired
    <2>9. LinkTo(p, j) \in At(p) /\ LinkTo(q, j) \in At(q)
      BY <2>8 DEF Numbered
    <2>10. j \in Free
      <3>1. LinkTo(p, j).explicit[s] = NoNumber
        BY <1>5, <2>1, <2>8, <2>9
      <3>2. LinkTo(q, j).explicit[t] = NoNumber
        BY <1>5, <2>1, <2>8, <2>9
      <3> QED  BY <2>6, <3>1, <3>2
    <2> QED  BY <2>6, <2>8, <2>10
  <1>7. ASSUME NEW j \in Free PROVE num[s][LinkTo(p, j)] \in Rest
    <2> DEFINE v == num[s][LinkTo(p, j)]
    <2>1. /\ j \in R /\ LinkTo(p, j) \in Chosen(p) /\ LinkTo(q, j) \in Chosen(q)
          /\ LinkTo(p, j) \in At(p)
      BY <1>1, <1>2, <1>3, SolvedPairs
    <2>2. v = num[t][LinkTo(q, j)]
      BY <1>1, <1>2, <2>1, SolvedPairs
    <2>3. v \in 0 .. size - 1 /\ v # NoNumber
      BY <1>1, <1>2, <2>1, SolvedPairs, PortAssumption
    <2>4. ASSUME NEW c \in At(p), c.explicit[s] = v PROVE FALSE
      <3>1. num[s][c] = v /\ c \in Chosen(p)
        BY <1>1, <1>2, <1>3, <2>3, <2>4, SolvedPairs
      <3>2. c = LinkTo(p, j)
        BY <1>2, <1>3, <2>1, <3>1, SolvedApart
      <3> QED  BY <2>3, <2>4, <3>2
    <2>5. ASSUME NEW c \in At(q), c.explicit[t] = v PROVE FALSE
      <3>1. num[t][c] = v /\ c \in Chosen(q)
        BY <1>1, <1>2, <1>3, <2>3, <2>5, SolvedPairs
      <3>2. c = LinkTo(q, j)
        BY <1>2, <1>3, <2>1, <2>2, <3>1, SolvedApart
      <3> QED  BY <2>3, <2>5, <3>2
    <2> QED  BY <2>3, <2>4, <2>5
  <1>8. ASSUME NEW j \in Free, NEW k \in Free, num[s][LinkTo(p, j)] = num[s][LinkTo(p, k)]
        PROVE  j = k
    <2>1. \A l \in {j, k} : LinkTo(p, l) \in Chosen(p) /\ Remote(p, LinkTo(p, l)) = l
      BY <1>1, <1>2, <1>3, SolvedPairs
    <2>2. LinkTo(p, j) = LinkTo(p, k)
      BY <1>2, <1>3, <1>8, <2>1, SolvedApart
    <2> QED  BY <2>1, <2>2
  <1>9. i \in Free
    <2>1. \A r \in {p, q} : LinkTo(r, i) \in At(r)
      BY <1>1, <1>2, <1>3, SolvedPairs
    <2>2. ASSUME NEW r \in {p, q}, LinkTo(r, i).explicit[SideOf[r]] # NoNumber PROVE FALSE
      <3>1. LinkTo(r, i) \in links /\ SideOf[r] \in Sides
        BY <1>3, <2>1 DEF At
      <3>2. number[SideOf[r]][LinkTo(r, i)] = LinkTo(r, i).explicit[SideOf[r]]
        BY <2>2, <3>1 DEF Numbering, Kept
      <3> QED  BY <1>1, <2>1, <2>2, <3>2 DEF Numbered, NumberAt
    <2> QED  BY <1>2, <2>2
  <1> DEFINE f == [j \in Free |-> num[s][LinkTo(p, j)]]
             h == [v \in Rest |-> CHOOSE j \in Done : NumberAt(p, LinkTo(p, j)) = v]
             g == [j \in Done |-> NumberAt(p, LinkTo(p, j))]
  <1>10. f \in [Free -> Rest] /\ \A j, k \in Free : f[j] = f[k] => j = k
    BY <1>7, <1>8
  <1>11. h \in [Rest -> Done] /\ \A v, w \in Rest : h[v] = h[w] => v = w
    <2>1. \A v \in Rest : h[v] \in Done /\ g[h[v]] = v
      BY <1>6
    <2> HIDE DEF g, Rest, Done
    <2> QED  BY <2>1
  <1>12. IsFiniteSet(Rest)
    <2>1. IsFiniteSet(used)
      BY <1>1, <1>3, UsedIsFinite, FS_Union
    <2>2. Rest \subseteq used
      BY <1>4
    <2> QED  BY <2>1, <2>2, FS_Subset
  <1>13. Done \subseteq Free \ {i}
    OBVIOUS
  <1> HIDE DEF f, h, Rest, Free, Done
  <1>14. IsFiniteSet(Free) /\ Cardinality(Free) <= Cardinality(Rest)
    <2>1. f \in Injection(Free, Rest)
      BY <1>10 DEF Injection, IsInjective
    <2> QED  BY <1>12, <2>1, FS_Injection
  <1>15. /\ IsFiniteSet(Free \ {i}) /\ Cardinality(Free \ {i}) = Cardinality(Free) - 1
         /\ IsFiniteSet(Done) /\ Cardinality(Done) <= Cardinality(Free \ {i})
    <2>1. IsFiniteSet(Free \ {i}) /\ Cardinality(Free \ {i}) = Cardinality(Free) - 1
      BY <1>9, <1>14, FS_RemoveElement
    <2> QED  BY <1>13, <2>1, FS_Subset
  <1>16. Cardinality(Rest) <= Cardinality(Done)
    <2>1. h \in Injection(Rest, Done)
      BY <1>11 DEF Injection, IsInjective
    <2> QED  BY <1>15, <2>1, FS_Injection
  <1>17. /\ Cardinality(Free) \in Nat /\ Cardinality(Rest) \in Nat /\ Cardinality(Done) \in Nat
    BY <1>12, <1>14, <1>15, FS_CardinalityType
  <1> QED  BY <1>14, <1>15, <1>16, <1>17

(* Whichever step refuses, there was no such numbering.                       *)
LEMMA RefusedKeeps ==
    Numbering /\ Given /\ RefusedHasNone /\ [NumberingNext]_pnVars => RefusedHasNone'
  <1> SUFFICES ASSUME Numbering, Given, RefusedHasNone, [NumberingNext]_pnVars,
                      stage' = "refused", (MatchedOnce /\ Pairable)',
                      NEW num \in [Sides -> [links' -> 0 .. LastNumber]],
                      Solves(num)'
               PROVE  FALSE
    BY DEF RefusedHasNone
  <1>1. links' = links /\ instances' = instances /\ ~EndNumbering /\ ~BeginAny
    BY DEF NumberingNext, NumberingStep, pnVars, BeginAny, BeginNumbering, CheckLinks,
           StartMatching, NumberPair, BothNumbered, OneNumbered, NeitherNumbered, NextPair,
           EndMatching, EndMatchings, NumberOutput, NumberInputs, EndNumbering
  <1>2. /\ OwnMatchings' = OwnMatchings
        /\ \A p : /\ At(p)' = At(p) /\ Matched(p)' = Matched(p) /\ Remotes(p)' = Remotes(p)
                  /\ RemotesApart(p)' = RemotesApart(p) /\ Chosen(p)' = Chosen(p)
    BY <1>1, SameLinks DEF OwnMatchings, Chosen
  <1>3. MatchedOnce /\ Pairable
    BY <1>1, <1>2 DEF MatchedOnce, Pairable, Inside, UnmatchedFit
  <1>4. Solves(num)
    <2>1. InRange(num)' = InRange(num) /\ Kept(num)' = Kept(num)
      BY <1>1 DEF InRange, Inside, Kept
    <2>2. OutputsApart(num)' = OutputsApart(num)
      BY <1>1, <1>2 DEF OutputsApart, Apart
    <2>3. MatchedApart(num)' = MatchedApart(num)
      BY <1>2 DEF MatchedApart, Apart
    <2>4. PairsAgree(num)' = PairsAgree(num)
      BY <1>2 DEF PairsAgree, Remote, OtherEnd
    <2> QED  BY <2>1, <2>2, <2>3, <2>4 DEF Solves
  <1>5. stage # "refused"
    BY <1>1, <1>3, <1>4 DEF RefusedHasNone
  <1>6. ~CheckLinks
    BY <1>3, <1>4, ChecksRefuse
  <1>7. \A m \in todo : ~StartMatching(m)
    BY <1>3, <1>4, StartRefuses
  <1>8. \A i \in pairs : ~NumberPair(i)
    <2>1. SUFFICES ASSUME NEW i \in pairs, NumberPair(i) PROVE FALSE
      OBVIOUS
    <2>2. PICK m : m = matching
      OBVIOUS
    <2>3. ~BothNumbered(i) /\ ~NeitherNumbered(i)
      BY <1>3, <1>4, BothRefuse, NeitherRefuses
    <2>4. ~OneNumbered(i, m.p1, m.p2) /\ ~OneNumbered(i, m.p2, m.p1)
      BY <1>3, <1>4, <2>2, OneRefuses
    <2> QED  BY <2>1, <2>2, <2>3, <2>4 DEF NumberPair
  <1>9. ~EndMatching /\ ~EndMatchings /\ ~NumberInputs /\ \A c \in links : ~NumberOutput(c)
    BY DEF EndMatching, EndMatchings, NumberInputs, NumberOutput
  <1> QED
    BY <1>1, <1>5, <1>6, <1>7, <1>8, <1>9 DEF NumberingNext, NumberingStep, pnVars

(* Whatever the components and connections, where no port is in two matchings   *)
(* and the connections pair, a topology is refused only if it has no numbering: *)
(* taking the lowest free number never spoils a later pair                      *)
(* (matched_port_numbering::run).                                             *)
THEOREM RefusalsAreJustified == NumberingSpec => []RefusedHasNone
  <1>1. NumberingInit => RefusedHasNone
    BY DEF NumberingInit, RefusedHasNone
  <1> QED
    BY <1>1, NumberingInvariant, GivenStart, GivenKeeps, RefusedKeeps, PTL DEF NumberingSpec

-----------------------------------------------------------------------------
(* Topologies.  What r takes over from the topologies it imports, and the      *)
(* places of what is written in t.                                            *)
Imports(r) ==
    {c \in UNION {tops[s].local : s \in r.imported} :
        \A s \in Sides : InstanceAt(c.end[s]) \in r.instances}
Places(t) == {x.loc : x \in Def(t).connections \cup Def(t).patterns}

(* What can be said of every topology, with or without errors.                 *)
Entry(t, r) ==
    /\ r.name = t /\ t \in Names
    /\ r.imported \subseteq DOMAIN tops
    /\ r.instances \subseteq Instances \cup Names
    /\ IsFiniteSet(r.local) /\ r.local \subseteq Connections
    /\ \A c \in r.local : c.loc \in Places(t)
    /\ \A a \in DOMAIN r.ports :
          /\ a \in Endpoints /\ TopologyOf[a] = t /\ r.under[a] \in Endpoints
          /\ SideOf[r.under[a]] = SideOf[a] /\ SizeOf[a] <= SizeOf[r.under[a]]

(* Without errors, a topology has all that takes part in those it imports, ... *)
Sound(t, r) ==
    /\ r.ports = Def(t).ports
    /\ Def(t).imports \subseteq r.imported
    /\ \A s \in r.imported : /\ Def(s).imports \subseteq r.imported
                             /\ tops[s].imported \subseteq r.imported
                             /\ tops[s].instances \subseteq r.instances
    /\ r.instances \ Instances \subseteq r.imported
    /\ \A c \in Def(t).connections, s \in Sides : Known(c.end[s])

(* ... its ports and connections are those of its component instances, and     *)
(* there is one for each that is written, ...                                 *)
AtHome(e, r) == e \in Ports /\ InstanceOf[e] \in r.instances
Resolved(t, r) ==
    /\ \A a \in DOMAIN r.ports : AtHome(r.under[a], r)
    /\ \A c \in r.local, s \in Sides : AtHome(c.end[s], r)
    /\ \A c \in Def(t).connections : FlatLink(c) \in r.local

(* ... and for each that a pattern asks for.                                  *)
Wiring(r, ps) ==
    \A p \in ps : \A w \in Wired(p, r.instances) :
        \E c \in r.local \cup Imports(r) : c.end = w.end
Entered(t, r) == Sound(t, r) /\ Resolved(t, r) /\ Wiring(r, Def(t).patterns)

(* The topology under construction; e says whether there has been an error.     *)
Fields == {"name", "next", "imported", "instances", "ports", "under",
           "local", "links", "patterns", "unconnected"}
Once(r) ==
    \A p \in Def(r.name).patterns : \A c, d \in r.links :
        c.loc = p.loc /\ c.end = d.end => c = d
Checking(r, e) ==
    /\ r.patterns = Def(r.name).patterns
    /\ r.local \subseteq Def(r.name).connections
    /\ \A a \in DOMAIN r.ports :
          Known(r.ports[a]) /\ r.under[a] = Underlying(r.ports[a])
    /\ ~e => r.local = Def(r.name).connections
Linked(r, e) ==
    /\ r.links = r.local \cup Imports(r) /\ Once(r)
    /\ ~e => /\ Resolved(r.name, r)
             /\ Wiring(r, Def(r.name).patterns \ r.patterns)
Constructing(r, e) ==
    /\ DOMAIN r = Fields
    /\ r.name \notin DOMAIN tops /\ Entry(r.name, r)
    /\ r.patterns \subseteq Def(r.name).patterns
    /\ ~e => Sound(r.name, r)
    /\ (r.next = "check" /\ Checking(r, e)) \/ (r.next = "patterns" /\ Linked(r, e))

Building ==
    /\ LegalDesign(design)
    /\ erred \in BOOLEAN
    /\ DOMAIN tops \subseteq Names
    /\ \A t \in DOMAIN tops : Entry(t, tops[t])
    /\ ~erred => \A t \in DOMAIN tops : Entered(t, tops[t])
    /\ top # NoTop => Constructing(top, erred)
    /\ stage # "idle" =>
          /\ top # NoTop /\ top.next = "patterns" /\ top.patterns = {}
          /\ links = top.links /\ instances = Components(top.instances)

-----------------------------------------------------------------------------
(* Entering a topology leaves those that were there.                           *)
LEMMA EnterFacts ==
    ASSUME NEW r, NEW err, EnterAs(r, err), r.name \notin DOMAIN tops
    PROVE  /\ top' = NoTop /\ erred' = (erred \/ err)
           /\ DOMAIN tops' = DOMAIN tops \cup {r.name}
           /\ tops'[r.name] = r
           /\ \A s \in DOMAIN tops : tops'[s] = tops[s]
  BY DEF EnterAs

(* The way down from an endpoint leads to one that suits it as well.           *)
LEMMA UnderlyingFits ==
    ASSUME \A t \in DOMAIN tops : Entry(t, tops[t]), NEW e \in Endpoints
    PROVE  /\ Underlying(e) \in Endpoints
           /\ SideOf[Underlying(e)] = SideOf[e]
           /\ SizeOf[e] <= SizeOf[Underlying(e)]
  <1>1. SizeOf[e] \in Nat
    BY PortAssumption
  <1>2. CASE e \in Ports \/ ~Known(e)
    BY <1>1, <1>2 DEF Underlying
  <1>3. CASE e \notin Ports /\ Known(e)
    <2>1. PICK u : u = TopologyOf[e]
      OBVIOUS
    <2>2. u \in DOMAIN tops /\ e \in DOMAIN tops[u].ports /\ Underlying(e) = tops[u].under[e]
      BY <1>3, <2>1 DEF Known, Underlying
    <2>3. Entry(u, tops[u])
      BY <2>2
    <2> QED  BY <2>2, <2>3 DEF Entry
  <1> QED  BY <1>2, <1>3

(* A connection stays legal when its ends are followed down.                  *)
LEMMA FlatLinkFits ==
    ASSUME \A t \in DOMAIN tops : Entry(t, tops[t]), NEW c \in Connections
    PROVE  /\ FlatLink(c) \in Connections /\ FlatLink(c).loc = c.loc
           /\ \A s \in Sides : FlatLink(c).end[s] = Underlying(c.end[s])
  <1>1. /\ c \in [end : [Sides -> Endpoints], explicit : [Sides -> NumberOption],
                  unmatched : BOOLEAN, loc : Nat]
        /\ LegalLink(c)
    BY DEF Connections
  <1> DEFINE ends == [s \in Sides |-> Underlying(c.end[s])]
             d == FlatLink(c)
  <1>2. ends \in [Sides -> Endpoints]
    BY <1>1, UnderlyingFits
  <1>3. d = [c EXCEPT !.end = ends]
    BY DEF FlatLink
  <1>4. \A s \in Sides : ends[s] = Underlying(c.end[s])
    OBVIOUS
  <1> HIDE DEF ends, d
  <1>5. /\ d \in [end : [Sides -> Endpoints], explicit : [Sides -> NumberOption],
                  unmatched : BOOLEAN, loc : Nat]
        /\ d.end = ends /\ d.explicit = c.explicit /\ d.unmatched = c.unmatched
        /\ d.loc = c.loc
    BY <1>1, <1>2, <1>3
  <1>6. ASSUME NEW s \in Sides
        PROVE  /\ SideOf[d.end[s]] = s
               /\ d.explicit[s] # NoNumber => d.explicit[s] < SizeOf[d.end[s]]
    <2>1. PICK e \in Endpoints : e = c.end[s]
      BY <1>1
    <2>2. /\ SideOf[e] = s
          /\ c.explicit[s] # NoNumber => c.explicit[s] < SizeOf[e]
          /\ c.explicit[s] \in NumberOption
      BY <1>1, <2>1 DEF LegalLink
    <2>3. d.end[s] = Underlying(e) /\ d.explicit[s] = c.explicit[s]
      BY <1>4, <1>5, <2>1
    <2>4. /\ Underlying(e) \in Endpoints /\ SideOf[Underlying(e)] = SideOf[e]
          /\ SizeOf[e] <= SizeOf[Underlying(e)]
      BY UnderlyingFits
    <2>5. SizeOf[e] \in Nat /\ SizeOf[Underlying(e)] \in Nat
      BY <2>4, PortAssumption
    <2> QED  BY <2>2, <2>3, <2>4, <2>5 DEF NumberOption
  <1>7. LegalLink(d)
    BY <1>5, <1>6 DEF LegalLink
  <1> QED  BY <1>4, <1>5, <1>7 DEF Connections, d

(* Once entered, a topology is as it is: what is said of others by way of it    *)
(* stays true.                                                                *)
Grows ==
    /\ design' = design
    /\ DOMAIN tops \subseteq DOMAIN tops'
    /\ \A s \in DOMAIN tops : tops'[s] = tops[s]

(* A port that is known stays known, and stands for the same port.            *)
LEMMA GrowsKnown ==
    ASSUME Grows, NEW e, Known(e)
    PROVE  Known(e)' /\ Underlying(e)' = Underlying(e)
  BY DEF Grows, Known, Underlying

(* What is taken over stays.                                                  *)
LEMMA GrowsImports ==
    ASSUME Grows, NEW r, r.imported \subseteq DOMAIN tops
    PROVE  Imports(r)' = Imports(r)
  <1>1. \A s \in r.imported : tops'[s] = tops[s]
    BY DEF Grows
  <1>2. UNION {tops'[s].local : s \in r.imported} = UNION {tops[s].local : s \in r.imported}
    BY <1>1
  <1> QED  BY <1>2 DEF Imports

(* What is said of a topology, alone or by way of those it imports, stays true: *)
(* that it is well formed, ...                                                *)
LEMMA GrowsEntry ==
    ASSUME Grows, NEW t, NEW r, Entry(t, r)
    PROVE  Entry(t, r)'
  BY DEF Grows, Entry, Places, Def, Names

(* ... that it has all that takes part in its imports, ...                    *)
LEMMA GrowsSound ==
    ASSUME Grows, NEW t, NEW r, Entry(t, r), Sound(t, r)
    PROVE  Sound(t, r)'
  <1>1. \A s \in r.imported : tops'[s] = tops[s]
    BY DEF Grows, Entry
  <1>2. \A c \in Def(t).connections, s \in Sides : Known(c.end[s])'
    BY GrowsKnown DEF Sound
  <1> QED  BY <1>1, <1>2 DEF Grows, Sound, Def

(* ... that its connections are resolved, ...                                 *)
LEMMA GrowsResolved ==
    ASSUME Grows, NEW t, NEW r, Sound(t, r), Resolved(t, r)
    PROVE  Resolved(t, r)'
  <1>1. ASSUME NEW c \in Def(t).connections PROVE FlatLink(c)' = FlatLink(c)
    <2>1. \A s \in Sides : Underlying(c.end[s])' = Underlying(c.end[s])
      BY GrowsKnown DEF Sound
    <2>2. [s \in Sides |-> Underlying(c.end[s])'] = [s \in Sides |-> Underlying(c.end[s])]
      BY <2>1
    <2> QED  BY <2>2 DEF FlatLink
  <1>2. Def(t)' = Def(t)
    BY DEF Grows, Def
  <1> QED  BY <1>1, <1>2 DEF Resolved, AtHome

(* ... and that they are all there;                                           *)
LEMMA GrowsEntered ==
    ASSUME Grows, NEW t, NEW r, Entry(t, r), Entered(t, r)
    PROVE  Entered(t, r)'
  <1>1. Sound(t, r)' /\ Resolved(t, r)'
    BY GrowsSound, GrowsResolved DEF Entered
  <1>2. Imports(r)' = Imports(r)
    BY GrowsImports DEF Entry
  <1>3. Def(t)' = Def(t)
    BY DEF Grows, Def
  <1>4. Wiring(r, Def(t).patterns)'
    BY <1>2, <1>3 DEF Entered, Wiring
  <1> QED  BY <1>1, <1>4 DEF Entered

(* so does what is said of the one under construction.                        *)
LEMMA GrowsConstructing ==
    ASSUME Grows, tops' = tops, NEW r, NEW e, Constructing(r, e)
    PROVE  Constructing(r, e)'
  <1>1. Def(r.name)' = Def(r.name) /\ Imports(r)' = Imports(r)
    BY GrowsImports DEF Grows, Def, Constructing, Entry
  <1>2. Entry(r.name, r)' /\ (~e => Sound(r.name, r)')
    BY GrowsEntry, GrowsSound DEF Constructing
  <1>3. CASE r.next = "check" /\ Checking(r, e)
    <2>1. Checking(r, e)'
      BY <1>1, <1>3, GrowsKnown DEF Checking
    <2> QED  BY <1>1, <1>2, <1>3, <2>1 DEF Constructing
  <1>4. CASE r.next = "patterns" /\ Linked(r, e)
    <2>1. ~e => Resolved(r.name, r)'
      BY <1>4, GrowsResolved DEF Constructing, Linked
    <2>2. Linked(r, e)'
      BY <1>1, <1>4, <2>1 DEF Linked, Once, Wiring
    <2> QED  BY <1>1, <1>2, <1>4, <2>2 DEF Constructing
  <1> QED  BY <1>3, <1>4 DEF Constructing

-----------------------------------------------------------------------------
(* The two kinds of steps: one enters a topology, ...                          *)
LEMMA Enters ==
    ASSUME Building, design' = design, stage' = "idle",
           NEW r, NEW err \in BOOLEAN, EnterAs(r, err),
           r.name \notin DOMAIN tops, Entry(r.name, r),
           ~erred /\ ~err => Entered(r.name, r)
    PROVE  Building'
  <1>1. /\ top' = NoTop /\ erred' = (erred \/ err)
        /\ DOMAIN tops' = DOMAIN tops \cup {r.name}
        /\ tops'[r.name] = r
        /\ \A s \in DOMAIN tops : tops'[s] = tops[s]
    BY EnterFacts
  <1>2. Grows
    BY <1>1 DEF Grows
  <1>3. DOMAIN tops' \subseteq Names'
    BY <1>1 DEF Building, Names, Entry
  <1>4. ASSUME NEW t \in DOMAIN tops', NEW q, q = tops'[t]
        PROVE  Entry(t, q)' /\ (~erred' => Entered(t, q)')
    <2>1. CASE t = r.name
      BY <1>1, <1>2, <1>4, <2>1, GrowsEntry, GrowsEntered
    <2>2. CASE t \in DOMAIN tops
      <3>1. Entry(t, q) /\ (~erred => Entered(t, q))
        BY <1>1, <1>4, <2>2 DEF Building
      <3> QED  BY <1>1, <1>2, <3>1, GrowsEntry, GrowsEntered
    <2> QED  BY <1>1, <2>1, <2>2
  <1>5. (\A t \in DOMAIN tops : Entry(t, tops[t]))'
    BY <1>4
  <1>6. (~erred => \A t \in DOMAIN tops : Entered(t, tops[t]))'
    BY <1>4
  <1> QED  BY <1>1, <1>3, <1>5, <1>6 DEF Building

(* ... the others go on with the one under construction.                        *)
LEMMA GoesOn ==
    ASSUME Building, design' = design, tops' = tops,
           NEW r, top' = r, NEW e \in BOOLEAN, erred' = e, erred => e,
           r # NoTop => Constructing(r, e),
           (stage # "idle" =>
               /\ top # NoTop /\ top.next = "patterns" /\ top.patterns = {}
               /\ links = top.links /\ instances = Components(top.instances))'
    PROVE  Building'
  <1>1. Grows
    BY DEF Grows
  <1>2. DOMAIN tops' \subseteq Names' /\ LegalDesign(design')
    BY DEF Building, Names
  <1>3. ASSUME NEW t \in DOMAIN tops', NEW q, q = tops'[t]
        PROVE  Entry(t, q)' /\ (~erred' => Entered(t, q)')
    <2>1. Entry(t, q) /\ (~erred => Entered(t, q))
      BY <1>3 DEF Building
    <2> QED  BY <1>1, <2>1, GrowsEntry, GrowsEntered
  <1>4. (\A t \in DOMAIN tops : Entry(t, tops[t]))'
    BY <1>3
  <1>5. (~erred => \A t \in DOMAIN tops : Entered(t, tops[t]))'
    BY <1>3
  <1>6. r # NoTop => Constructing(r, e)'
    BY <1>1, GrowsConstructing
  <1>7. (top # NoTop => Constructing(top, erred))'
    BY <1>6
  <1> QED  BY <1>2, <1>4, <1>5, <1>7 DEF Building

-----------------------------------------------------------------------------
(* What is read off the definitions, and off the topologies that are entered.   *)
LEMMA DesignFacts ==
    ASSUME LegalDesign(design), NEW t \in Names
    PROVE  /\ Def(t).imports \subseteq Names /\ Def(t).instances \subseteq Instances
           /\ t \notin Instances
           /\ IsFiniteSet(Def(t).connections) /\ Def(t).connections \subseteq Connections
           /\ LegalPorts(t, Def(t).ports)
           /\ \A p \in Def(t).patterns :
                 /\ LegalPattern(p)
                 /\ \A s \in Names : /\ \A c \in Def(s).connections : c.loc # p.loc
                                     /\ s # t => \A q \in Def(s).patterns : q.loc # p.loc
  BY DEF LegalDesign, Names, Def

(* A topology that is begun is well formed.                                   *)
LEMMA FreshEntry ==
    ASSUME Building, NEW t \in Names, NEW imported \in SUBSET DOMAIN tops,
           NEW is \in SUBSET (Instances \cup Names), NEW ps,
           \A a \in DOMAIN ps : a \in DOMAIN Def(t).ports /\ ps[a] = Def(t).ports[a]
    PROVE  Entry(t, Fresh(t, imported, is, ps))
  <1>1. PICK r : r = Fresh(t, imported, is, ps)
    OBVIOUS
  <1>2. /\ r.name = t /\ r.imported = imported /\ r.instances = is /\ r.ports = ps
        /\ r.under = [a \in DOMAIN ps |-> Underlying(ps[a])]
        /\ r.local = KnownLinks(t)
    BY <1>1 DEF Fresh
  <1>3. KnownLinks(t) \subseteq Def(t).connections
    BY DEF KnownLinks
  <1>4. IsFiniteSet(KnownLinks(t)) /\ KnownLinks(t) \subseteq Connections
    BY <1>3, DesignFacts, FS_Subset DEF Building
  <1>5. \A c \in KnownLinks(t) : c.loc \in Places(t)
    BY <1>3 DEF Places
  <1>6. ASSUME NEW a \in DOMAIN ps
        PROVE  /\ a \in Endpoints /\ TopologyOf[a] = t /\ r.under[a] \in Endpoints
               /\ SideOf[r.under[a]] = SideOf[a] /\ SizeOf[a] <= SizeOf[r.under[a]]
    <2>1. PICK e : e = ps[a]
      OBVIOUS
    <2>2. /\ a \in Endpoints /\ TopologyOf[a] = t /\ e \in Endpoints
          /\ SideOf[a] = SideOf[e] /\ SizeOf[a] <= SizeOf[e]
      BY <2>1, DesignFacts DEF Building, LegalPorts
    <2>3. /\ Underlying(e) \in Endpoints /\ SideOf[Underlying(e)] = SideOf[e]
          /\ SizeOf[e] <= SizeOf[Underlying(e)]
      BY <2>2, UnderlyingFits DEF Building
    <2>4. r.under[a] = Underlying(e)
      BY <1>2, <2>1
    <2>5. SizeOf[a] \in Nat /\ SizeOf[e] \in Nat /\ SizeOf[Underlying(e)] \in Nat
      BY <2>2, <2>3, PortAssumption
    <2> QED  BY <2>2, <2>3, <2>4, <2>5
  <1>7. Entry(t, r)
    BY <1>2, <1>4, <1>5, <1>6 DEF Entry
  <1> QED  BY <1>1, <1>7

(* Without errors the way down ends at a component instance of the topology.    *)
LEMMA UnderlyingIsAtHome ==
    ASSUME LegalDesign(design), DOMAIN tops \subseteq Names,
           \A t \in DOMAIN tops : Entered(t, tops[t]),
           NEW r, Sound(r.name, r), NEW e, Known(e), InstanceAt(e) \in r.instances
    PROVE  AtHome(Underlying(e), r)
  <1>1. CASE e \in Ports
    BY <1>1 DEF Underlying, InstanceAt, AtHome
  <1>2. CASE e \notin Ports
    <2>1. PICK u : u = TopologyOf[e]
      OBVIOUS
    <2>2. /\ u \in DOMAIN tops /\ e \in DOMAIN tops[u].ports
          /\ Underlying(e) = tops[u].under[e] /\ u \in r.instances
      BY <1>2, <2>1 DEF Known, Underlying, InstanceAt
    <2>3. u \in r.imported
      BY <2>2, DesignFacts DEF Sound
    <2>4. tops[u].instances \subseteq r.instances
      BY <2>3 DEF Sound
    <2>5. AtHome(tops[u].under[e], tops[u])
      BY <2>2 DEF Entered, Resolved
    <2> QED  BY <2>2, <2>4, <2>5 DEF AtHome
  <1> QED  BY <1>1, <1>2

(* Sets that are written out are finite.                                      *)
LEMMA SmallSets ==
    ASSUME NEW a, NEW b, NEW c
    PROVE  IsFiniteSet({a}) /\ IsFiniteSet({a, b}) /\ IsFiniteSet({a, b, c})
  <1>1. \A x : IsFiniteSet({x})
    BY FS_Singleton
  <1>2. {a, b} = {a} \cup {b} /\ {a, b, c} = {a, b} \cup {c}
    OBVIOUS
  <1>3. IsFiniteSet({a} \cup {b})
    BY <1>1, FS_Union
  <1>4. IsFiniteSet({a, b} \cup {c})
    BY <1>1, <1>2, <1>3, FS_Union
  <1> QED  BY <1>1, <1>2, <1>3, <1>4

(* A pattern makes a few connections, each from and to its source or a target. *)
LEMMA WiresFacts ==
    ASSUME NEW kind \in DOMAIN Wires
    PROVE  /\ IsFiniteSet(Wires[kind])
           /\ \A w \in Wires[kind] : /\ w.fromPart \in {"source", "target"}
                                     /\ w.toPart \in {"source", "target"}
  <1> DEFINE Fits(W) == /\ IsFiniteSet(W)
                        /\ \A w \in W : /\ w.fromPart \in {"source", "target"}
                                        /\ w.toPart \in {"source", "target"}
             Good(w) == w.fromPart \in {"source", "target"} /\ w.toPart \in {"source", "target"}
  <1>1. ASSUME NEW W, NEW a, NEW b, NEW c, Good(a), Good(b), Good(c),
               W = {a} \/ W = {a, b} \/ W = {a, b, c}
        PROVE  Fits(W)
    <2>1. IsFiniteSet(W)
      <3>1. CASE W = {a}
        BY <3>1, SmallSets
      <3>2. CASE W = {a, b}
        BY <3>2, SmallSets
      <3>3. CASE W = {a, b, c}
        BY <3>3, SmallSets
      <3> QED  BY <1>1, <3>1, <3>2, <3>3
    <2>2. \A w \in W : w = a \/ w = b \/ w = c
      BY <1>1
    <2>3. \A w \in W : Good(w)
      <3> HIDE DEF Good
      <3> QED  BY <1>1, <2>2
    <2> QED  BY <2>1, <2>3 DEF Good
  <1>2. \A f, g : /\ Good(Pipe("source", f, "target", g))
                  /\ Good(Pipe("target", f, "source", g))
    BY DEF Pipe
  <1>3. /\ Wires.command =
              {Pipe("target", "command reg", "source", "command reg in"),
               Pipe("source", "command send", "target", "command recv"),
               Pipe("target", "command resp", "source", "command resp in")}
        /\ Wires.event = {Pipe("target", "event", "source", "event in")}
        /\ Wires.telemetry = {Pipe("target", "telemetry", "source", "telemetry in")}
        /\ Wires.textEvent = {Pipe("target", "text event", "source", "text event in")}
        /\ Wires.time = {Pipe("target", "time get", "source", "time get in")}
        /\ Wires.health = {Pipe("source", "ping out", "target", "ping in"),
                           Pipe("target", "ping out", "source", "ping in")}
        /\ Wires.param = {Pipe("target", "param get", "source", "param get in"),
                          Pipe("target", "param set", "source", "param set in")}
    BY DEF Wires
  <1> HIDE DEF Fits, Good
  <1>4. kind \in {"command", "event", "telemetry", "textEvent", "time", "health", "param"}
    BY DEF Wires
  <1>5. Fits(Wires.command)
    <2>1. PICK a : a = Pipe("target", "command reg", "source", "command reg in")
      OBVIOUS
    <2>2. PICK b : b = Pipe("source", "command send", "target", "command recv")
      OBVIOUS
    <2>3. PICK c : c = Pipe("target", "command resp", "source", "command resp in")
      OBVIOUS
    <2>4. Good(a) /\ Good(b) /\ Good(c)
      BY <2>1, <2>2, <2>3, <1>2
    <2>5. Wires.command = {a, b, c}
      BY <2>1, <2>2, <2>3, <1>3
    <2> QED  BY ONLY <2>4, <2>5, <1>1
  <1>6. Fits(Wires.event)
    <2>1. PICK a : a = Pipe("target", "event", "source", "event in")
      OBVIOUS
    <2>2. Good(a)
      BY <2>1, <1>2
    <2>3. Wires.event = {a}
      BY <2>1, <1>3
    <2> QED  BY ONLY <2>2, <2>3, <1>1
  <1>7. Fits(Wires.telemetry)
    <2>1. PICK a : a = Pipe("target", "telemetry", "source", "telemetry in")
      OBVIOUS
    <2>2. Good(a)
      BY <2>1, <1>2
    <2>3. Wires.telemetry = {a}
      BY <2>1, <1>3
    <2> QED  BY ONLY <2>2, <2>3, <1>1
  <1>8. Fits(Wires.textEvent)
    <2>1. PICK a : a = Pipe("target", "text event", "source", "text event in")
      OBVIOUS
    <2>2. Good(a)
      BY <2>1, <1>2
    <2>3. Wires.textEvent = {a}
      BY <2>1, <1>3
    <2> QED  BY ONLY <2>2, <2>3, <1>1
  <1>9. Fits(Wires.time)
    <2>1. PICK a : a = Pipe("target", "time get", "source", "time get in")
      OBVIOUS
    <2>2. Good(a)
      BY <2>1, <1>2
    <2>3. Wires.time = {a}
      BY <2>1, <1>3
    <2> QED  BY ONLY <2>2, <2>3, <1>1
  <1>10. Fits(Wires.health)
    <2>1. PICK a : a = Pipe("source", "ping out", "target", "ping in")
      OBVIOUS
    <2>2. PICK b : b = Pipe("target", "ping out", "source", "ping in")
      OBVIOUS
    <2>3. Good(a) /\ Good(b)
      BY <2>1, <2>2, <1>2
    <2>4. Wires.health = {a, b}
      BY <2>1, <2>2, <1>3
    <2> QED  BY ONLY <2>3, <2>4, <1>1
  <1>11. Fits(Wires.param)
    <2>1. PICK a : a = Pipe("target", "param get", "source", "param get in")
      OBVIOUS
    <2>2. PICK b : b = Pipe("target", "param set", "source", "param set in")
      OBVIOUS
    <2>3. Good(a) /\ Good(b)
      BY <2>1, <2>2, <1>2
    <2>4. Wires.param = {a, b}
      BY <2>1, <2>2, <1>3
    <2> QED  BY ONLY <2>3, <2>4, <1>1
  <1>12. Fits(Wires[kind])
    BY <1>4, <1>5, <1>6, <1>7, <1>8, <1>9, <1>10, <1>11
  <1> QED  BY <1>12 DEF Fits, Good

(* The images of the elements of a finite set are finitely many.               *)
LEMMA Images ==
    ASSUME NEW S, IsFiniteSet(S), NEW f, DOMAIN f = S,
           NEW T, \A y \in T : \E x \in S : y = f[x]
    PROVE  IsFiniteSet(T)
  <1> DEFINE U == {f[x] : x \in S}
             g == [x \in S |-> f[x]]
  <1>1. g \in Surjection(S, U)
    BY DEF Surjection
  <1>2. T \subseteq U
    OBVIOUS
  <1> HIDE DEF U, g
  <1>3. IsFiniteSet(U)
    BY <1>1, FS_Surjection
  <1> QED  BY <1>2, <1>3, FS_Subset

(* A connection of a pattern is between ports of the source and a target, ...   *)
LEMMA WireFits ==
    ASSUME NEW p, LegalPattern(p), NEW i \in Instances, NEW w \in Wires[p.kind],
           CanBe(p.source, "source", p.kind), CanBe(i, "target", p.kind)
    PROVE  /\ Wire(p, i, w) \in Connections /\ Wire(p, i, w).loc = p.loc
           /\ \A s \in Sides : /\ Wire(p, i, w).end[s] \in Ports
                               /\ InstanceOf[Wire(p, i, w).end[s]] \in {p.source, i}
  <1>1. p.kind \in DOMAIN Wires /\ p.loc \in Nat /\ p.source \in Instances
    BY DEF LegalPattern
  <1>2. /\ w.fromPart \in {"source", "target"}
        /\ w.toPart \in {"source", "target"}
    BY <1>1, WiresFacts
  <1>3. PICK a : a = IF w.fromPart = "source" THEN p.source ELSE i
    OBVIOUS
  <1>4. PICK b : b = IF w.toPart = "source" THEN p.source ELSE i
    OBVIOUS
  <1>5. /\ a \in Instances /\ b \in Instances
        /\ a \in {p.source, i} /\ b \in {p.source, i}
    BY <1>1, <1>3, <1>4
  <1>6. Plays(a, w.from)
    BY <1>2, <1>3 DEF CanBe
  <1>7. Plays(b, w.to)
    BY <1>2, <1>4 DEF CanBe
  <1>8. Playing(a, w.from) \in PortsOfKind[a][w.from]
    BY <1>6, FS_EmptySet DEF Plays, Playing
  <1>9. Playing(b, w.to) \in PortsOfKind[b][w.to]
    BY <1>7, FS_EmptySet DEF Plays, Playing
  <1>10. PICK x : x = Playing(a, w.from)
    OBVIOUS
  <1>11. PICK y : y = Playing(b, w.to)
    OBVIOUS
  <1>12. x \in Ports /\ InstanceOf[x] = a /\ SideOf[x] = "from"
    BY <1>1, <1>5, <1>8, <1>10, TopologyAssumption
  <1>13. y \in Ports /\ InstanceOf[y] = b /\ SideOf[y] = "to"
    BY <1>1, <1>5, <1>9, <1>11, TopologyAssumption
  <1>14. PICK c : c = Wire(p, i, w)
    OBVIOUS
  <1> DEFINE ends == [s \in Sides |-> IF s = "from" THEN x ELSE y]
             none == [s \in Sides |-> NoNumber]
  <1>15. c = [end |-> ends, explicit |-> none, unmatched |-> FALSE, loc |-> p.loc]
    BY <1>3, <1>4, <1>10, <1>11, <1>14 DEF Wire
  <1>16. ends \in [Sides -> Endpoints] /\ none \in [Sides -> NumberOption]
    BY <1>12, <1>13, PortAssumption DEF NumberOption
  <1>17. \A s \in Sides : /\ ends[s] \in Ports /\ InstanceOf[ends[s]] \in {p.source, i}
                          /\ SideOf[ends[s]] = s /\ none[s] = NoNumber
    BY <1>5, <1>12, <1>13 DEF Sides
  <1> HIDE DEF ends, none
  <1>18. /\ c \in [end : [Sides -> Endpoints], explicit : [Sides -> NumberOption],
                   unmatched : BOOLEAN, loc : Nat]
         /\ c.end = ends /\ c.explicit = none /\ c.unmatched = FALSE /\ c.loc = p.loc
    BY <1>1, <1>15, <1>16
  <1>19. LegalLink(c)
    BY <1>17, <1>18, <1>16 DEF LegalLink
  <1>20. c \in Connections
    BY <1>18, <1>19 DEF Connections
  <1> QED  BY <1>14, <1>17, <1>18, <1>20

(* ... and it is the only one of the pattern between the two.                   *)
LEMMA WiredFits ==
    ASSUME NEW p, LegalPattern(p), NEW is, {p.source} \cup p.targets \subseteq is,
           CanBe(p.source, "source", p.kind),
           \A i \in p.targets : CanBe(i, "target", p.kind)
    PROVE  /\ IsFiniteSet(Wired(p, is))
           /\ \A c \in Wired(p, is) :
                 /\ c \in Connections /\ c.loc = p.loc
                 /\ \A s \in Sides : c.end[s] \in Ports /\ InstanceOf[c.end[s]] \in is
           /\ \A c, d \in Wired(p, is) : c.end = d.end => c = d
  <1>1. /\ p.kind \in DOMAIN Wires /\ p.source \in Instances
        /\ p.targets \subseteq Instances
    BY DEF LegalPattern
  <1>2. \A i \in Targets(p, is) :
           i \in Instances /\ i \in is /\ CanBe(i, "target", p.kind)
    BY <1>1 DEF Targets, Components
  <1> DEFINE V == {v \in Targets(p, is) \X Wires[p.kind] : p.kind = "health" => v[1] # p.source}
             f == [v \in V |-> Wire(p, v[1], v[2])]
  <1>3. IsFiniteSet(Targets(p, is)) /\ IsFiniteSet(Wires[p.kind])
    BY <1>1, <1>2, TopologyAssumption, FS_Subset, WiresFacts
  <1>4. IsFiniteSet(Targets(p, is) \X Wires[p.kind])
    BY <1>3, FS_Product
  <1>5. IsFiniteSet(V)
    BY <1>4, FS_Subset
  <1>6. DOMAIN f = V /\ \A c \in Wired(p, is) : \E v \in V : c = f[v]
    BY DEF Wired
  <1>7. IsFiniteSet(Wired(p, is))
    <2> HIDE DEF V, f
    <2> QED  BY <1>5, <1>6, Images
  <1>8. ASSUME NEW c \in Wired(p, is)
        PROVE  \E i \in Targets(p, is), w \in Wires[p.kind] : c = Wire(p, i, w)
    BY DEF Wired
  <1>9. ASSUME NEW c \in Wired(p, is)
        PROVE  /\ c \in Connections /\ c.loc = p.loc
               /\ \A s \in Sides : c.end[s] \in Ports /\ InstanceOf[c.end[s]] \in is
    <2>1. PICK i \in Targets(p, is), w \in Wires[p.kind] : c = Wire(p, i, w)
      BY <1>8
    <2> QED  BY <1>2, <2>1, WireFits
  <1>10. ASSUME NEW c \in Wired(p, is)
         PROVE  c = [end |-> c.end, explicit |-> [s \in Sides |-> NoNumber],
                     unmatched |-> FALSE, loc |-> p.loc]
    <2>1. PICK i \in Targets(p, is), w \in Wires[p.kind] : c = Wire(p, i, w)
      BY <1>8
    <2>2. PICK e : c = [end |-> e, explicit |-> [s \in Sides |-> NoNumber],
                        unmatched |-> FALSE, loc |-> p.loc]
      BY <2>1, Zenon DEF Wire
    <2> QED  BY <2>2
  <1>11. \A c, d \in Wired(p, is) : c.end = d.end => c = d
    BY <1>10
  <1> QED  BY <1>7, <1>9, <1>11

-----------------------------------------------------------------------------
(* The steps.                                                                 *)
LEMMA BuildingStart == TopologiesInit => Building
  BY DEF TopologiesInit, TopologiesStart, NumberingInit, Building

(* A topology that is begun has what its imports have, which have what theirs *)
(* have.                                                                      *)
LEMMA EnterKeeps ==
    ASSUME Building, NEW t \in Names, EnterTopology(t)
    PROVE  Building'
  <1>1. /\ top = NoTop /\ stage = "idle" /\ t \notin DOMAIN tops
        /\ Def(t).imports \subseteq DOMAIN tops
        /\ KnownPorts(t) = Def(t).ports
        /\ UNCHANGED <<design, tops, pnVars>>
    BY DEF EnterTopology, Begin, Idle
  <1>2. PICK r : r = Fresh(t, TransitiveImports(t), AllInstances(t), Def(t).ports)
    OBVIOUS
  <1>3. PICK e \in BOOLEAN : e = (erred \/ LinkError(t))
    BY DEF LinkError, Building
  <1>4. top' = r /\ erred' = e /\ (erred => e)
    BY <1>2, <1>3 DEF EnterTopology, Building
  <1>5. /\ DOMAIN r = Fields
        /\ r.name = t /\ r.next = "check"
        /\ r.imported = TransitiveImports(t) /\ r.instances = AllInstances(t)
        /\ r.ports = Def(t).ports /\ r.patterns = Def(t).patterns
        /\ r.under = [a \in DOMAIN Def(t).ports |-> Underlying(Def(t).ports[a])]
        /\ r.local = KnownLinks(t)
    BY <1>2 DEF Fresh, Fields
  <1>6. \A s \in DOMAIN tops : Entry(s, tops[s])
    BY DEF Building
  <1>7. /\ Def(t).imports \subseteq Names /\ Def(t).instances \subseteq Instances
    BY DesignFacts DEF Building
  <1>8. TransitiveImports(t) \subseteq DOMAIN tops
    BY <1>1, <1>6 DEF TransitiveImports, Entry
  <1>9. AllInstances(t) \subseteq Instances \cup Names
    BY <1>1, <1>6, <1>7 DEF AllInstances, OwnInstances, Entry
  <1>10. Entry(t, r)
    BY <1>2, <1>8, <1>9, FreshEntry
  <1>11. ASSUME ~e PROVE Sound(t, r)
    <2>1. \A s \in DOMAIN tops : Sound(s, tops[s])
      BY <1>3, <1>11 DEF Building, Entered
    <2>2. ASSUME NEW s \in r.imported
          PROVE  /\ Def(s).imports \subseteq r.imported
                 /\ tops[s].imported \subseteq r.imported
                 /\ tops[s].instances \subseteq r.instances
      <3>1. CASE s \in Def(t).imports
        <4>1. Sound(s, tops[s])
          BY <1>1, <2>1, <3>1
        <4>2. tops[s].imported \subseteq r.imported
          BY <1>5, <3>1 DEF TransitiveImports
        <4>3. tops[s].instances \subseteq r.instances
          BY <1>5, <3>1 DEF AllInstances
        <4> QED  BY <4>1, <4>2, <4>3 DEF Sound
      <3>2. CASE \E u \in Def(t).imports : s \in tops[u].imported
        <4>1. PICK u \in Def(t).imports : s \in tops[u].imported
          BY <3>2
        <4>2. Sound(u, tops[u])
          BY <1>1, <2>1
        <4>3. tops[u].imported \subseteq r.imported
          BY <1>5 DEF TransitiveImports
        <4>4. tops[u].instances \subseteq r.instances
          BY <1>5 DEF AllInstances
        <4> QED  BY <4>1, <4>2, <4>3, <4>4 DEF Sound
      <3> QED  BY <1>5, <3>1, <3>2 DEF TransitiveImports
    <2>3. r.instances \ Instances \subseteq r.imported
      <3>1. ASSUME NEW s \in Def(t).imports, NEW i \in tops[s].instances, i \notin Instances
            PROVE  i \in r.imported
        BY <1>1, <1>5, <2>1, <3>1 DEF Sound, TransitiveImports
      <3> QED  BY <1>5, <1>7, <3>1 DEF AllInstances, OwnInstances, TransitiveImports
    <2>4. \A c \in Def(t).connections, s \in Sides : Known(c.end[s])
      BY <1>3, <1>11 DEF LinkError, KnownLinks
    <2>5. Def(t).imports \subseteq r.imported
      BY <1>5 DEF TransitiveImports
    <2> QED  BY <1>5, <2>2, <2>3, <2>4, <2>5 DEF Sound
  <1>12. Checking(r, e)
    <2>1. \A a \in DOMAIN r.ports : Known(r.ports[a]) /\ r.under[a] = Underlying(r.ports[a])
      BY <1>1, <1>5 DEF KnownPorts
    <2>2. ~e => r.local = Def(r.name).connections
      BY <1>3, <1>5 DEF LinkError
    <2> QED  BY <1>5, <2>1, <2>2 DEF Checking, KnownLinks
  <1>13. Constructing(r, e)
    BY <1>1, <1>5, <1>10, <1>11, <1>12 DEF Constructing
  <1>14. stage' = "idle"
    BY <1>1 DEF pnVars
  <1> QED  BY <1>1, <1>4, <1>13, <1>14, GoesOn

(* One that is entered without its imports is well formed ...                 *)
LEMMA RefusePortsKeeps ==
    ASSUME Building, NEW t \in Names, RefusePorts(t)
    PROVE  Building'
  <1>1. /\ stage = "idle" /\ t \notin DOMAIN tops
        /\ Def(t).imports \subseteq DOMAIN tops
        /\ UNCHANGED <<design, pnVars>>
    BY DEF RefusePorts, Begin, Idle
  <1>2. PICK before \in SUBSET DOMAIN KnownPorts(t) :
            EnterAs(Fresh(t, {}, OwnInstances(t), [a \in before |-> Def(t).ports[a]]), TRUE)
    BY DEF RefusePorts
  <1>3. PICK ps : ps = [a \in before |-> Def(t).ports[a]]
    OBVIOUS
  <1>4. PICK r : r = Fresh(t, {}, OwnInstances(t), ps)
    OBVIOUS
  <1>5. OwnInstances(t) \subseteq Instances \cup Names
    BY DesignFacts DEF OwnInstances, Building
  <1>6. \A a \in DOMAIN ps : a \in DOMAIN Def(t).ports /\ ps[a] = Def(t).ports[a]
    BY <1>3 DEF KnownPorts
  <1>7. Entry(t, r)
    BY <1>4, <1>5, <1>6, FreshEntry
  <1>8. r.name = t
    BY <1>4 DEF Fresh
  <1>9. EnterAs(r, TRUE) /\ stage' = "idle" /\ design' = design
    BY <1>1, <1>2, <1>3, <1>4 DEF pnVars
  <1> QED  BY <1>1, <1>7, <1>8, <1>9, Enters

(* ... as is one whose instances do not fit.                                  *)
LEMMA RefuseKeeps ==
    ASSUME Building, RefuseTopology
    PROVE  Building'
  <1>1. PICK r : r = top
    OBVIOUS
  <1>2. EnterAs(r, TRUE) /\ design' = design /\ stage' = "idle"
    BY <1>1 DEF RefuseTopology, Building, pnVars
  <1>3. r.name \notin DOMAIN tops /\ Entry(r.name, r)
    BY <1>1 DEF RefuseTopology, Building, Constructing
  <1> QED  BY <1>2, <1>3, Enters

(* The links a topology takes over are finitely many, and legal.                *)
LEMMA ImportsFit ==
    ASSUME Building, NEW r, r.imported \subseteq DOMAIN tops
    PROVE  /\ IsFiniteSet(Imports(r)) /\ Imports(r) \subseteq Connections
           /\ \A c \in Imports(r) : \E s \in DOMAIN tops : c \in tops[s].local
  <1> DEFINE L == {tops[s].local : s \in r.imported}
             f == [s \in r.imported |-> tops[s].local]
  <1>1. /\ IsFiniteSet(DOMAIN tops)
        /\ \A s \in DOMAIN tops : Entry(s, tops[s])
    <2>1. IsFiniteSet(Names)
      BY DEF Building, LegalDesign, Names
    <2> QED  BY <2>1, FS_Subset DEF Building
  <1>2. IsFiniteSet(r.imported)
    BY <1>1, FS_Subset
  <1>3. DOMAIN f = r.imported /\ \A x \in L : \E s \in r.imported : x = f[s]
    OBVIOUS
  <1>4. \A x \in L : IsFiniteSet(x) /\ x \subseteq Connections
    BY <1>1 DEF Entry
  <1>5. Imports(r) \subseteq UNION L
    BY DEF Imports
  <1>6. \A x \in L : \E s \in DOMAIN tops : x = tops[s].local
    OBVIOUS
  <1> HIDE DEF L, f
  <1>7. IsFiniteSet(L)
    BY <1>2, <1>3, Images
  <1>8. IsFiniteSet(UNION L)
    BY <1>4, <1>7, FS_UNION
  <1>9. IsFiniteSet(Imports(r))
    BY <1>5, <1>8, FS_Subset
  <1>10. Imports(r) \subseteq Connections
    BY <1>4, <1>5
  <1>11. \A c \in Imports(r) : \E s \in DOMAIN tops : c \in tops[s].local
    BY <1>5, <1>6
  <1> QED  BY <1>9, <1>10, <1>11

(* What is written, in the topology or in others, is not at the place of one of *)
(* its patterns, nor is what others' patterns connect.                          *)
LEMMA OtherPlaces ==
    ASSUME Building, NEW t \in Names \ DOMAIN tops, NEW p \in Def(t).patterns
    PROVE  /\ \A c \in Def(t).connections : c.loc # p.loc
           /\ \A s \in DOMAIN tops : \A c \in tops[s].local : c.loc # p.loc
  <1>1. \A s \in Names : /\ \A c \in Def(s).connections : c.loc # p.loc
                         /\ s # t => \A q \in Def(s).patterns : q.loc # p.loc
    BY DesignFacts DEF Building
  <1>2. ASSUME NEW s \in DOMAIN tops, NEW c \in tops[s].local
        PROVE  c.loc # p.loc
    <2>1. Entry(s, tops[s])
      BY DEF Building
    <2>2. s \in Names /\ s # t /\ c.loc \in Places(s)
      BY <2>1 DEF Entry
    <2>3. PICK x \in Def(s).connections \cup Def(s).patterns : c.loc = x.loc
      BY <2>2 DEF Places
    <2> QED  BY <1>1, <2>2, <2>3
  <1> QED  BY <1>1, <1>2

(* Following ports down and taking links over: all written connections are there, *)
(* at ports of component instances, and none is at the place of a pattern.    *)
LEMMA FlattenKeeps ==
    ASSUME Building, FlattenAndImport
    PROVE  Building'
  <1>1. /\ top # NoTop /\ top.next = "check" /\ InstancesFit
        /\ UNCHANGED <<design, tops, erred, pnVars>>
    BY DEF FlattenAndImport
  <1>2. PICK t, q : t = top.name /\ q = top
    OBVIOUS
  <1>3. /\ Constructing(q, erred) /\ q.next = "check" /\ q.name = t
    BY <1>1, <1>2 DEF Building
  <1>4. /\ Checking(q, erred) /\ Entry(t, q) /\ DOMAIN q = Fields
        /\ t \in Names \ DOMAIN tops
        /\ ~erred => Sound(t, q)
    BY <1>3 DEF Constructing, Entry
  <1> DEFINE flat == {FlatLink(c) : c \in q.local}
             f == [c \in q.local |-> FlatLink(c)]
  <1>5. PICK r : r = [q EXCEPT !.next = "patterns", !.local = flat,
                               !.links = flat \cup Imports(q)]
    OBVIOUS
  <1>6. top' = r
    BY <1>2, <1>5 DEF FlattenAndImport, Imports, ImportedLinks
  <1>7. /\ DOMAIN r = Fields /\ r.name = t /\ r.next = "patterns"
        /\ r.imported = q.imported /\ r.instances = q.instances
        /\ r.ports = q.ports /\ r.under = q.under /\ r.patterns = q.patterns
        /\ r.local = flat /\ r.links = flat \cup Imports(q)
    BY <1>3, <1>4, <1>5 DEF Fields
  <1>8. \A s \in DOMAIN tops : Entry(s, tops[s])
    BY DEF Building
  <1>9. /\ DOMAIN f = q.local /\ \A x \in flat : \E c \in q.local : x = f[c]
    OBVIOUS
  <1>10. \A x \in flat : \E c \in q.local : x = FlatLink(c)
    OBVIOUS
  <1>11. \A c \in q.local : FlatLink(c) \in flat
    OBVIOUS
  <1> HIDE DEF flat, f
  <1>12. IsFiniteSet(flat)
    BY <1>4, <1>9, Images DEF Entry
  <1>13. \A c \in q.local : FlatLink(c) \in Connections /\ FlatLink(c).loc = c.loc
    BY <1>4, <1>8, FlatLinkFits DEF Entry
  <1>14. Entry(t, r)
    BY <1>4, <1>7, <1>10, <1>12, <1>13 DEF Entry
  <1>15. Imports(r) = Imports(q)
    BY <1>7 DEF Imports
  <1>16. Once(r)
    <2>1. ASSUME NEW p \in Def(t).patterns, NEW c \in r.links
          PROVE  c.loc # p.loc
      <3>1. CASE c \in flat
        <4>1. PICK d \in q.local : c = FlatLink(d)
          BY <1>10, <3>1
        <4>2. c.loc = d.loc /\ d \in Def(t).connections
          BY <1>3, <1>4, <1>13, <4>1 DEF Checking
        <4> QED  BY <1>4, <4>2, OtherPlaces
      <3>2. CASE c \in Imports(q)
        <4>1. PICK s \in DOMAIN tops : c \in tops[s].local
          BY <1>4, <3>2, ImportsFit DEF Entry
        <4> QED  BY <1>4, <4>1, OtherPlaces
      <3> QED  BY <1>7, <3>1, <3>2
    <2> QED  BY <1>7, <2>1 DEF Once
  <1>17. ASSUME ~erred PROVE Sound(t, r) /\ Resolved(t, r)
    <2>1. Sound(t, r)
      BY <1>4, <1>7, <1>17 DEF Sound
    <2>2. /\ LegalDesign(design) /\ DOMAIN tops \subseteq Names
          /\ \A s \in DOMAIN tops : Entered(s, tops[s])
      BY <1>17 DEF Building
    <2>3. /\ \A a \in DOMAIN q.ports : InstanceAt(q.ports[a]) \in r.instances
          /\ \A c \in q.local, s \in Sides : InstanceAt(c.end[s]) \in r.instances
      BY <1>1, <1>2, <1>7 DEF InstancesFit
    <2>4. q.local = Def(t).connections
      BY <1>3, <1>4, <1>17 DEF Checking
    <2>5. ASSUME NEW a \in DOMAIN r.ports PROVE AtHome(r.under[a], r)
      <3>1. PICK e : e = q.ports[a]
        OBVIOUS
      <3>2. Known(e) /\ r.under[a] = Underlying(e) /\ InstanceAt(e) \in r.instances
        BY <1>4, <1>7, <2>3, <2>5, <3>1 DEF Checking
      <3> QED  BY <1>7, <2>1, <2>2, <3>2, UnderlyingIsAtHome
    <2>6. ASSUME NEW c \in r.local, NEW s \in Sides PROVE AtHome(c.end[s], r)
      <3>1. PICK d \in q.local : c = FlatLink(d)
        BY <1>7, <1>10
      <3>2. d \in Connections
        BY <1>4 DEF Entry
      <3>3. PICK e : e = d.end[s]
        OBVIOUS
      <3>4. c.end[s] = Underlying(e)
        BY <1>8, <3>1, <3>2, <3>3, FlatLinkFits
      <3>5. Known(e) /\ InstanceAt(e) \in r.instances
        BY <2>1, <2>3, <2>4, <3>3 DEF Sound
      <3> QED  BY <1>7, <2>1, <2>2, <3>4, <3>5, UnderlyingIsAtHome
    <2>7. \A c \in Def(t).connections : FlatLink(c) \in r.local
      BY <1>7, <1>11, <2>4
    <2>8. Resolved(t, r)
      BY <2>5, <2>6, <2>7 DEF Resolved
    <2> QED  BY <2>1, <2>8
  <1>18. Wiring(r, Def(t).patterns \ r.patterns)
    BY <1>3, <1>4, <1>7 DEF Checking, Wiring
  <1>19. Linked(r, erred)
    BY <1>7, <1>15, <1>16, <1>17, <1>18 DEF Linked
  <1>20. r.patterns \subseteq Def(t).patterns
    BY <1>3, <1>7 DEF Constructing
  <1>21. Constructing(r, erred)
    BY <1>4, <1>7, <1>14, <1>17, <1>19, <1>20 DEF Constructing
  <1>22. stage = "idle" /\ stage' = stage /\ design' = design /\ tops' = tops /\ erred' = erred
    BY <1>1 DEF Building, pnVars
  <1>23. erred \in BOOLEAN
    BY DEF Building
  <1> QED  BY <1>6, <1>21, <1>22, <1>23, GoesOn

(* A pattern adds what is missing, once.                                      *)
LEMMA PatternKeeps ==
    ASSUME Building, top # NoTop, NEW p \in top.patterns, ResolvePattern(p)
    PROVE  Building'
  <1>1. /\ top.next = "patterns" /\ UNCHANGED <<design, pnVars>>
    BY DEF ResolvePattern
  <1>2. PICK t, q : t = top.name /\ q = top
    OBVIOUS
  <1>3. /\ Constructing(q, erred) /\ q.next = "patterns" /\ q.name = t
    BY <1>1, <1>2 DEF Building
  <1>4. /\ Linked(q, erred) /\ Entry(t, q) /\ DOMAIN q = Fields
        /\ t \in Names \ DOMAIN tops
        /\ q.patterns \subseteq Def(t).patterns
        /\ ~erred => Sound(t, q)
    BY <1>3 DEF Constructing, Entry
  <1>5. stage = "idle" /\ stage' = "idle" /\ design' = design /\ erred \in BOOLEAN
    BY <1>1 DEF Building, pnVars
  <1>6. CASE ~PatternFits(p)
    <2>1. EnterAs(q, TRUE)
      BY <1>2, <1>6 DEF ResolvePattern
    <2> QED  BY <1>3, <1>4, <1>5, <2>1, Enters
  <1>7. CASE PatternFits(p)
    <2> DEFINE new == {c \in Wired(p, q.instances) : ~Connected(c)}
    <2>1. PICK r : r = [q EXCEPT !.patterns = @ \ {p}, !.local = @ \cup new,
                                 !.links = @ \cup new]
      OBVIOUS
    <2>2. top' = r /\ tops' = tops /\ erred' = erred
      BY <1>2, <1>7, <2>1 DEF ResolvePattern
    <2>3. /\ DOMAIN r = Fields /\ r.name = t /\ r.next = "patterns"
          /\ r.imported = q.imported /\ r.instances = q.instances
          /\ r.ports = q.ports /\ r.under = q.under /\ r.patterns = q.patterns \ {p}
          /\ r.local = q.local \cup new /\ r.links = q.links \cup new
      BY <1>3, <1>4, <2>1 DEF Fields
    <2>4. p \in Def(t).patterns /\ LegalPattern(p)
      BY <1>2, <1>4, DesignFacts DEF Building
    <2>5. /\ IsFiniteSet(Wired(p, q.instances))
          /\ \A c \in Wired(p, q.instances) :
                /\ c \in Connections /\ c.loc = p.loc
                /\ \A s \in Sides : c.end[s] \in Ports /\ InstanceOf[c.end[s]] \in q.instances
          /\ \A c, d \in Wired(p, q.instances) : c.end = d.end => c = d
      BY <1>2, <1>7, <2>4, WiredFits DEF PatternFits
    <2>6. /\ new \subseteq Wired(p, q.instances)
          /\ \A c \in new, d \in q.links : d.end # c.end
          /\ \A c \in Wired(p, q.instances) : c \in new \/ \E d \in q.links : d.end = c.end
      BY <1>2 DEF Connected
    <2> HIDE DEF new
    <2>7. Entry(t, r)
      <3>1. IsFiniteSet(new)
        BY <2>5, <2>6, FS_Subset
      <3>2. IsFiniteSet(q.local)
        BY <1>4 DEF Entry
      <3>3. IsFiniteSet(q.local \cup new)
        BY <3>1, <3>2, FS_Union
      <3>4. p.loc \in Places(t)
        BY <2>4 DEF Places
      <3>5. \A c \in r.local : c.loc \in Places(t) /\ c \in Connections
        BY <1>4, <2>3, <2>5, <2>6, <3>4 DEF Entry
      <3> QED  BY <1>4, <2>3, <3>3, <3>5 DEF Entry
    <2>8. Imports(r) = Imports(q)
      BY <2>3 DEF Imports
    <2>9. r.links = r.local \cup Imports(r)
      BY <1>4, <2>3, <2>8 DEF Linked
    <2>10. Once(r)
      <3>1. ASSUME NEW o \in Def(t).patterns, NEW c \in r.links, NEW d \in r.links,
                   c.loc = o.loc, c.end = d.end
            PROVE  c = d
        <4>1. CASE c \in new /\ d \in new
          BY <2>5, <2>6, <3>1, <4>1
        <4>2. CASE c \in new /\ d \notin new
          BY <2>3, <2>6, <3>1, <4>2
        <4>3. CASE c \notin new /\ d \in new
          BY <2>3, <2>6, <3>1, <4>3
        <4>4. CASE c \notin new /\ d \notin new
          BY <1>3, <1>4, <2>3, <3>1, <4>4 DEF Linked, Once
        <4> QED  BY <4>1, <4>2, <4>3, <4>4
      <3> QED  BY <2>3, <3>1 DEF Once
    <2>11. ASSUME ~erred
           PROVE  /\ Sound(t, r) /\ Resolved(t, r)
                  /\ Wiring(r, Def(t).patterns \ r.patterns)
      <3>1. Sound(t, q) /\ Resolved(t, q) /\ Wiring(q, Def(t).patterns \ q.patterns)
        BY <1>3, <1>4, <2>11 DEF Linked
      <3>2. Sound(t, r)
        BY <2>3, <3>1 DEF Sound
      <3>3. \A c \in new, s \in Sides : AtHome(c.end[s], r)
        BY <2>3, <2>5, <2>6 DEF AtHome
      <3>4. \A c \in r.local, s \in Sides : AtHome(c.end[s], r)
        BY <2>3, <3>1, <3>3 DEF Resolved, AtHome
      <3>5. Resolved(t, r)
        BY <2>3, <3>1, <3>4 DEF Resolved, AtHome
      <3>6. ASSUME NEW o \in Def(t).patterns \ r.patterns, NEW w \in Wired(o, r.instances)
            PROVE  \E c \in r.local \cup Imports(r) : c.end = w.end
        <4>1. CASE o = p
          BY <2>3, <2>6, <2>9, <3>6, <4>1
        <4>2. CASE o # p
          <5>1. o \in Def(t).patterns \ q.patterns /\ w \in Wired(o, q.instances)
            BY <2>3, <3>6, <4>2
          <5>2. PICK c \in q.local \cup Imports(q) : c.end = w.end
            BY <3>1, <5>1 DEF Wiring
          <5> QED  BY <2>3, <2>8, <5>2
        <4> QED  BY <4>1, <4>2
      <3>7. Wiring(r, Def(t).patterns \ r.patterns)
        BY <3>6 DEF Wiring
      <3> QED  BY <3>2, <3>5, <3>7
    <2>12. Linked(r, erred)
      BY <2>3, <2>9, <2>10, <2>11 DEF Linked
    <2>13. Constructing(r, erred)
      BY <1>4, <2>3, <2>7, <2>11, <2>12 DEF Constructing
    <2> QED  BY <1>5, <2>2, <2>13, GoesOn
  <1> QED  BY <1>6, <1>7

(* The numbering starts with all the links, ...                               *)
LEMMA NumberKeeps ==
    ASSUME Building, NumberTopology
    PROVE  Building'
  <1>1. PICK r, e : r = top /\ e = erred
    OBVIOUS
  <1>2. /\ design' = design /\ tops' = tops /\ top' = r /\ erred' = e
        /\ r # NoTop /\ r.next = "patterns" /\ r.patterns = {}
        /\ links' = r.links /\ instances' = Components(r.instances)
    BY <1>1 DEF NumberTopology, BeginNumbering, topVars
  <1>3. e \in BOOLEAN /\ Constructing(r, e)
    BY <1>1, <1>2 DEF Building
  <1> QED  BY <1>1, <1>2, <1>3, GoesOn

(* ... leaves them as they are, ...                                           *)
LEMMA NumberingKeepsBuilding ==
    ASSUME Building, NumberingStep, UNCHANGED topVars
    PROVE  Building'
  <1>1. PICK r, e : r = top /\ e = erred
    OBVIOUS
  <1>2. stage # "idle" /\ links' = links /\ instances' = instances
    BY DEF NumberingStep, CheckLinks, StartMatching, NumberPair, NextPair, BothNumbered,
           OneNumbered, NeitherNumbered, EndMatching, EndMatchings, NumberOutput, NumberInputs
  <1>3. /\ design' = design /\ tops' = tops /\ top' = r /\ erred' = e
        /\ r # NoTop /\ r.next = "patterns" /\ r.patterns = {}
        /\ links' = r.links /\ instances' = Components(r.instances)
    BY <1>1, <1>2 DEF Building, topVars
  <1>4. e \in BOOLEAN /\ Constructing(r, e)
    BY <1>1, <1>3 DEF Building
  <1> QED  BY <1>1, <1>3, <1>4, GoesOn

(* ... and with its end the topology is entered.                              *)
LEMMA LeaveKeeps ==
    ASSUME Building, LeaveTopology
    PROVE  Building'
  <1>1. PICK q, t : q = top /\ t = top.name
    OBVIOUS
  <1> DEFINE left == IF stage = "numbered" THEN Unconnected ELSE {}
  <1>2. PICK r : r = [q EXCEPT !.next = stage, !.unconnected = left]
    OBVIOUS
  <1>3. PICK err \in BOOLEAN : EnterAs(r, err)
    BY <1>1, <1>2 DEF LeaveTopology
  <1>4. design' = design /\ stage' = "idle"
    BY DEF LeaveTopology, EndNumbering
  <1>5. /\ Constructing(q, erred) /\ q.name = t /\ q.next = "patterns" /\ q.patterns = {}
    BY <1>1 DEF LeaveTopology, Building
  <1>6. /\ r.name = t /\ r.imported = q.imported /\ r.instances = q.instances
        /\ r.ports = q.ports /\ r.under = q.under /\ r.local = q.local
    BY <1>2, <1>5 DEF Constructing, Fields
  <1>7. t \notin DOMAIN tops /\ Entry(t, r)
    BY <1>5, <1>6 DEF Constructing, Entry
  <1>8. ASSUME ~erred PROVE Entered(t, r)
    <2>1. Sound(t, q) /\ Resolved(t, q) /\ Wiring(q, Def(t).patterns)
      BY <1>5, <1>8 DEF Constructing, Linked, Wiring
    <2>2. Imports(r) = Imports(q)
      BY <1>6 DEF Imports
    <2> QED  BY <1>6, <2>1, <2>2 DEF Entered, Sound, Resolved, Wiring, AtHome
  <1> QED  BY <1>3, <1>4, <1>6, <1>7, <1>8, Enters

(* Nothing else changes what is said of topologies.                           *)
LEMMA QuietKeepsBuilding ==
    ASSUME Building, UNCHANGED <<topVars, pnVars>>
    PROVE  Building'
  <1>1. PICK r, e : r = top /\ e = erred
    OBVIOUS
  <1>2. /\ design' = design /\ tops' = tops /\ top' = r /\ erred' = e
        /\ stage' = stage /\ links' = links /\ instances' = instances
    BY <1>1 DEF topVars, pnVars
  <1>3. e \in BOOLEAN /\ (r # NoTop => Constructing(r, e))
    BY <1>1 DEF Building
  <1>4. (stage # "idle" =>
               /\ top # NoTop /\ top.next = "patterns" /\ top.patterns = {}
               /\ links = top.links /\ instances = Components(top.instances))'
    BY <1>1, <1>2 DEF Building
  <1> QED  BY <1>1, <1>2, <1>3, <1>4, GoesOn

(* Every step keeps the invariant.                                            *)
LEMMA BuildingKeeps == Building /\ [TopologyStep]_<<topVars, pnVars>> => Building'
  BY EnterKeeps, RefusePortsKeeps, RefuseKeeps, FlattenKeeps, PatternKeeps, NumberKeeps,
     NumberingKeepsBuilding, LeaveKeeps, QuietKeepsBuilding DEF TopologyStep

(* Whatever the definitions, and whatever was wrong with some of them, what has *)
(* been entered and what is under construction is as Building says.             *)
THEOREM TopologiesInvariant == TopologiesSpec => []Building
  BY BuildingStart, BuildingKeeps, PTL DEF TopologiesSpec

-----------------------------------------------------------------------------
(* Without errors a topology takes over all the connections of those that take *)
(* part in it, and what they had taken over.                                   *)
LEMMA TakesOver ==
    ASSUME Building, ~erred, NEW r, Sound(r.name, r), r.imported \subseteq DOMAIN tops,
           NEW s \in r.imported
    PROVE  /\ tops[s].local \subseteq Imports(r)
           /\ Imports(tops[s]) \subseteq Imports(r)
           /\ \A c \in tops[s].local, d \in Sides : AtHome(c.end[d], r)
  <1>1. Entered(s, tops[s]) /\ tops[s].imported \subseteq r.imported
        /\ tops[s].instances \subseteq r.instances
    BY DEF Building, Sound
  <1>2. \A c \in tops[s].local, d \in Sides : AtHome(c.end[d], tops[s])
    BY <1>1 DEF Entered, Resolved
  <1>3. \A c \in tops[s].local, d \in Sides : AtHome(c.end[d], r)
    BY <1>1, <1>2 DEF AtHome
  <1>4. \A c \in tops[s].local, d \in Sides : InstanceAt(c.end[d]) \in r.instances
    BY <1>3 DEF AtHome, InstanceAt
  <1>5. tops[s].local \subseteq Imports(r)
    BY <1>4 DEF Imports
  <1>6. Imports(tops[s]) \subseteq Imports(r)
    BY <1>1 DEF Imports
  <1> QED  BY <1>3, <1>5, <1>6

(* What takes part in a topology is it and what it imports.                     *)
LEMMA WithinIsImported ==
    ASSUME Building, ~erred, NEW r, Constructing(r, FALSE)
    PROVE  Within(r.name) \subseteq {r.name} \cup r.imported
  <1> DEFINE S == {r.name} \cup r.imported
  <1>1. Sound(r.name, r) /\ Entry(r.name, r)
    BY DEF Constructing
  <1>2. S \in SUBSET Names
    BY <1>1 DEF Entry, Building
  <1>3. \A u \in S : Def(u).imports \subseteq S
    BY <1>1 DEF Sound
  <1>4. r.name \in S
    OBVIOUS
  <1> HIDE DEF S
  <1>5. Within(r.name) \subseteq S
    BY <1>2, <1>3, <1>4 DEF Within
  <1> QED  BY <1>5 DEF S

(* Of what takes part in it, a topology has everything.                       *)
LEMMA BuildingArrives == Building => EverythingArrives
  <1> SUFFICES ASSUME Building, stage = "checks", ~erred
               PROVE  /\ \A s \in Within(top.name) :
                            /\ {FlatLink(c) : c \in Def(s).connections} \subseteq links
                            /\ \A p \in Def(s).patterns :
                                  \A w \in Wired(p, IF s = top.name THEN top.instances
                                                    ELSE tops[s].instances) :
                                      \E c \in links : c.end = w.end
                      /\ \A c \in links : LegalLink(c) /\ \A s \in Sides : Inside(c, s)
    BY DEF EverythingArrives
  <1>1. PICK t, r : t = top.name /\ r = top
    OBVIOUS
  <1>2. /\ Constructing(r, FALSE) /\ r.next = "patterns" /\ r.patterns = {}
        /\ links = r.links /\ instances = Components(r.instances) /\ r.name = t
    BY <1>1 DEF Building
  <1>3. /\ Sound(t, r) /\ Resolved(t, r) /\ Wiring(r, Def(t).patterns)
        /\ links = r.local \cup Imports(r) /\ Entry(t, r)
        /\ r.imported \subseteq DOMAIN tops /\ t \notin DOMAIN tops
    <2>1. Linked(r, FALSE) /\ Sound(t, r) /\ Entry(t, r) /\ t \notin DOMAIN tops
      BY <1>2 DEF Constructing
    <2>2. Wiring(r, Def(t).patterns)
      BY <1>2, <2>1 DEF Linked, Wiring
    <2> QED  BY <1>2, <2>1, <2>2 DEF Linked, Entry
  <1>4. ASSUME NEW s \in Within(t)
        PROVE  /\ {FlatLink(c) : c \in Def(s).connections} \subseteq links
               /\ \A p \in Def(s).patterns :
                     \A w \in Wired(p, IF s = t THEN r.instances ELSE tops[s].instances) :
                         \E c \in links : c.end = w.end
    <2>1. CASE s = t
      BY <1>3, <2>1 DEF Resolved, Wiring
    <2>2. CASE s \in r.imported
      <3>1. Entered(s, tops[s]) /\ s # t
        BY <1>3, <2>2 DEF Building
      <3>2. tops[s].local \subseteq links /\ Imports(tops[s]) \subseteq links
        BY <1>2, <1>3, <2>2, TakesOver
      <3>3. {FlatLink(c) : c \in Def(s).connections} \subseteq links
        BY <3>1, <3>2 DEF Entered, Resolved
      <3>4. \A p \in Def(s).patterns : \A w \in Wired(p, tops[s].instances) :
                \E c \in links : c.end = w.end
        BY <3>1, <3>2 DEF Entered, Wiring
      <3> QED  BY <3>1, <3>3, <3>4
    <2> QED  BY <1>2, <1>4, <2>1, <2>2, WithinIsImported
  <1>5. ASSUME NEW c \in links
        PROVE  LegalLink(c) /\ \A s \in Sides : AtHome(c.end[s], r)
    <2>1. CASE c \in r.local
      BY <1>3, <2>1 DEF Resolved, Entry, Connections
    <2>2. CASE c \in Imports(r)
      <3>1. c \in Connections
        BY <1>3, <2>2, ImportsFit
      <3>2. PICK s \in r.imported : c \in tops[s].local
        BY <2>2 DEF Imports
      <3>3. \A d \in Sides : AtHome(c.end[d], r)
        BY <1>2, <1>3, <3>2, TakesOver
      <3> QED  BY <3>1, <3>3 DEF Connections
    <2> QED  BY <1>3, <2>1, <2>2
  <1>6. \A c \in links : LegalLink(c) /\ \A s \in Sides : Inside(c, s)
    BY <1>2, <1>5, TopologyAssumption DEF AtHome, Inside, Components
  <1> QED  BY <1>1, <1>4, <1>6

(* As long as there was no error, a topology goes to numbering with every       *)
(* connection that is written in it or in what it imports, directly or through *)
(* others, between ports of its component instances, and all that its patterns *)
(* ask for.                                                                   *)
THEOREM EveryConnectionArrives == TopologiesSpec => []EverythingArrives
  BY TopologiesInvariant, BuildingArrives, PTL

(* No pattern adds a connection where there is one.                            *)
THEOREM PatternsNeverDouble == TopologiesSpec => []PatternsConnectOnce
  <1>1. Building => PatternsConnectOnce
    BY DEF Building, PatternsConnectOnce, Constructing, Linked, Once
  <1> QED  BY <1>1, TopologiesInvariant, PTL

-----------------------------------------------------------------------------
(* Each step of the topologies is one of their numbering, or none.              *)
LEMMA TopologyNumbers ==
    ASSUME Building, [TopologyStep]_<<topVars, pnVars>>
    PROVE  [NumberingNext]_pnVars
  <1>1. CASE NumberTopology
    <2>1. PICK r : r = top
      OBVIOUS
    <2>2. /\ BeginNumbering(r.links, Components(r.instances))
          /\ links' = r.links /\ instances' = Components(r.instances)
      BY <1>1, <2>1 DEF NumberTopology, BeginNumbering
    <2>3. stage = "idle" /\ BeginNumbering(links', instances')
      BY <1>1, <2>2 DEF NumberTopology, BeginNumbering
    <2>4. Constructing(r, erred) /\ r.next = "patterns"
      BY <1>1, <2>1 DEF NumberTopology, Building
    <2>5. /\ IsFiniteSet(r.local) /\ r.local \subseteq Connections
          /\ r.imported \subseteq DOMAIN tops
      BY <2>4 DEF Constructing, Entry
    <2>6. r.links = r.local \cup Imports(r)
      BY <2>4 DEF Constructing, Linked
    <2>7. IsFiniteSet(Imports(r)) /\ Imports(r) \subseteq Connections
      BY <2>5, ImportsFit
    <2>8. IsFiniteSet(r.local \cup Imports(r))
      BY <2>5, <2>7, FS_Union
    <2>9. IsFiniteSet(links') /\ \A c \in links' : LegalLink(c)
      BY <2>2, <2>5, <2>6, <2>7, <2>8 DEF Connections
    <2> QED  BY <2>3, <2>9 DEF BeginAny, NumberingNext
  <1>2. CASE NumberingStep \/ LeaveTopology
    BY <1>2 DEF LeaveTopology, NumberingNext
  <1>3. CASE UNCHANGED <<topVars, pnVars>>
    BY <1>3
  <1>4. ASSUME NEW t \in Names, EnterTopology(t) \/ RefusePorts(t)
        PROVE  UNCHANGED pnVars
    BY <1>4 DEF EnterTopology, RefusePorts, Begin
  <1>5. CASE RefuseTopology \/ FlattenAndImport
    BY <1>5 DEF RefuseTopology, FlattenAndImport
  <1>6. ASSUME NEW p \in top.patterns, ResolvePattern(p)
        PROVE  UNCHANGED pnVars
    BY <1>6 DEF ResolvePattern
  <1> QED  BY <1>1, <1>2, <1>3, <1>4, <1>5, <1>6 DEF TopologyStep

(* The topologies of a model have their connections numbered as PortNumbering   *)
(* says of any finite set of connections.                                      *)
THEOREM TopologiesImplementNumbering == TopologiesSpec => NumberingSpec
  <1>1. TopologiesInit => NumberingInit
    BY DEF TopologiesInit, TopologiesStart
  <1>2. Building /\ [TopologyStep]_<<topVars, pnVars>> => [NumberingNext]_pnVars
    BY TopologyNumbers
  <1> QED  BY <1>1, <1>2, TopologiesInvariant, PTL DEF TopologiesSpec, NumberingSpec

(* So a topology whose numbering ends has numbers that are as they should be, ... *)
THEOREM TopologiesAreNumbered == TopologiesSpec => []NumbersSolve
  BY TopologiesImplementNumbering, NumberedSolves, PTL

(* ... and one that is refused, where no port is in two matchings and the       *)
(* connections pair, could not have had any.                                   *)
THEOREM RefusedTopologiesHaveNone == TopologiesSpec => []RefusedHasNone
  BY TopologiesImplementNumbering, RefusalsAreJustified, PTL
=============================================================================
