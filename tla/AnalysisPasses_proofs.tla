------------------------ MODULE AnalysisPasses_proofs ------------------------
(***************************************************************************)
(* Theorems about the passes of an analysis, for any set of definitions and  *)
(* any way they use each other, and for any graph of choices.                *)
(*                                                                         *)
(* The check for use-def cycles: the path that is walked is a chain on which *)
(* each definition feeds the one before it; what lies behind the walk only   *)
(* feeds on what lies behind it too, and is grounded.  The list that explains *)
(* an error is one path of uses.                                             *)
(*                                                                         *)
(* The search for cycles of choices: the calls in progress are a path of     *)
(* arcs; what has been returned from leads only to what has been returned    *)
(* from.  In the list of arcs taken, the arcs of the path are the latest to   *)
(* their choices, so that a reported cycle is one.                           *)
(*                                                                         *)
(* The passes over a state machine in their order: those that recurse over    *)
(* the choices run only when that comes to an end.                           *)
(*                                                                         *)
(* What an accepted state machine does: the states it is in are a chain and   *)
(* what is left to run is the rest of the way to where it goes; the value     *)
(* that comes with a signal converts to the type of the choice it meets.      *)
(***************************************************************************)
EXTENDS AnalysisPasses, SequenceTheorems, WellFoundedInduction, FiniteSetTheorems, TLAPS

CallType == [owner : Owners, todo : SUBSET Part, kept : Nat]
MatchType == [user : Owners, used : Definitions]

WalkTypes ==
    /\ usesOf \in [Owners -> SUBSET Definitions]
    /\ memberOf \in [Definitions -> Owners]
    /\ frames \in Seq(CallType) /\ Len(frames) >= 1
    /\ matchings \in Seq(MatchType)
    /\ visited \subseteq Definitions
    /\ outcome \in {"running", "passed", "cycle"}

Nested ==
    \A d \in Definitions : memberOf[d] = Root \/ memberOf[memberOf[d]] = Root

\* The calls in progress: below the root, definitions not yet visited, each
\* once, and each a part of the one outside it.
Chain ==
    /\ frames[1].owner = Root
    /\ \A i \in 1..Len(frames) : frames[i].todo \subseteq Parts(frames[i].owner)
    /\ \A i \in 2..Len(frames) :
          /\ frames[i].owner \in Definitions
          /\ frames[i].owner \notin visited
          /\ \E part \in Parts(frames[i - 1].owner) : part.of = frames[i].owner
    /\ \A i, j \in 1..Len(frames) : frames[i].owner = frames[j].owner => i = j

\* The lengths the matching list is cut back to grow with the path.
KeptInOrder ==
    /\ \A i \in 1..Len(frames) : frames[i].kept <= Len(matchings)
    /\ \A i, j \in 1..Len(frames) : i <= j => frames[i].kept <= frames[j].kept

\* A part that is not still to do has been visited, or is being visited now.
PartsTaken ==
    outcome # "cycle" =>
        \A i \in 1..Len(frames) : \A part \in Parts(frames[i].owner) :
            \/ part \in frames[i].todo
            \/ part.of \in visited
            \/ i < Len(frames) /\ part.of = frames[i + 1].owner

VisitedClosed == \A d \in visited : Feeds(d) \subseteq visited

PassedAtRoot == outcome = "passed" => Len(frames) = 1 /\ frames[1].todo = {}

Walk ==
    /\ WalkTypes /\ Nested /\ Chain /\ KeptInOrder /\ PartsTaken
    /\ VisitedClosed /\ GroundedIn(visited) /\ PassedAtRoot

-----------------------------------------------------------------------------
\* What the walk of a definition meets is what the definition feeds on.
LEMMA PartsOf ==
    ASSUME WalkTypes, NEW o \in Owners
    PROVE  /\ Parts(o) \subseteq Part
           /\ o \in Definitions => \A d \in Definitions :
                (d \in Feeds(o) <=> \E part \in Parts(o) : part.of = d)
  <1>1. usesOf[o] \subseteq Definitions
    BY DEF WalkTypes
  <1>2. Parts(o) \subseteq Part
    BY <1>1 DEF Parts, Part
  <1>3. ASSUME NEW d \in Definitions, o \in Definitions
        PROVE  d \in Feeds(o) <=> \E part \in Parts(o) : part.of = d
    <2>1. ASSUME d \in usesOf[o] PROVE \E part \in Parts(o) : part.of = d
      <3>1. [kind |-> "use", of |-> d] \in Parts(o)
        BY <2>1 DEF Parts
      <3> QED  BY <3>1
    <2>2. ASSUME memberOf[d] = o PROVE \E part \in Parts(o) : part.of = d
      <3>1. [kind |-> "def", of |-> d] \in Parts(o)
        BY <2>2 DEF Parts
      <3> QED  BY <3>1
    <2>3. ASSUME NEW part \in Parts(o), part.of = d PROVE d \in Feeds(o)
      BY <2>3 DEF Parts, Feeds
    <2> QED  BY <2>1, <2>2, <2>3 DEF Feeds
  <1> QED  BY <1>2, <1>3

\* A definition all of whose parts have been visited may join the visited ones.
LEMMA GroundedGrows ==
    ASSUME NEW S, GroundedIn(S), NEW d, d \notin S, Feeds(d) \subseteq S,
           \A e \in S : Feeds(e) \subseteq S
    PROVE  GroundedIn(S \cup {d})
  <1> SUFFICES ASSUME NEW T \in (SUBSET (S \cup {d})) \ {{}}
               PROVE  \E e \in T : Feeds(e) \cap T = {}
    BY DEF GroundedIn
  <1>1. CASE T \cap S = {}
    <2>1. T = {d}
      BY <1>1
    <2> QED  BY <2>1
  <1>2. CASE T \cap S # {}
    <2>1. PICK e \in T \cap S : Feeds(e) \cap (T \cap S) = {}
      BY <1>2 DEF GroundedIn
    <2> QED  BY <2>1
  <1> QED  BY <1>1, <1>2

\* The walk starts at the root, with everything still to do.
LEMMA WalkInit == UseDefInit => Walk
  <1> SUFFICES ASSUME UseDefInit PROVE Walk
    OBVIOUS
  <1>1. PICK in \in UseDefInputs : UseDefStart(in.uses, in.members)
    BY DEF UseDefInit
  <1>2. /\ usesOf \in [Owners -> SUBSET Definitions]
        /\ memberOf \in [Definitions -> Owners]
        /\ Nested
    BY <1>1 DEF UseDefStart, UseDefInputs, Nested
  <1>3. /\ frames = <<Frame(Root, 0)>> /\ matchings = <<>>
        /\ visited = {} /\ outcome = "running"
    BY <1>1 DEF UseDefStart
  <1>4. Parts(Root) \subseteq Part
    BY <1>2 DEF Parts, Part, Owners
  <1>5. Frame(Root, 0) \in CallType /\ Frame(Root, 0).owner = Root
        /\ Frame(Root, 0).todo = Parts(Root)
    BY <1>4 DEF Frame, CallType, Owners
  <1>6. /\ frames \in Seq(CallType) /\ Len(frames) = 1
        /\ frames[1] = Frame(Root, 0)
    BY <1>3, <1>5
  <1>7. WalkTypes
    BY <1>2, <1>3, <1>6 DEF WalkTypes
  <1>8. Chain /\ KeptInOrder /\ PartsTaken
    BY <1>3, <1>5, <1>6 DEF Chain, KeptInOrder, PartsTaken, Frame
  <1>9. VisitedClosed /\ GroundedIn(visited) /\ PassedAtRoot
    BY <1>3 DEF VisitedClosed, GroundedIn, PassedAtRoot
  <1> QED  BY <1>2, <1>7, <1>8, <1>9 DEF Walk

-----------------------------------------------------------------------------
\* What taking a part leaves of the frames: only the innermost one changes.
TakenFrames(fs, part) == [fs EXCEPT ![Len(fs)] = [fs[Len(fs)] EXCEPT !.todo = @ \ {part}]]

\* Taking a part off the innermost frame changes nothing else.
LEMMA Taking ==
    ASSUME NEW fs \in Seq(CallType), Len(fs) >= 1, NEW part
    PROVE  /\ TakenFrames(fs, part) \in Seq(CallType)
           /\ Len(TakenFrames(fs, part)) = Len(fs)
           /\ \A i \in 1..Len(fs) :
                 /\ TakenFrames(fs, part)[i].owner = fs[i].owner
                 /\ TakenFrames(fs, part)[i].kept = fs[i].kept
                 /\ TakenFrames(fs, part)[i].todo =
                       IF i = Len(fs) THEN fs[i].todo \ {part} ELSE fs[i].todo
  <1> DEFINE n == Len(fs)
             last == [fs[n] EXCEPT !.todo = @ \ {part}]
  <1>1. n \in Nat /\ n \in 1..n /\ fs \in [1..n -> CallType] /\ fs[n] \in CallType
    OBVIOUS
  <1>2. /\ last \in CallType
        /\ last.owner = fs[n].owner /\ last.kept = fs[n].kept
        /\ last.todo = fs[n].todo \ {part}
    BY <1>1 DEF CallType
  <1>3. TakenFrames(fs, part) = [fs EXCEPT ![n] = last]
    BY DEF TakenFrames
  <1> HIDE DEF last
  <1>4. TakenFrames(fs, part) \in [1..n -> CallType]
    BY <1>1, <1>2, <1>3
  <1>5. TakenFrames(fs, part) \in Seq(CallType) /\ Len(TakenFrames(fs, part)) = n
    BY <1>1, <1>4
  <1>6. \A i \in 1..n : TakenFrames(fs, part)[i] = IF i = n THEN last ELSE fs[i]
    BY <1>1, <1>3
  <1> QED  BY <1>2, <1>5, <1>6

\* The frames after the steps, one by one.
LEMMA SkipFrames ==
    ASSUME WalkTypes, NEW part \in Part, Skip(part) \/ Report(part)
    PROVE  /\ frames' \in Seq(CallType) /\ Len(frames') = Len(frames)
           /\ \A i \in 1..Len(frames) :
                 /\ frames'[i].owner = frames[i].owner
                 /\ frames'[i].kept = frames[i].kept
                 /\ frames'[i].todo =
                       IF i = Len(frames) THEN frames[i].todo \ {part} ELSE frames[i].todo
  <1>1. frames' = TakenFrames(frames, part)
    BY DEF Skip, Report, TakenFrames, Took, Top, Depth
  <1>2. frames \in Seq(CallType) /\ Len(frames) >= 1
    BY DEF WalkTypes
  <1>3. /\ TakenFrames(frames, part) \in Seq(CallType)
        /\ Len(TakenFrames(frames, part)) = Len(frames)
        /\ \A i \in 1..Len(frames) :
              /\ TakenFrames(frames, part)[i].owner = frames[i].owner
              /\ TakenFrames(frames, part)[i].kept = frames[i].kept
              /\ TakenFrames(frames, part)[i].todo =
                    IF i = Len(frames) THEN frames[i].todo \ {part} ELSE frames[i].todo
    BY <1>2, Taking
  <1> HIDE DEF TakenFrames
  <1> QED  BY <1>1, <1>3

\* Entering a definition puts a frame on the path.
LEMMA EnterFrames ==
    ASSUME WalkTypes, NEW part \in Part, Enter(part)
    PROVE  /\ frames' \in Seq(CallType) /\ Len(frames') = Len(frames) + 1
           /\ \A i \in 1..Len(frames) :
                 /\ frames'[i].owner = frames[i].owner
                 /\ frames'[i].kept = frames[i].kept
                 /\ frames'[i].todo =
                       IF i = Len(frames) THEN frames[i].todo \ {part} ELSE frames[i].todo
           /\ frames'[Len(frames) + 1].owner = part.of
           /\ frames'[Len(frames) + 1].kept = Len(matchings)
           /\ frames'[Len(frames) + 1].todo = Parts(part.of)
  <1> DEFINE fs == TakenFrames(frames, part)
             new == Frame(part.of, Len(matchings))
  <1>1. frames' = Append(fs, new)
    BY DEF Enter, TakenFrames, Took, Top, Depth
  <1>2. /\ fs \in Seq(CallType) /\ Len(fs) = Len(frames)
        /\ \A i \in 1..Len(frames) :
              /\ fs[i].owner = frames[i].owner
              /\ fs[i].kept = frames[i].kept
              /\ fs[i].todo = IF i = Len(frames) THEN frames[i].todo \ {part} ELSE frames[i].todo
    BY Taking DEF WalkTypes
  <1>3. part.of \in Definitions /\ part.of \in Owners
    BY DEF Part, Owners
  <1>4. Parts(part.of) \subseteq Part /\ Len(matchings) \in Nat
    BY <1>3, PartsOf DEF WalkTypes
  <1>5. /\ new \in CallType /\ new.owner = part.of
        /\ new.kept = Len(matchings) /\ new.todo = Parts(part.of)
    BY <1>3, <1>4 DEF Frame, CallType
  <1> HIDE DEF fs, new
  <1>6. /\ frames' \in Seq(CallType) /\ Len(frames') = Len(fs) + 1
        /\ \A i \in 1..Len(fs) : frames'[i] = fs[i]
        /\ frames'[Len(fs) + 1] = new
    BY <1>1, <1>2, <1>5
  <1> QED  BY <1>2, <1>5, <1>6

\* Leaving one takes the innermost frame off it.
LEMMA LeaveFrames ==
    ASSUME WalkTypes, Leave
    PROVE  /\ frames' \in Seq(CallType) /\ Len(frames') = Len(frames) - 1
           /\ Len(frames) > 1
           /\ \A i \in 1..(Len(frames) - 1) : frames'[i] = frames[i]
  <1>1. frames \in Seq(CallType) /\ Len(frames) > 1 /\ Len(frames) \in Nat
    BY DEF WalkTypes, Leave, Depth
  <1>2. frames' = SubSeq(frames, 1, Len(frames) - 1)
    BY DEF Leave, Depth
  <1> QED  BY <1>1, <1>2

\* The steps keep the types of the walk.
LEMMA TypesNext == WalkTypes /\ Chain /\ KeptInOrder /\ [UseDefNext]_udVars => WalkTypes'
  <1> SUFFICES ASSUME WalkTypes, Chain, KeptInOrder, [UseDefNext]_udVars PROVE WalkTypes'
    OBVIOUS
  <1>0. Top \in CallType /\ Top.owner \in Owners /\ Top.kept \in Nat
    <2>1. Len(frames) \in 1..Len(frames) /\ frames[Len(frames)] \in CallType
      BY DEF WalkTypes
    <2> QED  BY <2>1 DEF Top, Depth, CallType
  <1>1. ASSUME NEW part \in Part
        PROVE  Noted(part) \in Seq(MatchType)
    <2>1. [user |-> Top.owner, used |-> part.of] \in MatchType
      BY <1>0 DEF Part, MatchType
    <2>2. Append(matchings, [user |-> Top.owner, used |-> part.of])
            \in Seq(MatchType)
      BY <2>1 DEF WalkTypes
    <2> QED  BY <2>2 DEF Noted, WalkTypes
  <1>2. ASSUME NEW part \in Part, Skip(part) PROVE WalkTypes'
    BY <1>2, SkipFrames DEF WalkTypes, Skip
  <1>3. ASSUME NEW part \in Part, Report(part) PROVE WalkTypes'
    BY <1>3, <1>1, SkipFrames DEF WalkTypes, Report
  <1>4. ASSUME NEW part \in Part, Enter(part) PROVE WalkTypes'
    <2>1. /\ matchings' \in Seq(MatchType)
          /\ UNCHANGED <<usesOf, memberOf, visited, outcome>>
      BY <1>4, <1>1 DEF Enter
    <2>2. frames' \in Seq(CallType) /\ Len(frames') = Len(frames) + 1
      BY <1>4, EnterFrames
    <2> QED  BY <2>1, <2>2 DEF WalkTypes
  <1>5. CASE Leave
    <2>1. frames' \in Seq(CallType) /\ Len(frames') >= 1
      BY <1>5, LeaveFrames DEF WalkTypes
    <2>2. Top.owner \in Definitions
      BY <1>5, LeaveFrames DEF WalkTypes, Chain, Top, Depth
    <2>3. Top.kept <= Len(matchings)
      BY DEF WalkTypes, KeptInOrder, Top, Depth
    <2>4. matchings' \in Seq(MatchType)
      <3>1. matchings \in Seq(MatchType) /\ matchings' = SubSeq(matchings, 1, Top.kept)
        BY <1>5 DEF WalkTypes, Leave
      <3> QED  BY <1>0, <2>3, <3>1, SubSeqProperties
    <2> QED  BY <1>5, <2>1, <2>2, <2>4 DEF WalkTypes, Leave
  <1>6. CASE Pass
    BY <1>6 DEF WalkTypes, Pass
  <1>7. CASE UNCHANGED udVars
    BY <1>7 DEF WalkTypes, udVars
  <1> QED  BY <1>2, <1>3, <1>4, <1>5, <1>6, <1>7 DEF UseDefNext
\* How long the matching list becomes.
LEMMA Lengths ==
    ASSUME WalkTypes, KeptInOrder, NEW part \in Part
    PROVE  /\ Len(Noted(part)) \in Nat /\ Len(Noted(part)) >= Len(matchings)
  <1>1. /\ Len(frames) \in 1..Len(frames) /\ Top = frames[Len(frames)]
        /\ Top \in CallType
    BY DEF WalkTypes, Top, Depth
  <1>2. Top.kept <= Len(matchings) /\ Top.kept \in Nat /\ Top.owner \in Owners
    BY <1>1 DEF KeptInOrder, CallType
  <1>3. [user |-> Top.owner, used |-> part.of] \in MatchType
    BY <1>2 DEF Part, MatchType
  <1>4. Len(Append(matchings, [user |-> Top.owner, used |-> part.of])) = Len(matchings) + 1
    BY <1>3 DEF WalkTypes
  <1>5. Len(matchings) \in Nat
    BY DEF WalkTypes
  <1> QED  BY <1>4, <1>5 DEF Noted

\* On the way out the matching list is cut to the length it had.
LEMMA CutBack ==
    ASSUME WalkTypes, KeptInOrder, Leave
    PROVE  /\ Top = frames[Len(frames)] /\ Top \in CallType
           /\ Len(matchings') = Top.kept
           /\ \A i \in 1..Top.kept : matchings'[i] = matchings[i]
  <1>1. /\ Len(frames) \in 1..Len(frames) /\ Top = frames[Len(frames)]
        /\ Top \in CallType
    BY DEF WalkTypes, Top, Depth
  <1>2. Top.kept <= Len(matchings) /\ Top.kept \in Nat
    BY <1>1 DEF KeptInOrder, CallType
  <1> QED  BY <1>1, <1>2 DEF WalkTypes, Leave

\* The lengths to cut back to stay in order.
LEMMA KeptNext == WalkTypes /\ KeptInOrder /\ [UseDefNext]_udVars => KeptInOrder'
  <1> SUFFICES ASSUME WalkTypes, KeptInOrder, [UseDefNext]_udVars PROVE KeptInOrder'
    OBVIOUS
  <1>0. /\ Len(frames) \in Nat /\ Len(frames) >= 1 /\ Len(matchings) \in Nat
        /\ \A i \in 1..Len(frames) : frames[i].kept \in Nat
    <2>1. \A i \in 1..Len(frames) : frames[i] \in CallType
      BY DEF WalkTypes
    <2> QED  BY <2>1 DEF WalkTypes, CallType
  <1>1. ASSUME NEW part \in Part, Skip(part) \/ Report(part) PROVE KeptInOrder'
    <2>1. matchings' = matchings \/ matchings' = Noted(part)
      BY <1>1 DEF Skip, Report
    <2>2. Len(matchings') \in Nat /\ Len(matchings') >= Len(matchings)
      BY <1>0, <2>1, Lengths
    <2>3. /\ Len(frames') = Len(frames)
          /\ \A i \in 1..Len(frames) : frames'[i].kept = frames[i].kept
      BY <1>1, SkipFrames
    <2> QED  BY <1>0, <2>2, <2>3 DEF KeptInOrder
  <1>2. ASSUME NEW part \in Part, Enter(part) PROVE KeptInOrder'
    <2>1. Len(matchings') \in Nat /\ Len(matchings') >= Len(matchings)
      BY <1>2, Lengths DEF Enter
    <2>2. /\ Len(frames') = Len(frames) + 1
          /\ \A i \in 1..Len(frames) : frames'[i].kept = frames[i].kept
          /\ frames'[Len(frames) + 1].kept = Len(matchings)
      BY <1>2, EnterFrames
    <2> DEFINE n == Len(frames)
    <2>3. \A i \in 1..Len(frames') : i \in 1..n \/ i = n + 1
      BY <1>0, <2>2
    <2>4. \A i \in 1..n : frames'[i].kept <= frames'[n + 1].kept
      BY <1>0, <2>2 DEF KeptInOrder
    <2>5. \A i \in 1..Len(frames') : frames'[i].kept <= Len(matchings')
      BY <1>0, <2>1, <2>2, <2>3 DEF KeptInOrder
    <2>6. ASSUME NEW i \in 1..Len(frames'), NEW j \in 1..Len(frames'), i <= j
          PROVE  frames'[i].kept <= frames'[j].kept
      <3>1. CASE j = n + 1
        BY <1>0, <2>2, <2>3, <2>4, <3>1
      <3>2. CASE j \in 1..n
        BY <1>0, <2>2, <2>3, <2>6, <3>2 DEF KeptInOrder
      <3> QED  BY <2>3, <3>1, <3>2
    <2> QED  BY <2>5, <2>6 DEF KeptInOrder
  <1>3. CASE Leave
    <2>1. /\ Len(frames') = Len(frames) - 1
          /\ \A i \in 1..(Len(frames) - 1) : frames'[i] = frames[i]
      BY <1>3, LeaveFrames
    <2>2. Len(matchings') = frames[Len(frames)].kept
      BY <1>3, CutBack
    <2> QED  BY <1>0, <2>1, <2>2 DEF KeptInOrder
  <1>4. CASE Pass
    BY <1>4 DEF KeptInOrder, Pass
  <1>5. CASE UNCHANGED udVars
    BY <1>5 DEF KeptInOrder, udVars
  <1> QED  BY <1>1, <1>2, <1>3, <1>4, <1>5 DEF UseDefNext
\* No step changes what is analysed.
LEMMA InputsStay ==
    ASSUME [UseDefNext]_udVars
    PROVE  /\ usesOf' = usesOf /\ memberOf' = memberOf
           /\ \A o : Parts(o)' = Parts(o)
           /\ \A d : Feeds(d)' = Feeds(d)
  <1>1. usesOf' = usesOf /\ memberOf' = memberOf
    BY DEF UseDefNext, udVars, Skip, Enter, Report, Leave, Pass
  <1> QED  BY <1>1 DEF Parts, Feeds

\* The innermost frame.
LEMMA InnermostFrame ==
    ASSUME WalkTypes
    PROVE  /\ Len(frames) \in 1..Len(frames) /\ Len(frames) \in Nat
           /\ Top = frames[Len(frames)] /\ Top \in CallType /\ Top.owner \in Owners
           /\ \A i \in 1..Len(frames) : frames[i] \in CallType /\ frames[i].owner \in Owners
  <1>1. Len(frames) \in 1..Len(frames) /\ \A i \in 1..Len(frames) : frames[i] \in CallType
    BY DEF WalkTypes
  <1> QED  BY <1>1 DEF Top, Depth, CallType

\* The path stays a chain of distinct definitions, none of them visited.
LEMMA ChainNext == WalkTypes /\ Chain /\ [UseDefNext]_udVars => Chain'
  <1> SUFFICES ASSUME WalkTypes, Chain, [UseDefNext]_udVars PROVE Chain'
    OBVIOUS
  <1> DEFINE n == Len(frames)
             own(i) == frames[i].owner
  <1>0. n \in Nat /\ n >= 1 /\ Top = frames[n]
    BY InnermostFrame
  <1>1. usesOf' = usesOf /\ memberOf' = memberOf
    BY InputsStay
  <1>2. ASSUME NEW part \in Part, Skip(part) \/ Report(part) PROVE Chain'
    <2>1. /\ Len(frames') = n /\ visited' = visited
          /\ \A i \in 1..n : /\ frames'[i].owner = frames[i].owner
                             /\ frames'[i].todo \subseteq frames[i].todo
      BY <1>2, SkipFrames DEF Skip, Report
    <2> QED  BY <1>0, <1>1, <2>1 DEF Chain, Parts
  <1>3. ASSUME NEW part \in Part, Enter(part) PROVE Chain'
    <2>1. /\ Len(frames') = n + 1 /\ visited' = visited
          /\ \A i \in 1..n : /\ frames'[i].owner = frames[i].owner
                             /\ frames'[i].todo \subseteq frames[i].todo
          /\ frames'[n + 1].owner = part.of
          /\ frames'[n + 1].todo = Parts(part.of)
      BY <1>3, EnterFrames DEF Enter
    <2>2. part \in Parts(frames[n].owner)
      BY <1>0, <1>3 DEF Chain, Enter
    <2>3. part.of \in Definitions /\ part.of \notin visited /\ part.of # Root
      BY <1>3, RootAssumption DEF Part, Enter
    <2>4. \A i \in 1..n : frames[i].owner # part.of
      BY <1>0, <1>3, <2>3 DEF Chain, Enter, InProgress, Depth
    <2>5. \A i \in 1..Len(frames') : i \in 1..n \/ i = n + 1
      BY <1>0, <2>1
    <2>6. frames'[1].owner = Root
      BY <1>0, <2>1 DEF Chain
    <2>7. ASSUME NEW i \in 1..Len(frames') PROVE frames'[i].todo \subseteq Parts(frames'[i].owner)
      BY <2>1, <2>5 DEF Chain
    <2>8. ASSUME NEW i \in 2..Len(frames')
          PROVE  /\ frames'[i].owner \in Definitions
                 /\ frames'[i].owner \notin visited'
                 /\ \E q \in Parts(frames'[i - 1].owner) : q.of = frames'[i].owner
      <3>1. CASE i = n + 1
        BY <1>0, <2>1, <2>2, <2>3, <3>1
      <3>2. CASE i \in 2..n
        BY <1>0, <2>1, <3>2 DEF Chain
      <3> QED  BY <1>0, <2>1, <3>1, <3>2
    <2>9. ASSUME NEW i \in 1..Len(frames'), NEW j \in 1..Len(frames'),
                 frames'[i].owner = frames'[j].owner
          PROVE  i = j
      BY <2>1, <2>4, <2>5, <2>9 DEF Chain
    <2> QED  BY <1>1, <2>6, <2>7, <2>8, <2>9 DEF Chain, Parts
  <1>4. CASE Leave
    <2>1. /\ Len(frames') = n - 1 /\ n > 1
          /\ \A i \in 1..(n - 1) : frames'[i] = frames[i]
      BY <1>4, LeaveFrames
    <2>2. visited' = visited \cup {frames[n].owner}
      BY <1>0, <1>4 DEF Leave
    <2>3. \A i \in 1..(n - 1) : i \in 1..n /\ frames[i].owner # frames[n].owner
      BY <1>0 DEF Chain
    <2>4. ASSUME NEW i \in 2..Len(frames')
          PROVE  /\ frames'[i].owner \in Definitions
                 /\ frames'[i].owner \notin visited'
                 /\ \E q \in Parts(frames'[i - 1].owner) : q.of = frames'[i].owner
      <3>1. i \in 2..n /\ i \in 1..(n - 1) /\ i - 1 \in 1..(n - 1)
        BY <1>0, <2>1
      <3> QED  BY <2>1, <2>2, <2>3, <3>1 DEF Chain
    <2>5. frames'[1].owner = Root
      BY <1>0, <2>1 DEF Chain
    <2>6. ASSUME NEW i \in 1..Len(frames')
          PROVE  frames'[i].todo \subseteq Parts(frames'[i].owner)
      BY <2>1, <2>3 DEF Chain
    <2>7. ASSUME NEW i \in 1..Len(frames'), NEW j \in 1..Len(frames'),
                 frames'[i].owner = frames'[j].owner
          PROVE  i = j
      BY <2>1, <2>3, <2>7 DEF Chain
    <2> QED  BY <1>1, <2>4, <2>5, <2>6, <2>7 DEF Chain, Parts
  <1>5. CASE Pass \/ UNCHANGED udVars
    BY <1>5 DEF Chain, Parts, Pass, udVars
  <1> QED  BY <1>2, <1>3, <1>4, <1>5 DEF UseDefNext

\* No part is dropped: one that is taken has been visited or is entered.
LEMMA PartsTakenNext ==
    WalkTypes /\ Chain /\ PartsTaken /\ [UseDefNext]_udVars => PartsTaken'
  <1> SUFFICES ASSUME WalkTypes, Chain, PartsTaken, [UseDefNext]_udVars PROVE PartsTaken'
    OBVIOUS
  <1> DEFINE n == Len(frames)
  <1>0. n \in Nat /\ n >= 1 /\ Top = frames[n]
    BY InnermostFrame
  <1>1. usesOf' = usesOf /\ memberOf' = memberOf
    BY InputsStay
  <1>2. ASSUME NEW part \in Part, Skip(part) PROVE PartsTaken'
    <2>1. /\ Len(frames') = n /\ visited' = visited /\ outcome # "cycle"
          /\ part.of \in visited
          /\ \A i \in 1..n :
                /\ frames'[i].owner = frames[i].owner
                /\ frames'[i].todo = IF i = n THEN frames[i].todo \ {part} ELSE frames[i].todo
      BY <1>2, SkipFrames DEF Skip
    <2>2. \A i \in 1..n : \A q \in Parts(frames[i].owner) :
             \/ q \in frames[i].todo
             \/ q.of \in visited
             \/ i < n /\ q.of = frames[i + 1].owner
      BY <2>1 DEF PartsTaken
    <2>3. ASSUME NEW i \in 1..n, NEW q \in Parts(frames'[i].owner)
          PROVE  \/ q \in frames'[i].todo
                 \/ q.of \in visited
                 \/ i < n /\ q.of = frames'[i + 1].owner
      <3>1. i < n => i + 1 \in 1..n
        BY <1>0
      <3> QED  BY <2>1, <2>2, <3>1
    <2> QED  BY <1>1, <2>1, <2>3 DEF PartsTaken, Parts
  <1>3. ASSUME NEW part \in Part, Enter(part) PROVE PartsTaken'
    <2>1. /\ Len(frames') = n + 1 /\ visited' = visited /\ outcome # "cycle"
          /\ \A i \in 1..n :
                /\ frames'[i].owner = frames[i].owner
                /\ frames'[i].todo = IF i = n THEN frames[i].todo \ {part} ELSE frames[i].todo
          /\ frames'[n + 1].owner = part.of
          /\ frames'[n + 1].todo = Parts(part.of)
      BY <1>3, EnterFrames DEF Enter
    <2>2. \A i \in 1..n : \A q \in Parts(frames[i].owner) :
             \/ q \in frames[i].todo
             \/ q.of \in visited
             \/ i < n /\ q.of = frames[i + 1].owner
      BY <2>1 DEF PartsTaken
    <2>3. ASSUME NEW i \in 1..(n + 1), NEW q \in Parts(frames'[i].owner)
          PROVE  \/ q \in frames'[i].todo
                 \/ q.of \in visited
                 \/ i < n + 1 /\ q.of = frames'[i + 1].owner
      <3>1. CASE i = n + 1
        BY <2>1, <3>1
      <3>2. CASE i = n
        <4>1. n \in 1..n /\ ~(n < n) /\ i < n + 1
          BY <1>0, <3>2
        <4>2. /\ frames'[n].owner = frames[n].owner
              /\ frames'[n].todo = frames[n].todo \ {part}
          BY <2>1, <4>1
        <4>3. q \in Parts(frames[n].owner)
          BY <3>2, <4>2
        <4>4. q \in frames[n].todo \/ q.of \in visited
          BY <2>2, <4>1, <4>3
        <4> QED  BY <2>1, <3>2, <4>1, <4>2, <4>4
      <3>3. CASE i \in 1..n /\ i # n
        <4>1. i + 1 \in 1..n /\ i < n + 1 /\ i < n
          BY <1>0, <3>3
        <4>2. frames'[i].owner = frames[i].owner /\ frames'[i].todo = frames[i].todo
          BY <2>1, <3>3
        <4>3. q \in Parts(frames[i].owner)
          BY <4>2
        <4>4. frames'[i + 1].owner = frames[i + 1].owner
          BY <2>1, <4>1
        <4> QED  BY <2>2, <3>3, <4>1, <4>2, <4>3, <4>4
      <3> QED  BY <1>0, <3>1, <3>2, <3>3
    <2> QED  BY <1>1, <2>1, <2>3 DEF PartsTaken, Parts
  <1>4. ASSUME NEW part \in Part, Report(part) PROVE PartsTaken'
    BY <1>4 DEF PartsTaken, Report
  <1>5. CASE Leave
    <2>1. /\ Len(frames') = n - 1 /\ n > 1 /\ outcome # "cycle"
          /\ \A i \in 1..(n - 1) : frames'[i] = frames[i]
      BY <1>5, LeaveFrames DEF Leave
    <2>2. visited' = visited \cup {frames[n].owner}
      BY <1>0, <1>5 DEF Leave
    <2>3. \A i \in 1..n : \A q \in Parts(frames[i].owner) :
             \/ q \in frames[i].todo
             \/ q.of \in visited
             \/ i < n /\ q.of = frames[i + 1].owner
      BY <2>1 DEF PartsTaken
    <2>4. ASSUME NEW i \in 1..(n - 1), NEW q \in Parts(frames'[i].owner)
          PROVE  \/ q \in frames'[i].todo
                 \/ q.of \in visited'
                 \/ i < n - 1 /\ q.of = frames'[i + 1].owner
      <3>1. i \in 1..n /\ (i + 1 \in 1..(n - 1) \/ i + 1 = n)
        BY <1>0
      <3> QED  BY <1>0, <2>1, <2>2, <2>3, <3>1
    <2> QED  BY <1>1, <2>1, <2>4 DEF PartsTaken, Parts
  <1>6. CASE Pass \/ UNCHANGED udVars
    BY <1>6 DEF PartsTaken, Parts, Pass, udVars
  <1> QED  BY <1>2, <1>3, <1>4, <1>5, <1>6 DEF UseDefNext

\* What is left has all its parts visited, so that it may join the visited.
LEMMA VisitedNext ==
    Walk /\ [UseDefNext]_udVars => VisitedClosed' /\ GroundedIn(visited)' /\ PassedAtRoot'
  <1> SUFFICES ASSUME Walk, [UseDefNext]_udVars
               PROVE  VisitedClosed' /\ GroundedIn(visited)' /\ PassedAtRoot'
    OBVIOUS
  <1> USE DEF Walk
  <1> DEFINE n == Len(frames)
  <1>0. n \in Nat /\ n \in 1..n /\ Top = frames[n]
    BY InnermostFrame
  <1>1. usesOf' = usesOf /\ memberOf' = memberOf
    BY InputsStay
  <1>2. CASE visited' = visited
    <2>1. VisitedClosed' /\ GroundedIn(visited)'
      BY <1>1, <1>2 DEF VisitedClosed, GroundedIn, Feeds
    <2>2. PassedAtRoot'
      <3>1. CASE Pass
        BY <1>0, <3>1 DEF PassedAtRoot, Pass, Depth
      <3>2. CASE UNCHANGED udVars
        BY <3>2 DEF PassedAtRoot, udVars
      <3>3. ASSUME outcome' # "passed" PROVE PassedAtRoot'
        BY <3>3 DEF PassedAtRoot
      <3> QED  BY <3>1, <3>2, <3>3 DEF UseDefNext, Skip, Enter, Report, Leave
    <2> QED  BY <2>1, <2>2
  <1>3. CASE Leave
    <2> DEFINE o == frames[n].owner
    <2>1. /\ n > 1 /\ frames[n].todo = {} /\ outcome = "running"
          /\ visited' = visited \cup {o}
      BY <1>0, <1>3 DEF Leave, Depth
    <2>2. o \in Definitions /\ o \in Owners /\ o \notin visited
      BY <1>0, <2>1 DEF Chain, Owners
    <2>3. \A q \in Parts(o) : q.of \in visited
      BY <1>0, <2>1 DEF PartsTaken
    <2>4. Feeds(o) \subseteq Definitions
      BY <2>2 DEF Feeds, WalkTypes
    <2>5. Feeds(o) \subseteq visited
      <3> SUFFICES ASSUME NEW d \in Feeds(o) PROVE d \in visited
        OBVIOUS
      <3>1. \E part \in Parts(o) : part.of = d
        BY <2>2, <2>4, PartsOf
      <3> QED  BY <2>3, <3>1
    <2>6. GroundedIn(visited \cup {o})
      BY <2>2, <2>5, GroundedGrows DEF VisitedClosed
    <2>7. \A d \in visited \cup {o} : Feeds(d) \subseteq visited \cup {o}
      BY <2>5 DEF VisitedClosed
    <2>8. PassedAtRoot'
      BY <1>3 DEF PassedAtRoot, Leave
    <2> HIDE DEF o
    <2> QED  BY <1>1, <2>1, <2>6, <2>7, <2>8 DEF VisitedClosed, GroundedIn, Feeds
  <1> QED  BY <1>2, <1>3 DEF UseDefNext, udVars, Skip, Enter, Report, Pass

\* Every step keeps the whole invariant.
LEMMA WalkNext == Walk /\ [UseDefNext]_udVars => Walk'
  <1> SUFFICES ASSUME Walk, [UseDefNext]_udVars PROVE Walk'
    OBVIOUS
  <1>1. WalkTypes' /\ Chain' /\ KeptInOrder' /\ PartsTaken'
    BY TypesNext, ChainNext, KeptNext, PartsTakenNext DEF Walk
  <1>2. Nested'
    BY InputsStay DEF Walk, Nested
  <1> QED  BY <1>1, <1>2, VisitedNext DEF Walk

\* The invariant of the check for use-def cycles (CheckUseDefCycles).
THEOREM WalkInvariant == UseDefSpec => []Walk
  BY WalkInit, WalkNext, PTL DEF UseDefSpec

\* The theorem the passes after this one rely on: when the check lets an
\* analysis go on, every definition has been visited, and recursion over the
\* uses of any of them comes to an end (CheckUseDefCycles, CheckSemantics).
THEOREM PassedIsGrounded == UseDefSpec => []PassedMeansGrounded
  <1>1. ASSUME Walk PROVE PassedMeansGrounded
    <2> SUFFICES ASSUME outcome = "passed" PROVE GroundedIn(Definitions)
      BY DEF PassedMeansGrounded
    <2> USE <1>1 DEF Walk
    <2>1. /\ Len(frames) = 1 /\ frames[1].todo = {} /\ frames[1].owner = Root
          /\ outcome # "cycle"
      BY DEF PassedAtRoot, Chain
    <2>2. \A q \in Parts(Root) : q.of \in visited
      BY <2>1 DEF PartsTaken
    <2>3. ASSUME NEW d \in Definitions, memberOf[d] = Root PROVE d \in visited
      <3>1. [kind |-> "def", of |-> d] \in Parts(Root)
        BY <2>3 DEF Parts
      <3> QED  BY <2>2, <3>1
    <2>4. ASSUME NEW d \in Definitions, memberOf[d] # Root PROVE d \in visited
      <3>1. memberOf[d] \in Definitions /\ memberOf[memberOf[d]] = Root
        BY <2>4 DEF Nested, WalkTypes, Owners
      <3>2. memberOf[d] \in visited /\ d \in Feeds(memberOf[d])
        BY <2>3, <3>1 DEF Feeds
      <3> QED  BY <3>2 DEF VisitedClosed
    <2>5. visited = Definitions
      BY <2>3, <2>4 DEF WalkTypes
    <2> QED  BY <2>5
  <1> QED  BY <1>1, WalkInvariant, PTL

-----------------------------------------------------------------------------
\* From the definition met again to the innermost one, the path is a set in
\* which every definition feeds on another of the set.
LEMMA PathIsCycle ==
    ASSUME WalkTypes, Chain, NEW part \in Part, Report(part)
    PROVE  ~GroundedIn(Definitions)
  <1> DEFINE n == Len(frames)
  <1>0. n \in Nat /\ n \in 1..n /\ Top = frames[n] /\ Depth = n
    BY InnermostFrame DEF Depth
  <1>1. /\ part \in frames[n].todo
        /\ \E i \in 2..n : frames[i].owner = part.of
    BY <1>0 DEF Report, InProgress
  <1>2. PICK i \in 2..n : frames[i].owner = part.of
    BY <1>1
  <1> DEFINE T == {frames[j].owner : j \in i..n}
  <1>3. \A j \in i..n : j \in 2..n /\ frames[j].owner \in Definitions
    BY <1>0, <1>2 DEF Chain
  <1>4. T \in (SUBSET Definitions) \ {{}}
    BY <1>0, <1>2, <1>3
  <1>5. ASSUME NEW j \in i..n PROVE Feeds(frames[j].owner) \cap T # {}
    <2>1. frames[j].owner \in Definitions /\ frames[j].owner \in Owners
      BY <1>3 DEF Owners
    <2>2. CASE j = n
      <3>1. part \in Parts(frames[j].owner) /\ part.of \in Definitions
        BY <1>0, <1>1, <2>2 DEF Chain, Part
      <3>2. part.of \in Feeds(frames[j].owner)
        BY <2>1, <3>1, PartsOf
      <3>3. part.of \in T
        BY <1>0, <1>2
      <3> QED  BY <3>2, <3>3
    <2>3. CASE j # n
      <3>1. j + 1 \in i..n /\ j + 1 \in 2..n /\ (j + 1) - 1 = j
        BY <1>0, <1>2, <2>3
      <3>2. \E q \in Parts(frames[j].owner) : q.of = frames[j + 1].owner
        BY <3>1 DEF Chain
      <3>3. frames[j + 1].owner \in Definitions
        BY <1>3, <3>1
      <3>4. frames[j + 1].owner \in Feeds(frames[j].owner)
        BY <2>1, <3>2, <3>3, PartsOf
      <3>5. frames[j + 1].owner \in T
        BY <3>1
      <3> QED  BY <3>4, <3>5
    <2> QED  BY <2>2, <2>3
  <1>6. \A d \in T : Feeds(d) \cap T # {}
    BY <1>5
  <1> HIDE DEF T
  <1> QED  BY <1>4, <1>6 DEF GroundedIn

\* The check only breaks off for a cycle there is (visit_def_post).
THEOREM StoppedIsCycle == UseDefSpec => []StoppedMeansCycle
  <1>1. UseDefInit => StoppedMeansCycle
    BY DEF UseDefInit, UseDefStart, StoppedMeansCycle
  <1>2. Walk /\ StoppedMeansCycle /\ [UseDefNext]_udVars => StoppedMeansCycle'
    <2> SUFFICES ASSUME Walk, StoppedMeansCycle, [UseDefNext]_udVars, outcome' = "cycle"
                 PROVE  ~GroundedIn(Definitions)'
      BY DEF StoppedMeansCycle
    <2>1. ~GroundedIn(Definitions)
      <3>1. ASSUME NEW part \in Part, Report(part) PROVE ~GroundedIn(Definitions)
        BY <3>1, PathIsCycle DEF Walk
      <3>2. CASE outcome = "cycle"
        BY <3>2 DEF StoppedMeansCycle
      <3> QED
        BY <3>1, <3>2 DEF UseDefNext, udVars, Skip, Enter, Leave, Pass
    <2>2. \A d : Feeds(d)' = Feeds(d)
      BY InputsStay
    <2> QED  BY <2>1, <2>2 DEF GroundedIn
  <1> QED  BY <1>1, <1>2, WalkInvariant, PTL DEF UseDefSpec

-----------------------------------------------------------------------------
\* How long the matching list was when the call inside frame i was entered; for
\* the innermost frame, how long it is.
EndOf(i) == IF i < Len(frames) THEN frames[i + 1].kept ELSE Len(matchings)

\* The uses in the list follow on each other, ...
UsesJoin ==
    /\ \A i \in 1..Len(matchings) : matchings[i].used \in usesOf[matchings[i].user]
    /\ \A i \in 2..Len(matchings) :
          matchings[i - 1].used \in {matchings[i].user, memberOf[matchings[i].user]}

\* ... and the last of those made on the way to a frame led to its owner, or to
\* the enum it is a constant of.  Without any, the way leads through members.
UsesLead ==
    outcome = "running" =>
        /\ EndOf(1) = 0
        /\ \A i \in 2..Len(frames) :
              IF EndOf(i) = 0 THEN memberOf[frames[i].owner] = frames[i - 1].owner
              ELSE matchings[EndOf(i)].used
                       \in {frames[i].owner, memberOf[frames[i].owner]}

Explained == UsesJoin /\ UsesLead

\* What a part adds to the matching list: a use of it, or nothing.
LEMMA NotedUse ==
    ASSUME WalkTypes, NEW part \in Part, part.kind = "use"
    PROVE  /\ Len(matchings) \in Nat
           /\ Len(Noted(part)) = Len(matchings) + 1
           /\ Noted(part)[Len(matchings) + 1].user = Top.owner
           /\ Noted(part)[Len(matchings) + 1].used = part.of
           /\ \A i \in 1..Len(matchings) : Noted(part)[i] = matchings[i]
  <1> DEFINE new == [user |-> Top.owner, used |-> part.of]
  <1>1. matchings \in Seq(MatchType) /\ Len(matchings) \in Nat
    BY DEF WalkTypes
  <1>2. new \in MatchType
    BY InnermostFrame DEF MatchType, Part
  <1>3. Noted(part) = Append(matchings, new)
    BY DEF Noted
  <1>4. new.user = Top.owner /\ new.used = part.of
    OBVIOUS
  <1> HIDE DEF new
  <1>5. /\ Len(Append(matchings, new)) = Len(matchings) + 1
        /\ Append(matchings, new)[Len(matchings) + 1] = new
        /\ \A i \in 1..Len(matchings) : Append(matchings, new)[i] = matchings[i]
    BY <1>1, <1>2, AppendProperties
  <1> QED  BY <1>1, <1>3, <1>4, <1>5

\* A member is not noted.
LEMMA NotedMember ==
    ASSUME NEW part, part.kind # "use" PROVE Noted(part) = matchings
  BY DEF Noted

\* A use that is noted at the innermost frame follows on the ones before it.
LEMMA NotedJoins ==
    ASSUME Walk, Explained, outcome = "running", NEW part \in Top.todo
    PROVE  /\ \A i \in 1..Len(Noted(part)) :
                 Noted(part)[i].used \in usesOf[Noted(part)[i].user]
           /\ \A i \in 2..Len(Noted(part)) :
                 Noted(part)[i - 1].used
                    \in {Noted(part)[i].user, memberOf[Noted(part)[i].user]}
  <1> DEFINE n == Len(frames)
             m == Len(matchings)
  <1>0. WalkTypes
    BY DEF Walk
  <1>1. n \in Nat /\ n \in 1..n /\ Top = frames[n] /\ Top.owner \in Owners
    BY InnermostFrame DEF Walk
  <1>2. part \in Parts(Top.owner)
    BY <1>1 DEF Walk, Chain
  <1>3. part \in Part
    BY <1>1, <1>2, PartsOf DEF Walk
  <1>4. CASE part.kind # "use"
    <2>1. Noted(part) = matchings
      BY <1>4, NotedMember
    <2> QED  BY <2>1 DEF Explained, UsesJoin
  <1>5. CASE part.kind = "use"
    <2>1. /\ m \in Nat /\ Len(Noted(part)) = m + 1
          /\ Noted(part)[m + 1].user = Top.owner
          /\ Noted(part)[m + 1].used = part.of
          /\ \A i \in 1..m : Noted(part)[i] = matchings[i]
      BY <1>0, <1>3, <1>5, NotedUse
    <2>2. part.of \in usesOf[Top.owner]
      BY <1>2, <1>5 DEF Parts
    <2>3. m > 0 => matchings[m].used \in {Top.owner, memberOf[Top.owner]}
      <3>1. EndOf(n) = m
        BY <1>1 DEF EndOf
      <3>2. CASE n = 1
        BY <3>1, <3>2 DEF Explained, UsesLead
      <3>3. CASE n # 1
        <4>1. n \in 2..n
          <5> HIDE DEF n
          <5> QED  BY <1>1, <3>3
        <4> QED  BY <1>1, <3>1, <4>1 DEF Explained, UsesLead
      <3> QED  BY <3>2, <3>3
    <2>4. ASSUME NEW i \in 1..m + 1
          PROVE  Noted(part)[i].used \in usesOf[Noted(part)[i].user]
      <3>1. CASE i = m + 1
        BY <2>1, <2>2, <3>1
      <3>2. CASE i \in 1..m
        BY <2>1, <3>2 DEF Explained, UsesJoin
      <3> QED  BY <2>1, <3>1, <3>2
    <2>5. ASSUME NEW i \in 2..m + 1
          PROVE  Noted(part)[i - 1].used
                    \in {Noted(part)[i].user, memberOf[Noted(part)[i].user]}
      <3>1. CASE i = m + 1
        <4>1. m \in 1..m /\ m > 0 /\ i - 1 = m
          BY <2>1, <3>1
        <4>2. Noted(part)[i - 1] = matchings[m] /\ Noted(part)[i].user = Top.owner
          BY <2>1, <3>1, <4>1
        <4> QED  BY <2>3, <4>1, <4>2
      <3>2. CASE i \in 2..m
        <4>1. i \in 1..m /\ i - 1 \in 1..m
          BY <2>1, <3>2
        <4>2. Noted(part)[i] = matchings[i] /\ Noted(part)[i - 1] = matchings[i - 1]
          BY <2>1, <4>1
        <4> QED  BY <3>2, <4>2 DEF Explained, UsesJoin
      <3> QED  BY <2>1, <3>1, <3>2
    <2> QED  BY <2>1, <2>4, <2>5
  <1> QED  BY <1>4, <1>5

\* At the start nothing is noted.
LEMMA ExplainedInit == UseDefInit => Explained
  <1> SUFFICES ASSUME UseDefInit PROVE Explained
    OBVIOUS
  <1>1. matchings = <<>> /\ frames = <<Frame(Root, 0)>>
    BY DEF UseDefInit, UseDefStart
  <1>2. Len(matchings) = 0 /\ Len(frames) = 1
    BY <1>1
  <1> QED  BY <1>2 DEF Explained, UsesJoin, UsesLead, EndOf

\* A definition is entered: by a use that now ends the list, or as a member.
LEMMA ExplainedEnter ==
    ASSUME Walk, Explained, NEW part \in Part, Enter(part)
    PROVE  Explained'
  <1> DEFINE n == Len(frames)
             m == Len(matchings)
  <1>0. WalkTypes
    BY DEF Walk
  <1>1. n \in Nat /\ n \in 1..n /\ Top = frames[n] /\ Top.owner \in Owners
    BY InnermostFrame DEF Walk
  <1>2. /\ Len(frames') = n + 1
        /\ \A i \in 1..n : /\ frames'[i].owner = frames[i].owner
                           /\ frames'[i].kept = frames[i].kept
        /\ frames'[n + 1].owner = part.of
        /\ frames'[n + 1].kept = m
    BY EnterFrames DEF Walk
  <1>3. /\ matchings' = Noted(part) /\ usesOf' = usesOf /\ memberOf' = memberOf
        /\ outcome = "running" /\ part \in Top.todo
    BY DEF Enter
  <1>4. UsesJoin'
    BY <1>3, NotedJoins DEF UsesJoin
  <1>5. part \in Parts(Top.owner) /\ part.of \in Definitions
    BY <1>1, <1>3 DEF Walk, Chain, Part
  <1>6. /\ m \in Nat /\ Len(matchings') \in Nat
        /\ \A i \in 1..m : matchings'[i] = matchings[i]
    <2>1. CASE part.kind = "use"
      BY <1>0, <1>3, <2>1, NotedUse
    <2>2. CASE part.kind # "use"
      BY <1>0, <1>3, <2>2, NotedMember DEF WalkTypes
    <2> QED  BY <2>1, <2>2
  <1>7. \A i \in 1..n : EndOf(i)' = EndOf(i) /\ EndOf(i) \in 0..m
    <2> SUFFICES ASSUME NEW i \in 1..n PROVE EndOf(i)' = EndOf(i) /\ EndOf(i) \in 0..m
      OBVIOUS
    <2>1. CASE i = n
      BY <1>1, <1>2, <1>6, <2>1 DEF EndOf
    <2>2. CASE i # n
      <3>1. i + 1 \in 1..n /\ i < n /\ i < n + 1
        BY <1>1, <2>2
      <3>2. frames[i + 1].kept \in Nat /\ frames[i + 1].kept <= m
        BY <3>1, InnermostFrame DEF Walk, KeptInOrder, CallType
      <3> QED  BY <1>2, <1>6, <3>1, <3>2 DEF EndOf
    <2> QED  BY <2>1, <2>2
  <1>8. EndOf(n + 1)' = Len(matchings')
    BY <1>1, <1>2 DEF EndOf
  <1>9. ASSUME NEW i \in 2..n
        PROVE  IF EndOf(i)' = 0 THEN memberOf[frames'[i].owner] = frames'[i - 1].owner
               ELSE matchings'[EndOf(i)'].used
                       \in {frames'[i].owner, memberOf[frames'[i].owner]}
    <2>1. i \in 1..n /\ i - 1 \in 1..n
      BY <1>1
    <2>2. EndOf(i)' = EndOf(i) /\ EndOf(i) \in 0..m
      BY <1>7, <2>1
    <2>3. EndOf(i) # 0 => matchings'[EndOf(i)] = matchings[EndOf(i)]
      BY <1>6, <2>2
    <2>4. IF EndOf(i) = 0 THEN memberOf[frames[i].owner] = frames[i - 1].owner
          ELSE matchings[EndOf(i)].used \in {frames[i].owner, memberOf[frames[i].owner]}
      BY <1>3 DEF Explained, UsesLead
    <2> QED  BY <1>2, <2>1, <2>2, <2>3, <2>4
  <1>10. IF EndOf(n + 1)' = 0 THEN memberOf[part.of] = frames'[n].owner
         ELSE matchings'[EndOf(n + 1)'].used \in {part.of, memberOf[part.of]}
    <2>1. CASE part.kind = "use"
      <3>1. Len(matchings') = m + 1 /\ matchings'[m + 1].used = part.of
        BY <1>0, <1>3, <2>1, NotedUse
      <3> QED  BY <1>6, <1>8, <3>1
    <2>2. CASE part.kind # "use"
      <3>1. matchings' = matchings /\ EndOf(n) = m
        BY <1>1, <1>3, <2>2, NotedMember DEF EndOf
      <3>2. memberOf[part.of] = Top.owner /\ frames'[n].owner = Top.owner
        BY <1>1, <1>2, <1>5, <2>2 DEF Parts
      <3>3. CASE m = 0
        BY <1>8, <3>1, <3>2, <3>3
      <3>4. CASE m # 0
        <4>1. n \in 2..n
          BY <1>1, <1>3, <3>1, <3>4 DEF Explained, UsesLead
        <4>2. matchings[m].used \in {Top.owner, memberOf[Top.owner]}
          BY <1>1, <1>3, <3>1, <3>4, <4>1 DEF Explained, UsesLead
        <4>3. Top.owner \in Definitions
          BY <1>1, <4>1 DEF Walk, Chain
        <4>4. memberOf[Top.owner] = Root
          BY <1>5, <3>2, <4>3, RootAssumption DEF Walk, Nested
        <4>5. matchings[m].used \in Definitions
          <5>1. matchings[m] \in MatchType
            BY <1>6, <3>4 DEF Walk, WalkTypes
          <5> QED  BY <5>1 DEF MatchType
        <4>6. matchings[m].used = Top.owner
          BY <4>2, <4>4, <4>5, RootAssumption
        <4> QED  BY <1>8, <3>1, <3>2, <3>4, <4>6
      <3> QED  BY <3>3, <3>4
    <2> QED  BY <2>1, <2>2
  <1>11. EndOf(1)' = 0
    <2>1. 1 \in 1..n
      BY <1>1
    <2> QED  BY <1>3, <1>7, <2>1 DEF Explained, UsesLead
  <1>12. ASSUME NEW i \in 2..Len(frames')
         PROVE  IF EndOf(i)' = 0 THEN memberOf[frames'[i].owner] = frames'[i - 1].owner
                ELSE matchings'[EndOf(i)'].used
                       \in {frames'[i].owner, memberOf[frames'[i].owner]}
    <2>1. CASE i = n + 1
      <3>1. i - 1 = n
        BY <1>1, <2>1
      <3>2. EndOf(i)' = EndOf(n + 1)' /\ frames'[i].owner = part.of
        BY <1>2, <2>1 DEF EndOf
      <3>3. frames'[i - 1] = frames'[n] /\ memberOf' = memberOf
        BY <1>3, <3>1
      <3> HIDE DEF n, m
      <3> QED  BY <1>3, <1>10, <3>2, <3>3
    <2>2. CASE i \in 2..n
      BY <1>9, <2>2
    <2> QED  BY <1>1, <1>2, <2>1, <2>2
  <1>13. UsesLead'
    BY <1>3, <1>11, <1>12 DEF UsesLead
  <1> QED  BY <1>4, <1>13 DEF Explained

\* On the way out the list is cut back to what it was on the way in.
LEMMA ExplainedLeave ==
    ASSUME Walk, Explained, Leave
    PROVE  Explained'
  <1> DEFINE n == Len(frames)
             k == frames[n].kept
  <1>1. n \in Nat /\ n \in 1..n /\ Top = frames[n]
    BY InnermostFrame DEF Walk
  <1>2. /\ Len(frames') = n - 1 /\ n > 1
        /\ \A i \in 1..(n - 1) : frames'[i] = frames[i]
    BY LeaveFrames DEF Walk
  <1>3. Len(matchings') = k /\ \A i \in 1..k : matchings'[i] = matchings[i]
    BY <1>1, CutBack DEF Walk
  <1>4. k \in Nat /\ k <= Len(matchings) /\ Len(matchings) \in Nat
    BY <1>1, InnermostFrame DEF Walk, WalkTypes, KeptInOrder, CallType
  <1>5. usesOf' = usesOf /\ memberOf' = memberOf /\ outcome = "running"
    BY DEF Leave
  <1>6. UsesJoin'
    <2>1. ASSUME NEW i \in 1..Len(matchings')
          PROVE  matchings'[i].used \in usesOf'[matchings'[i].user]
      <3>1. i \in 1..Len(matchings) /\ matchings'[i] = matchings[i]
        BY <1>3, <1>4
      <3> QED  BY <1>5, <3>1 DEF Explained, UsesJoin
    <2>2. ASSUME NEW i \in 2..Len(matchings')
          PROVE  matchings'[i - 1].used
                    \in {matchings'[i].user, memberOf'[matchings'[i].user]}
      <3>1. /\ i \in 2..Len(matchings)
            /\ matchings'[i] = matchings[i] /\ matchings'[i - 1] = matchings[i - 1]
        BY <1>3, <1>4
      <3> QED  BY <1>5, <3>1 DEF Explained, UsesJoin
    <2> QED  BY <2>1, <2>2 DEF UsesJoin
  <1>7. ASSUME NEW i \in 1..(n - 1) PROVE EndOf(i)' = EndOf(i) /\ EndOf(i) \in 0..k
    <2>1. i < n /\ i + 1 \in 1..n /\ i + 1 <= n
      BY <1>1
    <2>2. EndOf(i) = frames[i + 1].kept
      BY <2>1 DEF EndOf
    <2>3. EndOf(i)' = frames[i + 1].kept
      <3>1. CASE i = n - 1
        BY <1>1, <1>2, <1>3, <3>1 DEF EndOf
      <3>2. CASE i # n - 1
        <4>1. i < n - 1 /\ i + 1 \in 1..(n - 1)
          BY <1>1, <3>2
        <4> QED  BY <1>2, <4>1 DEF EndOf
      <3> QED  BY <3>1, <3>2
    <2>4. frames[i + 1].kept \in Nat /\ frames[i + 1].kept <= k
      BY <1>1, <2>1, InnermostFrame DEF Walk, KeptInOrder, CallType
    <2> QED  BY <1>4, <2>2, <2>3, <2>4
  <1>8. ASSUME NEW i \in 2..Len(frames')
        PROVE  IF EndOf(i)' = 0 THEN memberOf'[frames'[i].owner] = frames'[i - 1].owner
               ELSE matchings'[EndOf(i)'].used
                       \in {frames'[i].owner, memberOf'[frames'[i].owner]}
    <2>1. i \in 1..(n - 1) /\ i - 1 \in 1..(n - 1) /\ i \in 2..n
      BY <1>1, <1>2
    <2>2. EndOf(i)' = EndOf(i) /\ EndOf(i) \in 0..k
      BY <1>7, <2>1
    <2>3. EndOf(i) # 0 => matchings'[EndOf(i)] = matchings[EndOf(i)]
      BY <1>3, <1>4, <2>2
    <2>4. IF EndOf(i) = 0 THEN memberOf[frames[i].owner] = frames[i - 1].owner
          ELSE matchings[EndOf(i)].used \in {frames[i].owner, memberOf[frames[i].owner]}
      BY <1>5, <2>1 DEF Explained, UsesLead
    <2> QED  BY <1>2, <1>5, <2>1, <2>2, <2>3, <2>4
  <1>9. EndOf(1)' = 0
    <2>1. 1 \in 1..(n - 1)
      BY <1>1, <1>2
    <2> QED  BY <1>5, <1>7, <2>1 DEF Explained, UsesLead
  <1>10. UsesLead'
    BY <1>8, <1>9 DEF UsesLead
  <1> QED  BY <1>6, <1>10 DEF Explained

\* Every step keeps the list one path.
LEMMA ExplainedNext == Walk /\ Explained /\ [UseDefNext]_udVars => Explained'
  <1> SUFFICES ASSUME Walk, Explained, [UseDefNext]_udVars PROVE Explained'
    OBVIOUS
  <1>1. ASSUME NEW part \in Part, Skip(part) PROVE Explained'
    <2>1. /\ Len(frames') = Len(frames)
          /\ \A i \in 1..Len(frames) : /\ frames'[i].owner = frames[i].owner
                                       /\ frames'[i].kept = frames[i].kept
      BY <1>1, SkipFrames DEF Walk
    <2>2. /\ usesOf' = usesOf /\ memberOf' = memberOf /\ matchings' = matchings
          /\ outcome' = outcome
      BY <1>1 DEF Skip
    <2>3. Len(frames) \in Nat
      BY InnermostFrame DEF Walk
    <2>4. ASSUME NEW i \in 1..Len(frames) PROVE EndOf(i)' = EndOf(i)
      <3>1. i < Len(frames) => i + 1 \in 1..Len(frames)
        BY <2>3
      <3> QED  BY <2>1, <2>2, <3>1 DEF EndOf
    <2>5. UsesJoin'
      BY <2>2 DEF Explained, UsesJoin
    <2>6. 1 \in 1..Len(frames)
      BY <2>3, InnermostFrame DEF Walk
    <2>7. ASSUME NEW i \in 2..Len(frames), outcome = "running"
          PROVE  IF EndOf(i)' = 0 THEN memberOf'[frames'[i].owner] = frames'[i - 1].owner
                 ELSE matchings'[EndOf(i)'].used
                         \in {frames'[i].owner, memberOf'[frames'[i].owner]}
      <3>1. i \in 1..Len(frames) /\ i - 1 \in 1..Len(frames)
        BY <2>3
      <3>2. IF EndOf(i) = 0 THEN memberOf[frames[i].owner] = frames[i - 1].owner
            ELSE matchings[EndOf(i)].used \in {frames[i].owner, memberOf[frames[i].owner]}
        BY <2>7 DEF Explained, UsesLead
      <3>3. EndOf(i)' = EndOf(i)
        BY <2>4, <3>1
      <3> QED  BY <2>1, <2>2, <3>1, <3>2, <3>3
    <2>8. UsesLead'
      BY <2>1, <2>2, <2>4, <2>6, <2>7 DEF Explained, UsesLead
    <2> QED  BY <2>5, <2>8 DEF Explained
  <1>2. ASSUME NEW part \in Part, Enter(part) PROVE Explained'
    BY <1>2, ExplainedEnter
  <1>3. ASSUME NEW part \in Part, Report(part) PROVE Explained'
    <2>1. /\ matchings' = Noted(part) /\ part \in Top.todo /\ outcome = "running"
          /\ usesOf' = usesOf /\ memberOf' = memberOf /\ outcome' = "cycle"
      BY <1>3 DEF Report
    <2>2. UsesJoin'
      BY <2>1, NotedJoins DEF UsesJoin
    <2> QED  BY <2>1, <2>2 DEF Explained, UsesLead
  <1>4. CASE Leave
    BY <1>4, ExplainedLeave
  <1>5. CASE Pass
    BY <1>5 DEF Pass, Explained, UsesJoin, UsesLead
  <1>6. CASE UNCHANGED udVars
    BY <1>6 DEF udVars, Explained, UsesJoin, UsesLead, EndOf
  <1> QED  BY <1>1, <1>2, <1>3, <1>4, <1>5, <1>6 DEF UseDefNext

\* A cycle that is reported has a use in it: of members alone there is none.
LEMMA CycleHasAUse ==
    ASSUME Walk, Explained, NEW part \in Part, Report(part)
    PROVE  matchings' # <<>>
  <1> DEFINE n == Len(frames)
  <1>0. WalkTypes
    BY DEF Walk
  <1>1. n \in Nat /\ n \in 1..n /\ Top = frames[n] /\ Depth = n
    BY InnermostFrame DEF Walk, Depth
  <1>2. /\ matchings' = Noted(part) /\ part \in Top.todo /\ outcome = "running"
        /\ InProgress(part.of)
    BY DEF Report
  <1>3. SUFFICES Len(matchings') # 0
    BY EmptySeq
  <1>4. CASE part.kind = "use"
    BY <1>0, <1>2, <1>4, NotedUse
  <1>5. CASE part.kind # "use"
    <2>1. matchings' = matchings /\ EndOf(n) = Len(matchings)
      BY <1>1, <1>2, <1>5, NotedMember DEF EndOf
    <2>2. PICK i \in 2..n : frames[i].owner = part.of
      BY <1>1, <1>2 DEF InProgress
    <2>3. memberOf[part.of] = frames[n].owner
      BY <1>1, <1>2, <1>5 DEF Walk, Chain, Parts
    <2>4. SUFFICES ASSUME Len(matchings) = 0 PROVE FALSE
      BY <2>1
    <2>5. EndOf(i) = 0
      <3>1. CASE i = n
        BY <2>1, <2>4, <3>1
      <3>2. CASE i # n
        <4>1. i < n /\ i + 1 \in 1..n
          BY <1>1, <3>2
        <4>2. frames[i + 1].kept \in Nat /\ frames[i + 1].kept <= Len(matchings)
          BY <4>1, InnermostFrame DEF Walk, KeptInOrder, CallType
        <4> QED  BY <2>4, <4>1, <4>2 DEF EndOf
      <3> QED  BY <3>1, <3>2
    <2>6. frames[i - 1].owner = frames[n].owner
      BY <1>2, <2>2, <2>3, <2>5 DEF Explained, UsesLead
    <2>7. i - 1 \in 1..n /\ i - 1 # n
      BY <1>1
    <2> QED  BY <1>1, <2>6, <2>7 DEF Walk, Chain
  <1> QED  BY <1>4, <1>5

\* The list that explains the error is one path of uses, for any definitions and
\* uses (CheckUseDefCycles: use_def_matching_list).
THEOREM ErrorsAreExplained == UseDefSpec => []ErrorShowsAPath
  <1> DEFINE Inv == Walk /\ Explained /\ (outcome = "cycle" => matchings # <<>>)
  <1>1. UseDefInit => Inv
    BY WalkInit, ExplainedInit DEF UseDefInit, UseDefStart
  <1>2. Inv /\ [UseDefNext]_udVars => Inv'
    <2> SUFFICES ASSUME Inv, [UseDefNext]_udVars PROVE Inv'
      OBVIOUS
    <2>1. Walk' /\ Explained'
      BY WalkNext, ExplainedNext
    <2>2. (outcome = "cycle" => matchings # <<>>)'
      <3>1. ASSUME NEW part \in Part, Report(part) PROVE matchings' # <<>>
        BY <3>1, CycleHasAUse
      <3>2. CASE outcome' # "cycle" \/ UNCHANGED <<outcome, matchings>>
        BY <3>2
      <3> QED
        BY <3>1, <3>2 DEF UseDefNext, udVars, Skip, Enter, Leave, Pass
    <2> QED  BY <2>1, <2>2
  <1>3. Inv => ErrorShowsAPath
    <2> SUFFICES ASSUME Inv, outcome = "cycle" PROVE ErrorShowsAPath
      BY DEF ErrorShowsAPath
    <2>1. DOMAIN matchings = 1..Len(matchings)
      BY DEF Walk, WalkTypes
    <2> QED  BY <2>1 DEF Explained, UsesJoin, ErrorShowsAPath
  <1> HIDE DEF Inv
  <1> QED  BY <1>1, <1>2, <1>3, PTL DEF UseDefSpec

-----------------------------------------------------------------------------
FrameType == [choice : ChoiceDefs, rest : SUBSET Arc]

SearchTypes ==
    /\ arcs \subseteq Arc
    /\ starts \subseteq ChoiceDefs
    /\ path \in Seq(FrameType)
    /\ cyclic \in BOOLEAN
    /\ acyclic \subseteq ChoiceDefs

\* The calls in progress: each but the first for an arc of the one outside it.
OnAPath ==
    /\ \A i \in 1..Len(path) : path[i].rest \subseteq ArcsFrom(path[i].choice)
    /\ \A i \in 2..Len(path) :
          \E a \in ArcsFrom(path[i - 1].choice) : a.to = path[i].choice

\* An arc that is no longer to be followed led to a choice that has been
\* returned from, or leads to the call inside this one.
ArcsTaken ==
    \A i \in 1..Len(path) : \A a \in ArcsFrom(path[i].choice) :
        \/ a \in path[i].rest
        \/ a.to \in acyclic
        \/ i < Len(path) /\ a.to = path[i + 1].choice

ReturnedClosed == \A c \in acyclic : \A a \in ArcsFrom(c) : a.to \in acyclic

\* As long as no cycle was found, every choice with an arc is still to be
\* searched from, has been returned from, or is the one the search is from.
SearchedSoFar ==
    ~cyclic => \A c \in ChoiceDefs : ArcsFrom(c) # {} =>
        \/ c \in starts
        \/ c \in acyclic
        \/ path # <<>> /\ path[1].choice = c

Search ==
    /\ SearchTypes /\ OnAPath /\ ArcsTaken
    /\ ReturnedClosed /\ WellFounded(acyclic)
    /\ SearchedSoFar
    /\ cyclic => ~WellFounded(ChoiceDefs)

-----------------------------------------------------------------------------
\* A choice whose arcs all lead into a closed, well-founded set can join it.
LEMMA Grows ==
    ASSUME SearchTypes, ReturnedClosed, WellFounded(acyclic),
           NEW c \in ChoiceDefs, \A a \in ArcsFrom(c) : a.to \in acyclic
    PROVE  WellFounded(acyclic \cup {c})
  <1>1. SUFFICES ASSUME NEW T \in (SUBSET (acyclic \cup {c})) \ {{}}
                 PROVE  \E d \in T : \A a \in ArcsFrom(d) : a.to \notin T
    BY DEF WellFounded
  <1>2. CASE T \cap acyclic = {}
    <2>1. c \in T /\ c \notin acyclic
      BY <1>1, <1>2
    <2>2. \A a \in ArcsFrom(c) : a.to \notin T
      BY <1>2
    <2> QED  BY <2>1, <2>2
  <1>3. CASE T \cap acyclic # {}
    <2>1. T \cap acyclic \in (SUBSET acyclic) \ {{}}
      BY <1>3
    <2>2. PICK d \in T \cap acyclic : \A a \in ArcsFrom(d) : a.to \notin T \cap acyclic
      BY <2>1 DEF WellFounded
    <2>3. \A a \in ArcsFrom(d) : a.to \in acyclic
      BY <2>2 DEF ReturnedClosed
    <2> QED  BY <2>2, <2>3
  <1> QED  BY <1>2, <1>3

\* An arc from the innermost call back to the path closes a cycle.
LEMMA BackIsCycle ==
    ASSUME SearchTypes, OnAPath, path # <<>>,
           NEW a \in Innermost.rest, OnThePath(a.to)
    PROVE  ~WellFounded(ChoiceDefs)
  <1>1. Len(path) \in Nat /\ Len(path) >= 1
    BY EmptySeq, LenProperties DEF SearchTypes
  <1>2. PICK k \in 1..Len(path) : path[k].choice = a.to
    BY DEF OnThePath
  <1> DEFINE Round == {path[i].choice : i \in k..Len(path)}
  <1>3. ASSUME NEW i \in 1..Len(path) PROVE path[i].choice \in ChoiceDefs
    <2>1. path[i] \in FrameType
      BY ElementOfSeq DEF SearchTypes
    <2> QED  BY <2>1 DEF FrameType
  <1>4. Round \in (SUBSET ChoiceDefs) \ {{}}
    <2>1. k \in k..Len(path) /\ k..Len(path) \subseteq 1..Len(path)
      BY <1>1, <1>2
    <2>2. path[k].choice \in Round
      BY <2>1
    <2>3. Round \subseteq ChoiceDefs
      BY <1>3, <2>1
    <2> QED  BY <2>2, <2>3
  <1>5. a \in ArcsFrom(path[Len(path)].choice)
    BY <1>1 DEF OnAPath, Innermost
  <1>6. ASSUME NEW i \in k..Len(path)
        PROVE  \E b \in ArcsFrom(path[i].choice) : b.to \in Round
    <2>1. CASE i = Len(path)
      BY <1>1, <1>2, <1>5, <2>1
    <2>2. CASE i # Len(path)
      <3>1. i + 1 \in 2..Len(path) /\ i + 1 \in k..Len(path) /\ (i + 1) - 1 = i
        BY <1>1, <1>2, <2>2
      <3>2. \E b \in ArcsFrom(path[(i + 1) - 1].choice) : b.to = path[i + 1].choice
        BY <3>1 DEF OnAPath
      <3> QED  BY <3>1, <3>2
    <2> QED  BY <2>1, <2>2
  <1>7. \A c \in Round : \E b \in ArcsFrom(c) : b.to \in Round
    BY <1>6
  <1> HIDE DEF Round
  <1> QED  BY <1>4, <1>7 DEF WellFounded

-----------------------------------------------------------------------------
\* A search that is about to start has nothing wrong, if it starts at every choice
\* that has an arc.
LEMMA SearchStarts ==
    ASSUME NEW A \in SUBSET Arc, NEW S \in SUBSET ChoiceDefs, Searching(A, S),
           \A a \in A : a.from \in S
    PROVE  Search
  <1>1. path = <<>> /\ Len(path) = 0
    BY EmptySeq DEF Searching
  <1>2. SearchTypes
    BY <1>1, EmptySeq DEF Searching, SearchTypes
  <1>3. WellFounded(acyclic)
    BY DEF Searching, WellFounded
  <1>4. SearchedSoFar
    BY DEF Searching, SearchedSoFar, ArcsFrom
  <1> QED
    BY <1>1, <1>2, <1>3, <1>4
    DEF Search, Searching, OnAPath, ArcsTaken, ReturnedClosed

\* A search from one more choice starts with an empty path.
LEMMA FromKeeps ==
    ASSUME Search, NEW c \in ChoiceDefs, SearchFrom(c)
    PROVE  Search'
  <1>1. arcs' = arcs /\ acyclic' = acyclic /\ cyclic' = cyclic
    BY DEF SearchFrom
  <1>2. path' = <<Visit(c)>> /\ Len(path') = 1 /\ path'[1] = Visit(c)
    BY DEF SearchFrom
  <1>3. Visit(c) \in FrameType
    BY DEF Visit, FrameType, ArcsFrom, Search, SearchTypes
  <1>4. SearchTypes'
    BY <1>1, <1>2, <1>3 DEF SearchFrom, Search, SearchTypes
  <1>5. OnAPath'
    BY <1>1, <1>2 DEF OnAPath, Visit, ArcsFrom
  <1>6. ArcsTaken'
    BY <1>1, <1>2 DEF ArcsTaken, Visit, ArcsFrom
  <1>7. ReturnedClosed' /\ WellFounded(acyclic)' /\ (cyclic => ~WellFounded(ChoiceDefs))'
    BY <1>1 DEF Search, ReturnedClosed, WellFounded, ArcsFrom
  <1>8. SearchedSoFar'
    BY <1>1, <1>2 DEF Search, SearchedSoFar, SearchFrom, Visit, ArcsFrom
  <1> QED  BY <1>4, <1>5, <1>6, <1>7, <1>8 DEF Search

\* Following an arc extends the path by the call it leads to.
LEMMA FollowKeeps ==
    ASSUME Search, NEW a \in arcs, Follow(a)
    PROVE  Search'
  <1> DEFINE n == Len(path)
             cut == [path EXCEPT ![Len(path)].rest = @ \ {a}]
  <1>1. arcs' = arcs /\ acyclic' = acyclic /\ cyclic' = cyclic /\ starts' = starts
    BY DEF Follow
  <1>2. n \in Nat /\ n >= 1 /\ path \in Seq(FrameType)
    BY EmptySeq, LenProperties DEF Follow, Search, SearchTypes
  <1>3. a \in path[n].rest /\ a \in Arc /\ a.to \in ChoiceDefs /\ a \in ArcsFrom(path[n].choice)
    BY <1>2 DEF Follow, Innermost, Search, SearchTypes, OnAPath, Arc
  <1>4. path[n] \in FrameType
    BY <1>2, ElementOfSeq
  <1>5. /\ cut \in Seq(FrameType) /\ Len(cut) = n
        /\ cut[n].choice = path[n].choice /\ cut[n].rest = path[n].rest \ {a}
        /\ \A i \in 1..n - 1 : cut[i] = path[i]
    <2>1. [path[n] EXCEPT !.rest = @ \ {a}] \in FrameType
      BY <1>4 DEF FrameType
    <2>2. cut = [path EXCEPT ![n] = [path[n] EXCEPT !.rest = @ \ {a}]]
      OBVIOUS
    <2> QED  BY <1>2, <1>4, <2>1, <2>2, ExceptSeq DEF FrameType
  <1>6. Visit(a.to) \in FrameType
    BY <1>3 DEF Visit, FrameType, ArcsFrom, Search, SearchTypes
  <1>7. /\ path' \in Seq(FrameType) /\ Len(path') = n + 1
        /\ path'[n + 1] = Visit(a.to)
        /\ path'[n].choice = path[n].choice /\ path'[n].rest = path[n].rest \ {a}
        /\ \A i \in 1..n - 1 : path'[i] = path[i]
    <2>1. path' = Append(cut, Visit(a.to))
      BY DEF Follow
    <2> HIDE DEF cut
    <2> QED  BY <1>2, <1>5, <1>6, <2>1, AppendProperties
  <1> HIDE DEF n, cut
  <1>8. \A i \in 1..n : /\ path'[i].choice = path[i].choice
                        /\ path'[i].rest \subseteq path[i].rest
    BY <1>2, <1>7
  <1>9. SearchTypes'
    BY <1>1, <1>7 DEF Search, SearchTypes
  <1>10. OnAPath'
    <2>1. ASSUME NEW i \in 1..n + 1 PROVE path'[i].rest \subseteq ArcsFrom(path'[i].choice)
      <3>1. CASE i = n + 1  BY <1>7, <3>1 DEF Visit
      <3>2. CASE i \in 1..n  BY <1>8, <3>2 DEF Search, OnAPath, n
      <3> QED  BY <1>2, <3>1, <3>2
    <2>2. ASSUME NEW i \in 2..n + 1
          PROVE  \E b \in ArcsFrom(path'[i - 1].choice) : b.to = path'[i].choice
      <3>1. CASE i = n + 1
        BY <1>2, <1>3, <1>7, <3>1 DEF Visit
      <3>2. CASE i # n + 1
        <4>1. i \in 2..n /\ i - 1 \in 1..n
          BY <1>2, <3>2
        <4> QED  BY <1>8, <4>1 DEF Search, OnAPath, n
      <3> QED  BY <3>1, <3>2
    <2>3. \A c : ArcsFrom(c)' = ArcsFrom(c)
      BY <1>1 DEF ArcsFrom
    <2> QED  BY <1>7, <2>1, <2>2, <2>3, <1>1 DEF OnAPath, ArcsFrom
  <1>11. ArcsTaken'
    <2>1. SUFFICES ASSUME NEW i \in 1..n + 1, NEW b \in ArcsFrom(path'[i].choice)
                   PROVE  \/ b \in path'[i].rest
                          \/ b.to \in acyclic
                          \/ i < n + 1 /\ b.to = path'[i + 1].choice
      BY <1>1, <1>7 DEF ArcsTaken, ArcsFrom
    <2>2. CASE i = n + 1
      BY <1>7, <2>2 DEF Visit
    <2>3. CASE i = n
      <3>1. \/ b \in path[n].rest \/ b.to \in acyclic
        BY <1>2, <1>7, <2>3 DEF Search, ArcsTaken, n
      <3> QED  BY <1>2, <1>7, <2>3, <3>1 DEF Visit
    <2>4. CASE i \in 1..n - 1
      <3>1. \/ b \in path[i].rest \/ b.to \in acyclic \/ b.to = path[i + 1].choice
        BY <1>2, <1>7, <2>4 DEF Search, ArcsTaken, n
      <3>2. path'[i] = path[i] /\ i + 1 \in 1..n /\ path'[i + 1].choice = path[i + 1].choice
        BY <1>2, <1>7, <1>8, <2>4
      <3> QED  BY <1>2, <2>4, <3>1, <3>2
    <2> QED  BY <1>2, <2>2, <2>3, <2>4
  <1>12. ReturnedClosed' /\ WellFounded(acyclic)' /\ (cyclic => ~WellFounded(ChoiceDefs))'
    BY <1>1 DEF Search, ReturnedClosed, WellFounded, ArcsFrom
  <1>13. SearchedSoFar'
    <2>1. path # <<>> /\ path' # <<>> /\ path'[1].choice = path[1].choice
      BY <1>2, <1>7, <1>8, EmptySeq DEF Follow
    <2> QED  BY <1>1, <2>1 DEF Search, SearchedSoFar, ArcsFrom
  <1> QED  BY <1>9, <1>10, <1>11, <1>12, <1>13 DEF Search

\* An arc back to the path ends the search, with the cycle that it closes.
LEMMA CloseKeeps ==
    ASSUME Search, NEW a \in arcs, Close(a)
    PROVE  Search'
  <1>1. arcs' = arcs /\ acyclic' = acyclic /\ cyclic' = TRUE /\ starts' = starts /\ path' = <<>>
    BY DEF Close
  <1>2. ~WellFounded(ChoiceDefs)
    BY BackIsCycle DEF Search, Close
  <1>3. Len(path') = 0
    BY <1>1, EmptySeq
  <1>4. SearchTypes'
    BY <1>1, EmptySeq DEF Search, SearchTypes
  <1>5. OnAPath' /\ ArcsTaken'
    BY <1>3 DEF OnAPath, ArcsTaken
  <1>6. ReturnedClosed' /\ WellFounded(acyclic)' /\ ~WellFounded(ChoiceDefs)'
    BY <1>1, <1>2 DEF Search, ReturnedClosed, WellFounded, ArcsFrom
  <1> QED  BY <1>1, <1>4, <1>5, <1>6 DEF Search, SearchedSoFar

\* A choice all of whose arcs were followed is returned from, and well-founded.
LEMMA ReturnKeeps ==
    ASSUME Search, Return
    PROVE  Search'
  <1> DEFINE n == Len(path)
             c == path[Len(path)].choice
  <1>1. arcs' = arcs /\ cyclic' = cyclic /\ starts' = starts /\ acyclic' = acyclic \cup {c}
    BY DEF Return, Innermost
  <1>2. n \in Nat /\ n >= 1 /\ path \in Seq(FrameType)
    BY EmptySeq, LenProperties DEF Return, Search, SearchTypes
  <1>3. c \in ChoiceDefs /\ path[n].rest = {}
    <2>1. path[n] \in FrameType
      BY <1>2, ElementOfSeq
    <2> QED  BY <2>1 DEF Return, Innermost, FrameType
  <1>4. \A a \in ArcsFrom(c) : a.to \in acyclic
    BY <1>2, <1>3 DEF Search, ArcsTaken
  <1>5. /\ path' \in Seq(FrameType) /\ Len(path') = n - 1
        /\ \A i \in 1..n - 1 : path'[i] = path[i]
    <2>1. path' = SubSeq(path, 1, n - 1)
      BY DEF Return
    <2>2. n - 1 \in Int /\ \A i \in 1..n - 1 : path[i] \in FrameType
      BY <1>2, ElementOfSeq
    <2> DEFINE cut == SubSeq(path, 1, n - 1)
    <2> HIDE DEF n
    <2>3. /\ cut \in Seq(FrameType)
          /\ Len(cut) = IF 1 <= n - 1 THEN (n - 1) - 1 + 1 ELSE 0
          /\ \A i \in 1..(n - 1) - 1 + 1 : cut[i] = path[1 + i - 1]
      BY <2>2, SubSeqProperties
    <2> HIDE DEF cut
    <2>4. Len(cut) = n - 1
      BY <1>2, <2>3
    <2>5. \A i \in 1..n - 1 : cut[i] = path[i]
      BY <1>2, <2>3
    <2> QED  BY <2>1, <2>3, <2>4, <2>5 DEF cut
  <1>6. SearchTypes'
    BY <1>1, <1>3, <1>5 DEF Search, SearchTypes
  <1>7. WellFounded(acyclic)'
    <2>1. WellFounded(acyclic \cup {c})
      BY <1>3, <1>4, Grows DEF Search
    <2> HIDE DEF c
    <2> QED  BY <1>1, <2>1 DEF WellFounded, ArcsFrom
  <1>8. ReturnedClosed'
    <2> HIDE DEF c
    <2> QED  BY <1>1, <1>4 DEF Search, ReturnedClosed, ArcsFrom
  <1>9. OnAPath'
    <2>1. \A i \in 1..n - 1 : path'[i].rest \subseteq ArcsFrom(path'[i].choice)
      BY <1>2, <1>5 DEF Search, OnAPath
    <2>2. \A i \in 2..n - 1 :
             \E a \in ArcsFrom(path'[i - 1].choice) : a.to = path'[i].choice
      BY <1>2, <1>5 DEF Search, OnAPath
    <2> HIDE DEF n
    <2> QED  BY <1>1, <1>5, <2>1, <2>2 DEF OnAPath, ArcsFrom
  <1>10. ArcsTaken'
    <2>1. SUFFICES ASSUME NEW i \in 1..n - 1, NEW b \in ArcsFrom(path'[i].choice)
                   PROVE  \/ b \in path'[i].rest
                          \/ b.to \in acyclic'
                          \/ i < n - 1 /\ b.to = path'[i + 1].choice
      BY <1>1, <1>5 DEF ArcsTaken, ArcsFrom
    <2>2. path'[i] = path[i] /\ i \in 1..n /\ i < n
      BY <1>2, <1>5
    <2>3. b \in path[i].rest \/ b.to \in acyclic \/ b.to = path[i + 1].choice
      BY <2>2 DEF Search, ArcsTaken
    <2>4. CASE i = n - 1
      BY <1>1, <1>2, <2>2, <2>3, <2>4
    <2>5. CASE i < n - 1
      <3>1. path'[i + 1] = path[i + 1]
        BY <1>2, <1>5, <2>5
      <3> QED  BY <1>1, <2>2, <2>3, <2>5, <3>1
    <2> QED  BY <1>2, <2>4, <2>5
  <1>11. SearchedSoFar'
    <2>1. CASE n = 1
      BY <1>1, <2>1 DEF Search, SearchedSoFar, ArcsFrom
    <2>2. CASE n # 1
      <3>1. path' # <<>> /\ path'[1] = path[1]
        BY <1>2, <1>5, <2>2, EmptySeq
      <3> QED  BY <1>1, <3>1 DEF Search, SearchedSoFar, ArcsFrom
    <2> QED  BY <2>1, <2>2
  <1>12. (cyclic => ~WellFounded(ChoiceDefs))'
    BY <1>1 DEF Search, WellFounded, ArcsFrom
  <1> QED  BY <1>6, <1>7, <1>8, <1>9, <1>10, <1>11, <1>12 DEF Search

\* Throughout the search: the calls are a path, and nothing is forgotten.
LEMMA SearchNext == ASSUME Search, [ChoiceCyclesNext]_ccVars PROVE Search'
  <1>1. ASSUME NEW c \in ChoiceDefs, SearchFrom(c) PROVE Search'
    BY <1>1, FromKeeps
  <1>2. ASSUME NEW a \in arcs, Follow(a) PROVE Search'
    BY <1>2, FollowKeeps
  <1>3. ASSUME NEW a \in arcs, Close(a) PROVE Search'
    BY <1>3, CloseKeeps
  <1>4. CASE Return
    BY <1>4, ReturnKeeps
  <1>5. CASE UNCHANGED ccVars
    <2>1. /\ arcs' = arcs /\ starts' = starts /\ path' = path
          /\ cyclic' = cyclic /\ acyclic' = acyclic
      BY <1>5 DEF ccVars
    <2>2. SearchTypes' /\ OnAPath' /\ ArcsTaken' /\ ReturnedClosed' /\ SearchedSoFar'
      BY <2>1
      DEF Search, SearchTypes, OnAPath, ArcsTaken, ReturnedClosed, SearchedSoFar, ArcsFrom
    <2>3. WellFounded(acyclic)' /\ (cyclic => ~WellFounded(ChoiceDefs))'
      BY <2>1 DEF Search, WellFounded, ArcsFrom
    <2> QED  BY <2>2, <2>3 DEF Search
  <1> QED  BY <1>1, <1>2, <1>3, <1>4, <1>5 DEF ChoiceCyclesNext

\* When the search is over, it has found a cycle if there is one.  A choice
\* without arcs needs no search.
LEMMA SearchTells == ASSUME Search PROVE BlockedIffCyclic
  <1>1. SUFFICES ASSUME Searched, ~cyclic PROVE WellFounded(ChoiceDefs)
    BY DEF BlockedIffCyclic, Search, SearchTypes
  <1>2. \A c \in ChoiceDefs : ArcsFrom(c) # {} => c \in acyclic
    BY <1>1 DEF Search, SearchedSoFar, Searched
  <1>3. ASSUME NEW T \in (SUBSET ChoiceDefs) \ {{}}
        PROVE  \E c \in T : \A a \in ArcsFrom(c) : a.to \notin T
    <2>1. CASE \E c \in T : ArcsFrom(c) = {}
      BY <2>1
    <2>2. CASE \A c \in T : ArcsFrom(c) # {}
      <3>1. T \in (SUBSET acyclic) \ {{}}
        BY <1>2, <2>2
      <3> QED  BY <3>1 DEF Search, WellFounded
    <2> QED  BY <2>1, <2>2
  <1> QED  BY <1>3 DEF WellFounded

\* The invariant of the search for choice cycles (CheckChoiceCycles).
THEOREM SearchInvariant == ChoiceCyclesSpec => []Search
  <1>1. ChoiceCyclesInit => Search
    <2> SUFFICES ASSUME NEW A \in SUBSET Arc, Searching(A, ChoiceDefs) PROVE Search
      BY DEF ChoiceCyclesInit
    <2>1. \A a \in A : a.from \in ChoiceDefs
      BY DEF Arc
    <2> QED  BY <2>1, SearchStarts
  <1>2. Search /\ [ChoiceCyclesNext]_ccVars => Search'
    BY SearchNext
  <1> QED  BY <1>1, <1>2, PTL DEF ChoiceCyclesSpec

\* The search rejects exactly the machines whose choices lead round in a cycle,
\* for every graph of choices: check_choice_cycles misses none and invents none.
THEOREM RejectsExactlyCycles == ChoiceCyclesSpec => []BlockedIffCyclic
  <1>1. Search => BlockedIffCyclic
    BY SearchTells
  <1> QED  BY SearchInvariant, <1>1, PTL

-----------------------------------------------------------------------------
LessThan == {p \in Nat \X Nat : p[1] < p[2]}

\* What holds at a number and, with each number below b, at the next one, holds
\* up to b: the induction over an interval, by its least counterexample.
LEMMA Climbs ==
    ASSUME NEW a \in Nat, NEW b \in Nat, NEW S, a \in S,
           \A i \in a..b - 1 : i \in S => i + 1 \in S
    PROVE  a..b \subseteq S
  <1> DEFINE T == {i \in a..b : i \notin S}
  <1> SUFFICES ASSUME T # {} PROVE FALSE
    OBVIOUS
  <1>1. IsWellFoundedOn(LessThan, Nat)
    BY NatLessThanWellFounded DEF OpToRel, LessThan
  <1>2. T \subseteq Nat
    OBVIOUS
  <1>3. PICK n \in T : \A k \in T : <<k, n>> \notin LessThan
    <2> HIDE DEF T
    <2> QED  BY <1>1, <1>2, WFMin
  <1>4. n \in Nat /\ n # a /\ n >= a /\ n <= b /\ n \notin S
    OBVIOUS
  <1>5. n - 1 \in Nat /\ n - 1 \in a..b - 1 /\ n - 1 < n /\ (n - 1) + 1 = n
    BY <1>4
  <1>6. <<n - 1, n>> \in LessThan
    BY <1>4, <1>5 DEF LessThan
  <1>7. n - 1 \notin T
    BY <1>3, <1>6
  <1>8. n - 1 \in a..b
    BY <1>4, <1>5
  <1>9. n - 1 \in S
    BY <1>7, <1>8
  <1>10. (n - 1) + 1 \in S
    BY <1>5, <1>9
  <1> QED  BY <1>4, <1>5, <1>10

-----------------------------------------------------------------------------
\* What is to be found in the list L of arcs, latest first: a round through the
\* choices C[k], ..., C[n].  P gives the place of the arc to each but the first
\* of them, and P[n + 1] that of the arc that closes the round.
Round(L, k, n, C, P) ==
    /\ L \in Seq(Arc) /\ k \in Nat /\ n \in Nat /\ k <= n
    /\ \A j \in k..n : C[j] \in ChoiceDefs
    /\ \A i, j \in k..n : C[i] = C[j] => i = j
    /\ P[n + 1] = 1 /\ Len(L) >= 1
    /\ L[1].from = C[n] /\ L[1].to = C[k]
    /\ \A j \in k + 1..n :
          /\ P[j] \in 1..Len(L) /\ P[j + 1] < P[j]
          /\ L[P[j]].from = C[j - 1] /\ L[P[j]].to = C[j]
          /\ \A r \in 1..P[j] - 1 : L[r].to # C[j]

RoundArcs(L, k, n, P) == {L[P[j]] : j \in k + 1..n + 1}

\* Where the arcs of a round are, and what they connect.
LEMMA RoundPlaces ==
    ASSUME NEW L, NEW k, NEW n, NEW C, NEW P, Round(L, k, n, C, P)
    PROVE  \A j \in k + 1..n + 1 :
              /\ P[j] \in 1..Len(L) /\ L[P[j]] \in Arc
              /\ L[P[j]].from = C[j - 1]
              /\ j - 1 \in k..n
              /\ L[P[j]].to = IF j = n + 1 THEN C[k] ELSE C[j]
              /\ j # n + 1 => j \in k..n
  <1>1. k \in Nat /\ n \in Nat /\ k <= n /\ Len(L) \in Nat /\ Len(L) >= 1 /\ L \in Seq(Arc)
    BY DEF Round
  <1>2. SUFFICES ASSUME NEW j \in k + 1..n + 1
                 PROVE  /\ P[j] \in 1..Len(L) /\ L[P[j]] \in Arc
                        /\ L[P[j]].from = C[j - 1]
                        /\ j - 1 \in k..n
                        /\ L[P[j]].to = IF j = n + 1 THEN C[k] ELSE C[j]
                        /\ j # n + 1 => j \in k..n
    OBVIOUS
  <1>3. j - 1 \in k..n /\ (j # n + 1 => j \in k + 1..n /\ j \in k..n)
    BY <1>1
  <1>4. CASE j = n + 1
    <2>1. j - 1 = n /\ P[j] = 1 /\ 1 \in 1..Len(L)
      BY <1>1, <1>4 DEF Round
    <2>2. L[1] \in Arc
      BY <1>1
    <2> QED  BY <1>3, <1>4, <2>1, <2>2 DEF Round
  <1>5. CASE j # n + 1
    <2>1. /\ P[j] \in 1..Len(L) /\ L[P[j]].from = C[j - 1] /\ L[P[j]].to = C[j]
      BY <1>3, <1>5 DEF Round
    <2>2. L[P[j]] \in Arc
      BY <1>1, <2>1
    <2> QED  BY <1>3, <1>5, <2>1, <2>2
  <1> QED  BY <1>4, <1>5

\* Cycle::arcs finds exactly the arcs of the round: each arc it looks for next
\* is the latest in the list to that choice.
LEMMA CycleArcsOfRound ==
    ASSUME NEW L, NEW k, NEW n, NEW C, NEW P, Round(L, k, n, C, P)
    PROVE  CycleArcs(L, C[k]) = RoundArcs(L, k, n, P)
  <1> DEFINE next(w, a) ==
                IF w.done \/ a.to # w.end THEN w
                ELSE [end   |-> a.from, taken |-> w.taken \cup {a},
                      done  |-> a.from = C[k]]
             none == [end |-> C[k], taken |-> {}, done |-> FALSE]
             body(g) == [i \in 0..Len(L) |->
                            IF i = 0 THEN none ELSE next(g[i - 1], L[i])]
             walk == CHOOSE g : g = body(g)
             found(l) == [end |-> C[l - 1], taken |-> {L[P[j]] : j \in l..n + 1},
                          done |-> l = k + 1]
             Is(i, l) == l \in k + 1..n + 1 /\ P[l] <= i /\ (l > k + 1 => i < P[l - 1])
             level(i) == CHOOSE l : Is(i, l)
             W == [i \in 0..Len(L) |-> IF i = 0 THEN none ELSE found(level(i))]
  <1>1. /\ k \in Nat /\ n \in Nat /\ k <= n /\ Len(L) \in Nat /\ Len(L) >= 1
        /\ P[n + 1] = 1 /\ L[1].from = C[n] /\ L[1].to = C[k]
    BY DEF Round
  <1>2. CycleArcs(L, C[k]) = walk[Len(L)].taken
    BY DEF CycleArcs
  <1>3. \A j \in k + 1..n + 1 :
              /\ P[j] \in 1..Len(L) /\ P[j] \in Nat
              /\ L[P[j]].from = C[j - 1]
              /\ j - 1 \in k..n
              /\ L[P[j]].to = IF j = n + 1 THEN C[k] ELSE C[j]
    BY <1>1, RoundPlaces
  <1>4. ASSUME NEW l \in k + 1..n + 1, NEW m \in l..n + 1 PROVE P[m] <= P[l]
    <2> DEFINE S == {j \in l..n + 1 : P[j] <= P[l]}
    <2>1. l \in Nat /\ n + 1 \in Nat /\ l \in l..n + 1 /\ l \in k + 1..n + 1
      BY <1>1
    <2>2. l \in S
      BY <1>3, <2>1
    <2>3. ASSUME NEW j \in l..(n + 1) - 1, j \in S PROVE j + 1 \in S
      <3>1. j \in k + 1..n /\ j + 1 \in l..n + 1 /\ j + 1 \in k + 1..n + 1
        BY <1>1
      <3>2. P[j + 1] < P[j]
        BY <3>1 DEF Round
      <3>3. P[j] <= P[l] /\ P[j] \in Nat /\ P[j + 1] \in Nat /\ P[l] \in Nat
        BY <1>3, <2>1, <2>3, <3>1
      <3> QED  BY <3>1, <3>2, <3>3
    <2> HIDE DEF S
    <2>4. l..n + 1 \subseteq S
      BY <2>1, <2>2, <2>3, Climbs
    <2> QED  BY <2>4 DEF S
  <1>5. ASSUME NEW i \in Nat, NEW l, NEW m, Is(i, l), Is(i, m) PROVE l = m
    <2>1. ASSUME NEW x \in k + 1..n + 1, NEW y \in k + 1..n + 1, Is(i, x), Is(i, y), x < y
          PROVE  FALSE
      <3>1. y > k + 1 /\ y - 1 \in k + 1..n + 1 /\ y - 1 \in x..n + 1
        BY <1>1, <2>1
      <3>2. P[y - 1] <= P[x]
        BY <1>4, <3>1
      <3>3. P[x] <= i /\ i < P[y - 1]
        BY <2>1, <3>1
      <3> QED  BY <1>3, <3>1, <3>2, <3>3
    <2>2. l \in k + 1..n + 1 /\ m \in k + 1..n + 1
      BY <1>5
    <2>3. ~(l < m) /\ ~(m < l)
      BY <1>5, <2>1, <2>2
    <2> QED  BY <1>1, <2>2, <2>3
  <1>6. ASSUME NEW i \in Nat, NEW l, Is(i, l) PROVE level(i) = l
    <2>1. Is(i, level(i))
      BY <1>6
    <2> HIDE DEF Is, level
    <2> QED  BY <1>5, <1>6, <2>1
  <1> HIDE DEF level
  <1>7. Is(1, n + 1)
    <2>1. n + 1 \in k + 1..n + 1 /\ P[n + 1] <= 1
      BY <1>1
    <2>2. ASSUME n + 1 > k + 1 PROVE 1 < P[(n + 1) - 1]
      <3>1. n \in k + 1..n /\ (n + 1) - 1 = n
        BY <1>1, <2>2
      <3>2. P[n + 1] < P[n]
        BY <3>1 DEF Round
      <3> QED  BY <1>1, <3>1, <3>2
    <2> QED  BY <2>1, <2>2
  \* From one place in the list to the next.
  <1>8. ASSUME NEW i \in Nat, i >= 1, i + 1 <= Len(L), NEW l, Is(i, l)
        PROVE  \/ /\ l > k + 1 /\ P[l - 1] = i + 1 /\ Is(i + 1, l - 1)
               \/ /\ l > k + 1 /\ i + 1 < P[l - 1] /\ Is(i + 1, l)
               \/ l = k + 1 /\ Is(i + 1, l)
    <2>1. l \in k + 1..n + 1 /\ P[l] <= i /\ (l > k + 1 => i < P[l - 1])
      BY <1>8
    <2>2. CASE l = k + 1
      <3>1. P[l] <= i + 1
        BY <1>3, <2>1
      <3> QED  BY <1>1, <2>1, <2>2, <3>1
    <2>3. CASE l # k + 1
      <3>1. l > k + 1 /\ l - 1 \in k + 1..n + 1 /\ l - 1 \in Nat /\ l \in Nat
        BY <1>1, <2>1, <2>3
      <3>2. P[l - 1] \in Nat /\ P[l] \in Nat /\ i < P[l - 1]
        BY <1>3, <2>1, <3>1
      <3>3. CASE P[l - 1] = i + 1
        <4>1. ASSUME l - 1 > k + 1 PROVE i + 1 < P[(l - 1) - 1]
          <5>1. l - 2 \in k + 1..n /\ (l - 1) - 1 = l - 2 /\ (l - 2) + 1 = l - 1
            BY <1>1, <2>1, <3>1, <4>1
          <5>2. P[l - 1] < P[l - 2]
            BY <5>1 DEF Round
          <5> QED  BY <3>3, <5>1, <5>2
        <4>2. P[l - 1] <= i + 1
          BY <3>3
        <4> QED  BY <3>1, <3>3, <4>1, <4>2
      <3>4. CASE P[l - 1] # i + 1
        <4>1. i + 1 < P[l - 1] /\ P[l] <= i + 1
          BY <2>1, <3>2, <3>4
        <4> QED  BY <2>1, <3>1, <4>1
      <3> QED  BY <3>3, <3>4
    <2> QED  BY <2>2, <2>3
  <1>9. \A i \in 1..Len(L) : Is(i, level(i))
    <2> DEFINE S == {i \in 1..Len(L) : Is(i, level(i))}
    <2>1. 1 \in S
      <3>1. level(1) = n + 1
        BY <1>6, <1>7
      <3> QED  BY <1>1, <1>7, <3>1
    <2>2. ASSUME NEW i \in 1..Len(L) - 1, i \in S PROVE i + 1 \in S
      <3>1. i \in Nat /\ i >= 1 /\ i + 1 <= Len(L) /\ i + 1 \in 1..Len(L) /\ i + 1 \in Nat
        BY <1>1
      <3>2. Is(i, level(i))
        BY <2>2
      <3> HIDE DEF Is
      <3>3. \E m : Is(i + 1, m)
        BY <1>8, <3>1, <3>2
      <3>4. Is(i + 1, level(i + 1))
        BY <1>6, <3>1, <3>3
      <3> QED  BY <3>1, <3>4
    <2> HIDE DEF S
    <2>3. 1..Len(L) \subseteq S
      BY <1>1, <2>1, <2>2, Climbs
    <2> QED  BY <2>3 DEF S
  <1>10. next(none, L[1]) = found(n + 1)
    <2>1. k \in k..n /\ n \in k..n
      BY <1>1
    <2>2. (C[n] = C[k]) <=> (n + 1 = k + 1)
      BY <1>1, <2>1 DEF Round
    <2>3. {L[P[j]] : j \in n + 1..n + 1} = {L[1]}
      <3>1. n + 1..n + 1 = {n + 1}
        BY <1>1
      <3> QED  BY <1>1, <3>1
    <2>4. (n + 1) - 1 = n /\ {} \cup {L[1]} = {L[1]}
      BY <1>1
    <2>5. next(none, L[1]) = [end |-> C[n], taken |-> {L[1]}, done |-> C[n] = C[k]]
      BY <1>1
    <2> QED  BY <2>2, <2>3, <2>4, <2>5
  <1>11. ASSUME NEW i \in Nat, i >= 1, i + 1 <= Len(L), NEW l, Is(i, l)
         PROVE  found(level(i + 1)) = next(found(l), L[i + 1])
    <2>1. l \in k + 1..n + 1 /\ l \in Nat
      BY <1>1, <1>11
    <2>2. CASE l > k + 1 /\ P[l - 1] = i + 1 /\ Is(i + 1, l - 1)
      <3>1. level(i + 1) = l - 1
        BY <1>6, <1>11, <2>2
      <3>2. l - 1 \in k + 1..n + 1 /\ l - 1 # n + 1 /\ (l - 1) - 1 \in k..n
            /\ l - 1 \in k..n /\ k \in k..n
        BY <1>1, <2>1, <2>2
      <3>3. L[i + 1].from = C[(l - 1) - 1] /\ L[i + 1].to = C[l - 1]
        BY <1>3, <2>2, <3>2
      <3>4. (C[(l - 1) - 1] = C[k]) <=> (l - 1 = k + 1)
        <4>1. C[(l - 1) - 1] = C[k] => (l - 1) - 1 = k
          BY <3>2 DEF Round
        <4> QED  BY <1>1, <2>1, <4>1
      <3>5. {L[P[j]] : j \in l - 1..n + 1} = {L[P[j]] : j \in l..n + 1} \cup {L[i + 1]}
        <4>1. l - 1..n + 1 = (l..n + 1) \cup {l - 1}
          BY <1>1, <2>1
        <4> QED  BY <2>2, <4>1
      <3>6. next(found(l), L[i + 1])
               = [end |-> C[(l - 1) - 1], taken |-> {L[P[j]] : j \in l..n + 1} \cup {L[i + 1]},
                  done |-> C[(l - 1) - 1] = C[k]]
        <4>1. ~found(l).done /\ L[i + 1].to = found(l).end
          <5>1. l # k + 1
            BY <1>1, <2>1, <2>2
          <5> QED  BY <3>3, <5>1
        <4> QED  BY <3>3, <4>1
      <3> QED  BY <3>1, <3>4, <3>5, <3>6
    <2>3. CASE l > k + 1 /\ i + 1 < P[l - 1] /\ Is(i + 1, l)
      <3>1. level(i + 1) = l
        BY <1>6, <1>11, <2>3
      <3>2. l - 1 \in k + 1..n
        BY <1>1, <2>1, <2>3
      <3>3. i + 1 \in 1..P[l - 1] - 1
        <4>1. P[l - 1] \in Nat
          <5>1. l - 1 \in k + 1..n + 1
            BY <1>1, <3>2
          <5> QED  BY <1>3, <5>1
        <4> QED  BY <2>3, <4>1
      <3>4. L[i + 1].to # C[l - 1]
        BY <3>2, <3>3 DEF Round
      <3> QED  BY <3>1, <3>4
    <2>4. CASE l = k + 1 /\ Is(i + 1, l)
      <3>1. level(i + 1) = l
        BY <1>6, <1>11, <2>4
      <3> QED  BY <2>4, <3>1
    <2> HIDE DEF Is, found, next
    <2> QED  BY <1>8, <1>11, <2>2, <2>3, <2>4
  <1>12. ASSUME NEW i \in 1..Len(L) PROVE W[i] = next(W[i - 1], L[i])
    <2>1. i \in 0..Len(L) /\ i # 0 /\ i - 1 \in 0..Len(L)
      BY <1>1
    <2>2. W[i] = found(level(i))
      BY <2>1
    <2>3. CASE i = 1
      <3>1. W[i - 1] = none
        BY <2>1, <2>3
      <3>2. level(i) = n + 1
        BY <1>6, <1>7, <2>3
      <3> HIDE DEF W, found, next, none
      <3> QED  BY <1>10, <2>2, <2>3, <3>1, <3>2
    <2>4. CASE i # 1
      <3>1. i - 1 \in 1..Len(L) /\ i - 1 # 0 /\ i - 1 \in Nat /\ i - 1 >= 1
            /\ (i - 1) + 1 = i /\ i <= Len(L)
        BY <1>1, <2>4
      <3>2. W[i - 1] = found(level(i - 1))
        BY <2>1, <3>1
      <3>3. Is(i - 1, level(i - 1))
        BY <1>9, <3>1
      <3> HIDE DEF W, found, next, Is
      <3>4. found(level((i - 1) + 1)) = next(found(level(i - 1)), L[(i - 1) + 1])
        BY <1>11, <3>1, <3>3
      <3> QED  BY <2>2, <3>1, <3>2, <3>4
    <2> QED  BY <2>3, <2>4
  <1>13. W[0] = none /\ W = [i \in 0..Len(L) |-> W[i]]
    BY <1>1
  <1> HIDE DEF W, next, none, Is
  <1>14. W = body(W)
    <2>1. \A i \in 0..Len(L) : W[i] = IF i = 0 THEN none ELSE next(W[i - 1], L[i])
      <3>1. ASSUME NEW i \in 0..Len(L)
            PROVE  W[i] = IF i = 0 THEN none ELSE next(W[i - 1], L[i])
        <4>1. i = 0 \/ i \in 1..Len(L)
          BY <1>1
        <4>2. CASE i = 0
          BY <1>13, <4>2
        <4>3. CASE i \in 1..Len(L)
          <5>1. i # 0
            BY <4>3
          <5> QED  BY <1>12, <4>3, <5>1
        <4> QED  BY <4>1, <4>2, <4>3
      <3> QED  BY <3>1
    <2> QED  BY <1>13, <2>1
  <1>15. walk = body(walk)
    <2> HIDE DEF body
    <2> QED  BY <1>14
  <1> HIDE DEF walk
  <1>16. /\ walk[0] = none
         /\ \A i \in 1..Len(L) : walk[i] = next(walk[i - 1], L[i])
    <2>1. \A i \in 0..Len(L) : walk[i] = IF i = 0 THEN none ELSE next(walk[i - 1], L[i])
      BY <1>15
    <2> HIDE DEF body
    <2>2. 0 \in 0..Len(L) /\ \A i \in 1..Len(L) : i \in 0..Len(L) /\ i # 0
      BY <1>1
    <2> QED  BY <2>1, <2>2
  <1> HIDE DEF body
  <1>17. walk[Len(L)] = W[Len(L)]
    <2> DEFINE S == {i \in 0..Len(L) : walk[i] = W[i]}
    <2>1. 0 \in S
      BY <1>1, <1>13, <1>16
    <2>2. ASSUME NEW i \in 0..Len(L) - 1, i \in S PROVE i + 1 \in S
      <3>1. i + 1 \in 1..Len(L) /\ (i + 1) - 1 = i /\ i + 1 \in 0..Len(L)
        BY <1>1
      <3>2. walk[i] = W[i]
        BY <2>2
      <3>3. walk[i + 1] = next(walk[i], L[i + 1]) /\ W[i + 1] = next(W[i], L[i + 1])
        BY <1>12, <1>16, <3>1
      <3> QED  BY <3>1, <3>2, <3>3
    <2> HIDE DEF S
    <2>3. 0..Len(L) \subseteq S
      BY <1>1, <2>1, <2>2, Climbs
    <2>4. Len(L) \in S
      BY <1>1, <2>3
    <2> QED  BY <2>4 DEF S
  <1>18. level(Len(L)) = k + 1
    <2>1. Is(Len(L), level(Len(L)))
      BY <1>1, <1>9
    <2>2. /\ level(Len(L)) \in k + 1..n + 1
          /\ level(Len(L)) > k + 1 => Len(L) < P[level(Len(L)) - 1]
      BY <2>1 DEF Is
    <2>3. ASSUME level(Len(L)) > k + 1 PROVE FALSE
      <3>1. level(Len(L)) - 1 \in k + 1..n + 1
        BY <1>1, <2>2, <2>3
      <3> QED  BY <1>1, <1>3, <2>2, <2>3, <3>1
    <2> QED  BY <1>1, <2>2, <2>3
  <1>19. W[Len(L)] = found(k + 1)
    BY <1>1, <1>18 DEF W
  <1> QED  BY <1>2, <1>17, <1>19 DEF RoundArcs

-----------------------------------------------------------------------------
\* The arcs of a round are one cycle: each choice of it has one arc to the next,
\* and no part of them is closed.
LEMMA RoundIsCycle ==
    ASSUME NEW L, NEW k, NEW n, NEW C, NEW P, Round(L, k, n, C, P),
           \A i \in 1..Len(L) : L[i] \in arcs
    PROVE  IsCycle(RoundArcs(L, k, n, P))
  <1> DEFINE A == RoundArcs(L, k, n, P)
             e(j) == L[P[j]]
             J == k + 1..n + 1
  <1>1. k \in Nat /\ n \in Nat /\ k <= n
    BY DEF Round
  <1>2. \A j \in J : /\ e(j) \in arcs /\ e(j).from = C[j - 1] /\ j - 1 \in k..n
                     /\ e(j).to = IF j = n + 1 THEN C[k] ELSE C[j]
                     /\ j # n + 1 => j \in k..n
    BY RoundPlaces
  <1>3. A = {e(j) : j \in J}
    BY DEF RoundArcs
  <1>4. \A i, j \in k..n : C[i] = C[j] => i = j
    BY DEF Round
  <1>5. /\ \A j \in k..n : j + 1 \in J /\ (j + 1) - 1 = j
        /\ \A j \in J : j # n + 1 => j + 1 \in J /\ (j + 1) - 1 = j /\ j \in k..n
        /\ k \in k..n /\ k + 1 \in J /\ n + 1 \in J
    BY <1>1
  <1> HIDE DEF A, e, J
  <1>6. A # {} /\ A \subseteq arcs
    BY <1>2, <1>3, <1>5
  <1>7. ASSUME NEW a \in A, NEW b \in A, a.from = b.from PROVE a = b
    <2>1. PICK i \in J : a = e(i)
      BY <1>3
    <2>2. PICK j \in J : b = e(j)
      BY <1>3
    <2>3. C[i - 1] = C[j - 1] /\ i - 1 \in k..n /\ j - 1 \in k..n
      BY <1>2, <1>7, <2>1, <2>2
    <2>4. i - 1 = j - 1
      BY <1>4, <2>3
    <2>5. i = j
      BY <1>1, <2>4 DEF J
    <2> QED  BY <2>1, <2>2, <2>5
  <1>8. {a.from : a \in A} = {C[j] : j \in k..n}
    <2>1. ASSUME NEW a \in A PROVE a.from \in {C[j] : j \in k..n}
      <3>1. PICK i \in J : a = e(i)
        BY <1>3
      <3> QED  BY <1>2, <3>1
    <2>2. ASSUME NEW j \in k..n PROVE C[j] \in {a.from : a \in A}
      <3>1. e(j + 1) \in A /\ e(j + 1).from = C[j]
        BY <1>2, <1>3, <1>5
      <3> QED  BY <3>1
    <2> QED  BY <2>1, <2>2
  <1>9. {a.to : a \in A} = {C[j] : j \in k..n}
    <2>1. ASSUME NEW a \in A PROVE a.to \in {C[j] : j \in k..n}
      <3>1. PICK i \in J : a = e(i)
        BY <1>3
      <3> QED  BY <1>2, <1>5, <3>1
    <2>2. ASSUME NEW j \in k..n PROVE C[j] \in {a.to : a \in A}
      <3>1. CASE j = k
        <4>1. e(n + 1) \in A /\ e(n + 1).to = C[k]
          BY <1>2, <1>3, <1>5
        <4> QED  BY <3>1, <4>1
      <3>2. CASE j # k
        <4>1. j \in J /\ j # n + 1
          BY <1>1, <3>2 DEF J
        <4>2. e(j) \in A /\ e(j).to = C[j]
          BY <1>2, <1>3, <4>1
        <4> QED  BY <4>2
      <3> QED  BY <3>1, <3>2
    <2> QED  BY <2>1, <2>2
  <1>10. ASSUME NEW B \in (SUBSET A) \ {{}},
                {a.to : a \in B} = {a.from : a \in B}
         PROVE  B = A
    <2> DEFINE S == {j \in J : e(j) \in B}
    \* An arc of B is followed by the next, which is in B too.
    <2>1. ASSUME NEW j \in S PROVE (IF j = n + 1 THEN k + 1 ELSE j + 1) \in S
      <3> DEFINE m == IF j = n + 1 THEN k + 1 ELSE j + 1
      <3>1. j \in J /\ e(j) \in B
        OBVIOUS
      <3>2. m \in J /\ e(j).to = C[m - 1] /\ m - 1 \in k..n
        <4>1. CASE j = n + 1
          <5>1. m = k + 1 /\ (k + 1) - 1 = k
            BY <1>1, <4>1
          <5> QED  BY <1>2, <1>5, <3>1, <4>1, <5>1
        <4>2. CASE j # n + 1
          <5>1. m = j + 1 /\ (j + 1) - 1 = j
            BY <1>5, <3>1, <4>2
          <5> QED  BY <1>2, <1>5, <3>1, <4>2, <5>1
        <4> QED  BY <4>1, <4>2
      <3> HIDE DEF m
      <3>3. e(j).to \in {a.from : a \in B}
        BY <1>10, <3>1
      <3>4. PICK b \in B : b.from = e(j).to
        BY <3>3
      <3>5. e(m) \in A /\ e(m).from = C[m - 1]
        BY <1>2, <1>3, <3>2
      <3>6. b = e(m)
        BY <1>7, <3>2, <3>4, <3>5
      <3>7. m \in S
        BY <3>2, <3>4, <3>6
      <3> QED  BY <3>7 DEF m
    <2>2. PICK j0 \in J : j0 \in S
      <3>1. PICK b \in B : TRUE
        OBVIOUS
      <3>2. PICK j \in J : b = e(j)
        BY <1>3
      <3> QED  BY <3>1, <3>2
    <2> HIDE DEF S
    <2>3. j0 \in Nat /\ n + 1 \in Nat /\ k + 1 \in Nat /\ n + 1 \in j0..n + 1 /\ j0 \in k + 1..n + 1
      BY <1>1, <2>2 DEF J
    <2>4. n + 1 \in S
      <3>1. ASSUME NEW i \in j0..(n + 1) - 1, i \in S PROVE i + 1 \in S
        <4>1. i # n + 1
          BY <1>1, <2>3
        <4> QED  BY <2>1, <3>1, <4>1
      <3>2. j0..n + 1 \subseteq S
        BY <2>2, <2>3, <3>1, Climbs
      <3> QED  BY <2>3, <3>2
    <2>5. k + 1 \in S
      BY <2>1, <2>4
    <2>6. J \subseteq S
      <3>1. ASSUME NEW i \in k + 1..(n + 1) - 1, i \in S PROVE i + 1 \in S
        <4>1. i # n + 1
          BY <1>1
        <4> QED  BY <2>1, <3>1, <4>1
      <3>2. k + 1..n + 1 \subseteq S
        BY <2>3, <2>5, <3>1, Climbs
      <3> QED  BY <3>2 DEF J
    <2>7. A \subseteq B
      BY <1>3, <2>6 DEF S
    <2> QED  BY <2>7
  <1>11. \A B \in (SUBSET A) \ {{}, A} : {a.to : a \in B} # {a.from : a \in B}
    BY <1>10
  <1> QED  BY <1>6, <1>7, <1>8, <1>9, <1>11 DEF IsCycle, A

-----------------------------------------------------------------------------
\* Where the calls in progress are to be found in the list of arcs taken: the
\* arc that led to each of them is the latest to that choice, and the deeper
\* the call, the later its arc.
Placed(P) ==
    \A i \in 2..Len(path) :
        /\ P[i] \in 1..Len(path_list)
        /\ path_list[P[i]].from = path[i - 1].choice
        /\ path_list[P[i]].to = path[i].choice
        /\ \A r \in 1..P[i] - 1 : path_list[r].to # path[i].choice
        /\ i < Len(path) => P[i + 1] < P[i]

PathApart ==
    \A i, j \in 1..Len(path) : path[i].choice = path[j].choice => i = j

InOrder == \E P \in [2..Len(path) -> Nat] : Placed(P)

Listed == path_list \in Seq(arcs) /\ PathApart /\ InOrder

\* A search starts with an empty list.
LEMMA ListedFrom ==
    ASSUME Search, Listed, NEW c \in ChoiceDefs, SearchFrom(c)
    PROVE  Listed'
  <1>1. path' = <<Visit(c)>> /\ Len(path') = 1 /\ path_list' = <<>> /\ arcs' = arcs
    BY DEF SearchFrom
  <1>2. path_list' \in Seq(arcs)
    BY <1>1
  <1>3. Placed([i \in 2..1 |-> 0])'
    BY <1>1 DEF Placed
  <1>4. [i \in 2..1 |-> 0] \in [2..1 -> Nat]
    OBVIOUS
  <1>5. InOrder'
    BY <1>1, <1>3, <1>4 DEF InOrder
  <1>6. PathApart'
    BY <1>1 DEF PathApart
  <1> QED  BY <1>1, <1>2, <1>5, <1>6 DEF Listed

\* What a list with an arc before it is.
LEMMA ListGrows ==
    ASSUME NEW S, NEW L \in Seq(S), NEW a \in S
    PROVE  /\ <<a>> \o L \in Seq(S) /\ Len(<<a>> \o L) = Len(L) + 1
           /\ (<<a>> \o L)[1] = a
           /\ \A i \in 1..Len(L) : (<<a>> \o L)[i + 1] = L[i]
           /\ \A i \in 2..Len(L) + 1 : (<<a>> \o L)[i] = L[i - 1]
  <1>1. <<a>> \in Seq(S) /\ Len(<<a>>) = 1 /\ <<a>>[1] = a
    OBVIOUS
  <1> DEFINE s == <<a>>
  <1> HIDE DEF s
  <1>2. s \in Seq(S) /\ Len(s) = 1 /\ s[1] = a
    BY <1>1 DEF s
  <1>3. /\ s \o L \in Seq(S) /\ Len(s \o L) = Len(s) + Len(L)
        /\ \A i \in 1..Len(s) + Len(L) :
              (s \o L)[i] = IF i <= Len(s) THEN s[i] ELSE L[i - Len(s)]
    BY <1>2, ConcatProperties
  <1>4. Len(L) \in Nat
    OBVIOUS
  <1>5. Len(s \o L) = Len(L) + 1 /\ (s \o L)[1] = a
    BY <1>2, <1>3, <1>4
  <1>6. ASSUME NEW i \in 2..Len(L) + 1 PROVE (s \o L)[i] = L[i - 1]
    BY <1>2, <1>3, <1>4
  <1>7. ASSUME NEW i \in 1..Len(L) PROVE (s \o L)[i + 1] = L[i]
    <2>1. i + 1 \in 2..Len(L) + 1 /\ (i + 1) - 1 = i
      BY <1>4
    <2> QED  BY <1>6, <2>1
  <1> QED  BY <1>3, <1>5, <1>6, <1>7 DEF s

\* The frames of the path after an arc is followed.
LEMMA FollowedPath ==
    ASSUME Search, NEW a \in arcs, Follow(a)
    PROVE  /\ Len(path) \in Nat /\ Len(path) >= 1
           /\ Len(path') = Len(path) + 1
           /\ \A i \in 1..Len(path) : path'[i].choice = path[i].choice
           /\ path'[Len(path) + 1].choice = a.to
           /\ a.from = path[Len(path)].choice
           /\ a \in Arc
  <1> DEFINE n == Len(path)
             cut == [path EXCEPT ![Len(path)].rest = @ \ {a}]
  <1>1. n \in Nat /\ n >= 1 /\ path \in Seq(FrameType)
    BY EmptySeq, LenProperties DEF Follow, Search, SearchTypes
  <1>2. a \in Arc /\ a \in ArcsFrom(path[n].choice) /\ path[n] \in FrameType
    BY <1>1, ElementOfSeq DEF Follow, Innermost, Search, SearchTypes, OnAPath
  <1>3. a.to \in ChoiceDefs /\ a.from = path[n].choice
    BY <1>2 DEF Arc, ArcsFrom
  <1>4. /\ cut \in Seq(FrameType) /\ Len(cut) = n
        /\ \A i \in 1..n : cut[i].choice = path[i].choice
    <2>1. [path[n] EXCEPT !.rest = @ \ {a}] \in FrameType
      BY <1>2 DEF FrameType
    <2>2. [path[n] EXCEPT !.rest = @ \ {a}].choice = path[n].choice
      BY <1>2 DEF FrameType
    <2>3. cut = [path EXCEPT ![n] = [path[n] EXCEPT !.rest = @ \ {a}]]
      OBVIOUS
    <2> QED  BY <1>1, <2>1, <2>2, <2>3, ExceptSeq
  <1>5. Visit(a.to) \in FrameType /\ Visit(a.to).choice = a.to
    BY <1>3 DEF Visit, FrameType, ArcsFrom, Search, SearchTypes
  <1>6. path' = Append(cut, Visit(a.to))
    BY DEF Follow
  <1> HIDE DEF cut
  <1>7. /\ Len(path') = n + 1 /\ path'[n + 1] = Visit(a.to)
        /\ \A i \in 1..n : path'[i] = cut[i]
    BY <1>1, <1>4, <1>5, <1>6, AppendProperties
  <1> QED  BY <1>1, <1>2, <1>3, <1>4, <1>5, <1>7

\* The arc that is followed is put in front, and the path is still in order in
\* the list: no other call on the path is for the choice it leads to.
LEMMA ListedFollow ==
    ASSUME Search, Listed, NEW a \in arcs, Follow(a)
    PROVE  Listed'
  <1> DEFINE n == Len(path)
             m == Len(path_list)
  <1>1. /\ n \in Nat /\ n >= 1 /\ Len(path') = n + 1
        /\ \A i \in 1..n : path'[i].choice = path[i].choice
        /\ path'[n + 1].choice = a.to
        /\ a.from = path[n].choice
    BY FollowedPath
  <1>2. /\ path_list' = <<a>> \o path_list /\ arcs' = arcs
        /\ \A i \in 1..n : path[i].choice # a.to
    BY DEF Follow, OnThePath
  <1>3. /\ path_list' \in Seq(arcs) /\ Len(path_list') = m + 1
        /\ path_list'[1] = a
        /\ \A i \in 1..m : path_list'[i + 1] = path_list[i]
        /\ \A i \in 2..m + 1 : path_list'[i] = path_list[i - 1]
        /\ m \in Nat
    BY <1>2, ListGrows DEF Listed
  <1>4. PICK P \in [2..n -> Nat] : Placed(P)
    BY DEF Listed, InOrder
  <1> DEFINE Q == [i \in 2..n + 1 |-> IF i = n + 1 THEN 1 ELSE P[i] + 1]
  <1>5. Q \in [2..n + 1 -> Nat]
    <2>1. \A i \in 2..n + 1 : i # n + 1 => i \in 2..n
      BY <1>1
    <2> QED  BY <1>4, <2>1
  <1>6. ASSUME NEW i \in 2..n + 1
        PROVE  /\ Q[i] \in 1..m + 1
               /\ path_list'[Q[i]].from = path'[i - 1].choice
               /\ path_list'[Q[i]].to = path'[i].choice
               /\ \A r \in 1..Q[i] - 1 : path_list'[r].to # path'[i].choice
               /\ i < n + 1 => Q[i + 1] < Q[i]
    <2>1. CASE i = n + 1
      <3>1. Q[i] = 1 /\ i - 1 = n /\ n \in 1..n /\ 1 \in 1..m + 1 /\ ~(i < n + 1)
        BY <1>1, <1>3, <2>1
      <3>2. 1..Q[i] - 1 = {}
        BY <3>1
      <3> QED  BY <1>1, <1>3, <2>1, <3>1, <3>2
    <2>2. CASE i # n + 1
      <3>1. i \in 2..n /\ i \in 1..n /\ i - 1 \in 1..n
        BY <1>1, <2>2
      <3>2. /\ P[i] \in 1..m
            /\ path_list[P[i]].from = path[i - 1].choice
            /\ path_list[P[i]].to = path[i].choice
            /\ \A r \in 1..P[i] - 1 : path_list[r].to # path[i].choice
            /\ i < n => P[i + 1] < P[i]
        BY <1>4, <3>1 DEF Placed
      <3>3. Q[i] = P[i] + 1
        BY <2>2
      <3>4. path_list'[Q[i]] = path_list[P[i]] /\ Q[i] \in 1..m + 1
        BY <1>3, <3>2, <3>3
      <3>5. ASSUME NEW r \in 1..Q[i] - 1 PROVE path_list'[r].to # path'[i].choice
        <4>1. CASE r = 1
          BY <1>1, <1>2, <1>3, <3>1, <4>1
        <4>2. CASE r # 1
          <5>1. r - 1 \in 1..P[i] - 1 /\ r \in 2..m + 1
            BY <1>3, <3>2, <3>3, <4>2
          <5>2. path_list'[r] = path_list[r - 1]
            BY <1>3, <5>1
          <5> QED  BY <1>1, <3>1, <3>2, <5>1, <5>2
        <4> QED  BY <4>1, <4>2
      <3>6. Q[i + 1] < Q[i]
        <4>1. CASE i = n
          <5>1. Q[i + 1] = 1
            BY <1>1, <4>1
          <5> QED  BY <3>2, <3>3, <5>1
        <4>2. CASE i # n
          <5>1. i < n /\ i + 1 \in 2..n /\ i + 1 # n + 1 /\ i + 1 \in 2..n + 1
            BY <1>1, <3>1, <4>2
          <5>2. Q[i + 1] = P[i + 1] + 1 /\ P[i + 1] \in Nat
            BY <1>4, <5>1
          <5> QED  BY <3>2, <3>3, <5>1, <5>2
        <4> QED  BY <4>1, <4>2
      <3> HIDE DEF Q
      <3> QED  BY <1>1, <3>1, <3>2, <3>4, <3>5, <3>6
    <2> QED  BY <2>1, <2>2
  <1> HIDE DEF Q
  <1>7. PICK R \in [2..n + 1 -> Nat] : R = Q
    BY <1>5
  <1>8. Placed(R)'
    <2>1. Len(path_list') = m + 1 /\ Len(path') = n + 1
      BY <1>1, <1>3
    <2> HIDE DEF n, m
    <2> QED  BY <1>6, <1>7, <2>1 DEF Placed
  <1>9. ASSUME NEW i \in 1..n + 1, NEW j \in 1..n + 1, path'[i].choice = path'[j].choice
        PROVE  i = j
    <2>1. (i = n + 1 \/ i \in 1..n) /\ (j = n + 1 \/ j \in 1..n)
      BY <1>1
    <2> QED  BY <1>1, <1>2, <1>9, <2>1 DEF Listed, PathApart
  <1>10. InOrder'
    BY <1>1, <1>8 DEF InOrder
  <1>11. PathApart'
    BY <1>1, <1>9 DEF PathApart
  <1> QED  BY <1>2, <1>3, <1>10, <1>11 DEF Listed

\* The arcs of a finished branch stay in the list and disturb nothing.
LEMMA ListedReturn ==
    ASSUME Search, Listed, Return
    PROVE  Listed'
  <1> DEFINE n == Len(path)
  <1>1. n \in Nat /\ n >= 1 /\ path \in Seq(FrameType)
    BY EmptySeq, LenProperties DEF Return, Search, SearchTypes
  <1>2. path_list' = path_list /\ arcs' = arcs /\ path' = SubSeq(path, 1, n - 1)
    BY DEF Return
  <1>3. Len(path') = n - 1 /\ \A i \in 1..n - 1 : path'[i] = path[i]
    <2> DEFINE cut == SubSeq(path, 1, n - 1)
    <2>1. n - 1 \in Int /\ \A i \in 1..n - 1 : path[i] \in FrameType
      BY <1>1, ElementOfSeq
    <2> HIDE DEF n
    <2>2. /\ Len(cut) = IF 1 <= n - 1 THEN (n - 1) - 1 + 1 ELSE 0
          /\ \A i \in 1..(n - 1) - 1 + 1 : cut[i] = path[1 + i - 1]
      BY <2>1, SubSeqProperties
    <2> HIDE DEF cut
    <2>3. Len(cut) = n - 1
      BY <1>1, <2>2
    <2>4. \A i \in 1..n - 1 : cut[i] = path[i]
      BY <1>1, <2>2
    <2> QED  BY <1>2, <2>3, <2>4 DEF cut, n
  <1>4. PICK P \in [2..n -> Nat] : Placed(P)
    BY DEF Listed, InOrder
  <1> DEFINE Q == [i \in 2..n - 1 |-> P[i]]
  <1>5. Q \in [2..n - 1 -> Nat] /\ \A i \in 2..n - 1 : Q[i] = P[i]
    <2>1. 2..n - 1 \subseteq 2..n
      BY <1>1
    <2> QED  BY <1>4, <2>1
  <1>6. PICK R \in [2..n - 1 -> Nat] : R = Q
    BY <1>5
  <1> HIDE DEF Q
  <1>7. Placed(R)'
    <2>1. ASSUME NEW i \in 2..n - 1
          PROVE  /\ Q[i] \in 1..Len(path_list)
                 /\ path_list[Q[i]].from = path'[i - 1].choice
                 /\ path_list[Q[i]].to = path'[i].choice
                 /\ \A r \in 1..Q[i] - 1 : path_list[r].to # path'[i].choice
                 /\ i < n - 1 => Q[i + 1] < Q[i]
      <3>1. i \in 2..n /\ i \in 1..n - 1 /\ i - 1 \in 1..n - 1 /\ i < n
            /\ (i < n - 1 => i + 1 \in 2..n - 1)
        BY <1>1
      <3>2. /\ P[i] \in 1..Len(path_list)
            /\ path_list[P[i]].from = path[i - 1].choice
            /\ path_list[P[i]].to = path[i].choice
            /\ \A r \in 1..P[i] - 1 : path_list[r].to # path[i].choice
            /\ P[i + 1] < P[i]
        BY <1>4, <3>1 DEF Placed
      <3> QED  BY <1>3, <1>5, <3>1, <3>2
    <2>2. Len(path') = n - 1 /\ path_list' = path_list
      BY <1>2, <1>3
    <2> HIDE DEF n
    <2> QED  BY <1>6, <2>1, <2>2 DEF Placed
  <1>8. ASSUME NEW i \in 1..n - 1, NEW j \in 1..n - 1, path'[i].choice = path'[j].choice
        PROVE  i = j
    <2>1. i \in 1..n /\ j \in 1..n
      BY <1>1
    <2>2. path[i].choice = path[j].choice
      BY <1>3, <1>8
    <2> QED  BY <2>1, <2>2 DEF Listed, PathApart
  <1>9. InOrder'
    BY <1>3, <1>7, <1>6 DEF InOrder
  <1>10. PathApart'
    BY <1>3, <1>8 DEF PathApart
  <1>11. path_list' \in Seq(arcs')
    BY <1>2 DEF Listed
  <1> QED  BY <1>9, <1>10, <1>11 DEF Listed

\* The arcs that are reported when the path is met again are those of a cycle.
LEMMA CloseReports ==
    ASSUME Search, Listed, NEW a \in arcs, Close(a)
    PROVE  Listed' /\ IsCycle(CycleArcs(path_list', a.to))
  <1> DEFINE n == Len(path)
             m == Len(path_list)
             L == path_list'
             C == [i \in 1..n |-> path[i].choice]
  <1>1. n \in Nat /\ n >= 1 /\ path \in Seq(FrameType)
    BY EmptySeq, LenProperties DEF Close, Search, SearchTypes
  <1>2. L = <<a>> \o path_list /\ arcs' = arcs /\ path' = <<>>
    BY DEF Close
  <1>3. /\ L \in Seq(arcs) /\ Len(L) = m + 1 /\ L[1] = a
        /\ \A i \in 1..m : L[i + 1] = path_list[i]
        /\ \A i \in 2..m + 1 : L[i] = path_list[i - 1]
        /\ m \in Nat
    BY <1>2, ListGrows DEF Listed
  <1>4. Listed'
    <2>1. Len(path') = 0
      BY <1>2
    <2>2. [i \in 2..0 |-> 0] \in [2..0 -> Nat]
      OBVIOUS
    <2>3. Placed([i \in 2..0 |-> 0])'
      BY <2>1 DEF Placed
    <2>4. InOrder'
      BY <2>1, <2>2, <2>3 DEF InOrder
    <2>5. PathApart'
      BY <2>1 DEF PathApart
    <2> QED  BY <1>2, <1>3, <2>4, <2>5 DEF Listed
  <1>5. PICK k \in 1..n : path[k].choice = a.to
    BY DEF Close, OnThePath
  <1>6. PICK P \in [2..n -> Nat] : Placed(P)
    BY DEF Listed, InOrder
  <1> DEFINE Q == [i \in 2..n + 1 |-> IF i = n + 1 THEN 1 ELSE P[i] + 1]
  <1>7. a \in ArcsFrom(path[n].choice) /\ a \in Arc
    BY <1>1 DEF Close, Innermost, Search, SearchTypes, OnAPath
  <1>8. \A i \in 1..n : path[i].choice \in ChoiceDefs
    <2>1. \A i \in 1..n : path[i] \in FrameType
      BY <1>1, ElementOfSeq
    <2> QED  BY <2>1 DEF FrameType
  <1>9. L \in Seq(Arc)
    <2>1. arcs \subseteq Arc
      BY DEF Search, SearchTypes
    <2> HIDE DEF L
    <2> QED  BY <1>3, <2>1
  <1> HIDE DEF L
  <1>10. ASSUME NEW j \in k + 1..n
         PROVE  /\ Q[j] \in 1..Len(L) /\ Q[j + 1] < Q[j]
                /\ L[Q[j]].from = C[j - 1] /\ L[Q[j]].to = C[j]
                /\ \A r \in 1..Q[j] - 1 : L[r].to # C[j]
    <2>1. j \in 2..n /\ j \in 1..n /\ j - 1 \in 1..n /\ j # n + 1 /\ j \in 2..n + 1
          /\ j + 1 \in 2..n + 1
      BY <1>1, <1>5
    <2>2. /\ P[j] \in 1..m
          /\ path_list[P[j]].from = path[j - 1].choice
          /\ path_list[P[j]].to = path[j].choice
          /\ \A r \in 1..P[j] - 1 : path_list[r].to # path[j].choice
          /\ j < n => P[j + 1] < P[j]
      BY <1>6, <2>1 DEF Placed
    <2>3. Q[j] = P[j] + 1
      BY <2>1
    <2>4. L[Q[j]] = path_list[P[j]] /\ Q[j] \in 1..Len(L)
      BY <1>3, <2>2, <2>3
    <2>5. C[j] = path[j].choice /\ C[j - 1] = path[j - 1].choice
      BY <2>1
    <2>6. ASSUME NEW r \in 1..Q[j] - 1 PROVE L[r].to # C[j]
      <3>1. CASE r = 1
        <4>1. k \in 1..n /\ k # j
          BY <1>1, <1>5
        <4>2. path[k].choice # path[j].choice
          BY <2>1, <4>1 DEF Listed, PathApart
        <4> QED  BY <1>3, <1>5, <2>5, <3>1, <4>2
      <3>2. CASE r # 1
        <4>1. r - 1 \in 1..P[j] - 1 /\ r \in 2..m + 1
          BY <1>3, <2>2, <2>3, <3>2
        <4>2. L[r] = path_list[r - 1]
          BY <1>3, <4>1
        <4> QED  BY <2>2, <2>5, <4>1, <4>2
      <3> QED  BY <3>1, <3>2
    <2>7. Q[j + 1] < Q[j]
      <3>1. CASE j = n
        <4>1. Q[j + 1] = 1
          BY <1>1, <2>1, <3>1
        <4> QED  BY <2>2, <2>3, <4>1
      <3>2. CASE j # n
        <4>1. j < n /\ j + 1 \in 2..n /\ j + 1 # n + 1
          BY <1>1, <2>1, <3>2
        <4>2. Q[j + 1] = P[j + 1] + 1 /\ P[j + 1] \in Nat
          BY <1>6, <2>1, <4>1
        <4> QED  BY <2>2, <2>3, <4>1, <4>2
      <3> QED  BY <3>1, <3>2
    <2> HIDE DEF C, Q
    <2> QED  BY <2>2, <2>4, <2>5, <2>6, <2>7
  <1>11. Q[n + 1] = 1
    BY <1>1
  <1>12. L[1].from = C[n] /\ L[1].to = C[k] /\ Len(L) >= 1
    <2>1. C[n] = path[n].choice /\ C[k] = a.to
      BY <1>1, <1>5
    <2>2. a.from = path[n].choice
      BY <1>7 DEF ArcsFrom
    <2> HIDE DEF C
    <2> QED  BY <1>3, <2>1, <2>2
  <1>13. /\ \A j \in k..n : C[j] \in ChoiceDefs
         /\ \A i, j \in k..n : C[i] = C[j] => i = j
    <2>1. \A i \in k..n : i \in 1..n /\ C[i] = path[i].choice
      BY <1>1, <1>5
    <2> HIDE DEF C
    <2> QED  BY <1>8, <2>1 DEF Listed, PathApart
  <1>14. k \in Nat /\ k <= n /\ C[k] = a.to
    BY <1>1, <1>5
  <1> HIDE DEF C, Q
  <1>15. Round(L, k, n, C, Q)
    BY <1>1, <1>9, <1>10, <1>11, <1>12, <1>13, <1>14 DEF Round
  <1>16. \A i \in 1..Len(L) : L[i] \in arcs
    BY <1>3
  <1>17. IsCycle(RoundArcs(L, k, n, Q))
    BY <1>15, <1>16, RoundIsCycle
  <1>18. CycleArcs(L, C[k]) = RoundArcs(L, k, n, Q)
    BY <1>15, CycleArcsOfRound
  <1> QED  BY <1>4, <1>14, <1>17, <1>18 DEF L

\* Every step of the search keeps the list in order, and reports cycles only.
LEMMA ReportsNext ==
    ASSUME Search, Listed, ReportedCyclesAreCycles, [ChoiceCyclesNext]_ccVars
    PROVE  Listed' /\ ReportedCyclesAreCycles'
  <1>1. arcs' = arcs
    BY DEF ChoiceCyclesNext, ccVars, SearchFrom, Follow, Close, Return
  <1>2. ASSUME reported' = reported PROVE ReportedCyclesAreCycles'
    BY <1>1, <1>2 DEF ReportedCyclesAreCycles, IsCycle
  <1>3. ASSUME NEW c \in ChoiceDefs, SearchFrom(c) PROVE Listed' /\ reported' = reported
    BY <1>3, ListedFrom DEF SearchFrom
  <1>4. ASSUME NEW a \in arcs, Follow(a) PROVE Listed' /\ reported' = reported
    BY <1>4, ListedFollow DEF Follow
  <1>5. ASSUME NEW a \in arcs, Close(a) PROVE Listed' /\ ReportedCyclesAreCycles'
    <2>1. Listed' /\ IsCycle(CycleArcs(path_list', a.to))
      BY <1>5, CloseReports
    <2>2. reported' = reported \cup {CycleArcs(path_list', a.to)}
      BY <1>5 DEF Close
    <2>3. \A A \in reported' : IsCycle(A)
      BY <2>1, <2>2 DEF ReportedCyclesAreCycles
    <2> QED  BY <1>1, <2>1, <2>3 DEF ReportedCyclesAreCycles, IsCycle
  <1>6. CASE Return
    BY <1>2, <1>6, ListedReturn DEF Return
  <1>7. CASE UNCHANGED ccVars
    <2>1. path' = path /\ path_list' = path_list /\ reported' = reported
      BY <1>7 DEF ccVars
    <2> QED  BY <1>1, <1>2, <2>1 DEF Listed, PathApart, InOrder, Placed
  <1> QED  BY <1>2, <1>3, <1>4, <1>5, <1>6, <1>7 DEF ChoiceCyclesNext

\* Before the first search the list is empty.
LEMMA ListedInit ==
    ASSUME NEW A, NEW S, Searching(A, S)
    PROVE  Listed /\ ReportedCyclesAreCycles
  <1>1. path = <<>> /\ path_list = <<>> /\ reported = {} /\ Len(path) = 0
    BY DEF Searching
  <1>2. [i \in 2..0 |-> 0] \in [2..0 -> Nat] /\ Placed([i \in 2..0 |-> 0])
    BY <1>1 DEF Placed
  <1>3. path_list \in Seq(arcs)
    BY <1>1
  <1>4. InOrder
    BY <1>1, <1>2 DEF InOrder
  <1> QED  BY <1>1, <1>3, <1>4 DEF Listed, PathApart, ReportedCyclesAreCycles

\* The arcs of a reported cycle lead round one cycle, each once, whatever
\* branches have been finished before (Cycle::arcs of check_choice_cycles).
THEOREM ReportsAreCycles == ChoiceCyclesSpec => []ReportedCyclesAreCycles
  <1>1. ChoiceCyclesInit => Listed /\ ReportedCyclesAreCycles
    BY ListedInit DEF ChoiceCyclesInit
  <1>2. ASSUME Search, Listed, ReportedCyclesAreCycles, [ChoiceCyclesNext]_ccVars
        PROVE  Listed' /\ ReportedCyclesAreCycles'
    BY <1>2, ReportsNext
  <1> QED  BY SearchInvariant, <1>1, <1>2, PTL DEF ChoiceCyclesSpec

-----------------------------------------------------------------------------
\* The passes in their order, over any definitions, machine and topologies.
AnalysisInit ==
    \E in \in UseDefInputs : \E m, ts : AnalysisStart(in.uses, in.members, m, ts)
AnalysisSpec == AnalysisInit /\ [][AnalysisNext]_analysisVars

\* Nothing has been searched before the search is due, and the passes after it
\* are only reached when it is over and has found no cycle.
SearchInPlace ==
    /\ Search /\ Listed /\ ReportedCyclesAreCycles
    /\ pass \in {"uses", "initial", "graph", "reachability"} =>
          /\ path = <<>> /\ path_list = <<>> /\ reported = {}
          /\ cyclic = FALSE /\ acyclic = {}
    /\ pass \in {"types", "flatten", "analysed"} => Searched /\ ~cyclic

\* A search that is about to start has nothing wrong yet.
FreshSearch ==
    /\ Searching(arcs, starts) /\ arcs \subseteq Arc /\ starts \subseteq ChoiceDefs
    /\ \A a \in arcs : a.from \in starts
FreshSearchIsSound == FreshSearch => Search /\ Listed /\ ReportedCyclesAreCycles

\* Nothing is wrong with a search that is about to start.
LEMMA FreshSearchStarts == FreshSearchIsSound
  <1> SUFFICES ASSUME FreshSearch PROVE Search /\ Listed /\ ReportedCyclesAreCycles
    BY DEF FreshSearchIsSound
  <1>1. Search
    BY SearchStarts DEF FreshSearch
  <1>2. Listed /\ ReportedCyclesAreCycles
    BY ListedInit DEF FreshSearch
  <1> QED  BY <1>1, <1>2

\* No machine has been searched when its analysis starts.
LEMMA PassesInit == AnalysisInit => SearchInPlace
  <1> SUFFICES ASSUME AnalysisInit PROVE SearchInPlace
    OBVIOUS
  <1>1. Searching({}, {}) /\ pass = "uses"
    BY DEF AnalysisInit, AnalysisStart, StateMachineStart
  <1>2. FreshSearch
    BY <1>1 DEF Searching, FreshSearch
  <1> QED
    BY <1>1, <1>2, FreshSearchStarts DEF FreshSearchIsSound, SearchInPlace, Searching

\* Steps of other passes leave the search alone.
LEMMA UntouchedSearch ==
    ASSUME SearchInPlace, UNCHANGED <<ccVars, pass>> PROVE SearchInPlace'
  <1>1. /\ arcs' = arcs /\ starts' = starts /\ path' = path /\ pass' = pass
        /\ path_list' = path_list /\ reported' = reported
        /\ cyclic' = cyclic /\ acyclic' = acyclic
    BY DEF ccVars
  <1>2. Search'
    BY SearchNext DEF SearchInPlace
  <1>3. Listed' /\ ReportedCyclesAreCycles'
    BY ReportsNext DEF SearchInPlace
  <1> QED  BY <1>1, <1>2, <1>3 DEF SearchInPlace, Searched

\* Every step of the analysis keeps the search in its place.
LEMMA PassesNext ==
    ASSUME SearchInPlace, FreshSearchIsSound', [AnalysisNext]_analysisVars
    PROVE  SearchInPlace'
  <1>1. ASSUME UNCHANGED ccVars,
               \/ pass' \notin {"types", "flatten", "analysed"}
                    /\ pass' \notin {"uses", "initial", "graph", "reachability"}
               \/ pass \in {"types", "flatten", "analysed"}
                    /\ pass' \in {"types", "flatten", "analysed"}
               \/ pass \in {"uses", "initial", "graph", "reachability"}
                    /\ pass' \in {"uses", "initial", "graph", "reachability"}
               \/ Searched /\ ~cyclic /\ pass' = "types"
        PROVE  SearchInPlace'
    <2>1. /\ arcs' = arcs /\ starts' = starts /\ path' = path
          /\ path_list' = path_list /\ reported' = reported
          /\ cyclic' = cyclic /\ acyclic' = acyclic
      BY <1>1 DEF ccVars
    <2>2. Search'
      BY <1>1, SearchNext DEF SearchInPlace
    <2>3. Listed' /\ ReportedCyclesAreCycles'
      BY <1>1, ReportsNext DEF SearchInPlace
    <2> QED  BY <1>1, <2>1, <2>2, <2>3 DEF SearchInPlace, Searched
  <1>2. CASE CheckUses \/ CheckInitialAndSignals \/ BuildGraph
    <2>1. UNCHANGED ccVars
      BY <1>2 DEF CheckUses, CheckInitialAndSignals, BuildGraph
    <2>2. /\ pass \in {"uses", "initial", "graph", "reachability"}
          /\ pass' \in {"blocked", "initial", "graph", "reachability"}
      BY <1>2 DEF CheckUses, CheckInitialAndSignals, BuildGraph, Emits
    <2> QED  BY <1>1, <2>1, <2>2
  <1>3. CASE CheckReachability
    <2>1. /\ path' = <<>> /\ path_list' = <<>> /\ reported' = {}
          /\ cyclic' = FALSE /\ acyclic' = {} /\ pass' = "cycles"
      BY <1>3 DEF CheckReachability, Emits, SearchInPlace
    <2>2. /\ arcs' \subseteq Arc /\ starts' \subseteq ChoiceDefs
          /\ \A a \in arcs' : a.from \in starts'
      BY <1>3 DEF CheckReachability, ChoicesIn
    <2>3. FreshSearch'
      BY <2>1, <2>2 DEF FreshSearch, Searching
    <2> QED  BY <2>1, <2>3 DEF FreshSearchIsSound, SearchInPlace
  <1>4. CASE SearchCycles
    <2>1. [ChoiceCyclesNext]_ccVars /\ pass = "cycles" /\ pass' = "cycles"
      BY <1>4 DEF SearchCycles
    <2>2. Search'
      BY <2>1, SearchNext DEF SearchInPlace
    <2>3. Listed' /\ ReportedCyclesAreCycles'
      BY <2>1, ReportsNext DEF SearchInPlace
    <2> QED  BY <2>1, <2>2, <2>3 DEF SearchInPlace
  <1>5. CASE CyclesGate
    <2>1. UNCHANGED ccVars /\ Searched /\ pass' = IF cyclic THEN "blocked" ELSE "types"
      BY <1>5 DEF CyclesGate, Emits
    <2> QED  BY <1>1, <2>1
  <1>6. CASE CheckTypes \/ FlattenTransitions
    <2>1. UNCHANGED ccVars
      BY <1>6 DEF CheckTypes, FlattenTransitions
    <2>2. pass \in {"types", "flatten"} /\ pass' \in {"flatten", "analysed"}
      BY <1>6 DEF CheckTypes, FlattenTransitions, Emits
    <2> QED  BY <1>1, <2>1, <2>2
  <1>7. CASE UNCHANGED <<ccVars, pass>>
    BY <1>7, UntouchedSearch
  <1>8. ASSUME UNCHANGED smVars PROVE SearchInPlace'
    BY <1>7, <1>8 DEF smVars
  <1>9. CASE CheckUseDefCyclesStep \/ ResolveTopologiesStep
    BY <1>8, <1>9 DEF CheckUseDefCyclesStep, ResolveTopologiesStep
  <1>10. CASE CheckStateMachineStep
    BY <1>2, <1>3, <1>4, <1>5, <1>6, <1>10 DEF CheckStateMachineStep, PassStep
  <1>11. CASE RunStateMachineStep \/ DispatchStep
    <2>1. UNCHANGED <<ccVars, pass>>
      BY <1>11 DEF RunStateMachineStep, DispatchStep, RunStep, Act, Choose, EnterState, Dispatch
    <2> QED  BY <1>7, <2>1
  <1>12. CASE UNCHANGED analysisVars
    BY <1>8, <1>12 DEF analysisVars
  <1> QED  BY <1>9, <1>10, <1>11, <1>12 DEF AnalysisNext

\* The passes that recurse over the choices of a machine (compute_type_option_map,
\* compute_flattened_choice_transition_map) only run when that ends: the gate
\* after the search lets no cycle through, for any machine.
THEOREM RecursionAlwaysEnds == AnalysisSpec => []RecursionEnds
  <1>1. FreshSearchIsSound
    BY FreshSearchStarts
  <1>2. AnalysisInit => SearchInPlace
    BY PassesInit
  <1>3. SearchInPlace /\ FreshSearchIsSound' /\ [AnalysisNext]_analysisVars => SearchInPlace'
    BY PassesNext
  <1>4. SearchInPlace => RecursionEnds
    BY SearchTells DEF SearchInPlace, RecursionEnds, BlockedIffCyclic
  <1> QED  BY <1>1, <1>2, <1>3, <1>4, PTL DEF AnalysisSpec

-----------------------------------------------------------------------------
\* A recursion that comes to an end, since each nonempty set has a member with
\* nothing of the set below it, defines a function.
Grounds(S, below) ==
    /\ \A x \in S : below[x] \subseteq S
    /\ \A T \in (SUBSET S) \ {{}} : \E x \in T : below[x] \cap T = {}
Recurs(S, below, step, f) ==
    \A x \in S : f[x] = step[x][[y \in below[x] |-> f[y]]]

\* A recursion that ends defines a function.
LEMMA RecursionDefines ==
    ASSUME NEW S, NEW V, NEW below, NEW step, Grounds(S, below),
           \A x \in S : \A g \in [below[x] -> V] : step[x][g] \in V
    PROVE  \E f \in [S -> V] : Recurs(S, below, step, f)
  <1> DEFINE Closed(D) == D \subseteq S /\ \A x \in D : below[x] \subseteq D
             SolvedOn(D, g) == Closed(D) /\ g \in [D -> V] /\ Recurs(D, below, step, g)
  <1>1. ASSUME NEW D, NEW g, SolvedOn(D, g), NEW E, NEW h, SolvedOn(E, h),
               NEW x \in D \cap E
        PROVE  g[x] = h[x]
    <2> DEFINE T == {y \in D \cap E : g[y] # h[y]}
    <2> SUFFICES ASSUME T # {} PROVE FALSE
      BY <1>1
    <2>1. T \in (SUBSET S) \ {{}}
      BY <1>1
    <2>2. PICK y \in T : below[y] \cap T = {}
      <3> HIDE DEF T
      <3> QED  BY <2>1 DEF Grounds
    <2>3. y \in D /\ y \in E /\ g[y] # h[y]
      OBVIOUS
    <2>4. \A z \in below[y] : z \in D /\ z \in E /\ g[z] = h[z]
      BY <1>1, <2>2, <2>3
    <2>5. [z \in below[y] |-> g[z]] = [z \in below[y] |-> h[z]]
      <3> HIDE DEF T
      <3> QED  BY <2>4
    <2>6. /\ g[y] = step[y][[z \in below[y] |-> g[z]]]
          /\ h[y] = step[y][[z \in below[y] |-> h[z]]]
      BY <1>1, <2>3 DEF Recurs
    <2> QED  BY <2>3, <2>5, <2>6
  <1> DEFINE U == {x \in S : \E D \in SUBSET S : \E g \in [D -> V] : x \in D /\ SolvedOn(D, g)}
             f == [x \in U |-> CHOOSE v \in V :
                     \E D \in SUBSET S : \E g \in [D -> V] :
                         x \in D /\ SolvedOn(D, g) /\ v = g[x]]
  <1>2. ASSUME NEW D, NEW g, SolvedOn(D, g), NEW x \in D PROVE x \in U /\ f[x] = g[x]
    <2>1. D \in SUBSET S /\ g \in [D -> V] /\ x \in S /\ g[x] \in V
      BY <1>2
    <2> HIDE DEF Solves
    <2>2. x \in U
      BY <1>2, <2>1
    <2>3. \A v \in V : (\E E \in SUBSET S : \E h \in [E -> V] :
                          x \in E /\ SolvedOn(E, h) /\ v = h[x]) => v = g[x]
      BY <1>1, <1>2
    <2>4. \E E \in SUBSET S : \E h \in [E -> V] : x \in E /\ SolvedOn(E, h) /\ g[x] = h[x]
      BY <1>2, <2>1
    <2> QED  BY <2>1, <2>2, <2>3, <2>4
  <1>3. SolvedOn(U, f)
    <2> SUFFICES ASSUME NEW x \in U
                 PROVE  /\ below[x] \subseteq U /\ f[x] \in V
                        /\ f[x] = step[x][[y \in below[x] |-> f[y]]]
      <3>1. ASSUME \A x \in U : /\ below[x] \subseteq U /\ f[x] \in V
                                /\ f[x] = step[x][[y \in below[x] |-> f[y]]]
            PROVE  SolvedOn(U, f)
        <4>1. f \in [U -> V]
          BY <3>1
        <4>2. Closed(U)
          BY <3>1
        <4> HIDE DEF U, f
        <4> QED  BY <3>1, <4>1, <4>2 DEF Recurs
      <3> QED  BY <3>1
    <2>1. PICK D \in SUBSET S : \E g \in [D -> V] : x \in D /\ SolvedOn(D, g)
      <3> HIDE DEF Solves
      <3> QED  OBVIOUS
    <2>2. PICK g \in [D -> V] : x \in D /\ SolvedOn(D, g)
      BY <2>1
    <2>3. below[x] \subseteq D /\ g[x] = step[x][[y \in below[x] |-> g[y]]] /\ g[x] \in V
      BY <2>2 DEF Recurs
    <2>4. \A y \in D : y \in U /\ f[y] = g[y]
      <3> HIDE DEF Solves, U, f
      <3> QED  BY <1>2, <2>2
    <2> HIDE DEF U, f
    <2>5. [y \in below[x] |-> f[y]] = [y \in below[x] |-> g[y]]
      BY <2>3, <2>4
    <2> QED  BY <2>2, <2>3, <2>4, <2>5
  <1>4. U = S
    <2> SUFFICES ASSUME S \ U # {} PROVE FALSE
      OBVIOUS
    <2>1. PICK x \in S \ U : below[x] \cap (S \ U) = {}
      <3> HIDE DEF U
      <3> QED  BY DEF Grounds
    <2>2. below[x] \subseteq U /\ x \notin below[x] /\ x \in S /\ x \notin U
      <3> HIDE DEF U
      <3> QED  BY <2>1 DEF Grounds
    <2> DEFINE E == U \cup {x}
               h == [y \in E |-> IF y = x THEN step[x][[z \in below[x] |-> f[z]]] ELSE f[y]]
    <2>3. Closed(U) /\ f \in [U -> V] /\ Recurs(U, below, step, f)
      <3> HIDE DEF U, f, Recurs
      <3> QED  BY <1>3
    <2> HIDE DEF f, U
    <2>4. [z \in below[x] |-> f[z]] \in [below[x] -> V]
      BY <2>2, <2>3
    <2>5. h \in [E -> V]
      <3>1. step[x][[z \in below[x] |-> f[z]]] \in V
        BY <2>2, <2>4
      <3> QED  BY <2>3, <3>1
    <2>6. Closed(E)
      BY <2>2, <2>3
    <2>7. ASSUME NEW y \in E PROVE h[y] = step[y][[z \in below[y] |-> h[z]]]
      <3>1. ASSUME y # x PROVE y \in U /\ below[y] \subseteq U
        BY <2>3, <3>1
      <3>2. below[y] \subseteq U
        BY <2>2, <3>1
      <3>3. \A z \in U : z \in E /\ h[z] = f[z]
        BY <2>2
      <3> HIDE DEF h, E
      <3>4. [z \in below[y] |-> h[z]] = [z \in below[y] |-> f[z]]
        BY <3>2, <3>3
      <3>5. CASE y = x
        BY <3>4, <3>5 DEF h
      <3>6. CASE y # x
        BY <2>3, <3>1, <3>3, <3>4, <3>6 DEF Recurs
      <3> QED  BY <3>5, <3>6
    <2>8. SolvedOn(E, h)
      <3> HIDE DEF E, h
      <3> QED  BY <2>5, <2>6, <2>7 DEF Recurs
    <2>9. x \in E
      OBVIOUS
    <2> HIDE DEF Solves, E, h
    <2>10. x \in U
      BY <1>2, <2>8, <2>9
    <2> QED  BY <2>2, <2>10
  <1> HIDE DEF U, f
  <1> QED  BY <1>3, <1>4

-----------------------------------------------------------------------------
\* The states around a node are those around its parent, and the parent
\* (get_parent_state_list).
LEMMA ParentsAreAround ==
    ASSUME NEW m, LegalMachine(m), NEW n \in NodesIn(m)
    PROVE  /\ ParentStates(m, n) \in Seq(StatesIn(m))
           /\ m.parent[n] = TopLevel => ParentStates(m, n) = <<>>
           /\ m.parent[n] # TopLevel =>
                 /\ m.parent[n] \in StatesIn(m)
                 /\ ParentStates(m, n) = Append(ParentStates(m, m.parent[n]), m.parent[n])
  <1> DEFINE N == NodesIn(m)
             V == Seq(StatesIn(m))
             below == [x \in N |-> {m.parent[x]} \ {TopLevel}]
             step == [x \in N |-> [g \in [below[x] -> V] |->
                         IF m.parent[x] = TopLevel THEN <<>>
                         ELSE Append(g[m.parent[x]], m.parent[x])]]
             body(g) == [x \in N |-> IF m.parent[x] = TopLevel THEN <<>>
                                     ELSE Append(g[m.parent[x]], m.parent[x])]
             up == CHOOSE g : g = body(g)
  <1>1. \A x \in N : m.parent[x] # TopLevel => m.parent[x] \in StatesIn(m) /\ m.parent[x] \in N
    BY DEF LegalMachine, ScopesIn, StatesIn
  <1>2. Grounds(N, below)
    <2>1. \A x \in N : below[x] = {m.parent[x]} \ {TopLevel}
      OBVIOUS
    <2>2. \A T \in (SUBSET N) \ {{}} : \E x \in T : m.parent[x] \notin T
      BY DEF LegalMachine
    <2> HIDE DEF below, N
    <2>3. \A T \in (SUBSET N) \ {{}} : \E x \in T : below[x] \cap T = {}
      <3> TAKE T \in (SUBSET N) \ {{}}
      <3>1. PICK x \in T : m.parent[x] \notin T
        BY <2>2
      <3> QED  BY <2>1, <3>1
    <2> QED  BY <1>1, <2>1, <2>3 DEF Grounds
  <1>3. ASSUME NEW x \in N, NEW g \in [below[x] -> V]
        PROVE  step[x][g] = IF m.parent[x] = TopLevel THEN <<>>
                            ELSE Append(g[m.parent[x]], m.parent[x])
    OBVIOUS
  <1>4. \A x \in N : \A g \in [below[x] -> V] : step[x][g] \in V
    <2> TAKE x \in N
    <2> TAKE g \in [below[x] -> V]
    <2>1. CASE m.parent[x] = TopLevel
      BY <1>3, <2>1
    <2>2. CASE m.parent[x] # TopLevel
      <3>1. m.parent[x] \in below[x] /\ m.parent[x] \in StatesIn(m)
        BY <1>1, <2>2
      <3>2. g[m.parent[x]] \in V
        BY <3>1
      <3>3. step[x][g] = Append(g[m.parent[x]], m.parent[x])
        BY <1>3, <2>2
      <3> QED  BY <3>1, <3>2, <3>3, AppendProperties
    <2> QED  BY <2>1, <2>2
  <1>5. PICK f \in [N -> V] : Recurs(N, below, step, f)
    <2> HIDE DEF N, V, below, step
    <2> QED  BY <1>2, <1>4, RecursionDefines
  <1>6. f = body(f)
    <2>1. ASSUME NEW x \in N
          PROVE  f[x] = IF m.parent[x] = TopLevel THEN <<>>
                        ELSE Append(f[m.parent[x]], m.parent[x])
      <3> DEFINE g == [y \in below[x] |-> f[y]]
      <3>1. f[x] = step[x][g]
        BY <1>5 DEF Recurs
      <3>2. g \in [below[x] -> V]
        <4>1. below[x] \subseteq N
          BY <1>1
        <4> QED  BY <4>1
      <3>3. m.parent[x] # TopLevel => g[m.parent[x]] = f[m.parent[x]]
        BY <1>1
      <3> HIDE DEF g, step, below
      <3> QED  BY <1>3, <3>1, <3>2, <3>3
    <2> HIDE DEF N, V
    <2> QED  BY <2>1
  <1>7. up = body(up)
    <2> HIDE DEF body
    <2> QED  BY <1>6
  <1>8. \A x \in N : ParentStates(m, x) = up[x]
    BY DEF ParentStates
  <1> HIDE DEF up
  <1>9. \A x \in N : up[x] = IF m.parent[x] = TopLevel THEN <<>>
                             ELSE Append(up[m.parent[x]], m.parent[x])
    BY <1>7
  <1>10. \A x \in N : up[x] \in V
    <2> DEFINE T == {x \in N : up[x] \notin V}
    <2> SUFFICES ASSUME T # {} PROVE FALSE
      OBVIOUS
    <2>1. PICK x \in T : below[x] \cap T = {}
      <3> HIDE DEF N, below, V
      <3> QED  BY <1>2 DEF Grounds
    <2>4. x \in N /\ up[x] \notin V
      OBVIOUS
    <2> HIDE DEF N, T, body
    <2>2. m.parent[x] # TopLevel
      <3>1. m.parent[x] = TopLevel => up[x] = <<>>
        BY <1>9, <2>4
      <3> QED  BY <2>4, <3>1, EmptySeq
    <2>3. m.parent[x] \in N /\ m.parent[x] \in StatesIn(m) /\ up[m.parent[x]] \in V
      <3>1. m.parent[x] \in below[x]
        BY <2>2, <2>4
      <3> QED  BY <1>1, <2>1, <2>2, <2>4, <3>1 DEF T
    <2>5. up[x] = Append(up[m.parent[x]], m.parent[x])
      BY <1>9, <2>2, <2>4
    <2> QED  BY <2>3, <2>4, <2>5, AppendProperties
  <1> HIDE DEF N, V
  <1> QED  BY <1>1, <1>8, <1>9, <1>10 DEF N, V

\* A list of states each of which is in the one before it: what is active when
\* its last one is.
Chained(m, list) ==
    /\ list \in Seq(StatesIn(m))
    /\ \A i \in 1..Len(list) : ParentStates(m, list[i]) = SubSeq(list, 1, i - 1)

\* The states around a node are such a list.
LEMMA ParentsChain ==
    ASSUME NEW m, LegalMachine(m), NEW n \in NodesIn(m)
    PROVE  Chained(m, ParentStates(m, n))
  <1> DEFINE T == {x \in NodesIn(m) : ~Chained(m, ParentStates(m, x))}
  <1> SUFFICES ASSUME T # {} PROVE FALSE
    OBVIOUS
  <1>1. PICK x \in T : m.parent[x] \notin T
    <2>1. T \in (SUBSET NodesIn(m)) \ {{}}
      OBVIOUS
    <2> HIDE DEF T
    <2> QED  BY <2>1 DEF LegalMachine
  <1>2. x \in NodesIn(m) /\ ~Chained(m, ParentStates(m, x))
    OBVIOUS
  <1> DEFINE p == m.parent[x]
             P == ParentStates(m, p)
             Q == ParentStates(m, x)
  <1>3. Q \in Seq(StatesIn(m))
    BY <1>2, ParentsAreAround
  <1>4. CASE p = TopLevel
    <2>1. Q = <<>>
      BY <1>2, <1>4, ParentsAreAround
    <2> HIDE DEF Q
    <2> QED  BY <1>2, <1>3, <2>1 DEF Q, Chained
  <1>5. CASE p # TopLevel
    <2>1. p \in StatesIn(m) /\ Q = Append(P, p) /\ p \in NodesIn(m)
      BY <1>2, <1>5, ParentsAreAround DEF StatesIn
    <2>2. Chained(m, P)
      BY <1>1, <2>1
    <2>3. P \in Seq(StatesIn(m)) /\ Len(P) \in Nat
      BY <2>2, LenProperties DEF Chained
    <2> HIDE DEF T, P, Q, p
    <2>4. /\ Len(Q) = Len(P) + 1 /\ Q[Len(P) + 1] = p
          /\ \A i \in 1..Len(P) : Q[i] = P[i]
      BY <2>1, <2>3, AppendProperties
    <2>5. ASSUME NEW i \in 1..Len(Q) PROVE ParentStates(m, Q[i]) = SubSeq(Q, 1, i - 1)
      <3>1. SubSeq(Q, 1, i - 1) = SubSeq(P, 1, i - 1)
        BY <1>3, <2>3, <2>4
      <3>2. CASE i = Len(P) + 1
        <4>1. SubSeq(P, 1, i - 1) = P
          BY <2>3, <3>2
        <4> QED  BY <2>4, <3>1, <3>2, <4>1 DEF P
      <3>3. CASE i # Len(P) + 1
        <4>1. i \in 1..Len(P)
          BY <2>3, <2>4, <3>3
        <4> QED  BY <2>2, <2>4, <3>1, <4>1 DEF Chained
      <3> QED  BY <3>2, <3>3
    <2>6. Chained(m, Q)
      BY <1>3, <2>5 DEF Chained
    <2> QED  BY <1>2, <2>6 DEF Q
  <1> QED  BY <1>4, <1>5

\* And so are the states to exit from a node.
LEMMA SourcesChain ==
    ASSUME NEW m, LegalMachine(m), NEW n \in NodesIn(m)
    PROVE  Chained(m, SourceStates(m, n))
  <1> DEFINE P == ParentStates(m, n)
             Q == Append(P, n)
  <1>1. Chained(m, P)
    BY ParentsChain
  <1>2. CASE n \notin States
    BY <1>1, <1>2 DEF SourceStates
  <1>3. CASE n \in States
    <2>1. P \in Seq(StatesIn(m)) /\ Len(P) \in Nat /\ n \in StatesIn(m)
      BY <1>1, <1>3, LenProperties DEF Chained, StatesIn
    <2>2. /\ Q \in Seq(StatesIn(m)) /\ Len(Q) = Len(P) + 1 /\ Q[Len(P) + 1] = n
          /\ \A i \in 1..Len(P) : Q[i] = P[i]
      BY <2>1, AppendProperties
    <2>3. P = ParentStates(m, n) /\ SourceStates(m, n) = Q
      BY <1>3 DEF SourceStates
    <2> HIDE DEF P, Q
    <2>4. ASSUME NEW i \in 1..Len(Q) PROVE ParentStates(m, Q[i]) = SubSeq(Q, 1, i - 1)
      <3>1. SubSeq(Q, 1, i - 1) = SubSeq(P, 1, i - 1)
        BY <2>1, <2>2
      <3>2. CASE i = Len(P) + 1
        <4>1. SubSeq(P, 1, i - 1) = P
          BY <2>1, <3>2
        <4> QED  BY <2>2, <2>3, <3>1, <3>2, <4>1
      <3>3. CASE i # Len(P) + 1
        <4>1. i \in 1..Len(P)
          BY <2>1, <2>2, <3>3
        <4> QED  BY <1>1, <2>2, <3>1, <4>1 DEF Chained
      <3> QED  BY <3>2, <3>3
    <2> QED  BY <2>2, <2>3, <2>4 DEF Chained
  <1> QED  BY <1>2, <1>3

-----------------------------------------------------------------------------
\* A function on the first n numbers is a sequence.
LEMMA FunctionIsSeq ==
    ASSUME NEW X, NEW n \in Nat, NEW f \in [1..n -> X]
    PROVE  f \in Seq(X) /\ Len(f) = n
  <1>1. f \in Seq(X)
    BY SeqDef
  <1>2. Len(f) \in Nat /\ f \in [1..Len(f) -> X]
    BY <1>1, LenProperties
  <1> QED  BY <1>1, <1>2

\* The longest common prefix of two lists is a common prefix.
LEMMA CommonPrefix ==
    ASSUME NEW X, NEW s \in Seq(X), NEW t \in Seq(X)
    PROVE  LET k == Len(LongestCommonPrefix({s, t}))
           IN  /\ k \in 0..Len(s) /\ k <= Len(t)
               /\ \A i \in 1..k : s[i] = t[i]
  <1> DEFINE C == CommonPrefixes({s, t})
             Longest(p) == \A q \in C : Len(q) <= Len(p)
  <1>1. Len(s) \in Nat /\ Len(t) \in Nat
    BY LenProperties
  <1>2. ASSUME NEW q \in C
        PROVE  /\ Len(q) \in 0..Len(s) /\ Len(q) <= Len(t)
               /\ \A i \in 1..Len(q) : s[i] = t[i]
    <2>1. /\ \E u \in {s, t} : \E l \in 0..Len(u) : q = SubSeq(u, 1, l)
          /\ IsPrefix(q, s) /\ IsPrefix(q, t)
      BY DEF CommonPrefixes, Prefixes
    <2>2. q \in Seq(X) /\ Len(q) \in Nat
      BY <1>1, <2>1
    <2>3. /\ Len(q) <= Len(s) /\ SubSeq(q, 1, Len(q)) = SubSeq(s, 1, Len(q))
          /\ Len(q) <= Len(t) /\ SubSeq(q, 1, Len(q)) = SubSeq(t, 1, Len(q))
      BY <2>1 DEF IsPrefix
    <2>4. ASSUME NEW i \in 1..Len(q) PROVE s[i] = t[i]
      <3>1. SubSeq(s, 1, Len(q))[i] = s[i] /\ SubSeq(t, 1, Len(q))[i] = t[i]
        BY <1>1, <2>2, <2>3
      <3> QED  BY <2>3, <3>1
    <2> QED  BY <1>1, <2>2, <2>3, <2>4
  <1>3. <<>> \in C
    <2>1. SubSeq(s, 1, 0) = <<>> /\ SubSeq(t, 1, 0) = <<>> /\ SubSeq(<<>>, 1, 0) = <<>>
      OBVIOUS
    <2>2. <<>> \in Prefixes(s)
      <3>1. 0 \in 0..Len(s)
        BY <1>1
      <3> QED  BY <2>1, <3>1 DEF Prefixes
    <2>3. IsPrefix(<<>>, s) /\ IsPrefix(<<>>, t)
      BY <1>1, <2>1 DEF IsPrefix
    <2> QED  BY <2>2, <2>3 DEF CommonPrefixes
  <1> HIDE DEF C
  <1> DEFINE T == {Len(s) - Len(q) : q \in C}
  <1>4. \E p \in C : Longest(p)
    <2>1. T \subseteq Nat /\ T # {}
      BY <1>1, <1>2, <1>3
    <2>2. IsWellFoundedOn(LessThan, Nat)
      BY NatLessThanWellFounded DEF OpToRel, LessThan
    <2>3. PICK n \in T : \A l \in T : <<l, n>> \notin LessThan
      <3> HIDE DEF T
      <3> QED  BY <2>1, <2>2, WFMin
    <2>4. PICK p \in C : n = Len(s) - Len(p)
      OBVIOUS
    <2>5. ASSUME NEW q \in C PROVE Len(q) <= Len(p)
      <3>1. Len(s) - Len(q) \in T
        OBVIOUS
      <3>2. <<Len(s) - Len(q), n>> \notin LessThan
        BY <2>3, <3>1
      <3>3. Len(s) - Len(q) \in Nat /\ n \in Nat
        BY <2>1, <3>1
      <3>4. ~(Len(s) - Len(q) < n)
        BY <3>2, <3>3 DEF LessThan
      <3> HIDE DEF T
      <3> QED  BY <1>1, <1>2, <2>4, <3>4
    <2> QED  BY <2>5
  <1>5. LongestCommonPrefix({s, t}) = CHOOSE p \in C : Longest(p)
    BY DEF LongestCommonPrefix, C
  <1>6. LongestCommonPrefix({s, t}) \in C
    <2> HIDE DEF Longest
    <2> QED  BY <1>4, <1>5
  <1> QED  BY <1>2, <1>6

\* What is still to run on the way to a node: the states beyond the first k of
\* the active ones are to be exited, the ones around the node to be entered.
ToRunFrom(m, list, acts, n, k) ==
    LET into == ParentStates(m, n)
        out  == Len(list) - k
    IN  /\ k \in 0..Len(list) /\ k <= Len(into)
        /\ \A i \in 1..k : list[i] = into[i]
        /\ acts \in Seq([do : {"exit", "entry"}, state : States])
        /\ Len(acts) = out + (Len(into) - k)
        /\ \A i \in 1..out : acts[i] = [do |-> "exit", state |-> list[Len(list) + 1 - i]]
        /\ \A i \in 1..Len(into) - k :
              acts[out + i] = [do |-> "entry", state |-> into[k + i]]
ToRun(m, list, acts, n) == \E k \in 0..Len(list) : ToRunFrom(m, list, acts, n, k)

\* A flattened transition has what there is to run from its source to its
\* target (ConstructFlattenedTransition).
LEMMA FlattenedActions ==
    ASSUME NEW m, LegalMachine(m), NEW n \in NodesIn(m), NEW t \in NodesIn(m)
    PROVE  /\ Flatten(m, n, t).to = t
           /\ ToRun(m, SourceStates(m, n), Flatten(m, n, t).actions, t)
  <1> DEFINE from == SourceStates(m, n)
             into == ParentStates(m, t)
             k    == Len(LongestCommonPrefix({from, into}))
             A == Exits(SubSeq(from, k + 1, Len(from)))
             B == Entries(SubSeq(into, k + 1, Len(into)))
             acts == Flatten(m, n, t).actions
             Action == [do : {"exit", "entry"}, state : States]
  <1>1. from \in Seq(States) /\ into \in Seq(States)
    <2>1. StatesIn(m) \subseteq States
      BY DEF StatesIn
    <2> QED  BY <2>1, SourcesChain, ParentsChain DEF Chained
  <1>2. k \in 0..Len(from) /\ k <= Len(into) /\ \A i \in 1..k : from[i] = into[i]
    <2> HIDE DEF from, into
    <2> QED  BY <1>1, CommonPrefix
  <1>3. acts = A \o B /\ Flatten(m, n, t).to = t
    BY DEF Flatten
  <1>4. into = ParentStates(m, t) /\ from = SourceStates(m, n)
    OBVIOUS
  <1> HIDE DEF from, into, k, acts
  <1>5. Len(from) \in Nat /\ Len(into) \in Nat /\ k \in Nat
    BY <1>1, <1>2, LenProperties
  <1>6. /\ SubSeq(from, k + 1, Len(from)) \in Seq(States)
        /\ Len(SubSeq(from, k + 1, Len(from))) = Len(from) - k
        /\ \A i \in 1..Len(from) - k : SubSeq(from, k + 1, Len(from))[i] = from[k + i]
    BY <1>1, <1>2, <1>5
  <1>7. /\ SubSeq(into, k + 1, Len(into)) \in Seq(States)
        /\ Len(SubSeq(into, k + 1, Len(into))) = Len(into) - k
        /\ \A i \in 1..Len(into) - k : SubSeq(into, k + 1, Len(into))[i] = into[k + i]
    BY <1>1, <1>2, <1>5
  <1>8. /\ A \in Seq(Action) /\ Len(A) = Len(from) - k
        /\ \A i \in 1..Len(from) - k :
              A[i] = [do |-> "exit", state |-> from[Len(from) + 1 - i]]
    <2> DEFINE S == SubSeq(from, k + 1, Len(from))
    <2>1. S \in Seq(States) /\ Len(S) = Len(from) - k /\ Len(from) - k \in Nat
      BY <1>2, <1>5, <1>6
    <2>2. ASSUME NEW i \in 1..Len(from) - k
          PROVE  S[Len(S) + 1 - i] = from[Len(from) + 1 - i] /\ from[Len(from) + 1 - i] \in States
      <3>1. Len(S) + 1 - i \in 1..Len(from) - k /\ k + (Len(S) + 1 - i) = Len(from) + 1 - i
            /\ Len(from) + 1 - i \in 1..Len(from)
        BY <1>2, <1>5, <2>1
      <3> HIDE DEF S
      <3> QED  BY <1>1, <1>6, <3>1 DEF S
    <2>3. A = [i \in 1..Len(S) |-> [do |-> "exit", state |-> S[Len(S) + 1 - i]]]
      BY DEF Exits
    <2> HIDE DEF S, A
    <2>4. \A i \in 1..Len(from) - k :
             A[i] = [do |-> "exit", state |-> from[Len(from) + 1 - i]] /\ A[i] \in Action
      BY <2>1, <2>2, <2>3
    <2>5. A \in [1..Len(from) - k -> Action]
      <3> HIDE DEF Action
      <3> QED  BY <2>1, <2>3, <2>4
    <2>6. A \in Seq(Action)
      BY <2>1, <2>5, FunctionIsSeq
    <2>7. Len(A) = Len(from) - k
      BY <2>1, <2>5, FunctionIsSeq
    <2> QED  BY <2>4, <2>6, <2>7
  <1>9. /\ B \in Seq(Action) /\ Len(B) = Len(into) - k
        /\ \A i \in 1..Len(into) - k : B[i] = [do |-> "entry", state |-> into[k + i]]
    <2> DEFINE S == SubSeq(into, k + 1, Len(into))
    <2>1. S \in Seq(States) /\ Len(S) = Len(into) - k /\ Len(into) - k \in Nat
      BY <1>2, <1>5, <1>7
    <2>2. ASSUME NEW i \in 1..Len(into) - k PROVE S[i] = into[k + i] /\ into[k + i] \in States
      BY <1>1, <1>2, <1>5, <1>7
    <2>3. B = [i \in 1..Len(S) |-> [do |-> "entry", state |-> S[i]]]
      BY DEF Entries
    <2> HIDE DEF S, B
    <2>4. \A i \in 1..Len(into) - k :
             B[i] = [do |-> "entry", state |-> into[k + i]] /\ B[i] \in Action
      BY <2>1, <2>2, <2>3
    <2>5. B \in [1..Len(into) - k -> Action]
      <3> HIDE DEF Action
      <3> QED  BY <2>1, <2>3, <2>4
    <2>6. B \in Seq(Action)
      BY <2>1, <2>5, FunctionIsSeq
    <2>7. Len(B) = Len(into) - k
      BY <2>1, <2>5, FunctionIsSeq
    <2> QED  BY <2>4, <2>6, <2>7
  <1> HIDE DEF A, B, Action
  <1>10. /\ acts \in Seq(Action) /\ Len(acts) = (Len(from) - k) + (Len(into) - k)
         /\ \A i \in 1..Len(from) - k : acts[i] = A[i]
         /\ \A i \in 1..Len(into) - k : acts[(Len(from) - k) + i] = B[i]
    <2> DEFINE a == Len(from) - k
               e == Len(into) - k
    <2>1. a \in Nat /\ e \in Nat /\ Len(A) = a /\ Len(B) = e
          /\ A \in Seq(Action) /\ B \in Seq(Action)
      BY <1>2, <1>5, <1>8, <1>9
    <2> HIDE DEF a, e
    <2>2. /\ A \o B \in Seq(Action) /\ Len(A \o B) = a + e
          /\ \A i \in 1..a + e : (A \o B)[i] = IF i <= a THEN A[i] ELSE B[i - a]
      BY <2>1, ConcatProperties
    <2>3. \A i \in 1..a : (A \o B)[i] = A[i]
      BY <2>1, <2>2
    <2>4. ASSUME NEW i \in 1..e PROVE (A \o B)[a + i] = B[i]
      <3>1. a + i \in 1..a + e /\ ~(a + i <= a) /\ (a + i) - a = i
        BY <2>1
      <3> QED  BY <2>2, <3>1
    <2> QED  BY <1>3, <2>2, <2>3, <2>4 DEF a, e
  <1>11. ToRunFrom(m, from, acts, t, k)
    BY <1>2, <1>4, <1>5, <1>8, <1>9, <1>10 DEF ToRunFrom, Action
  <1> QED  BY <1>2, <1>3, <1>11 DEF ToRun, from, acts

-----------------------------------------------------------------------------
\* Numbers up to a bound have a greatest one.
LEMMA Greatest ==
    ASSUME NEW n \in Nat, NEW K \in SUBSET (0..n), K # {}
    PROVE  \E i \in K : \A j \in K : j <= i
  <1> DEFINE T == {n - j : j \in K}
  <1>1. T \subseteq Nat /\ T # {}
    <2>1. \A j \in K : n - j \in Nat
      OBVIOUS
    <2> QED  BY <2>1
  <1>2. IsWellFoundedOn(LessThan, Nat)
    BY NatLessThanWellFounded DEF OpToRel, LessThan
  <1>3. PICK l \in T : \A o \in T : <<o, l>> \notin LessThan
    <2> HIDE DEF T
    <2> QED  BY <1>1, <1>2, WFMin
  <1>4. PICK i \in K : l = n - i
    OBVIOUS
  <1>5. ASSUME NEW j \in K PROVE j <= i
    <2>1. n - j \in T /\ n - j \in Nat /\ l \in Nat
      OBVIOUS
    <2>2. ~(n - j < l)
      BY <1>3, <2>1 DEF LessThan
    <2> HIDE DEF T
    <2> QED  BY <1>4, <2>2
  <1> QED  BY <1>5

\* What handles a signal is a transition of some state on that signal.
HandlersOf(m, g) == {m.on[x[1]][x[2]] : x \in {y \in StatesIn(m) \X Nat : y[2] \in Own(m, y[1], g)}}

\* The handler a state has itself is the last of its own for the signal.
LEMMA LastOwn ==
    ASSUME NEW m, LegalMachine(m), NEW x \in StatesIn(m), NEW g, Own(m, x, g) # {}
    PROVE  LET i == CHOOSE i \in Own(m, x, g) : \A j \in Own(m, x, g) : j <= i
           IN  i \in Own(m, x, g) /\ m.on[x][i] \in HandlersOf(m, g)
  <1> DEFINE i == CHOOSE i \in Own(m, x, g) : \A j \in Own(m, x, g) : j <= i
  <1>1. m.on[x] \in Seq([signal : Signals, to : Nodes \cup {Stay}, sites : Sites])
    BY DEF LegalMachine
  <1>2. DOMAIN m.on[x] = 1..Len(m.on[x]) /\ Len(m.on[x]) \in Nat
    BY <1>1, LenProperties
  <1>3. Own(m, x, g) \subseteq 0..Len(m.on[x]) /\ Own(m, x, g) \subseteq Nat
    BY <1>2 DEF Own
  <1>4. \E k \in Own(m, x, g) : \A j \in Own(m, x, g) : j <= k
    BY <1>2, <1>3, Greatest
  <1>5. i \in Own(m, x, g)
    BY <1>4
  <1> HIDE DEF i
  <1>6. <<x, i>> \in StatesIn(m) \X Nat /\ <<x, i>>[1] = x /\ <<x, i>>[2] = i
    BY <1>3, <1>5
  <1>7. m.on[x][i] \in HandlersOf(m, g)
    BY <1>5, <1>6 DEF HandlersOf
  <1> QED  BY <1>5, <1>7 DEF i

\* The handler of a leaf is a transition on that signal, its own or inherited.
LEMMA HandlersAreOwn ==
    ASSUME NEW m, LegalMachine(m), NEW s \in StatesIn(m), NEW g
    PROVE  Handler(m, s, g) \subseteq HandlersOf(m, g)
  <1> DEFINE N == StatesIn(m)
             V == SUBSET HandlersOf(m, g)
             below == [x \in N |-> {m.parent[x]} \ {TopLevel}]
             last(x) == {m.on[x][CHOOSE i \in Own(m, x, g) : \A j \in Own(m, x, g) : j <= i]}
             step == [x \in N |-> [h \in [below[x] -> V] |->
                         IF Own(m, x, g) # {} THEN last(x)
                         ELSE IF m.parent[x] = TopLevel THEN {} ELSE h[m.parent[x]]]]
             body(h) == [x \in N |-> IF Own(m, x, g) # {} THEN last(x)
                                     ELSE IF m.parent[x] = TopLevel THEN {}
                                          ELSE h[m.parent[x]]]
             by == CHOOSE h : h = body(h)
  <1>1. \A x \in N : m.parent[x] # TopLevel => m.parent[x] \in N
    BY DEF LegalMachine, ScopesIn, StatesIn
  <1>2. Grounds(N, below)
    <2>1. \A x \in N : below[x] = {m.parent[x]} \ {TopLevel}
      OBVIOUS
    <2>2. \A T \in (SUBSET N) \ {{}} : \E x \in T : m.parent[x] \notin T
      BY DEF LegalMachine, StatesIn
    <2> HIDE DEF below, N
    <2>3. \A T \in (SUBSET N) \ {{}} : \E x \in T : below[x] \cap T = {}
      <3> TAKE T \in (SUBSET N) \ {{}}
      <3>1. PICK x \in T : m.parent[x] \notin T
        BY <2>2
      <3> QED  BY <2>1, <3>1
    <2> QED  BY <1>1, <2>1, <2>3 DEF Grounds
  <1>3. \A x \in N : Own(m, x, g) # {} => last(x) \in V
    BY LastOwn
  <1>4. Handler(m, s, g) = by[s]
    BY DEF Handler
  <1> HIDE DEF last
  <1>5. ASSUME NEW x \in N, NEW h \in [below[x] -> V]
        PROVE  step[x][h] = IF Own(m, x, g) # {} THEN last(x)
                            ELSE IF m.parent[x] = TopLevel THEN {} ELSE h[m.parent[x]]
    <2> HIDE DEF V
    <2> QED  OBVIOUS
  <1>6. \A x \in N : \A h \in [below[x] -> V] : step[x][h] \in V
    <2> TAKE x \in N
    <2> TAKE h \in [below[x] -> V]
    <2>1. m.parent[x] # TopLevel => h[m.parent[x]] \in V
      <3> HIDE DEF V
      <3> QED  OBVIOUS
    <2>2. {} \in V
      OBVIOUS
    <2>3. Own(m, x, g) # {} => last(x) \in V
      BY <1>3
    <2> HIDE DEF N, V, below, step
    <2> QED  BY <1>5, <2>1, <2>2, <2>3
  <1>7. PICK f \in [N -> V] : Recurs(N, below, step, f)
    <2> HIDE DEF N, V, below, step
    <2> QED  BY <1>2, <1>6, RecursionDefines
  <1>8. f = body(f)
    <2>1. ASSUME NEW x \in N
          PROVE  f[x] = IF Own(m, x, g) # {} THEN last(x)
                        ELSE IF m.parent[x] = TopLevel THEN {} ELSE f[m.parent[x]]
      <3> DEFINE h == [y \in below[x] |-> f[y]]
      <3>1. f[x] = step[x][h]
        BY <1>7 DEF Recurs
      <3>2. h \in [below[x] -> V]
        <4>1. below[x] \subseteq N
          BY <1>1
        <4> HIDE DEF V, N, below
        <4> QED  BY <4>1
      <3>3. m.parent[x] # TopLevel => h[m.parent[x]] = f[m.parent[x]]
        BY <1>1
      <3> HIDE DEF h, step, below, V
      <3> QED  BY <1>5, <3>1, <3>2, <3>3
    <2> HIDE DEF N, V
    <2> QED  BY <2>1
  <1>9. by = body(by)
    <2> HIDE DEF body
    <2> QED  BY <1>8
  <1> HIDE DEF by
  <1>10. \A x \in N : by[x] = IF Own(m, x, g) # {} THEN last(x)
                              ELSE IF m.parent[x] = TopLevel THEN {} ELSE by[m.parent[x]]
    BY <1>9
  <1>11. \A x \in N : by[x] \in V
    <2> DEFINE T == {x \in N : by[x] \notin V}
    <2> SUFFICES ASSUME T # {} PROVE FALSE
      OBVIOUS
    <2>1. PICK x \in T : below[x] \cap T = {}
      <3> HIDE DEF N, below, V
      <3> QED  BY <1>2 DEF Grounds
    <2>2. x \in N /\ by[x] \notin V /\ {} \in V
      OBVIOUS
    <2>3. m.parent[x] # TopLevel => m.parent[x] \in below[x]
      BY <2>2
    <2> HIDE DEF N, V, below, body
    <2>4. Own(m, x, g) = {} /\ m.parent[x] # TopLevel /\ by[x] = by[m.parent[x]]
      BY <1>3, <1>10, <2>2
    <2>5. m.parent[x] \in N /\ m.parent[x] \notin T
      BY <1>1, <2>1, <2>2, <2>3, <2>4
    <2> QED  BY <2>2, <2>4, <2>5 DEF T
  <1> HIDE DEF V
  <1> QED  BY <1>4, <1>11 DEF V

\* What a leaf does on a signal: a transition on that signal, its own or of a
\* state around it, flattened from the leaf.
LEMMA FlattenedSignal ==
    ASSUME NEW m, LegalMachine(m), m.resolved,
           NEW s \in DOMAIN FlattenedStates(m), NEW g \in DOMAIN FlattenedStates(m)[s]
    PROVE  LET e == FlattenedStates(m)[s][g]
           IN  /\ s \in StatesIn(m) /\ Leaf(m, s)
               /\ \E x \in StatesIn(m) : \E i \in Own(m, x, g) : m.on[x][i].to = e.to
               /\ e.to \in NodesIn(m) \cup {Stay}
               /\ e.to = Stay => e.actions = <<>>
               /\ e.to # Stay => ToRun(m, SourceStates(m, s), e.actions, e.to)
  <1> DEFINE t == CHOOSE t \in Handler(m, s, g) : TRUE
             e == FlattenedStates(m)[s][g]
  <1>1. /\ s \in StatesIn(m) /\ Leaf(m, s) /\ Handler(m, s, g) # {}
        /\ e = IF t.to = Stay THEN [actions |-> <<>>, to |-> Stay] ELSE Flatten(m, s, t.to)
    BY DEF FlattenedStates
  <1>2. t \in HandlersOf(m, g)
    BY <1>1, HandlersAreOwn
  <1> HIDE DEF t, e
  <1>3. PICK x \in StatesIn(m) : \E i \in Own(m, x, g) : t = m.on[x][i]
    BY <1>2 DEF HandlersOf
  <1>4. PICK i \in Own(m, x, g) : t = m.on[x][i]
    BY <1>3
  <1>5. t.to \in NodesIn(m) \cup {Stay}
    BY <1>4 DEF LegalMachine, Own
  <1>6. CASE t.to = Stay
    BY <1>1, <1>4, <1>6 DEF e
  <1>7. CASE t.to # Stay
    <2>1. t.to \in NodesIn(m) /\ s \in NodesIn(m) /\ e = Flatten(m, s, t.to)
      BY <1>1, <1>5, <1>7 DEF StatesIn
    <2>2. e.to = t.to /\ ToRun(m, SourceStates(m, s), e.actions, t.to)
      BY <2>1, FlattenedActions
    <2> QED  BY <1>1, <1>4, <1>7, <2>1, <2>2 DEF e
  <1> QED  BY <1>6, <1>7

-----------------------------------------------------------------------------
\* What the passes have made sure of so far, and where nothing runs yet.
PassesSoFar ==
    /\ LegalMachine(machine)
    /\ pass \in {"uses", "initial", "graph", "reachability", "cycles", "types",
                 "flatten", "analysed", "blocked"}
    /\ pass \notin {"uses", "blocked"} => machine.resolved
    /\ pass \notin {"uses", "initial", "blocked"} =>
          OneInitial(machine) /\ (errors = {} => InitialStaysInside(machine))
    /\ pass = "analysed" =>
          onSignal = FlattenedStates(machine) /\ onBranch = FlattenedChoices(machine)
    /\ pass # "analysed" => active = <<>> /\ agenda = <<>> /\ goal = Stay /\ value = NoType

\* Where a running machine is: in states each of which is in the one before,
\* with the rest of the way to its goal to run, or at rest in a leaf.
RunInPlace ==
    Accepted =>
        /\ Chained(machine, active)
        /\ goal \in NodesIn(machine) \cup {Stay}
        /\ IF goal = Stay
           THEN agenda = <<>> /\ active # <<>> /\ Leaf(machine, active[Len(active)])
           ELSE ToRun(machine, active, agenda, goal)

\* When nothing is left to run, the states around the goal are active; and where
\* they are, nothing has to run.
LEMMA ArrivedAt ==
    ASSUME NEW m, LegalMachine(m), NEW list, Chained(m, list), NEW n \in NodesIn(m)
    PROVE  /\ ToRun(m, list, <<>>, n) => list = ParentStates(m, n)
           /\ list = ParentStates(m, n) => ToRun(m, list, <<>>, n)
  <1> DEFINE into == ParentStates(m, n)
  <1>1. list \in Seq(StatesIn(m)) /\ into \in Seq(StatesIn(m))
    BY ParentsChain DEF Chained
  <1>2. into = ParentStates(m, n)
    OBVIOUS
  <1> HIDE DEF into
  <1>3. Len(list) \in Nat /\ Len(into) \in Nat /\ Len(<<>>) = 0
    BY <1>1, LenProperties
  <1>4. ASSUME ToRun(m, list, <<>>, n) PROVE list = into
    <2>1. PICK k \in 0..Len(list) : ToRunFrom(m, list, <<>>, n, k)
      BY <1>4 DEF ToRun
    <2>2. /\ k <= Len(into) /\ 0 = (Len(list) - k) + (Len(into) - k)
          /\ \A i \in 1..k : list[i] = into[i]
      BY <1>2, <1>3, <2>1 DEF ToRunFrom
    <2>3. k = Len(list) /\ k = Len(into)
      BY <1>3, <2>2
    <2> QED  BY <1>1, <2>2, <2>3, SeqEqual
  <1>5. ASSUME list = into PROVE ToRun(m, list, <<>>, n)
    <2>1. ToRunFrom(m, list, <<>>, n, Len(list))
      BY <1>2, <1>3, <1>5 DEF ToRunFrom
    <2> QED  BY <1>3, <2>1 DEF ToRun
  <1> QED  BY <1>2, <1>4, <1>5

\* The invariant is what the actions rely on.
LEMMA RunIsInContext ==
    ASSUME PassesSoFar, RunInPlace PROVE ActionsRunInContext
  <1> SUFFICES ASSUME Accepted
               PROVE  /\ agenda # <<>> =>
                            IF Head(agenda).do = "exit"
                            THEN active = SourceStates(machine, Head(agenda).state)
                            ELSE ContextOf(Head(agenda).state)
                      /\ agenda = <<>> /\ goal # Stay => ContextOf(goal)
                      /\ goal = Stay =>
                            /\ active # <<>>
                            /\ Leaf(machine, active[Len(active)])
                            /\ active = SourceStates(machine, active[Len(active)])
    BY DEF ActionsRunInContext
  <1> DEFINE n == Len(active)
             into == ParentStates(machine, goal)
  <1>1. Chained(machine, active) /\ active \in Seq(StatesIn(machine)) /\ n \in Nat
    BY LenProperties DEF RunInPlace, Chained
  <1>2. ASSUME n # 0
        PROVE  active = SourceStates(machine, active[n]) /\ active[n] \in StatesIn(machine)
    <2>1. n \in 1..n /\ active[n] \in StatesIn(machine)
      BY <1>1, <1>2
    <2>2. ParentStates(machine, active[n]) = SubSeq(active, 1, n - 1)
      BY <1>1, <2>1 DEF Chained
    <2>3. active = Append(SubSeq(active, 1, n - 1), active[n])
      BY <1>1, <1>2
    <2>4. active[n] \in States
      BY <2>1 DEF StatesIn
    <2> QED  BY <2>1, <2>2, <2>3, <2>4 DEF SourceStates
  <1>3. CASE goal = Stay
    <2>1. agenda = <<>> /\ active # <<>> /\ Leaf(machine, active[n])
      BY <1>3 DEF RunInPlace
    <2>2. n # 0
      BY <1>1, <2>1
    <2> QED  BY <1>2, <1>3, <2>1, <2>2
  <1>4. CASE goal # Stay
    <2>1. ToRun(machine, active, agenda, goal) /\ goal \in NodesIn(machine)
      BY <1>4 DEF RunInPlace
    <2>2. ASSUME agenda = <<>> PROVE ContextOf(goal)
      BY <1>1, <2>1, <2>2, ArrivedAt DEF ContextOf, PassesSoFar
    <2>3. ASSUME agenda # <<>>
          PROVE  IF Head(agenda).do = "exit"
                 THEN active = SourceStates(machine, Head(agenda).state)
                 ELSE ContextOf(Head(agenda).state)
      <3>1. PICK k \in 0..n : ToRunFrom(machine, active, agenda, goal, k)
        BY <2>1 DEF ToRun
      <3>2. Chained(machine, into) /\ into \in Seq(StatesIn(machine)) /\ Len(into) \in Nat
        BY <2>1, ParentsChain, LenProperties DEF PassesSoFar, Chained
      <3> DEFINE out == n - k
      <3>3. /\ k <= Len(into) /\ out \in Nat
            /\ \A i \in 1..k : active[i] = into[i]
            /\ agenda \in Seq([do : {"exit", "entry"}, state : States])
            /\ Len(agenda) = out + (Len(into) - k)
            /\ \A i \in 1..out : agenda[i] = [do |-> "exit", state |-> active[n + 1 - i]]
            /\ \A i \in 1..Len(into) - k :
                  agenda[out + i] = [do |-> "entry", state |-> into[k + i]]
        <4>1. into = ParentStates(machine, goal) /\ n = Len(active)
          OBVIOUS
        <4> HIDE DEF into, n
        <4>2. k \in 0..n /\ out \in Nat
          BY <1>1, <3>1
        <4> QED  BY <3>1, <4>1, <4>2 DEF ToRunFrom
      <3>4. Head(agenda) = agenda[1] /\ Len(agenda) > 0
        BY <2>3, <3>3
      <3> HIDE DEF into
      <3>5. CASE out # 0
        <4>1. 1 \in 1..out /\ n + 1 - 1 = n /\ n # 0
          BY <1>1, <3>3, <3>5
        <4>2. agenda[1] = [do |-> "exit", state |-> active[n]]
          BY <3>3, <4>1
        <4> QED  BY <1>2, <3>4, <4>1, <4>2
      <3>6. CASE out = 0
        <4>1. k = n /\ k + 1 \in 1..Len(into) /\ 1 \in 1..Len(into) - k
          BY <1>1, <3>2, <3>3, <3>4, <3>6
        <4>2. agenda[1] = [do |-> "entry", state |-> into[k + 1]]
          BY <3>3, <3>6, <4>1
        <4>3. ParentStates(machine, into[k + 1]) = SubSeq(into, 1, k)
          BY <3>2, <4>1 DEF Chained
        <4>4. SubSeq(into, 1, k) = active
          <5>1. /\ SubSeq(into, 1, k) \in Seq(StatesIn(machine))
                /\ Len(SubSeq(into, 1, k)) = k
                /\ \A i \in 1..k : SubSeq(into, 1, k)[i] = into[i]
            BY <3>2, <3>3, <4>1
          <5> QED  BY <1>1, <3>3, <4>1, <5>1, SeqEqual
        <4> QED  BY <3>4, <4>2, <4>3, <4>4 DEF ContextOf
      <3> QED  BY <3>5, <3>6
    <2> QED  BY <1>4, <2>2, <2>3
  <1> QED  BY <1>3, <1>4

\* What a machine defines are nodes.
LEMMA NodesAreNodes == ASSUME NEW m, LegalMachine(m) PROVE NodesIn(m) \subseteq Nodes
  BY DEF NodesIn, ToSet, LegalMachine

\* An initial transition leads to a node directly in its scope.
LEMMA InitialTargets ==
    ASSUME NEW m, LegalMachine(m), m.resolved, InitialStaysInside(m),
           NEW p \in ScopesIn(m), NEW i \in DOMAIN m.initial[p]
    PROVE  m.initial[p][i].to \in NodesIn(m) /\ m.parent[m.initial[p][i].to] = p
  <1>1. StaysInside(m, p, m.initial[p][i].to)
    BY DEF InitialStaysInside
  <1>2. PICK S \in SUBSET {n \in NodesIn(m) : m.parent[n] = p} : m.initial[p][i].to \in S
    BY <1>1 DEF StaysInside
  <1> QED  BY <1>2

\* Nothing is wrong at the start.
LEMMA PassesStart ==
    ASSUME NEW m, StateMachineStart(m), LegalMachine(m) PROVE PassesSoFar /\ RunInPlace
  BY DEF StateMachineStart, PassesSoFar, RunInPlace, Accepted

\* A pass that is over has made sure of what it checks; when the last one is, the
\* machine is about to enter its initial node.
LEMMA PassesKeep ==
    ASSUME PassesSoFar, RunInPlace, PassStep PROVE PassesSoFar' /\ RunInPlace'
  <1>1. /\ machine' = machine /\ active' = active /\ agenda' = agenda /\ value' = value
        /\ pass # "analysed" /\ active = <<>> /\ agenda = <<>> /\ goal = Stay
        /\ LegalMachine(machine)
    BY DEF PassStep, CheckUses, CheckInitialAndSignals, BuildGraph, CheckReachability,
           SearchCycles, CyclesGate, CheckTypes, FlattenTransitions, smRun, smTables, PassesSoFar
  <1>2. CASE pass' # "analysed"
    <2>1. RunInPlace'
      BY <1>2 DEF RunInPlace, Accepted
    <2>2. goal' = Stay
      BY <1>1, <1>2 DEF PassStep, CheckUses, CheckInitialAndSignals, BuildGraph,
           CheckReachability, SearchCycles, CyclesGate, CheckTypes, FlattenTransitions, smRun
    <2>3. PassesSoFar'
      <3>1. CASE CheckUses
        BY <1>1, <2>2, <3>1 DEF PassesSoFar, CheckUses, Emits
      <3>2. CASE CheckInitialAndSignals
        BY <1>1, <2>2, <3>2 DEF PassesSoFar, CheckInitialAndSignals, Emits
      <3>3. CASE BuildGraph
        BY <1>1, <2>2, <3>3 DEF PassesSoFar, BuildGraph
      <3>4. CASE CheckReachability
        BY <1>1, <2>2, <3>4 DEF PassesSoFar, CheckReachability, Emits
      <3>5. CASE SearchCycles
        BY <1>1, <2>2, <3>5 DEF PassesSoFar, SearchCycles
      <3>6. CASE CyclesGate
        BY <1>1, <2>2, <3>6 DEF PassesSoFar, CyclesGate, Emits
      <3>7. CASE CheckTypes
        BY <1>1, <2>2, <3>7 DEF PassesSoFar, CheckTypes, Emits
      <3>8. CASE FlattenTransitions
        BY <1>2, <3>8 DEF FlattenTransitions
      <3> QED  BY <3>1, <3>2, <3>3, <3>4, <3>5, <3>6, <3>7, <3>8 DEF PassStep
    <2> QED  BY <2>1, <2>3
  <1>3. CASE pass' = "analysed"
    <2>1. FlattenTransitions
      <3>1. ~CheckUses /\ ~CheckInitialAndSignals /\ ~BuildGraph /\ ~CheckReachability
            /\ ~SearchCycles /\ ~CyclesGate /\ ~CheckTypes
        BY <1>3 DEF CheckUses, CheckInitialAndSignals, BuildGraph, CheckReachability,
             SearchCycles, CyclesGate, CheckTypes, Emits
      <3> QED  BY <3>1 DEF PassStep
    <2>2. /\ pass = "flatten" /\ machine.resolved /\ OneInitial(machine) /\ errors' = errors
          /\ errors = {} => InitialStaysInside(machine)
          /\ goal' = InitialNode(machine)
      BY <2>1 DEF FlattenTransitions, PassesSoFar
    <2>3. PassesSoFar'
      BY <1>1, <2>1, <2>2 DEF PassesSoFar, FlattenTransitions
    <2>4. ASSUME errors = {} PROVE RunInPlace'
      <3> DEFINE n == InitialNode(machine)
      <3>1. TopLevel \in ScopesIn(machine) /\ Len(machine.initial[TopLevel]) = 1
        BY <2>2 DEF ScopesIn, OneInitial
      <3>2. /\ n = machine.initial[TopLevel][1]
               .to
            /\ 1 \in DOMAIN machine.initial[TopLevel]
        <4>1. machine.initial[TopLevel] \in Seq(Enters)
          BY <1>1, <3>1 DEF LegalMachine
        <4> QED  BY <3>1, <4>1, LenProperties DEF InitialNode
      <3>3. n \in NodesIn(machine) /\ machine.parent[n] = TopLevel
        BY <1>1, <2>2, <2>4, <3>1, <3>2, InitialTargets
      <3> HIDE DEF n
      <3>4. ParentStates(machine, n) = <<>> /\ Chained(machine, <<>>)
        <4>1. ParentStates(machine, n) = <<>>
          BY <1>1, <3>3, ParentsAreAround
        <4> QED  BY <1>1, <3>3, <4>1, ParentsChain
      <3>5. ToRun(machine, <<>>, <<>>, n)
        BY <1>1, <3>3, <3>4, ArrivedAt
      <3>6. n # Stay
        BY <1>1, <3>3, NodesAreNodes, NodesAssumption DEF Nodes
      <3>7. goal' = n /\ active' = <<>> /\ agenda' = <<>>
        BY <1>1, <2>2 DEF n
      <3> QED  BY <1>1, <3>3, <3>4, <3>5, <3>6, <3>7 DEF RunInPlace
    <2>5. RunInPlace'
      BY <2>2, <2>4 DEF RunInPlace, Accepted
    <2> QED  BY <2>3, <2>5
  <1> QED  BY <1>2, <1>3

\* One action after the other, a running machine stays on the way to its goal.
LEMMA ActKeeps ==
    ASSUME PassesSoFar, RunInPlace, Act PROVE RunInPlace'
  <1> DEFINE n == Len(active)
             into == ParentStates(machine, goal)
  <1>1. /\ Accepted /\ goal # Stay /\ agenda # <<>> /\ agenda' = Tail(agenda)
        /\ goal' = goal /\ machine' = machine
        /\ active' = IF Head(agenda).do = "exit"
                     THEN SubSeq(active, 1, n - 1)
                     ELSE Append(active, Head(agenda).state)
    BY DEF Act, Running
  <1>2. /\ Chained(machine, active) /\ active \in Seq(StatesIn(machine)) /\ n \in Nat
        /\ goal \in NodesIn(machine) /\ ToRun(machine, active, agenda, goal)
        /\ LegalMachine(machine)
    BY <1>1, LenProperties DEF RunInPlace, Chained, PassesSoFar
  <1>3. PICK k \in 0..n : ToRunFrom(machine, active, agenda, goal, k)
    BY <1>2 DEF ToRun
  <1>4. Chained(machine, into) /\ into \in Seq(StatesIn(machine)) /\ Len(into) \in Nat
    BY <1>2, ParentsChain, LenProperties DEF Chained
  <1> DEFINE out == n - k
             in == Len(into) - k
             Action == [do : {"exit", "entry"}, state : States]
  <1>5. /\ k <= Len(into) /\ out \in Nat /\ in \in Nat
        /\ \A i \in 1..k : active[i] = into[i]
        /\ agenda \in Seq(Action)
        /\ Len(agenda) = out + in
        /\ \A i \in 1..out : agenda[i] = [do |-> "exit", state |-> active[n + 1 - i]]
        /\ \A i \in 1..in : agenda[out + i] = [do |-> "entry", state |-> into[k + i]]
    <2>1. into = ParentStates(machine, goal) /\ n = Len(active)
      OBVIOUS
    <2>2. out \in Nat
      BY <1>2, <1>3
    <2> HIDE DEF into, n
    <2>3. k <= Len(into)
      BY <1>3, <2>1 DEF ToRunFrom
    <2>4. in \in Nat
      BY <1>3, <1>4, <2>3
    <2> QED  BY <1>3, <2>1, <2>2, <2>3, <2>4 DEF ToRunFrom
  <1>6. /\ Head(agenda) = agenda[1] /\ Len(agenda) >= 1
        /\ agenda' \in Seq(Action) /\ Len(agenda') = out + in - 1
        /\ \A i \in 1..out + in - 1 : agenda'[i] = agenda[i + 1]
    BY <1>1, <1>5, HeadTailProperties
  <1>7. into = ParentStates(machine, goal) /\ n = Len(active)
    OBVIOUS
  <1> HIDE DEF into, n
  <1>8. ASSUME Chained(machine, active'), ToRun(machine, active', agenda', goal)
        PROVE  RunInPlace'
    BY <1>1, <1>2, <1>8 DEF RunInPlace
  <1>9. CASE out # 0
    <2>1. agenda[1] = [do |-> "exit", state |-> active[n]] /\ n >= 1 /\ k <= n - 1
      <3>1. 1 \in 1..out /\ n + 1 - 1 = n
        BY <1>2, <1>5, <1>9
      <3> QED  BY <1>2, <1>3, <1>5, <1>9, <3>1
    <2>2. active' = SubSeq(active, 1, n - 1)
      <3>1. Head(agenda).do = "exit"
        BY <1>6, <2>1
      <3> QED  BY <1>1, <3>1
    <2>3. /\ active' \in Seq(StatesIn(machine)) /\ Len(active') = n - 1
          /\ \A i \in 1..n - 1 : active'[i] = active[i]
      BY <1>2, <1>7, <2>1, <2>2
    <2>4. Chained(machine, active')
      <3>1. ASSUME NEW i \in 1..n - 1
            PROVE  ParentStates(machine, active'[i]) = SubSeq(active', 1, i - 1)
        <4>1. SubSeq(active', 1, i - 1) = SubSeq(active, 1, i - 1)
          BY <1>2, <1>7, <2>3
        <4>2. i \in 1..n
          BY <1>2
        <4> QED  BY <1>2, <1>7, <2>3, <4>1, <4>2 DEF Chained
      <3> QED  BY <2>3, <3>1 DEF Chained
    <2>5. ToRunFrom(machine, active', agenda', goal, k)
      <3>1. k \in 0..Len(active') /\ Len(active') - k = out - 1 /\ Len(active') - k \in Nat
        BY <1>2, <2>1, <2>3
      <3>2. \A i \in 1..k : active'[i] = into[i]
        BY <1>2, <1>5, <2>1, <2>3
      <3>3. ASSUME NEW i \in 1..out - 1
            PROVE  agenda'[i] = [do |-> "exit", state |-> active'[Len(active') + 1 - i]]
        <4>1. /\ i + 1 \in 1..out /\ i \in 1..out + in - 1
              /\ n + 1 - (i + 1) \in 1..n - 1
              /\ Len(active') + 1 - i = n + 1 - (i + 1)
          BY <1>2, <1>3, <1>5, <2>3
        <4>2. agenda'[i] = [do |-> "exit", state |-> active[n + 1 - (i + 1)]]
          BY <1>5, <1>6, <4>1
        <4> QED  BY <2>3, <4>1, <4>2
      <3>4. ASSUME NEW i \in 1..in
            PROVE  agenda'[(out - 1) + i] = [do |-> "entry", state |-> into[k + i]]
        <4>1. (out - 1) + i \in 1..out + in - 1 /\ ((out - 1) + i) + 1 = out + i
          BY <1>5, <1>9
        <4> QED  BY <1>5, <1>6, <4>1
      <3>5. Len(agenda') = (out - 1) + in
        BY <1>5, <1>6, <1>9
      <3> HIDE DEF out
      <3> QED  BY <1>5, <1>6, <1>7, <3>1, <3>2, <3>3, <3>4, <3>5 DEF ToRunFrom
    <2>6. k \in 0..Len(active')
      BY <1>2, <2>1, <2>3
    <2> QED  BY <1>8, <2>4, <2>5, <2>6 DEF ToRun
  <1>10. CASE out = 0
    <2>1. k = n /\ in >= 1 /\ k + 1 \in 1..Len(into)
      BY <1>2, <1>4, <1>5, <1>6, <1>10
    <2>2. agenda[1] = [do |-> "entry", state |-> into[k + 1]]
      <3>1. 1 \in 1..in
        BY <1>5, <2>1
      <3> QED  BY <1>5, <1>10, <3>1
    <2>3. active' = Append(active, into[k + 1]) /\ into[k + 1] \in StatesIn(machine)
      BY <1>1, <1>4, <1>6, <2>1, <2>2
    <2>4. /\ active' \in Seq(StatesIn(machine)) /\ Len(active') = k + 1
          /\ \A i \in 1..k + 1 : active'[i] = into[i]
      <3>1. /\ active' \in Seq(StatesIn(machine)) /\ Len(active') = n + 1
            /\ active'[n + 1] = into[k + 1]
            /\ \A i \in 1..n : active'[i] = active[i]
        BY <1>2, <1>7, <2>3, AppendProperties
      <3>2. \A i \in 1..k + 1 : i \in 1..k \/ i = k + 1
        BY <1>3
      <3> QED  BY <1>5, <2>1, <3>1, <3>2
    <2>5. Chained(machine, active')
      <3>1. ASSUME NEW i \in 1..k + 1
            PROVE  ParentStates(machine, active'[i]) = SubSeq(active', 1, i - 1)
        <4>1. SubSeq(active', 1, i - 1) = SubSeq(into, 1, i - 1)
          BY <1>4, <2>1, <2>4
        <4>2. i \in 1..Len(into)
          BY <1>4, <2>1
        <4> QED  BY <1>4, <2>4, <4>1, <4>2 DEF Chained
      <3> QED  BY <2>4, <3>1 DEF Chained
    <2>6. ToRunFrom(machine, active', agenda', goal, k + 1)
      <3>1. /\ k + 1 \in 0..Len(active') /\ Len(active') - (k + 1) = 0
            /\ k + 1 <= Len(into) /\ Len(into) - (k + 1) = in - 1
        BY <1>3, <1>4, <2>1, <2>4
      <3>2. ASSUME NEW i \in 1..in - 1
            PROVE  agenda'[i] = [do |-> "entry", state |-> into[(k + 1) + i]]
        <4>1. i + 1 \in 1..in /\ i \in 1..out + in - 1 /\ k + (i + 1) = (k + 1) + i
              /\ out + (i + 1) = i + 1
          BY <1>3, <1>5, <1>10
        <4>2. agenda[out + (i + 1)] = [do |-> "entry", state |-> into[k + (i + 1)]]
          BY <1>5, <4>1
        <4> QED  BY <1>6, <4>1, <4>2
      <3>3. Len(agenda') = 0 + (in - 1)
        BY <1>5, <1>6, <1>10
      <3>4. \A i \in 1..in - 1 : 0 + i = i
        BY <1>5
      <3> HIDE DEF out, in
      <3> QED  BY <1>6, <1>7, <2>4, <3>1, <3>2, <3>3, <3>4 DEF ToRunFrom
    <2>7. k + 1 \in 0..Len(active')
      BY <1>3, <2>4
    <2> QED  BY <1>8, <2>5, <2>6, <2>7 DEF ToRun
  <1> QED  BY <1>9, <1>10

\* A state that is entered is at rest if nothing is in it; its initial
\* transition leads to a node in it.
LEMMA EnterKeeps ==
    ASSUME PassesSoFar, RunInPlace, EnterState PROVE RunInPlace'
  <1> DEFINE m == machine
             s == goal
             P == ParentStates(m, s)
  <1>1. /\ Accepted /\ goal # Stay /\ agenda = <<>> /\ agenda' = <<>> /\ goal \in States
        /\ machine' = machine /\ active' = Append(active, goal)
        /\ goal' = IF m.initial[s] = <<>> THEN Stay ELSE m.initial[s][1].to
    BY DEF EnterState, Running
  <1>2. /\ Chained(m, active) /\ s \in NodesIn(m) /\ ToRun(m, active, <<>>, s)
        /\ LegalMachine(m) /\ m.resolved /\ OneInitial(m) /\ InitialStaysInside(m)
    BY <1>1 DEF RunInPlace, PassesSoFar, Accepted
  <1>3. active = P /\ P \in Seq(StatesIn(m)) /\ s \in StatesIn(m)
    <2>1. active = P
      BY <1>2, ArrivedAt
    <2> HIDE DEF P
    <2> QED  BY <1>1, <1>2, <2>1 DEF Chained, StatesIn
  <1>4. active' = SourceStates(m, s) /\ Chained(m, active')
    <2>1. active' = SourceStates(m, s)
      BY <1>1, <1>3 DEF SourceStates
    <2> QED  BY <1>2, <2>1, SourcesChain
  <1>5. Len(active') = Len(active) + 1 /\ active'[Len(active')] = s /\ active' # <<>>
    <2>1. active \in Seq(StatesIn(m))
      BY <1>3
    <2> HIDE DEF m, s, P
    <2> QED  BY <1>1, <1>3, <2>1, AppendProperties DEF s
  <1>6. ASSUME Chained(m, active'), goal' \in NodesIn(m) \cup {Stay},
               IF goal' = Stay THEN Leaf(m, s) ELSE ToRun(m, active', <<>>, goal')
        PROVE  RunInPlace'
    BY <1>1, <1>5, <1>6 DEF RunInPlace
  <1>7. s \in ScopesIn(m) /\ m.initial[s] \in Seq(Enters)
    BY <1>2, <1>3 DEF ScopesIn, LegalMachine
  <1>8. CASE m.initial[s] = <<>>
    <2>1. Len(m.initial[s]) = 0
      BY <1>8
    <2>2. Leaf(m, s)
      <3>1. ~Leaf(m, s) => Len(m.initial[s]) = 1
        BY <1>2, <1>3 DEF OneInitial
      <3> QED  BY <2>1, <3>1
    <2> QED  BY <1>1, <1>4, <1>6, <1>8, <2>2
  <1>9. CASE m.initial[s] # <<>>
    <2>1. 1 \in DOMAIN m.initial[s]
      BY <1>7, <1>9, EmptySeq, LenProperties
    <2> DEFINE n == m.initial[s][1].to
    <2>2. n \in NodesIn(m) /\ m.parent[n] = s
      BY <1>2, <1>7, <2>1, InitialTargets
    <2>3. n # Stay /\ s # TopLevel
      BY <1>1, <1>2, <2>2, NodesAreNodes, NodesAssumption DEF Nodes
    <2> HIDE DEF n
    <2>4. ParentStates(m, n) = Append(P, s)
      BY <1>2, <2>2, <2>3, ParentsAreAround
    <2>5. active' = ParentStates(m, n)
      BY <1>1, <1>3, <2>4
    <2>6. ToRun(m, active', <<>>, n)
      BY <1>2, <1>4, <2>2, <2>5, ArrivedAt
    <2>7. goal' = n
      BY <1>1, <1>9 DEF n
    <2> QED  BY <1>4, <1>6, <2>2, <2>3, <2>6, <2>7
  <1> QED  BY <1>8, <1>9

\* A branch of a choice has what there is to run from where the choice is.
LEMMA ChooseKeeps ==
    ASSUME PassesSoFar, RunInPlace, Choose PROVE RunInPlace'
  <1> DEFINE m == machine
             c == goal
  <1>1. /\ Accepted /\ goal # Stay /\ agenda = <<>> /\ goal \in ChoiceDefs
        /\ machine' = machine /\ active' = active
    BY DEF Choose, Running
  <1>2. PICK b \in {"if", "else"} :
           agenda' = onBranch[goal][b].actions /\ goal' = onBranch[goal][b].to
    BY DEF Choose
  <1>3. /\ Chained(m, active) /\ c \in NodesIn(m) /\ ToRun(m, active, <<>>, c)
        /\ LegalMachine(m) /\ m.resolved /\ onBranch = FlattenedChoices(m)
    BY <1>1 DEF RunInPlace, PassesSoFar, Accepted
  <1>4. active = SourceStates(m, c)
    <2>1. c \notin States
      BY <1>1, NodesAssumption
    <2> QED  BY <1>3, <2>1, ArrivedAt DEF SourceStates
  <1> DEFINE t == m.choice[c][b].to
  <1>5. c \in ChoicesIn(m) /\ t \in NodesIn(m) /\ t # Stay
    <2>1. c \in ChoicesIn(m)
      BY <1>1, <1>3 DEF ChoicesIn
    <2>2. t \in NodesIn(m)
      BY <1>3, <2>1 DEF LegalMachine
    <2> QED  BY <1>3, <2>1, <2>2, NodesAreNodes, NodesAssumption DEF Nodes
  <1>6. onBranch[c][b] = Flatten(m, c, t)
    BY <1>3, <1>5 DEF FlattenedChoices
  <1> HIDE DEF t
  <1>7. /\ Flatten(m, c, t).to = t
        /\ ToRun(m, SourceStates(m, c), Flatten(m, c, t).actions, t)
    BY <1>3, <1>5, FlattenedActions
  <1>8. goal' = t /\ ToRun(m, active', agenda', t)
    BY <1>1, <1>2, <1>4, <1>6, <1>7
  <1> QED  BY <1>1, <1>3, <1>5, <1>8 DEF RunInPlace

\* A signal finds the machine in a leaf, which its reaction starts from.
LEMMA DispatchKeeps ==
    ASSUME PassesSoFar, RunInPlace, NEW g \in Signals, Dispatch(g) PROVE RunInPlace'
  <1> DEFINE m == machine
             s == active[Len(active)]
  <1>1. /\ Accepted /\ goal = Stay /\ machine' = machine /\ active' = active
        /\ s \in DOMAIN onSignal /\ g \in DOMAIN onSignal[s]
        /\ agenda' = onSignal[s][g].actions /\ goal' = onSignal[s][g].to
    BY DEF Dispatch
  <1>2. /\ Chained(m, active) /\ active # <<>> /\ Leaf(m, s)
        /\ LegalMachine(m) /\ m.resolved /\ onSignal = FlattenedStates(m)
    BY <1>1 DEF RunInPlace, PassesSoFar, Accepted
  <1>3. /\ goal' \in NodesIn(m) \cup {Stay}
        /\ goal' = Stay => agenda' = <<>>
        /\ goal' # Stay => ToRun(m, SourceStates(m, s), agenda', goal')
    <2> HIDE DEF s
    <2> QED  BY <1>1, <1>2, FlattenedSignal
  <1>4. active = SourceStates(m, s)
    BY <1>1, RunIsInContext DEF ActionsRunInContext
  <1> QED  BY <1>1, <1>2, <1>3, <1>4 DEF RunInPlace

\* Running leaves alone what the passes have computed.
LEMMA RunKeeps ==
    ASSUME PassesSoFar, RunInPlace, RunStep \/ \E g \in Signals : Dispatch(g)
    PROVE  PassesSoFar' /\ RunInPlace'
  <1>1. PassesSoFar'
    BY DEF PassesSoFar, RunStep, Act, Choose, EnterState, Dispatch, Running, Accepted, smTables
  <1>2. CASE RunStep
    BY <1>1, <1>2, ActKeeps, ChooseKeeps, EnterKeeps DEF RunStep
  <1>3. CASE \E g \in Signals : Dispatch(g)
    BY <1>1, <1>3, DispatchKeeps
  <1> QED  BY <1>1, <1>2, <1>3

-----------------------------------------------------------------------------
\* The analysis starts with a machine that is as the syntax has it, and every
\* step of the analysis keeps the running machine in its place.
LEMMA ContextInit ==
    ASSUME AnalysisInit, LegalMachine(machine) PROVE PassesSoFar /\ RunInPlace
  <1>1. PICK m : StateMachineStart(m)
    BY DEF AnalysisInit, AnalysisStart
  <1> QED  BY <1>1, PassesStart DEF StateMachineStart

\* Every step of the analysis and of the machine keeps the run in its place.
LEMMA ContextNext ==
    ASSUME PassesSoFar, RunInPlace, [AnalysisNext]_analysisVars
    PROVE  PassesSoFar' /\ RunInPlace'
  <1>1. CASE CheckStateMachineStep
    BY <1>1, PassesKeep DEF CheckStateMachineStep
  <1>2. CASE RunStateMachineStep \/ DispatchStep
    BY <1>2, RunKeeps DEF RunStateMachineStep, DispatchStep
  <1>3. CASE UNCHANGED smVars
    <2>1. /\ machine' = machine /\ pass' = pass /\ errors' = errors
          /\ onSignal' = onSignal /\ onBranch' = onBranch
          /\ active' = active /\ agenda' = agenda /\ goal' = goal /\ value' = value
      BY <1>3 DEF smVars, smTables, smRun
    <2> QED  BY <2>1 DEF PassesSoFar, RunInPlace, Accepted
  <1> QED
    BY <1>1, <1>2, <1>3 DEF AnalysisNext, analysisVars, CheckUseDefCyclesStep,
                            ResolveTopologiesStep

\* A machine that the analysis accepts exits the innermost of its active states,
\* enters a state directly into the one around it, and comes to rest in a leaf,
\* whatever chain of choices, initial transitions and inherited handlers leads
\* it (ConstructFlattenedTransition behind the checks of initial transitions).
THEOREM ActionsAlwaysInContext ==
    AnalysisSpec /\ LegalMachine(machine) => []ActionsRunInContext
  <1>1. AnalysisInit /\ LegalMachine(machine) => PassesSoFar /\ RunInPlace
    BY ContextInit
  <1>2. PassesSoFar /\ RunInPlace /\ [AnalysisNext]_analysisVars
          => PassesSoFar' /\ RunInPlace'
    BY ContextNext
  <1>3. PassesSoFar /\ RunInPlace => ActionsRunInContext
    BY RunIsInContext
  <1> QED  BY <1>1, <1>2, <1>3, PTL DEF AnalysisSpec

-----------------------------------------------------------------------------
\* A list that is worked through step by step has a result after each step.
Stepwise(lo, hi, V, first, next) ==
    /\ lo \in Nat /\ hi \in Nat /\ first \in V
    /\ \A i \in lo..hi : i # lo => next[i] \in [V -> V]
ResultsOf(lo, hi, first, next, f) ==
    \A i \in lo..hi : f[i] = IF i = lo THEN first ELSE next[i][f[i - 1]]

\* What is defined step by step from the first exists.
LEMMA StepsDefine ==
    ASSUME NEW lo, NEW hi, NEW V, NEW first, NEW next, Stepwise(lo, hi, V, first, next)
    PROVE  \E f \in [lo..hi -> V] : ResultsOf(lo, hi, first, next, f)
  <1> DEFINE S == lo..hi
             below == [i \in S |-> IF i = lo THEN {} ELSE {i - 1}]
             step == [i \in S |-> [h \in [below[i] -> V] |->
                         IF i = lo THEN first ELSE next[i][h[i - 1]]]]
  <1>1. \A i \in S : i \in Nat /\ (i # lo => i - 1 \in S /\ i - 1 < i)
    BY DEF Stepwise
  <1>2. \A i \in S : below[i] = IF i = lo THEN {} ELSE {i - 1}
    OBVIOUS
  <1>3. Grounds(S, below)
    <2>1. ASSUME NEW T \in (SUBSET S) \ {{}} PROVE \E i \in T : below[i] \cap T = {}
      <3>1. IsWellFoundedOn(LessThan, Nat)
        BY NatLessThanWellFounded DEF OpToRel, LessThan
      <3>2. T \subseteq Nat /\ T # {} /\ T \subseteq S
        BY <1>1
      <3>3. PICK i \in T : \A k \in T : <<k, i>> \notin LessThan
        <4> HIDE DEF S, below
        <4> QED  BY <3>1, <3>2, WFMin
      <3> HIDE DEF S, below
      <3>4. \A k \in T : ~(k < i) /\ i \in S
        BY <3>2, <3>3 DEF LessThan
      <3>5. i # lo => i - 1 \notin T
        BY <1>1, <3>4
      <3> QED  BY <1>2, <3>4, <3>5
    <2> HIDE DEF S, below
    <2>2. \A i \in S : below[i] \subseteq S
      BY <1>1, <1>2
    <2> QED  BY <2>1, <2>2 DEF Grounds
  <1>4. ASSUME NEW i \in S, NEW h \in [below[i] -> V]
        PROVE  step[i][h] = IF i = lo THEN first ELSE next[i][h[i - 1]]
    <2> HIDE DEF S, below
    <2> QED  OBVIOUS
  <1> HIDE DEF S, step
  <1>5. ASSUME NEW i \in S, NEW h \in [below[i] -> V] PROVE step[i][h] \in V
    <2>1. CASE i = lo
      BY <1>4, <2>1 DEF Stepwise
    <2>2. CASE i # lo
      <3>1. h[i - 1] \in V /\ next[i] \in [V -> V]
        BY <1>1, <2>2 DEF S, Stepwise
      <3> QED  BY <1>4, <2>2, <3>1
    <2> QED  BY <2>1, <2>2
  <1>6. PICK f \in [S -> V] : Recurs(S, below, step, f)
    <2> HIDE DEF below
    <2> QED  BY <1>3, <1>5, RecursionDefines
  <1>7. ASSUME NEW i \in S PROVE f[i] = IF i = lo THEN first ELSE next[i][f[i - 1]]
    <2> DEFINE h == [y \in below[i] |-> f[y]]
    <2>1. f[i] = step[i][h]
      BY <1>6 DEF Recurs
    <2>2. below[i] \subseteq S /\ (i # lo => i - 1 \in below[i])
      BY <1>1
    <2> HIDE DEF below
    <2>3. h \in [below[i] -> V] /\ (i # lo => h[i - 1] = f[i - 1])
      BY <2>2
    <2> HIDE DEF h
    <2> QED  BY <1>4, <2>1, <2>3
  <1> QED  BY <1>7 DEF S, ResultsOf

\* The arcs to the targets are kept, and no others.
LEMMA ArcsToFacts ==
    ASSUME NEW X, NEW list \in Seq(X), NEW targets
    PROVE  /\ ArcsTo(list, targets) \in Seq(X)
           /\ \A i \in 1..Len(list) : list[i].to \in targets =>
                 \E j \in 1..Len(ArcsTo(list, targets)) : ArcsTo(list, targets)[j] = list[i]
           /\ \A j \in 1..Len(ArcsTo(list, targets)) :
                 \E i \in 1..Len(list) : list[i].to \in targets /\ ArcsTo(list, targets)[j] = list[i]
  <1> DEFINE n == Len(list)
             V == Seq(X)
             next == [i \in 1..n |-> [s \in V |-> IF list[i].to \in targets THEN Append(s, list[i]) ELSE s]]
             body(h) == [i \in 0..n |->
                            IF i = 0 THEN <<>>
                            ELSE IF list[i].to \in targets THEN Append(h[i - 1], list[i]) ELSE h[i - 1]]
             upTo == CHOOSE h : h = body(h)
  <1>1. n \in Nat /\ \A i \in 1..n : list[i] \in X
    BY LenProperties, ElementOfSeq
  <1>2. \A i \in 1..n : next[i] \in [V -> V]
    <2> TAKE i \in 1..n
    <2>1. \A s \in V : Append(s, list[i]) \in V
      BY <1>1, AppendProperties
    <2> HIDE DEF V
    <2> QED  BY <2>1
  <1>3. \A i \in 1..n : \A s \in V : next[i][s] = IF list[i].to \in targets THEN Append(s, list[i]) ELSE s
    <2> HIDE DEF V
    <2> QED  OBVIOUS
  <1>4. PICK f \in [0..n -> V] : ResultsOf(0, n, <<>>, next, f)
    <2>1. <<>> \in V
      BY EmptySeq
    <2> HIDE DEF V, next, n
    <2>2. Stepwise(0, n, V, <<>>, next)
      BY <1>1, <1>2, <2>1 DEF Stepwise
    <2> QED  BY <2>2, StepsDefine
  <1>5. ASSUME NEW i \in 0..n
        PROVE  f[i] = IF i = 0 THEN <<>>
                      ELSE IF list[i].to \in targets THEN Append(f[i - 1], list[i]) ELSE f[i - 1]
    <2>1. CASE i # 0
      <3>1. i \in 1..n /\ i - 1 \in 0..n
        BY <1>1, <2>1
      <3> HIDE DEF V, next, n
      <3>2. f[i - 1] \in V
        BY <3>1
      <3> QED  BY <1>3, <1>4, <2>1, <3>1, <3>2 DEF ResultsOf
    <2> QED  BY <1>4, <2>1 DEF ResultsOf
  <1>6. f = body(f)
    <2> HIDE DEF V, next, n
    <2> QED  BY <1>5
  <1>7. upTo = body(upTo)
    <2> HIDE DEF body
    <2> QED  BY <1>6
  <1>8. ArcsTo(list, targets) = upTo[n]
    BY DEF ArcsTo
  <1> HIDE DEF upTo, next
  <1>9. \A i \in 0..n : upTo[i] = IF i = 0 THEN <<>>
                                  ELSE IF list[i].to \in targets THEN Append(upTo[i - 1], list[i])
                                       ELSE upTo[i - 1]
    BY <1>7
  <1> DEFINE KeptUpTo(k) ==
               /\ upTo[k] \in Seq(X)
               /\ \A i \in 1..k : list[i].to \in targets =>
                     \E j \in 1..Len(upTo[k]) : upTo[k][j] = list[i]
               /\ \A j \in 1..Len(upTo[k]) :
                     \E i \in 1..k : list[i].to \in targets /\ upTo[k][j] = list[i]
             K == {k \in 0..n : KeptUpTo(k)}
  <1>10. KeptUpTo(0)
    <2>1. upTo[0] = <<>>
      BY <1>1, <1>9
    <2>2. <<>> \in Seq(X) /\ Len(<<>>) = 0
      BY EmptySeq
    <2> HIDE DEF body, n
    <2> QED  BY <2>1, <2>2
  <1>11. ASSUME NEW k \in 0..n - 1, KeptUpTo(k) PROVE KeptUpTo(k + 1)
    <2> HIDE DEF body
    <2>1. k + 1 \in 1..n /\ k + 1 # 0 /\ (k + 1) - 1 = k /\ k + 1 \in 0..n /\ k \in Nat
      BY <1>1
    <2>2. list[k + 1] \in X
      BY <1>1, <2>1
    <2>3. upTo[k] \in Seq(X) /\ Len(upTo[k]) \in Nat
      BY <1>11, LenProperties
    <2>4. CASE list[k + 1].to \notin targets
      <3>1. upTo[k + 1] = upTo[k]
        BY <1>9, <2>1, <2>4
      <3>2. \A i \in 1..k + 1 : i # k + 1 => i \in 1..k
        BY <2>1
      <3>3. \A i \in 1..k : i \in 1..k + 1
        BY <2>1
      <3> HIDE DEF n
      <3> QED  BY <1>11, <2>4, <3>1, <3>2, <3>3
    <2>5. CASE list[k + 1].to \in targets
      <3>1. upTo[k + 1] = Append(upTo[k], list[k + 1])
        BY <1>9, <2>1, <2>5
      <3>2. /\ upTo[k + 1] \in Seq(X) /\ Len(upTo[k + 1]) = Len(upTo[k]) + 1
            /\ \A j \in 1..Len(upTo[k]) : upTo[k + 1][j] = upTo[k][j]
            /\ upTo[k + 1][Len(upTo[k]) + 1] = list[k + 1]
        BY <2>2, <2>3, <3>1, AppendProperties
      <3> HIDE DEF n
      <3>3. ASSUME NEW i \in 1..k + 1, list[i].to \in targets
            PROVE  \E j \in 1..Len(upTo[k + 1]) : upTo[k + 1][j] = list[i]
        <4>1. CASE i = k + 1
          <5>1. Len(upTo[k]) + 1 \in 1..Len(upTo[k + 1])
            BY <2>3, <3>2
          <5> QED  BY <3>2, <4>1, <5>1
        <4>2. CASE i # k + 1
          <5>1. i \in 1..k
            BY <2>1, <4>2
          <5>2. PICK j \in 1..Len(upTo[k]) : upTo[k][j] = list[i]
            BY <1>11, <3>3, <5>1
          <5>3. j \in 1..Len(upTo[k + 1])
            BY <2>3, <3>2
          <5> QED  BY <3>2, <5>2, <5>3
        <4> QED  BY <4>1, <4>2
      <3>4. ASSUME NEW j \in 1..Len(upTo[k + 1])
            PROVE  \E i \in 1..k + 1 : list[i].to \in targets /\ upTo[k + 1][j] = list[i]
        <4>1. CASE j = Len(upTo[k]) + 1
          BY <2>1, <2>5, <3>2, <4>1
        <4>2. CASE j # Len(upTo[k]) + 1
          <5>1. j \in 1..Len(upTo[k])
            BY <2>3, <3>2, <4>2
          <5>2. PICK i \in 1..k : list[i].to \in targets /\ upTo[k][j] = list[i]
            BY <1>11, <5>1
          <5>3. i \in 1..k + 1
            BY <2>1
          <5> QED  BY <3>2, <5>1, <5>2, <5>3
        <4> QED  BY <4>1, <4>2
      <3> QED  BY <3>2, <3>3, <3>4
    <2> QED  BY <2>4, <2>5
  <1>12. 0..n \subseteq K
    <2>1. 0 \in K
      BY <1>1, <1>10
    <2>2. \A k \in 0..n - 1 : k \in K => k + 1 \in K
      <3> TAKE k \in 0..n - 1
      <3>1. k + 1 \in 0..n
        BY <1>1
      <3> HIDE DEF KeptUpTo, n
      <3> QED  BY <1>11, <3>1
    <2>3. 0 \in Nat
      OBVIOUS
    <2> HIDE DEF K, n
    <2> QED  BY <1>1, <2>1, <2>2, <2>3, Climbs
  <1>13. KeptUpTo(n)
    <2>1. n \in 0..n
      BY <1>1
    <2> HIDE DEF KeptUpTo, n
    <2> QED  BY <1>12, <2>1
  <1> QED  BY <1>8, <1>13

\* Joining lists keeps every element of each.
LEMMA FlattenFacts ==
    ASSUME NEW X, NEW seqs \in Seq(Seq(X))
    PROVE  /\ FlattenSeq(seqs) \in Seq(X)
           /\ \A i \in 1..Len(seqs) : \A j \in 1..Len(seqs[i]) :
                 \E k \in 1..Len(FlattenSeq(seqs)) : FlattenSeq(seqs)[k] = seqs[i][j]
  <1> DEFINE n == Len(seqs)
             V == Seq(X)
  <1>1. n \in Nat /\ \A i \in 1..n : seqs[i] \in V
    BY LenProperties, ElementOfSeq
  <1>2. CASE n = 0
    <2>1. seqs \in [1..0 -> V]
      BY <1>2, LenProperties
    <2>2. seqs \in Seq(X) /\ FlattenSeq(seqs) = seqs
      BY <1>2, <2>1, FunctionIsSeq DEF FlattenSeq
    <2> QED  BY <1>2, <2>2
  <1>3. CASE n # 0
    <2> DEFINE next == [i \in 1..n |-> [s \in V |-> s \o seqs[i]]]
               body(h) == [i \in 1..n |-> IF i = 1 THEN seqs[i] ELSE h[i - 1] \o seqs[i]]
               flat == CHOOSE h : h = body(h)
    <2>1. \A i \in 1..n : next[i] \in [V -> V]
      <3> TAKE i \in 1..n
      <3>1. \A s \in V : s \o seqs[i] \in V
        BY <1>1, ConcatProperties
      <3> HIDE DEF V
      <3> QED  BY <3>1
    <2>2. \A i \in 1..n : \A s \in V : next[i][s] = s \o seqs[i]
      <3> HIDE DEF V
      <3> QED  OBVIOUS
    <2>3. PICK f \in [1..n -> V] : ResultsOf(1, n, seqs[1], next, f)
      <3>1. seqs[1] \in V
        BY <1>1, <1>3
      <3> HIDE DEF V, next, n
      <3>2. Stepwise(1, n, V, seqs[1], next)
        BY <1>1, <2>1, <3>1 DEF Stepwise
      <3> QED  BY <3>2, StepsDefine
    <2>4. ASSUME NEW i \in 1..n
          PROVE  f[i] = IF i = 1 THEN seqs[i] ELSE f[i - 1] \o seqs[i]
      <3>1. CASE i # 1
        <4>1. i - 1 \in 1..n
          BY <1>1, <3>1
        <4> HIDE DEF V, next, n
        <4>2. f[i - 1] \in V
          BY <4>1
        <4> QED  BY <2>2, <2>3, <3>1, <4>2 DEF ResultsOf
      <3> QED  BY <2>3, <3>1 DEF ResultsOf
    <2>5. f = body(f)
      <3> HIDE DEF V, next, n
      <3> QED  BY <2>4
    <2>6. flat = body(flat)
      <3> HIDE DEF body
      <3> QED  BY <2>5
    <2>7. FlattenSeq(seqs) = flat[n]
      BY <1>3 DEF FlattenSeq
    <2> HIDE DEF flat, next
    <2>8. \A i \in 1..n : flat[i] = IF i = 1 THEN seqs[i] ELSE flat[i - 1] \o seqs[i]
      BY <2>6
    <2> DEFINE Joined(k) ==
                 /\ flat[k] \in V
                 /\ \A i \in 1..k : \A j \in 1..Len(seqs[i]) :
                       \E l \in 1..Len(flat[k]) : flat[k][l] = seqs[i][j]
               K == {k \in 1..n : Joined(k)}
    <2> HIDE DEF body, n
    <2>9. Joined(1)
      <3>1. flat[1] = seqs[1] /\ seqs[1] \in V /\ 1 \in 1..n
        BY <1>1, <1>3, <2>8
      <3> HIDE DEF V
      <3> QED  BY <3>1
    <2>10. ASSUME NEW k \in 1..n - 1, Joined(k) PROVE Joined(k + 1)
      <3>1. k + 1 \in 1..n /\ k + 1 # 1 /\ (k + 1) - 1 = k /\ k \in 1..n /\ k \in Nat
        BY <1>1
      <3> DEFINE s == flat[k]
                 t == seqs[k + 1]
                 r == flat[k + 1]
      <3>2. r = s \o t /\ s \in Seq(X) /\ t \in Seq(X)
        BY <1>1, <2>8, <2>10, <3>1
      <3>3. /\ r \in Seq(X) /\ Len(r) = Len(s) + Len(t) /\ Len(s) \in Nat /\ Len(t) \in Nat
            /\ \A l \in 1..Len(s) + Len(t) : r[l] = IF l <= Len(s) THEN s[l] ELSE t[l - Len(s)]
        <4> HIDE DEF s, t, r
        <4> QED  BY <3>2, ConcatProperties, LenProperties
      <3>4. ASSUME NEW i \in 1..k + 1, NEW j \in 1..Len(seqs[i])
            PROVE  \E l \in 1..Len(r) : r[l] = seqs[i][j]
        <4>1. CASE i = k + 1
          <5>1. j \in 1..Len(t) /\ t[j] = seqs[i][j]
            BY <4>1
          <5> HIDE DEF s, t, r
          <5>2. /\ Len(s) + j \in 1..Len(s) + Len(t) /\ ~(Len(s) + j <= Len(s))
                /\ (Len(s) + j) - Len(s) = j
            BY <3>3, <5>1
          <5>3. r[Len(s) + j] = t[j]
            BY <3>3, <5>2
          <5> QED  BY <3>3, <5>1, <5>2, <5>3
        <4>2. CASE i # k + 1
          <5>1. i \in 1..k
            BY <3>1, <4>2
          <5>2. PICK l \in 1..Len(s) : s[l] = seqs[i][j]
            BY <2>10, <5>1
          <5> HIDE DEF s, t, r
          <5>3. l \in 1..Len(s) + Len(t) /\ l <= Len(s)
            BY <3>3
          <5> QED  BY <3>3, <5>2, <5>3
        <4> QED  BY <4>1, <4>2
      <3> QED  BY <3>3, <3>4
    <2>11. 1..n \subseteq K
      <3>1. 1 \in K
        <4>1. 1 \in 1..n
          BY <1>1, <1>3
        <4> HIDE DEF Joined
        <4> QED  BY <2>9, <4>1
      <3>2. \A k \in 1..n - 1 : k \in K => k + 1 \in K
        <4> TAKE k \in 1..n - 1
        <4>1. k + 1 \in 1..n
          BY <1>1
        <4> HIDE DEF Joined
        <4> QED  BY <2>10, <4>1
      <3>3. 1 \in Nat
        OBVIOUS
      <3> HIDE DEF K
      <3> QED  BY <1>1, <3>1, <3>2, <3>3, Climbs
    <2>12. Joined(n)
      <3>1. n \in 1..n
        BY <1>1, <1>3
      <3> HIDE DEF Joined
      <3> QED  BY <2>11, <3>1
    <2> QED  BY <2>7, <2>12 DEF n
  <1> QED  BY <1>2, <1>3

\* The arcs of a machine: of the initial transitions of states, of transitions
\* on signals, and of the branches of choices.
InitialArcs(m) ==
    {ArcOf(x[1], "initial", x[2], m.initial[x[1]][x[2]].to) :
        x \in {y \in StatesIn(m) \X Nat : y[2] \in 1..Len(m.initial[y[1]])}}
SignalArcs(m) ==
    {ArcOf(x[1], "signal", x[2], m.on[x[1]][x[2]].to) :
        x \in {y \in StatesIn(m) \X Nat : y[2] \in 1..Len(m.on[y[1]])}}
BranchArcs(m) ==
    {ArcOf(x[1], "choice", x[2], m.choice[x[1]][x[2]].to) :
        x \in ChoicesIn(m) \X {"if", "else"}}
MachineArcs(m) == InitialArcs(m) \cup SignalArcs(m) \cup BranchArcs(m)

\* The arcs out of one node are arcs of the machine, and all of them.
LEMMA NodeArcs ==
    ASSUME NEW m, LegalMachine(m), NEW n \in NodesIn(m)
    PROVE  /\ ArcsOf(m, n) \in Seq(MachineArcs(m))
           /\ \A a \in MachineArcs(m) : a.from = n =>
                 \E j \in 1..Len(ArcsOf(m, n)) : ArcsOf(m, n)[j] = a
  <1>0. n \in Nodes /\ NodesIn(m) \subseteq Nodes
    BY NodesAreNodes
  <1>1. CASE n \in States
    <2> DEFINE A == [i \in DOMAIN m.initial[n] |-> ArcOf(n, "initial", i, m.initial[n][i].to)]
               B == [i \in DOMAIN m.on[n] |-> ArcOf(n, "signal", i, m.on[n][i].to)]
    <2>1. n \in StatesIn(m) /\ n \in ScopesIn(m)
      BY <1>1 DEF StatesIn, ScopesIn
    <2>2. m.initial[n] \in Seq(Enters)
          /\ m.on[n] \in Seq([signal : Signals, to : Nodes \cup {Stay}, sites : Sites])
      BY <2>1 DEF LegalMachine
    <2>3. /\ DOMAIN m.initial[n] = 1..Len(m.initial[n]) /\ Len(m.initial[n]) \in Nat
          /\ DOMAIN m.on[n] = 1..Len(m.on[n]) /\ Len(m.on[n]) \in Nat
      BY <2>2, LenProperties
    <2>4. \A i \in 1..Len(m.initial[n]) :
             ArcOf(n, "initial", i, m.initial[n][i].to) \in InitialArcs(m)
      <3> TAKE i \in 1..Len(m.initial[n])
      <3>1. /\ <<n, i>> \in {y \in StatesIn(m) \X Nat : y[2] \in 1..Len(m.initial[y[1]])}
            /\ <<n, i>>[1] = n /\ <<n, i>>[2] = i
        BY <2>1, <2>3
      <3> QED  BY <3>1 DEF InitialArcs
    <2>5. \A i \in 1..Len(m.on[n]) :
             ArcOf(n, "signal", i, m.on[n][i].to) \in SignalArcs(m)
      <3> TAKE i \in 1..Len(m.on[n])
      <3>1. /\ <<n, i>> \in {y \in StatesIn(m) \X Nat : y[2] \in 1..Len(m.on[y[1]])}
            /\ <<n, i>>[1] = n /\ <<n, i>>[2] = i
        BY <2>1, <2>3
      <3> QED  BY <3>1 DEF SignalArcs
    <2>6. A \in [1..Len(m.initial[n]) -> MachineArcs(m)]
          /\ B \in [1..Len(m.on[n]) -> MachineArcs(m)]
      BY <2>3, <2>4, <2>5 DEF MachineArcs
    <2>7. /\ \A i \in 1..Len(m.initial[n]) : A[i] = ArcOf(n, "initial", i, m.initial[n][i].to)
          /\ \A i \in 1..Len(m.on[n]) : B[i] = ArcOf(n, "signal", i, m.on[n][i].to)
          /\ ArcsOf(m, n) = A \o B
      BY <1>1, <2>3 DEF ArcsOf, StateArcs
    <2> HIDE DEF A, B
    <2>8. /\ A \in Seq(MachineArcs(m)) /\ Len(A) = Len(m.initial[n])
          /\ B \in Seq(MachineArcs(m)) /\ Len(B) = Len(m.on[n])
      BY <2>3, <2>6, FunctionIsSeq
    <2>9. /\ A \o B \in Seq(MachineArcs(m)) /\ Len(A \o B) = Len(A) + Len(B)
          /\ \A i \in 1..Len(A) + Len(B) : (A \o B)[i] = IF i <= Len(A) THEN A[i] ELSE B[i - Len(A)]
      BY <2>8, ConcatProperties
    <2>11. Len(A) \in Nat /\ Len(B) \in Nat
      BY <2>3, <2>8
    <2>12. /\ \A j \in 1..Len(A) : j \in 1..Len(A) + Len(B) /\ j <= Len(A)
           /\ \A j \in 1..Len(B) : /\ Len(A) + j \in 1..Len(A) + Len(B)
                                   /\ ~(Len(A) + j <= Len(A))
                                   /\ (Len(A) + j) - Len(A) = j
      BY <2>11
    <2>10. ASSUME NEW a \in MachineArcs(m), a.from = n
           PROVE  \E j \in 1..Len(A \o B) : (A \o B)[j] = a
      <3>1. CASE a \in InitialArcs(m)
        <4>1. PICK x \in StatesIn(m) \X Nat :
                 /\ x[2] \in 1..Len(m.initial[x[1]])
                 /\ a = ArcOf(x[1], "initial", x[2], m.initial[x[1]][x[2]].to)
          BY <3>1 DEF InitialArcs
        <4>2. x[1] = n /\ x[2] \in 1..Len(A) /\ A[x[2]] = a
          BY <2>7, <2>8, <2>10, <4>1 DEF ArcOf
        <4>3. x[2] \in 1..Len(A) + Len(B) /\ x[2] <= Len(A)
          BY <2>12, <4>2
        <4> QED  BY <2>9, <4>2, <4>3
      <3>2. CASE a \in SignalArcs(m)
        <4>1. PICK x \in StatesIn(m) \X Nat :
                 /\ x[2] \in 1..Len(m.on[x[1]])
                 /\ a = ArcOf(x[1], "signal", x[2], m.on[x[1]][x[2]].to)
          BY <3>2 DEF SignalArcs
        <4>2. x[1] = n /\ x[2] \in 1..Len(B) /\ B[x[2]] = a
          BY <2>7, <2>8, <2>10, <4>1 DEF ArcOf
        <4>3. /\ Len(A) + x[2] \in 1..Len(A) + Len(B) /\ ~(Len(A) + x[2] <= Len(A))
              /\ (Len(A) + x[2]) - Len(A) = x[2]
          BY <2>12, <4>2
        <4>4. (A \o B)[Len(A) + x[2]] = B[x[2]]
          BY <2>9, <4>3
        <4> QED  BY <2>9, <4>2, <4>3, <4>4
      <3>3. CASE a \in BranchArcs(m)
        <4>1. PICK x \in ChoicesIn(m) \X {"if", "else"} :
                 a = ArcOf(x[1], "choice", x[2], m.choice[x[1]][x[2]].to)
          BY <3>3 DEF BranchArcs
        <4>2. n \in ChoiceDefs
          BY <2>10, <4>1 DEF ArcOf, ChoicesIn
        <4> QED  BY <1>1, <4>2, NodesAssumption
      <3> QED  BY <2>10, <3>1, <3>2, <3>3 DEF MachineArcs
    <2> QED  BY <2>7, <2>9, <2>10
  <1>2. CASE n \notin States
    <2>1. n \in ChoicesIn(m)
      BY <1>0, <1>2 DEF ChoicesIn, Nodes
    <2> DEFINE a1 == ArcOf(n, "choice", "if", m.choice[n].if.to)
               a2 == ArcOf(n, "choice", "else", m.choice[n].else.to)
    <2>2. a1 \in MachineArcs(m) /\ a2 \in MachineArcs(m)
      <3>1. \A b \in {"if", "else"} :
               ArcOf(n, "choice", b, m.choice[n][b].to) \in BranchArcs(m)
        <4> TAKE b \in {"if", "else"}
        <4>1. <<n, b>> \in ChoicesIn(m) \X {"if", "else"} /\ <<n, b>>[1] = n /\ <<n, b>>[2] = b
          BY <2>1
        <4> QED  BY <4>1 DEF BranchArcs
      <3> QED  BY <3>1 DEF MachineArcs
    <2>3. ArcsOf(m, n) = <<a1, a2>>
      BY <1>2 DEF ArcsOf, ChoiceArcs
    <2>4. ASSUME NEW a \in MachineArcs(m), a.from = n PROVE a = a1 \/ a = a2
      <3>1. a \notin InitialArcs(m) /\ a \notin SignalArcs(m)
        BY <1>2, <2>4 DEF InitialArcs, SignalArcs, ArcOf, StatesIn
      <3>2. PICK x \in ChoicesIn(m) \X {"if", "else"} :
               a = ArcOf(x[1], "choice", x[2], m.choice[x[1]][x[2]].to)
        BY <2>4, <3>1 DEF MachineArcs, BranchArcs
      <3>3. x[1] = n /\ (x[2] = "if" \/ x[2] = "else")
        BY <2>4, <3>2 DEF ArcOf
      <3> QED  BY <3>2, <3>3
    <2> HIDE DEF a1, a2
    <2>5. <<a1, a2>> \in Seq(MachineArcs(m)) /\ Len(<<a1, a2>>) = 2
          /\ <<a1, a2>>[1] = a1 /\ <<a1, a2>>[2] = a2
      BY <2>2
    <2> QED  BY <2>3, <2>4, <2>5
  <1> QED  BY <1>1, <1>2

\* The transition graph holds the arcs of the machine that lead to nodes, and
\* no others.
LEMMA GraphArcs ==
    ASSUME NEW m, LegalMachine(m)
    PROVE  /\ TransitionGraph(m) \in Seq(MachineArcs(m))
           /\ \A a \in MachineArcs(m) : a.to \in Nodes =>
                 \E j \in 1..Len(TransitionGraph(m)) : TransitionGraph(m)[j] = a
  <1> DEFINE X == MachineArcs(m)
             n == Len(m.text)
             seqs == [i \in DOMAIN m.text |-> ArcsOf(m, m.text[i])]
             all == FlattenSeq(seqs)
  <1>1. /\ n \in Nat /\ DOMAIN m.text = 1..n
        /\ \A i \in 1..n : m.text[i] \in NodesIn(m)
        /\ \A x \in NodesIn(m) : \E i \in 1..n : m.text[i] = x
    BY LenProperties DEF LegalMachine, NodesIn, ToSet
  <1>2. seqs \in [1..n -> Seq(X)] /\ \A i \in 1..n : seqs[i] = ArcsOf(m, m.text[i])
    BY <1>1, NodeArcs
  <1> HIDE DEF seqs, X
  <1>3. seqs \in Seq(Seq(X)) /\ Len(seqs) = n
    BY <1>1, <1>2, FunctionIsSeq
  <1>4. /\ all \in Seq(X)
        /\ \A i \in 1..Len(seqs) : \A j \in 1..Len(seqs[i]) :
              \E k \in 1..Len(all) : all[k] = seqs[i][j]
    BY <1>3, FlattenFacts
  <1>5. TransitionGraph(m) = ArcsTo(all, Nodes)
    BY DEF TransitionGraph, seqs
  <1> HIDE DEF all
  <1>6. /\ ArcsTo(all, Nodes) \in Seq(X)
        /\ \A i \in 1..Len(all) : all[i].to \in Nodes =>
              \E j \in 1..Len(ArcsTo(all, Nodes)) : ArcsTo(all, Nodes)[j] = all[i]
    BY <1>4, ArcsToFacts
  <1>7. ASSUME NEW a \in X, a.to \in Nodes
        PROVE  \E j \in 1..Len(ArcsTo(all, Nodes)) : ArcsTo(all, Nodes)[j] = a
    <2>1. a.from \in NodesIn(m)
      BY <1>7 DEF X, MachineArcs, InitialArcs, SignalArcs, BranchArcs, ArcOf, StatesIn, ChoicesIn
    <2>2. PICK i \in 1..n : m.text[i] = a.from
      BY <1>1, <2>1
    <2>3. PICK j \in 1..Len(seqs[i]) : seqs[i][j] = a
      BY <1>2, <2>1, <2>2, NodeArcs DEF X
    <2>4. PICK k \in 1..Len(all) : all[k] = a
      BY <1>3, <1>4, <2>3
    <2> QED  BY <1>6, <1>7, <2>4
  <1> QED  BY <1>5, <1>6, <1>7 DEF X

-----------------------------------------------------------------------------
\* A type has a width, and no type counts as one.
LEMMA TypeRecords == NoType \in TypeOption /\ \A t \in TypeOption : t.width \in Nat
  <1>1. \A t \in Types : t.width \in Nat
    BY TypesAssumption
  <1>2. NoType.width = 0
    BY DEF NoType
  <1> QED  BY <1>1, <1>2 DEF TypeOption

\* What converts to a type converts to all that this converts to.
LEMMA ConvertibleChain ==
    ASSUME NEW t1 \in TypeOption, NEW t2 \in TypeOption, NEW t3 \in TypeOption,
           Convertible(t1, t2), Convertible(t2, t3)
    PROVE  Convertible(t1, t3)
  <1>1. t1.width \in Nat /\ t2.width \in Nat /\ t3.width \in Nat
    BY TypeRecords
  <1>2. CASE t3 = NoType \/ t1 = t2 \/ t2 = t3
    BY <1>2 DEF Convertible
  <1>3. CASE t3 # NoType /\ t1 # t2 /\ t2 # t3
    <2>1. t2 # NoType /\ t1 # NoType /\ t1.kind = t2.kind /\ t2.kind = t3.kind
      BY <1>3 DEF Convertible
    <2> QED  BY <1>1, <1>3, <2>1 DEF Convertible
  <1> QED  BY <1>2, <1>3

\* Both types convert to their common one.
LEMMA CommonTypeSuits ==
    ASSUME NEW t1 \in TypeOption, NEW t2 \in TypeOption, NEW u \in CommonType(t1, t2)
    PROVE  u \in TypeOption /\ Convertible(t1, u) /\ Convertible(t2, u)
  <1>1. t1.width \in Nat /\ t2.width \in Nat /\ NoType \in TypeOption
    BY TypeRecords
  <1>2. CASE NoType \in {t1, t2}
    BY <1>1, <1>2 DEF CommonType, Convertible
  <1>3. CASE NoType \notin {t1, t2} /\ t1 = t2
    BY <1>3 DEF CommonType, Convertible
  <1>4. CASE NoType \notin {t1, t2} /\ t1 # t2 /\ t1.kind = t2.kind /\ t1.kind \in Ordered
    <2>1. u = IF t2.width > t1.width THEN t2 ELSE t1
      BY <1>4 DEF CommonType
    <2> QED  BY <1>1, <1>4, <2>1 DEF Convertible
  <1>5. CASE /\ NoType \notin {t1, t2} /\ t1 # t2 /\ t1.kind = t2.kind
             /\ t1.kind \notin Ordered /\ t1.kind = "string"
    <2>1. u = [kind |-> "string", width |-> 0]
      BY <1>5 DEF CommonType
    <2>2. t1 \in Types
      BY <1>5 DEF TypeOption
    <2>3. u \in Types /\ u.kind = "string"
      BY <1>5, <2>1, <2>2, TypesAssumption
    <2> QED  BY <1>5, <2>3 DEF Convertible, TypeOption
  <1> QED  BY <1>2, <1>3, <1>4, <1>5 DEF CommonType

\* One more type: what went before and the new one convert to the result.
LEMMA AccumulateSuits ==
    ASSUME NEW acc \in AtChoice, NEW t \in TypeOption
    PROVE  /\ Accumulate[acc][t] \in AtChoice
           /\ ~Accumulate[acc][t].mismatch =>
                 /\ ~acc.mismatch
                 /\ Convertible(acc.type, Accumulate[acc][t].type)
                 /\ Convertible(t, Accumulate[acc][t].type)
  <1> DEFINE C == CommonType(acc.type, t)
             u == CHOOSE u \in C : TRUE
  <1>1. acc.type \in TypeOption /\ acc.mismatch \in BOOLEAN
    BY DEF AtChoice
  <1>2. Accumulate[acc][t] = IF C = {} THEN [type |-> NoType, mismatch |-> TRUE]
                             ELSE [type |-> u, mismatch |-> acc.mismatch]
    BY DEF Accumulate
  <1>3. CASE C = {}
    BY <1>2, <1>3, TypeRecords DEF AtChoice
  <1>4. CASE C # {}
    <2>1. u \in C
      BY <1>4
    <2>2. u \in TypeOption /\ Convertible(acc.type, u) /\ Convertible(t, u)
      BY <1>1, <2>1, CommonTypeSuits
    <2> HIDE DEF C, u
    <2> QED  BY <1>1, <1>2, <1>4, <2>2 DEF AtChoice
  <1> QED  BY <1>3, <1>4

\* If no mismatch is reported at a choice, all types behind the arcs into it
\* convert to its type; where there are none, it has none.
LEMMA TypeOfAllSuits ==
    ASSUME NEW list \in Seq(TypeOption)
    PROVE  /\ TypeOfAll(list) \in AtChoice
           /\ ~TypeOfAll(list).mismatch =>
                 \A i \in 1..Len(list) : Convertible(list[i], TypeOfAll(list).type)
           /\ list = <<>> => TypeOfAll(list).type = NoType
  <1> DEFINE n == Len(list)
             first == [type |-> list[1], mismatch |-> FALSE]
  <1>1. n \in Nat /\ \A i \in 1..n : list[i] \in TypeOption
    BY LenProperties, ElementOfSeq
  <1>2. CASE list = <<>>
    <2>1. TypeOfAll(list) = [type |-> NoType, mismatch |-> FALSE]
      BY <1>2 DEF TypeOfAll
    <2>2. n = 0
      BY <1>2
    <2> QED  BY <1>1, <2>1, <2>2, TypeRecords DEF AtChoice
  <1>3. CASE list # <<>>
    <2> DEFINE next == [i \in 1..n |-> [acc \in AtChoice |-> Accumulate[acc][list[i]]]]
               body(h) == [i \in 1..n |->
                              IF i = 1 THEN [type |-> list[1], mismatch |-> FALSE]
                              ELSE Accumulate[h[i - 1]][list[i]]]
               upTo == CHOOSE h : h = body(h)
    <2>0. n # 0 /\ 1 \in 1..n /\ n \in 1..n
      <3>1. n # 0
        BY <1>1, <1>3, EmptySeq
      <3> HIDE DEF n
      <3> QED  BY <1>1, <3>1
    <2>1. \A i \in 1..n : next[i] \in [AtChoice -> AtChoice]
      BY <1>1, AccumulateSuits
    <2>2. \A i \in 1..n : \A acc \in AtChoice : next[i][acc] = Accumulate[acc][list[i]]
      OBVIOUS
    <2>3. first \in AtChoice
      BY <1>1, <2>0 DEF AtChoice
    <2>4. PICK f \in [1..n -> AtChoice] : ResultsOf(1, n, first, next, f)
      <3> HIDE DEF next, n, first
      <3>1. Stepwise(1, n, AtChoice, first, next)
        BY <1>1, <2>1, <2>3 DEF Stepwise
      <3> QED  BY <3>1, StepsDefine
    <2>5. ASSUME NEW i \in 1..n
          PROVE  f[i] = IF i = 1 THEN [type |-> list[1], mismatch |-> FALSE]
                        ELSE Accumulate[f[i - 1]][list[i]]
      <3>1. CASE i # 1
        <4>1. i - 1 \in 1..n
          BY <1>1, <3>1
        <4> HIDE DEF next, n, first
        <4>2. f[i - 1] \in AtChoice
          BY <4>1
        <4> QED  BY <2>2, <2>4, <3>1, <4>2 DEF ResultsOf
      <3> QED  BY <2>4, <3>1 DEF ResultsOf
    <2>6. f = body(f)
      <3> HIDE DEF next, n
      <3> QED  BY <2>5
    <2>7. upTo = body(upTo)
      <3> HIDE DEF body
      <3> QED  BY <2>6
    <2>8. TypeOfAll(list) = upTo[n]
      BY <1>3 DEF TypeOfAll
    <2> HIDE DEF upTo, next
    <2>9. \A i \in 1..n : upTo[i] = IF i = 1 THEN [type |-> list[1], mismatch |-> FALSE]
                                    ELSE Accumulate[upTo[i - 1]][list[i]]
      BY <2>7
    <2> DEFINE SuitsUpTo(k) ==
                 /\ upTo[k] \in AtChoice
                 /\ ~upTo[k].mismatch =>
                       \A i \in 1..k : Convertible(list[i], upTo[k].type)
               K == {k \in 1..n : SuitsUpTo(k)}
    <2> HIDE DEF body, n
    <2>10. SuitsUpTo(1)
      <3>1. upTo[1] = first
        BY <2>0, <2>9
      <3>2. Convertible(list[1], list[1])
        BY DEF Convertible
      <3> QED  BY <2>3, <3>1, <3>2
    <2>11. ASSUME NEW k \in 1..n - 1, SuitsUpTo(k) PROVE SuitsUpTo(k + 1)
      <3>1. k + 1 \in 1..n /\ k + 1 # 1 /\ (k + 1) - 1 = k /\ k \in 1..n /\ k \in Nat
        BY <1>1
      <3> DEFINE r == upTo[k]
                 s == upTo[k + 1]
      <3>2. s = Accumulate[r][list[k + 1]] /\ r \in AtChoice /\ list[k + 1] \in TypeOption
        BY <1>1, <2>9, <2>11, <3>1
      <3>3. \A i \in 1..k + 1 : i = k + 1 \/ i \in 1..k
        BY <3>1
      <3>4. ~r.mismatch => \A i \in 1..k : Convertible(list[i], r.type)
        BY <2>11
      <3>5. \A i \in 1..k : list[i] \in TypeOption
        BY <1>1, <3>1
      <3> HIDE DEF r, s
      <3>6. /\ s \in AtChoice
            /\ ~s.mismatch => /\ ~r.mismatch
                              /\ Convertible(r.type, s.type)
                              /\ Convertible(list[k + 1], s.type)
        BY <3>2, AccumulateSuits
      <3>7. r.type \in TypeOption /\ s.type \in TypeOption
        BY <3>2, <3>6 DEF AtChoice
      <3>8. ASSUME ~s.mismatch, NEW i \in 1..k + 1 PROVE Convertible(list[i], s.type)
        <4>1. CASE i = k + 1
          BY <3>6, <3>8, <4>1
        <4>2. CASE i # k + 1
          <5>1. i \in 1..k
            BY <3>3, <4>2
          <5>2. Convertible(list[i], r.type) /\ Convertible(r.type, s.type)
            BY <3>4, <3>6, <3>8, <5>1
          <5> QED  BY <3>5, <3>7, <5>1, <5>2, ConvertibleChain
        <4> QED  BY <4>1, <4>2
      <3> QED  BY <3>6, <3>8 DEF s
    <2>12. 1..n \subseteq K
      <3>1. 1 \in K
        BY <2>0, <2>10
      <3>2. \A k \in 1..n - 1 : k \in K => k + 1 \in K
        <4> TAKE k \in 1..n - 1
        <4>1. k + 1 \in 1..n
          BY <1>1
        <4> HIDE DEF SuitsUpTo
        <4> QED  BY <2>11, <4>1
      <3>3. 1 \in Nat
        OBVIOUS
      <3> HIDE DEF K
      <3> QED  BY <1>1, <3>1, <3>2, <3>3, Climbs
    <2>13. SuitsUpTo(n)
      <3> HIDE DEF SuitsUpTo
      <3> QED  BY <2>0, <2>12
    <2> QED  BY <1>3, <2>8, <2>13 DEF n
  <1> QED  BY <1>2, <1>3

\* The choices with a branch into a choice.
Before(m) == [c \in ChoiceDefs |-> {a.from : a \in {x \in BranchArcs(m) : x.to = c}}]

\* If following the branches of finitely many choices always ends, so does going
\* back along them: a smallest set whose members all have one before them in the
\* set would have a member that leads to none of it, and be none the worse
\* without that.
LEMMA EndsBackwards ==
    ASSUME NEW m,
           \A T \in (SUBSET ChoiceDefs) \ {{}} :
              \E c \in T : \A a \in BranchArcs(m) : a.from = c => a.to \notin T
    PROVE  Grounds(ChoiceDefs, Before(m))
  <1> DEFINE Led(T) == \A c \in T : \E a \in BranchArcs(m) : a.from \in T /\ a.to = c
  <1>1. \A c \in ChoiceDefs : Before(m)[c] = {a.from : a \in {x \in BranchArcs(m) : x.to = c}}
    BY DEF Before
  <1>2. \A a \in BranchArcs(m) : a.from \in ChoiceDefs
    BY DEF BranchArcs, ArcOf, ChoicesIn
  <1>3. ASSUME NEW S \in (SUBSET ChoiceDefs) \ {{}}, Led(S) PROVE FALSE
    <2> DEFINE Q == {T \in SUBSET S : T # {} /\ Led(T)}
               sizes == {Cardinality(T) : T \in Q}
    <2>1. \A T \in SUBSET S : IsFiniteSet(T) /\ Cardinality(T) \in Nat
      <3>1. ChoiceDefs \subseteq States \cup ChoiceDefs /\ IsFiniteSet(States \cup ChoiceDefs)
        BY NodesAssumption
      <3> TAKE T \in SUBSET S
      <3>2. T \subseteq States \cup ChoiceDefs
        BY <3>1
      <3>3. IsFiniteSet(T)
        BY <3>1, <3>2, FS_Subset
      <3> QED  BY <3>3, FS_CardinalityType
    <2>2. sizes \subseteq Nat /\ sizes # {}
      <3>1. S \in Q
        BY <1>3
      <3> HIDE DEF Led
      <3> QED  BY <2>1, <3>1
    <2>3. PICK n \in sizes : \A k \in sizes : <<k, n>> \notin LessThan
      <3>1. IsWellFoundedOn(LessThan, Nat)
        BY NatLessThanWellFounded DEF OpToRel, LessThan
      <3> HIDE DEF sizes
      <3> QED  BY <2>2, <3>1, WFMin
    <2>4. PICK T \in Q : n = Cardinality(T)
      BY <2>3
    <2>5. T \in SUBSET S /\ T # {} /\ Led(T)
      BY <2>4
    <2> HIDE DEF Q, sizes
    <2>6. PICK c \in T : \A a \in BranchArcs(m) : a.from = c => a.to \notin T
      BY <1>3, <2>5
    <2> DEFINE U == T \ {c}
    <2>7. Led(U)
      <3> TAKE d \in U
      <3>1. PICK a \in BranchArcs(m) : a.from \in T /\ a.to = d
        BY <2>5
      <3> QED  BY <2>6, <3>1
    <2>8. U # {}
      <3>1. PICK a \in BranchArcs(m) : a.from \in T /\ a.to = c
        BY <2>5
      <3> QED  BY <2>6, <3>1
    <2>9. Cardinality(U) = Cardinality(T) - 1 /\ U \in SUBSET S
      BY <2>1, <2>5, FS_RemoveElement
    <2>10. U \in Q
      BY <2>7, <2>8, <2>9 DEF Q
    <2>11. Cardinality(U) \in sizes /\ Cardinality(U) \in Nat /\ Cardinality(T) \in Nat
      BY <2>1, <2>5, <2>9, <2>10 DEF sizes
    <2> HIDE DEF U
    <2>12. <<Cardinality(U), n>> \in LessThan
      BY <2>4, <2>9, <2>11 DEF LessThan
    <2> QED  BY <2>3, <2>11, <2>12
  <1>4. \A T \in (SUBSET ChoiceDefs) \ {{}} : \E c \in T : Before(m)[c] \cap T = {}
    <2> TAKE T \in (SUBSET ChoiceDefs) \ {{}}
    <2>1. PICK c \in T : \A a \in BranchArcs(m) : ~(a.from \in T /\ a.to = c)
      BY <1>3
    <2> QED  BY <1>1, <2>1
  <1> QED  BY <1>1, <1>2, <1>4 DEF Grounds

\* The arcs into a choice are those of the graph.
LEMMA IntoFacts ==
    ASSUME NEW m, LegalMachine(m), NEW c \in ChoiceDefs
    PROVE  LET into == ArcsInto(TransitionGraph(m), c)
           IN  /\ into \in Seq(MachineArcs(m))
               /\ DOMAIN into = 1..Len(into) /\ Len(into) \in Nat
               /\ \A j \in 1..Len(into) : into[j] \in MachineArcs(m) /\ into[j].to = c
               /\ \A a \in MachineArcs(m) : a.to = c => \E j \in 1..Len(into) : into[j] = a
  <1> DEFINE G == TransitionGraph(m)
             into == ArcsTo(G, {c})
             X == MachineArcs(m)
  <1>1. ArcsInto(TransitionGraph(m), c) = into
    BY DEF ArcsInto
  <1>2. G \in Seq(X) /\ \A a \in X : a.to \in Nodes => \E j \in 1..Len(G) : G[j] = a
    BY GraphArcs
  <1> HIDE DEF G, X
  <1>3. /\ into \in Seq(X)
        /\ \A i \in 1..Len(G) : G[i].to \in {c} => \E j \in 1..Len(into) : into[j] = G[i]
        /\ \A j \in 1..Len(into) : \E i \in 1..Len(G) : G[i].to \in {c} /\ into[j] = G[i]
    BY <1>2, ArcsToFacts
  <1> HIDE DEF into
  <1>4. DOMAIN into = 1..Len(into) /\ Len(into) \in Nat /\ \A j \in 1..Len(into) : into[j] \in X
    BY <1>3, LenProperties, ElementOfSeq
  <1>5. \A j \in 1..Len(into) : into[j].to = c
    BY <1>3
  <1>6. ASSUME NEW a \in X, a.to = c PROVE \E j \in 1..Len(into) : into[j] = a
    <2>1. c \in Nodes
      BY DEF Nodes
    <2>2. PICK i \in 1..Len(G) : G[i] = a
      BY <1>2, <1>6, <2>1
    <2> QED  BY <1>3, <1>6, <2>2
  <1> QED  BY <1>1, <1>3, <1>4, <1>5, <1>6 DEF X

\* The type behind an arc: of the choice it comes from if that is what it comes
\* from, and else known beforehand.
LEMMA ArcTypes ==
    ASSUME NEW m, LegalMachine(m), NEW a \in MachineArcs(m), NEW at
    PROVE  /\ a \in BranchArcs(m) => ElementType(m, at, a) = at[a.from].type
           /\ a \notin BranchArcs(m) =>
                 /\ ElementType(m, at, a) \in TypeOption
                 /\ \A other : ElementType(m, other, a) = ElementType(m, at, a)
  <1>1. CASE a \in BranchArcs(m)
    <2>1. a.by = "choice"
      BY <1>1 DEF BranchArcs, ArcOf
    <2> QED  BY <1>1, <2>1 DEF ElementType
  <1>2. CASE a \in InitialArcs(m) /\ a \notin BranchArcs(m)
    <2>1. a.by = "initial"
      BY <1>2 DEF InitialArcs, ArcOf
    <2>2. \A other : ElementType(m, other, a) = NoType
      BY <2>1 DEF ElementType
    <2> QED  BY <1>2, <2>2, TypeRecords
  <1>3. CASE a \in SignalArcs(m) /\ a \notin BranchArcs(m)
    <2>1. PICK x \in StatesIn(m) \X Nat :
             /\ x[2] \in 1..Len(m.on[x[1]])
             /\ a = ArcOf(x[1], "signal", x[2], m.on[x[1]][x[2]].to)
      BY <1>3 DEF SignalArcs
    <2>2. a.by = "signal" /\ a.from = x[1] /\ a.label = x[2] /\ x[1] \in StatesIn(m)
      BY <2>1 DEF ArcOf
    <2>3. m.on[x[1]] \in Seq([signal : Signals, to : Nodes \cup {Stay}, sites : Sites])
      BY <2>2 DEF LegalMachine
    <2>4. m.on[x[1]][x[2]] \in [signal : Signals, to : Nodes \cup {Stay}, sites : Sites]
      BY <2>1, <2>3, ElementOfSeq
    <2>5. m.carries[m.on[a.from][a.label].signal] \in TypeOption
      BY <2>2, <2>4 DEF LegalMachine
    <2>6. \A other : ElementType(m, other, a) = m.carries[m.on[a.from][a.label].signal]
      BY <2>2 DEF ElementType
    <2> QED  BY <1>3, <2>5, <2>6
  <1> QED  BY <1>1, <1>2, <1>3 DEF MachineArcs

\* The types of the elements behind the arcs into a choice.
TypesInto(m, at, c) ==
    LET into == ArcsInto(TransitionGraph(m), c)
    IN  [i \in DOMAIN into |-> ElementType(m, at, into[i])]

\* They are types, and depend only on what is known of the choices before.
LEMMA TypesIntoFacts ==
    ASSUME NEW m, LegalMachine(m), NEW c \in ChoiceDefs, NEW at,
           \A x \in Before(m)[c] : at[x] \in AtChoice
    PROVE  /\ TypesInto(m, at, c) \in Seq(TypeOption)
           /\ \A other : (\A x \in Before(m)[c] : other[x] = at[x]) =>
                            TypesInto(m, other, c) = TypesInto(m, at, c)
           /\ \A a \in MachineArcs(m) : a.to = c =>
                 /\ ElementType(m, at, a) \in TypeOption
                 /\ \E j \in 1..Len(TypesInto(m, at, c)) :
                       TypesInto(m, at, c)[j] = ElementType(m, at, a)
           /\ (\A a \in MachineArcs(m) : a.to # c) => TypesInto(m, at, c) = <<>>
  <1> DEFINE into == ArcsInto(TransitionGraph(m), c)
             ts == TypesInto(m, at, c)
  <1>1. /\ DOMAIN into = 1..Len(into) /\ Len(into) \in Nat
        /\ \A j \in 1..Len(into) : into[j] \in MachineArcs(m) /\ into[j].to = c
        /\ \A a \in MachineArcs(m) : a.to = c => \E j \in 1..Len(into) : into[j] = a
    BY IntoFacts
  <1>2. \A other : TypesInto(m, other, c) = [i \in 1..Len(into) |-> ElementType(m, other, into[i])]
    BY <1>1 DEF TypesInto
  <1> HIDE DEF into
  <1>3. ASSUME NEW a \in BranchArcs(m), a.to = c PROVE a.from \in Before(m)[c]
    BY <1>3 DEF Before
  <1>4. ASSUME NEW a \in MachineArcs(m), a.to = c PROVE ElementType(m, at, a) \in TypeOption
    <2>1. CASE a \in BranchArcs(m)
      <3>1. at[a.from] \in AtChoice
        BY <1>3, <1>4, <2>1
      <3>2. ElementType(m, at, a) = at[a.from].type
        BY <2>1, ArcTypes
      <3> QED  BY <3>1, <3>2 DEF AtChoice
    <2> QED  BY <2>1, ArcTypes
  <1>5. ASSUME NEW a \in MachineArcs(m), a.to = c, NEW other,
               \A x \in Before(m)[c] : other[x] = at[x]
        PROVE  ElementType(m, other, a) = ElementType(m, at, a)
    <2>1. CASE a \in BranchArcs(m)
      <3>1. other[a.from] = at[a.from]
        BY <1>3, <1>5, <2>1
      <3>2. ElementType(m, at, a) = at[a.from].type /\ ElementType(m, other, a) = other[a.from].type
        BY <2>1, ArcTypes
      <3> QED  BY <3>1, <3>2
    <2> QED  BY <2>1, ArcTypes
  <1>6. ts = [i \in 1..Len(into) |-> ElementType(m, at, into[i])]
    BY <1>2
  <1>7. ts \in [1..Len(into) -> TypeOption]
    BY <1>1, <1>4, <1>6
  <1> HIDE DEF ts
  <1>8. ts \in Seq(TypeOption) /\ Len(ts) = Len(into)
    BY <1>1, <1>7, FunctionIsSeq
  <1>9. ASSUME NEW other, \A x \in Before(m)[c] : other[x] = at[x]
        PROVE  TypesInto(m, other, c) = ts
    BY <1>1, <1>2, <1>5, <1>6, <1>9
  <1>10. ASSUME NEW a \in MachineArcs(m), a.to = c
         PROVE  \E j \in 1..Len(ts) : ts[j] = ElementType(m, at, a)
    <2>1. PICK j \in 1..Len(into) : into[j] = a
      BY <1>1, <1>10
    <2> QED  BY <1>6, <1>8, <2>1
  <1>11. ASSUME \A a \in MachineArcs(m) : a.to # c PROVE ts = <<>>
    <2>1. Len(into) = 0
      <3>1. CASE Len(into) # 0
        <4>1. 1 \in 1..Len(into)
          BY <1>1, <3>1
        <4> QED  BY <1>1, <1>11, <4>1
      <3> QED  BY <3>1
    <2> QED  BY <1>8, <2>1, EmptySeq
  <1> QED  BY <1>4, <1>8, <1>9, <1>10, <1>11 DEF ts

\* The map of types is what the recursion says it is.
LEMMA TypesDefined ==
    ASSUME NEW m, LegalMachine(m), Grounds(ChoiceDefs, Before(m))
    PROVE  LET at == TypeOptionMap(m, TransitionGraph(m))
           IN  /\ at \in [ChoiceDefs -> AtChoice]
               /\ \A c \in ChoiceDefs : at[c] = TypeOfAll(TypesInto(m, at, c))
  <1> DEFINE S == ChoiceDefs
             below == Before(m)
             step == [c \in S |-> [h \in [below[c] -> AtChoice] |-> TypeOfAll(TypesInto(m, h, c))]]
             body(h) == [c \in S |->
                           LET into == ArcsInto(TransitionGraph(m), c)
                           IN  TypeOfAll([i \in DOMAIN into |-> ElementType(m, h, into[i])])]
             at == CHOOSE h : h = body(h)
  <1>1. \A h : body(h) = [c \in S |-> TypeOfAll(TypesInto(m, h, c))]
    BY DEF TypesInto
  <1>2. TypeOptionMap(m, TransitionGraph(m)) = at
    BY DEF TypeOptionMap
  <1> HIDE DEF body, S
  <1>3. ASSUME NEW c \in S, NEW h \in [below[c] -> AtChoice]
        PROVE  step[c][h] = TypeOfAll(TypesInto(m, h, c))
    <2> HIDE DEF below
    <2> QED  OBVIOUS
  <1> HIDE DEF step
  <1>4. ASSUME NEW c \in S, NEW h \in [below[c] -> AtChoice]
        PROVE  step[c][h] \in AtChoice
    <2>1. TypesInto(m, h, c) \in Seq(TypeOption)
      BY TypesIntoFacts DEF S
    <2> QED  BY <1>3, <2>1, TypeOfAllSuits
  <1>5. PICK f \in [S -> AtChoice] : Recurs(S, below, step, f)
    <2>1. Grounds(S, below)
      BY DEF S
    <2> HIDE DEF below
    <2> QED  BY <1>4, <2>1, RecursionDefines
  <1>6. ASSUME NEW c \in S PROVE f[c] = TypeOfAll(TypesInto(m, f, c))
    <2> DEFINE h == [y \in below[c] |-> f[y]]
    <2>1. f[c] = step[c][h]
      BY <1>5 DEF Recurs
    <2>2. below[c] \subseteq S
      BY DEF Grounds, S
    <2>3. /\ h \in [below[c] -> AtChoice] /\ \A y \in below[c] : f[y] = h[y]
          /\ \A y \in below[c] : h[y] \in AtChoice
      <3> HIDE DEF below
      <3> QED  BY <2>2
    <2> HIDE DEF h
    <2>4. TypesInto(m, f, c) = TypesInto(m, h, c)
      BY <2>3, TypesIntoFacts DEF S
    <2> QED  BY <1>3, <2>1, <2>3, <2>4
  <1>7. f = body(f)
    <2>1. f = [c \in S |-> TypeOfAll(TypesInto(m, f, c))]
      BY <1>6
    <2> QED  BY <1>1, <2>1
  <1>8. at = body(at)
    BY <1>7
  <1> HIDE DEF at
  <1>9. at = [c \in S |-> TypeOfAll(TypesInto(m, at, c))]
    BY <1>1, <1>8
  <1>10. \A c \in S : at[c] = TypeOfAll(TypesInto(m, at, c))
    BY <1>9
  <1>11. ASSUME NEW c \in S, \A x \in below[c] : at[x] \in AtChoice PROVE at[c] \in AtChoice
    <2>1. TypesInto(m, at, c) \in Seq(TypeOption)
      BY <1>11, TypesIntoFacts DEF S
    <2> QED  BY <1>10, <2>1, TypeOfAllSuits
  <1>12. \A c \in S : at[c] \in AtChoice
    <2> DEFINE T == {c \in S : at[c] \notin AtChoice}
    <2> SUFFICES ASSUME T # {} PROVE FALSE
      OBVIOUS
    <2>1. T \in (SUBSET S) \ {{}}
      OBVIOUS
    <2> HIDE DEF T
    <2>2. PICK c \in T : below[c] \cap T = {}
      BY <2>1 DEF Grounds, S
    <2>3. c \in S /\ below[c] \subseteq S /\ at[c] \notin AtChoice
      BY <2>1 DEF Grounds, S, T
    <2>4. \A x \in below[c] : at[x] \in AtChoice
      BY <2>2, <2>3 DEF T
    <2> QED  BY <1>11, <2>3, <2>4
  <1>13. at \in [S -> AtChoice]
    BY <1>9, <1>12
  <1> QED  BY <1>2, <1>10, <1>13 DEF S

\* Where no mismatch is reported, the type behind each arc into a choice converts
\* to the type of the choice, and a choice without arcs has none.
LEMMA TypesSuit ==
    ASSUME NEW m, LegalMachine(m), Grounds(ChoiceDefs, Before(m)), NEW c \in ChoiceDefs
    PROVE  LET at == TypeOptionMap(m, TransitionGraph(m))
           IN  /\ at[c].type \in TypeOption
               /\ \A a \in MachineArcs(m) : a.to = c =>
                     /\ ElementType(m, at, a) \in TypeOption
                     /\ ~at[c].mismatch => Convertible(ElementType(m, at, a), at[c].type)
               /\ (\A a \in MachineArcs(m) : a.to # c) => at[c].type = NoType
  <1> DEFINE at == TypeOptionMap(m, TransitionGraph(m))
             ts == TypesInto(m, at, c)
  <1>1. at \in [ChoiceDefs -> AtChoice] /\ at[c] = TypeOfAll(ts)
    BY TypesDefined
  <1>2. \A x \in Before(m)[c] : at[x] \in AtChoice
    BY <1>1 DEF Grounds
  <1> HIDE DEF at
  <1>3. /\ ts \in Seq(TypeOption)
        /\ \A a \in MachineArcs(m) : a.to = c =>
                 /\ ElementType(m, at, a) \in TypeOption
                 /\ \E j \in 1..Len(ts) : ts[j] = ElementType(m, at, a)
        /\ (\A a \in MachineArcs(m) : a.to # c) => ts = <<>>
    BY <1>2, TypesIntoFacts
  <1> HIDE DEF ts
  <1>4. /\ ~at[c].mismatch => \A i \in 1..Len(ts) : Convertible(ts[i], at[c].type)
        /\ ts = <<>> => at[c].type = NoType
    BY <1>1, <1>3, TypeOfAllSuits
  <1>5. at[c].type \in TypeOption
    BY <1>1 DEF AtChoice
  <1>6. ASSUME NEW a \in MachineArcs(m), a.to = c, ~at[c].mismatch
        PROVE  Convertible(ElementType(m, at, a), at[c].type)
    <2>1. PICK j \in 1..Len(ts) : ts[j] = ElementType(m, at, a)
      BY <1>3, <1>6
    <2> QED  BY <1>4, <1>6, <2>1
  <1> QED  BY <1>3, <1>4, <1>5, <1>6 DEF at

-----------------------------------------------------------------------------
\* What the passes have computed so far, and what they have found right.
TypesSoFar ==
    /\ pass \in {"reachability", "cycles", "types", "flatten", "analysed"} =>
          graph = TransitionGraph(machine)
    /\ pass \in {"cycles", "types", "flatten", "analysed"} =>
          arcs = {a \in Arc : /\ a.from \in ChoicesIn(machine)
                              /\ machine.choice[a.from][a.branch].to = a.to}
    /\ pass \in {"flatten", "analysed"} =>
          /\ types = TypeOptionMap(machine, graph)
          /\ errors = {} => /\ \A c \in ChoiceDefs : ~types[c].mismatch
                            /\ CallSitesFit(machine, types)

\* The value on the way to a choice, or none, converts to the type of the choice.
ValueFits ==
    Accepted /\ goal \in ChoiceDefs /\ ~(\E c \in ChoicesIn(machine) : EnteredBare(c)) =>
        value \in TypeOption /\ Convertible(value, types[goal].type)

\* The search for cycles is over the branches of the machine's choices, so that
\* behind its gate the types can be computed backwards along them.
LEMMA GateGrounds ==
    ASSUME PassesSoFar, TypesSoFar, RecursionEnds, pass \in {"types", "flatten", "analysed"}
    PROVE  Grounds(ChoiceDefs, Before(machine))
  <1>1. WellFounded(ChoiceDefs)
    BY DEF RecursionEnds
  <1>2. arcs = {a \in Arc : /\ a.from \in ChoicesIn(machine)
                            /\ machine.choice[a.from][a.branch].to = a.to}
    BY DEF TypesSoFar
  <1>3. ASSUME NEW T \in (SUBSET ChoiceDefs) \ {{}}
        PROVE  \E c \in T : \A a \in BranchArcs(machine) : a.from = c => a.to \notin T
    <2>1. PICK c \in T : \A a \in ArcsFrom(c) : a.to \notin T
      BY <1>1 DEF WellFounded
    <2>2. ASSUME NEW a \in BranchArcs(machine), a.from = c, a.to \in T PROVE FALSE
      <3>1. PICK x \in ChoicesIn(machine) \X {"if", "else"} :
               a = ArcOf(x[1], "choice", x[2], machine.choice[x[1]][x[2]].to)
        BY <2>2 DEF BranchArcs
      <3> DEFINE b == [from |-> x[1], branch |-> x[2], to |-> machine.choice[x[1]][x[2]].to]
      <3>2. /\ x[1] = c /\ x[1] \in ChoicesIn(machine) /\ x[2] \in {"if", "else"}
            /\ machine.choice[x[1]][x[2]].to = a.to /\ a.to \in ChoiceDefs
            /\ x[1] \in ChoiceDefs
        BY <2>2, <3>1 DEF ArcOf, ChoicesIn
      <3>3. b \in Arc /\ b.from = c /\ b.to = a.to /\ b.branch = x[2]
        BY <3>2 DEF Arc
      <3>4. b \in ArcsFrom(c)
        BY <1>2, <3>2, <3>3 DEF ArcsFrom
      <3> QED  BY <2>1, <2>2, <3>3, <3>4
    <2> QED  BY <2>2
  <1> QED  BY <1>3, EndsBackwards

\* Who comes to a choice of an accepted machine along an arc brings a value that
\* converts to the type of the choice.
LEMMA ArcsFit ==
    ASSUME PassesSoFar, TypesSoFar, RecursionEnds, Accepted,
           NEW a \in MachineArcs(machine), a.to \in ChoiceDefs
    PROVE  /\ ElementType(machine, types, a) \in TypeOption
           /\ Convertible(ElementType(machine, types, a), types[a.to].type)
  <1>1. /\ pass = "analysed" /\ LegalMachine(machine)
        /\ types = TypeOptionMap(machine, TransitionGraph(machine))
        /\ ~types[a.to].mismatch
    BY DEF Accepted, PassesSoFar, TypesSoFar
  <1>2. Grounds(ChoiceDefs, Before(machine))
    BY <1>1, GateGrounds
  <1> QED  BY <1>1, <1>2, TypesSuit

\* Each pass computes and checks its part.
LEMMA TypesKeep ==
    ASSUME PassesSoFar, TypesSoFar, PassStep PROVE TypesSoFar'
  <1>1. machine' = machine
    BY DEF PassStep, CheckUses, CheckInitialAndSignals, BuildGraph, CheckReachability,
           SearchCycles, CyclesGate, CheckTypes, FlattenTransitions
  <1>2. CASE CheckUses \/ CheckInitialAndSignals
    <2>1. pass' \in {"initial", "graph", "blocked"}
      BY <1>2 DEF CheckUses, CheckInitialAndSignals, Emits
    <2> QED  BY <2>1 DEF TypesSoFar
  <1>3. CASE BuildGraph
    <2>1. graph' = TransitionGraph(machine) /\ pass' = "reachability"
      BY <1>3 DEF BuildGraph
    <2> QED  BY <1>1, <2>1 DEF TypesSoFar
  <1>4. CASE CheckReachability
    <2>1. /\ graph' = graph /\ graph = TransitionGraph(machine) /\ pass' = "cycles"
          /\ arcs' = {a \in Arc : /\ a.from \in ChoicesIn(machine)
                                  /\ machine.choice[a.from][a.branch].to = a.to}
      BY <1>4 DEF CheckReachability, Emits, smTables, TypesSoFar
    <2> QED  BY <1>1, <2>1 DEF TypesSoFar
  <1>5. CASE SearchCycles \/ CyclesGate
    <2>1. /\ graph' = graph /\ arcs' = arcs /\ pass = "cycles"
          /\ pass' \in {"cycles", "types", "blocked"}
      BY <1>5 DEF SearchCycles, CyclesGate, Emits, smTables, ccVars, ChoiceCyclesNext,
                  SearchFrom, Follow, Close, Return
    <2> QED  BY <1>1, <2>1 DEF TypesSoFar
  <1>6. CASE CheckTypes
    <2>1. /\ graph' = graph /\ arcs' = arcs /\ pass = "types" /\ pass' = "flatten"
          /\ types' = TypeOptionMap(machine, graph)
          /\ errors' = {} => /\ \A c \in ChoiceDefs : ~types'[c].mismatch
                             /\ CallSitesFit(machine, types')
      BY <1>6 DEF CheckTypes, Emits, ccVars
    <2> QED  BY <1>1, <2>1 DEF TypesSoFar
  <1>7. CASE FlattenTransitions
    <2>1. /\ graph' = graph /\ arcs' = arcs /\ types' = types /\ errors' = errors
          /\ pass = "flatten" /\ pass' = "analysed"
      BY <1>7 DEF FlattenTransitions, ccVars
    <2> QED  BY <1>1, <2>1 DEF TypesSoFar
  <1> QED  BY <1>2, <1>3, <1>4, <1>5, <1>6, <1>7 DEF PassStep

\* The machine starts without a value; no arc leads to a choice it starts with
\* unless that is entered bare, so that the choice has no type.
LEMMA StartFits ==
    ASSUME PassesSoFar, RunInPlace, TypesSoFar, RecursionEnds, PassStep PROVE ValueFits'
  <1> SUFFICES ASSUME Accepted', goal' \in ChoiceDefs,
                      ~(\E c \in ChoicesIn(machine) : EnteredBare(c))'
               PROVE  value' \in TypeOption /\ Convertible(value', types'[goal'].type)
    BY DEF ValueFits
  <1>1. FlattenTransitions
    <2>1. pass # "analysed" /\ pass' = "analysed"
      BY DEF Accepted, PassStep, CheckUses, CheckInitialAndSignals, BuildGraph,
             CheckReachability, SearchCycles, CyclesGate, CheckTypes, FlattenTransitions
    <2> QED  BY <2>1 DEF PassStep, CheckUses, CheckInitialAndSignals, BuildGraph,
             CheckReachability, SearchCycles, CyclesGate, CheckTypes, Emits
  <1>2. /\ machine' = machine /\ graph' = graph /\ types' = types /\ value' = value
        /\ goal' = InitialNode(machine) /\ pass = "flatten" /\ pass' = "analysed"
        /\ value = NoType /\ LegalMachine(machine)
        /\ graph = TransitionGraph(machine) /\ types = TypeOptionMap(machine, graph)
    BY <1>1 DEF FlattenTransitions, PassesSoFar, TypesSoFar
  <1>3. goal' \in ChoicesIn(machine)
    <2>1. RunInPlace'
      BY PassesKeep
    <2>2. goal' \in NodesIn(machine) \cup {Stay}
      BY <1>2, <2>1 DEF RunInPlace
    <2>3. goal' # Stay
      BY NodesAssumption
    <2> QED  BY <2>2, <2>3 DEF ChoicesIn
  <1>4. ASSUME NEW a \in MachineArcs(machine), a.to = goal' PROVE FALSE
    <2>1. a.to \in Nodes
      BY <1>4 DEF Nodes
    <2>2. PICK j \in 1..Len(graph) : graph[j] = a
      BY <1>2, <2>1, GraphArcs
    <2>3. j \in DOMAIN graph
      <3>1. graph \in Seq(MachineArcs(machine))
        BY <1>2, GraphArcs
      <3> QED  BY <3>1, LenProperties
    <2> QED  BY <1>2, <1>3, <1>4, <2>2, <2>3 DEF EnteredBare
  <1>5. types[goal'].type = NoType
    <2>1. Grounds(ChoiceDefs, Before(machine))
      BY <1>2, GateGrounds
    <2> QED  BY <1>2, <1>4, <2>1, TypesSuit
  <1> QED  BY <1>2, <1>5, TypeRecords DEF Convertible

\* The run goes on along the arcs of the machine, and the value with it.
LEMMA FitsOnward ==
    ASSUME PassesSoFar, RunInPlace, TypesSoFar, RecursionEnds, ValueFits,
           RunStep \/ \E g \in Signals : Dispatch(g)
    PROVE  TypesSoFar' /\ ValueFits'
  <1>1. /\ machine' = machine /\ pass' = pass /\ errors' = errors /\ graph' = graph
        /\ types' = types /\ arcs' = arcs /\ Accepted
    BY DEF RunStep, Act, Choose, EnterState, Dispatch, Running, smTables, ccVars
  <1>2. TypesSoFar'
    BY <1>1 DEF TypesSoFar
  <1> DEFINE m == machine
  <1>3. /\ LegalMachine(m) /\ m.resolved /\ NodesIn(m) \subseteq Nodes
        /\ onSignal = FlattenedStates(m) /\ onBranch = FlattenedChoices(m)
        /\ goal \in NodesIn(m) \cup {Stay}
    BY <1>1, NodesAreNodes DEF Accepted, PassesSoFar, RunInPlace
  <1>4. CASE Act
    <2>1. goal' = goal /\ value' = value
      BY <1>4 DEF Act
    <2> QED  BY <1>1, <1>2, <2>1 DEF ValueFits, Accepted, EnteredBare
  <1>5. ASSUME goal' \in ChoiceDefs, ~Act
        PROVE  \E a \in MachineArcs(m) : a.to = goal' /\ value' = ElementType(m, types, a)
    <2>1. CASE Choose
      <3>1. PICK b \in {"if", "else"} : goal' = onBranch[goal][b].to
        BY <2>1 DEF Choose
      <3>2. goal \in ChoicesIn(m) /\ value' = types[goal].type
        BY <1>3, <2>1, NodesAssumption DEF Choose, Running, ChoicesIn
      <3>3. m.choice[goal][b].to \in NodesIn(m) /\ goal \in NodesIn(m)
        BY <1>3, <3>2 DEF LegalMachine, ChoicesIn
      <3>4. goal' = m.choice[goal][b].to
        <4>1. onBranch[goal][b] = Flatten(m, goal, m.choice[goal][b].to)
          BY <1>3, <3>2 DEF FlattenedChoices
        <4> QED  BY <1>3, <3>1, <3>3, <4>1, FlattenedActions
      <3> DEFINE a == ArcOf(goal, "choice", b, m.choice[goal][b].to)
      <3>5. a \in BranchArcs(m)
        <4>1. /\ <<goal, b>> \in ChoicesIn(m) \X {"if", "else"}
              /\ <<goal, b>>[1] = goal /\ <<goal, b>>[2] = b
          BY <3>2
        <4> QED  BY <4>1 DEF BranchArcs
      <3>6. a.to = goal' /\ a.by = "choice" /\ a.from = goal
        BY <3>4 DEF ArcOf
      <3> HIDE DEF a
      <3>7. value' = ElementType(m, types, a)
        BY <3>2, <3>6 DEF ElementType
      <3> QED  BY <3>5, <3>6, <3>7 DEF MachineArcs
    <2>2. CASE EnterState
      <3>1. goal \in StatesIn(m) /\ value' = NoType
        BY <1>3, <2>2, NodesAssumption DEF EnterState, Running, StatesIn
      <3>2. m.initial[goal] # <<>> /\ goal' = m.initial[goal][1].to
        BY <1>5, <2>2, NodesAssumption DEF EnterState
      <3>3. m.initial[goal] \in Seq(Enters)
        BY <1>3, <3>1 DEF LegalMachine, ScopesIn
      <3>4. 1 \in 1..Len(m.initial[goal])
        <4>1. Len(m.initial[goal]) \in Nat \ {0}
          BY <3>2, <3>3, EmptySeq
        <4> QED  BY <4>1
      <3> DEFINE a == ArcOf(goal, "initial", 1, m.initial[goal][1].to)
      <3>5. a \in InitialArcs(m)
        <4>1. /\ <<goal, 1>> \in {y \in StatesIn(m) \X Nat : y[2] \in 1..Len(m.initial[y[1]])}
              /\ <<goal, 1>>[1] = goal /\ <<goal, 1>>[2] = 1
          BY <3>1, <3>4
        <4> QED  BY <4>1 DEF InitialArcs
      <3>6. a.to = goal' /\ a.by = "initial"
        BY <3>2 DEF ArcOf
      <3> HIDE DEF a
      <3>7. value' = ElementType(m, types, a)
        BY <3>1, <3>6 DEF ElementType
      <3> QED  BY <3>5, <3>6, <3>7 DEF MachineArcs
    <2>3. ASSUME NEW g \in Signals, Dispatch(g)
          PROVE  \E a \in MachineArcs(m) : a.to = goal' /\ value' = ElementType(m, types, a)
      <3> DEFINE s == active[Len(active)]
      <3>1. /\ s \in DOMAIN onSignal /\ g \in DOMAIN onSignal[s]
            /\ goal' = onSignal[s][g].to /\ value' = m.carries[g]
        BY <2>3 DEF Dispatch
      <3> HIDE DEF s
      <3>2. PICK x \in StatesIn(m) : \E i \in Own(m, x, g) : m.on[x][i].to = goal'
        BY <1>3, <3>1, FlattenedSignal
      <3>3. PICK i \in Own(m, x, g) : m.on[x][i].to = goal'
        BY <3>2
      <3>4. m.on[x] \in Seq([signal : Signals, to : Nodes \cup {Stay}, sites : Sites])
        BY <1>3 DEF LegalMachine
      <3>5. i \in 1..Len(m.on[x]) /\ i \in Nat /\ m.on[x][i].signal = g
        <4>1. DOMAIN m.on[x] = 1..Len(m.on[x]) /\ Len(m.on[x]) \in Nat
          BY <3>4, LenProperties
        <4> QED  BY <4>1 DEF Own
      <3> DEFINE a == ArcOf(x, "signal", i, m.on[x][i].to)
      <3>6. a \in SignalArcs(m)
        <4>1. /\ <<x, i>> \in {y \in StatesIn(m) \X Nat : y[2] \in 1..Len(m.on[y[1]])}
              /\ <<x, i>>[1] = x /\ <<x, i>>[2] = i
          BY <3>5
        <4> QED  BY <4>1 DEF SignalArcs
      <3>7. a.to = goal' /\ a.by = "signal" /\ a.from = x /\ a.label = i
        BY <3>3 DEF ArcOf
      <3> HIDE DEF a
      <3>8. value' = ElementType(m, types, a)
        BY <3>1, <3>5, <3>7 DEF ElementType
      <3> QED  BY <3>6, <3>7, <3>8 DEF MachineArcs
    <2> QED  BY <1>5, <2>1, <2>2, <2>3 DEF RunStep
  <1>6. CASE ~Act
    <2> SUFFICES ASSUME goal' \in ChoiceDefs
                 PROVE  value' \in TypeOption /\ Convertible(value', types'[goal'].type)
      BY <1>2 DEF ValueFits
    <2>1. PICK a \in MachineArcs(m) : a.to = goal' /\ value' = ElementType(m, types, a)
      BY <1>5, <1>6
    <2> QED  BY <1>1, <2>1, ArcsFit
  <1> QED  BY <1>4, <1>6

\* What fits the type of a choice suits all that the choice calls.
LEMMA FittingSuits ==
    ASSUME PassesSoFar, RunInPlace, TypesSoFar, RecursionEnds, ValueFits
    PROVE  ValuesSuitTheirSites
  <1> SUFFICES ASSUME Accepted, goal \in ChoiceDefs,
                      ~(\E c \in ChoicesIn(machine) : EnteredBare(c))
               PROVE  Suits(goal)
    BY DEF ValuesSuitTheirSites
  <1>1. /\ LegalMachine(machine) /\ pass = "analysed" /\ CallSitesFit(machine, types)
        /\ types = TypeOptionMap(machine, TransitionGraph(machine))
    BY DEF Accepted, PassesSoFar, TypesSoFar
  <1>2. value \in TypeOption /\ Convertible(value, types[goal].type)
    BY DEF ValueFits
  <1>3. types[goal].type \in TypeOption
    <2>1. Grounds(ChoiceDefs, Before(machine))
      BY <1>1, GateGrounds
    <2> QED  BY <1>1, <2>1, TypesSuit
  <1>4. goal \in ChoicesIn(machine)
    BY NodesAssumption DEF RunInPlace, ChoicesIn
  <1>5. ASSUME NEW t \in SitesOf(machine, goal)
        PROVE  t \in TypeOption /\ Convertible(types[goal].type, t)
    <2>1. machine.choice[goal] \in [if : Enters, else : Enters, guard : Sites]
      BY <1>1, <1>4 DEF LegalMachine
    <2>2. t \in TypeOption
      BY <2>1 DEF SitesOf, Enters, Sites
    <2>3. Convertible(types[goal].type, t)
      BY <1>1, <1>4 DEF CallSitesFit
    <2> QED  BY <2>2, <2>3
  <1>6. ASSUME NEW t \in SitesOf(machine, goal) PROVE Convertible(value, t)
    BY <1>2, <1>3, <1>5, ConvertibleChain
  <1> QED  BY <1>6 DEF Suits

\* No value has come anywhere when the analysis starts.
LEMMA FittingInit ==
    ASSUME AnalysisInit PROVE TypesSoFar /\ ValueFits
  <1>1. pass = "uses"
    BY DEF AnalysisInit, AnalysisStart, StateMachineStart
  <1> QED  BY <1>1 DEF TypesSoFar, ValueFits, Accepted

\* Every step of the analysis and of the machine keeps the values fitting.
LEMMA FittingNext ==
    ASSUME PassesSoFar, RunInPlace, RecursionEnds, TypesSoFar, ValueFits,
           [AnalysisNext]_analysisVars
    PROVE  TypesSoFar' /\ ValueFits'
  <1>1. CASE CheckStateMachineStep
    BY <1>1, TypesKeep, StartFits DEF CheckStateMachineStep
  <1>2. CASE RunStateMachineStep \/ DispatchStep
    BY <1>2, FitsOnward DEF RunStateMachineStep, DispatchStep
  <1>3. CASE UNCHANGED smVars
    <2>1. /\ machine' = machine /\ pass' = pass /\ errors' = errors
          /\ graph' = graph /\ types' = types /\ arcs' = arcs
          /\ goal' = goal /\ value' = value
      BY <1>3 DEF smVars, smTables, smRun, ccVars
    <2> QED  BY <2>1 DEF TypesSoFar, ValueFits, Accepted, EnteredBare
  <1>4. CASE CheckUseDefCyclesStep \/ ResolveTopologiesStep \/ UNCHANGED analysisVars
    BY <1>3, <1>4 DEF CheckUseDefCyclesStep, ResolveTopologiesStep, analysisVars
  <1> QED  BY <1>1, <1>2, <1>4 DEF AnalysisNext

\* Whatever path leads an accepted machine to a choice that it does not also
\* start with, the value that came with the signal converts to what the guard
\* and the actions of the choice want (compute_type_option_map,
\* check_typed_elements: the common type of all ways to the choice).
THEOREM ValuesAlwaysSuit ==
    AnalysisSpec /\ LegalMachine(machine) => []ValuesSuitTheirSites
  <1>1. AnalysisInit /\ LegalMachine(machine) => PassesSoFar /\ RunInPlace
    BY ContextInit
  <1>2. AnalysisInit => TypesSoFar /\ ValueFits
    BY FittingInit
  <1>3. PassesSoFar /\ RunInPlace /\ [AnalysisNext]_analysisVars
          => PassesSoFar' /\ RunInPlace'
    BY ContextNext
  <1>4. PassesSoFar /\ RunInPlace /\ RecursionEnds /\ TypesSoFar /\ ValueFits
            /\ [AnalysisNext]_analysisVars
          => TypesSoFar' /\ ValueFits'
    BY FittingNext
  <1>5. PassesSoFar /\ RunInPlace /\ RecursionEnds /\ TypesSoFar /\ ValueFits
          => ValuesSuitTheirSites
    BY FittingSuits
  <1> QED  BY RecursionAlwaysEnds, <1>1, <1>2, <1>3, <1>4, <1>5, PTL DEF AnalysisSpec
=============================================================================
