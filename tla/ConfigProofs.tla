--------------------------- MODULE ConfigProofs ---------------------------
(***************************************************************************)
(* Validate of yaml_loader.go decides whether a rule set is circular, for  *)
(* every rule set and every order in which Go ranges over the map adj.     *)
(*                                                                         *)
(* The inductive invariant is the classical one of a depth-first search:   *)
(* the active calls form a path of the graph, the tools that are done with *)
(* (visited, not on the stack) are closed under "prerequisite of" and hold *)
(* no cycle.                                                               *)
(***************************************************************************)
EXTENDS ConfigLoader, DomainProofs, SequenceTheorems

Finished == visited \ recursionStack

(* recursionStack is the set of tools of the active calls, each once. *)
StackMatches ==
    /\ recursionStack = {frames[i].tool : i \in DOMAIN frames}
    /\ \A i, j \in DOMAIN frames : frames[i].tool = frames[j].tool => i = j

(* Each active call was made for a prerequisite of the call before it. *)
FramesArePath ==
    \A i \in DOMAIN frames :
        i # Len(frames) => Edge(loading, frames[i].tool, frames[i + 1].tool)

(* What an active call has looked at is finished, or is the call it made. *)
LookedAtDone ==
    \A i \in DOMAIN frames : \A k \in findRules(loading, frames[i].tool) :
        k <= frames[i].at =>
            \/ loading[k].prereq \in Finished
            \/ i # Len(frames) /\ loading[k].prereq = frames[i + 1].tool

FinishedClosed ==
    \A t \in Finished, u \in Nodes : Edge(loading, t, u) => u \in Finished

FinishedAcyclic == \A S \in SUBSET Finished : ~Circular(loading, S)

SearchInv ==
    pc = "search" =>
        /\ StackMatches
        /\ FramesArePath
        /\ LookedAtDone
        /\ FinishedClosed
        /\ FinishedAcyclic

(* Rule.Validate has refused the empty tool name. *)
LoadingNamed == \A i \in DOMAIN loading : loading[i].tool # NoTool

ConfigInv ==
    /\ ConfigTypeOK
    /\ LoadingNamed
    /\ SearchInv
    /\ VerdictCorrect
    /\ LoadedRulesAcyclic

-----------------------------------------------------------------------------
(* A rule of the sequence is a rule, and its position a natural number. *)
LEMMA RuleAt ==
    ASSUME NEW rs \in Seq(Rule), NEW t, NEW k \in findRules(rs, t)
    PROVE  /\ k \in Nat /\ k > 0 /\ k \in DOMAIN rs
           /\ rs[k] \in Rule
           /\ rs[k].tool = t
           /\ rs[k].prereq \in Nodes
<1>1. k \in DOMAIN rs /\ rs[k].tool = t
    BY DEF findRules
<1>2. k \in Nat /\ k > 0 /\ rs[k] \in Rule
    BY <1>1
<1> QED BY <1>1, <1>2 DEF Rule, Nodes

(* Only tools have prerequisites. *)
LEMMA NoToolHasNoRules ==
    ASSUME LoadingNamed, NEW t \in Nodes, NEW u, Edge(loading, t, u)
    PROVE  t \in Tools
BY DEF LoadingNamed, Edge, findRules, Nodes

(* The rules that Load returns are rules. *)
LEMMA LoadTyped ==
    ASSUME NEW f \in Files \cup {Undecodable}, ~LoadError(f)
    PROVE  /\ Load(f) \in Seq(Rule) /\ LoadConfig(f) \in Seq(Rule)
           /\ \A i \in DOMAIN Load(f) : Load(f)[i].tool # NoTool
<1>1. f # Undecodable /\ \A i \in DOMAIN f : f[i].expiry # Malformed
    BY DEF LoadError
<1>2. f \in Seq(Entry)
    BY <1>1, FilesAssumption
<1>3. \A i \in DOMAIN f : toRule(f[i]) \in Rule
  <2> SUFFICES ASSUME NEW i \in DOMAIN f PROVE toRule(f[i]) \in Rule
    OBVIOUS
  <2>1. f[i] \in Entry /\ f[i].expiry # Malformed
    BY <1>1, <1>2
  <2> QED BY <2>1, ExpiryAssumption DEF Entry, toRule, Rule
<1>4. DOMAIN f = 1 .. Len(f) /\ Len(f) \in Nat
    BY <1>2
<1>5. \A i \in DOMAIN f : toRule(f[i]).tool # NoTool
    BY <1>1 DEF LoadError, ValidRule
<1> QED BY <1>3, <1>4, <1>5 DEF Load, LoadConfig

(* No rule set is circular when it is empty. *)
LEMMA EmptyAcyclic == ~HasCycle(<<>>)
BY DEF HasCycle, Circular, Edge, findRules

LEMMA InitConfig == Init => ConfigInv
<1> SUFFICES ASSUME Init PROVE ConfigInv
    OBVIOUS
<1>1. <<>> \in Seq(Rule) /\ <<>> \in Seq(Frame)
    BY EmptySeq
<1>2. ConfigTypeOK
    BY <1>1 DEF Init, ConfigTypeOK
<1>3. SearchInv /\ VerdictCorrect /\ LoadingNamed
    BY DEF Init, SearchInv, VerdictCorrect, LoadingNamed
<1>4. LoadedRulesAcyclic
    BY EmptyAcyclic DEF Init, LoadedRulesAcyclic
<1> QED BY <1>2, <1>3, <1>4 DEF ConfigInv

(* The frames during a step of the search. *)
LEMMA FramesTyped ==
    ASSUME ConfigTypeOK, frames # <<>>
    PROVE  /\ Len(frames) \in Nat /\ Len(frames) > 0
           /\ DOMAIN frames = 1 .. Len(frames)
           /\ Len(frames) \in DOMAIN frames
           /\ \A i \in DOMAIN frames : /\ frames[i].tool \in Nodes
                                       /\ frames[i].at \in Nat
           /\ Top = frames[Len(frames)]
           /\ Top.tool \in Nodes
           /\ Top.at \in Nat
<1>1. frames \in Seq(Frame)
    BY DEF ConfigTypeOK
<1>2. /\ Len(frames) \in Nat /\ Len(frames) > 0
      /\ DOMAIN frames = 1 .. Len(frames)
    BY <1>1, EmptySeq
<1>3. \A i \in DOMAIN frames : frames[i] \in Frame
    BY <1>1
<1> QED BY <1>2, <1>3 DEF Top, Frame

(* What a step of the search looks at. *)
LEMMA LookingAt ==
    ASSUME ConfigTypeOK, Looking
    PROVE  /\ Position \in findRules(loading, Top.tool)
           /\ Position \in Nat
           /\ Position > Top.at
           /\ Prereq \in Nodes
           /\ Edge(loading, Top.tool, Prereq)
           /\ \A k \in findRules(loading, Top.tool) :
                  k <= Position => k <= Top.at \/ k = Position
<1>1. frames # <<>> /\ RulesAfter(loading, Top.tool, Top.at) # {}
    BY DEF Looking
<1>2. Top.at \in Nat /\ loading \in Seq(Rule)
    BY <1>1, FramesTyped DEF ConfigTypeOK
<1>3. /\ Position \in findRules(loading, Top.tool)
      /\ Position \in Nat
      /\ Position > Top.at
      /\ \A k \in findRules(loading, Top.tool) : k > Top.at => Position <= k
    BY <1>1, <1>2, NextRuleFinds DEF Position
<1>4. Prereq \in Nodes
    BY <1>2, <1>3, RuleAt DEF Prereq
<1>5. Edge(loading, Top.tool, Prereq)
    BY <1>3 DEF Edge, Prereq
<1>6. \A k \in findRules(loading, Top.tool) : k \in Nat
    BY <1>2, RuleAt
<1> QED BY <1>2, <1>3, <1>4, <1>5, <1>6

-----------------------------------------------------------------------------
(* One lemma for each step of the search. *)

(* A step that leaves the frames below the innermost one alone, moves that *)
(* one on to Position, and may add one on top of it.                       *)
LEMMA AdvancedFrames ==
    ASSUME ConfigTypeOK, Looking
    PROVE  /\ Advanced \in Seq(Frame)
           /\ Len(Advanced) = Len(frames)
           /\ \A i \in 1 .. Len(frames) : Advanced[i].tool = frames[i].tool
           /\ \A i \in 1 .. Len(frames) - 1 : Advanced[i] = frames[i]
           /\ Advanced[Len(frames)].at = Position
<1>0. PICK n : n = Len(frames)
    OBVIOUS
<1>1. /\ frames # <<>> /\ frames \in Seq(Frame)
      /\ Position \in Nat
    BY LookingAt DEF ConfigTypeOK, Looking
<1>2. n \in Nat /\ n > 0 /\ DOMAIN frames = 1 .. n /\ n \in DOMAIN frames
    BY <1>0, <1>1, FramesTyped
<1>3. \A i \in 1 .. n : frames[i] \in Frame
    BY <1>1, <1>2
<1>4. Advanced = [frames EXCEPT ![n] = [frames[n] EXCEPT !.at = Position]]
    BY <1>0 DEF Advanced
<1>5. /\ [frames[n] EXCEPT !.at = Position] \in Frame
      /\ [frames[n] EXCEPT !.at = Position].tool = frames[n].tool
      /\ [frames[n] EXCEPT !.at = Position].at = Position
    BY <1>1, <1>2, <1>3 DEF Frame
<1>6. Advanced \in [1 .. n -> Frame]
    BY <1>2, <1>3, <1>4, <1>5
<1>7. Advanced \in Seq(Frame) /\ Len(Advanced) = n
    BY <1>2, <1>6
<1>8. Advanced[n] = [frames[n] EXCEPT !.at = Position]
    BY <1>1, <1>2, <1>4
<1>9. \A i \in 1 .. n - 1 : Advanced[i] = frames[i]
    BY <1>1, <1>2, <1>4
<1>10. \A i \in 1 .. n : i = n \/ i \in 1 .. n - 1
    BY <1>2
<1>11. \A i \in 1 .. n : Advanced[i].tool = frames[i].tool
    BY <1>5, <1>8, <1>9, <1>10, Zenon
<1>12. Advanced[n].at = Position
    BY <1>5, <1>8, Zenon
<1> QED BY <1>0, <1>7, <1>9, <1>11, <1>12

LEMMA VisitInv ==
    ASSUME ConfigInv, NEW t \in Tools, Visit(t)
    PROVE  ConfigInv'
<1>1. /\ pc = "search" /\ pc' = "search" /\ frames = <<>>
      /\ t \notin visited
      /\ visited' = visited \cup {t}
      /\ recursionStack' = recursionStack \cup {t}
      /\ frames' = <<[tool |-> t, at |-> 0]>>
      /\ loading' = loading
    BY DEF Visit, Call
<1>2. ConfigTypeOK /\ StackMatches /\ FinishedClosed /\ FinishedAcyclic
    BY <1>1 DEF ConfigInv, SearchInv
<1>3. recursionStack = {}
    BY <1>1, <1>2 DEF StackMatches
<1>4. [tool |-> t, at |-> 0] \in Frame
    BY DEF Frame, Nodes
<1>5. /\ frames' \in Seq(Frame) /\ DOMAIN frames' = {1} /\ Len(frames') = 1
      /\ frames'[1].tool = t /\ frames'[1].at = 0
    BY <1>1, <1>4
<1>6. ConfigTypeOK'
    BY <1>1, <1>2, <1>3, <1>5 DEF Visit, ConfigTypeOK, Nodes
<1>7. StackMatches'
    BY <1>1, <1>3, <1>5 DEF StackMatches
<1>8. FramesArePath'
    BY <1>5 DEF FramesArePath
<1>9. LookedAtDone'
  <2>1. loading \in Seq(Rule)
    BY <1>2 DEF ConfigTypeOK
  <2>2. \A k \in findRules(loading, t) : k \in Nat /\ k > 0
    BY <2>1, RuleAt
  <2> QED BY <1>1, <1>5, <2>2 DEF LookedAtDone
<1>10. Finished' = Finished
    BY <1>1, <1>3 DEF Finished
<1>11. FinishedClosed' /\ FinishedAcyclic'
    BY <1>1, <1>2, <1>10 DEF FinishedClosed, FinishedAcyclic
<1>12. LoadingNamed' /\ VerdictCorrect' /\ LoadedRulesAcyclic'
    BY DEF ConfigInv, Visit, LoadingNamed, VerdictCorrect, LoadedRulesAcyclic
<1> QED BY <1>6, <1>7, <1>8, <1>9, <1>11, <1>12 DEF ConfigInv, SearchInv

LEMMA DescendInv ==
    ASSUME ConfigInv, Descend
    PROVE  ConfigInv'
<1>0. PICK n : n = Len(frames)
    OBVIOUS
<1> DEFINE top == [tool |-> Prereq, at |-> 0]
<1>1. /\ Looking /\ pc = "search" /\ pc' = "search"
      /\ Prereq \notin visited
      /\ visited' = visited \cup {Prereq}
      /\ recursionStack' = recursionStack \cup {Prereq}
      /\ frames' = Append(Advanced, top)
      /\ loading' = loading
    BY DEF Descend, Call, Looking
<1>2. /\ ConfigTypeOK /\ StackMatches /\ FramesArePath /\ LookedAtDone
      /\ FinishedClosed /\ FinishedAcyclic
    BY <1>1 DEF ConfigInv, SearchInv
<1>3. /\ frames # <<>> /\ loading \in Seq(Rule)
      /\ recursionStack \subseteq visited
    BY <1>1, <1>2 DEF Looking, ConfigTypeOK
<1>4. /\ n \in Nat /\ n > 0 /\ DOMAIN frames = 1 .. n
      /\ Top = frames[n]
    BY <1>0, <1>2, <1>3, FramesTyped
<1>5. /\ Prereq \in Nodes
      /\ Edge(loading, Top.tool, Prereq)
      /\ loading[Position].prereq = Prereq
      /\ \A k \in findRules(loading, Top.tool) :
             k <= Position => k <= Top.at \/ k = Position
    BY <1>1, <1>2, LookingAt DEF Prereq
<1>6. top \in Frame /\ top.tool = Prereq /\ top.at = 0
    BY <1>5 DEF Frame
<1> HIDE DEF top
<1>7. /\ Advanced \in Seq(Frame) /\ Len(Advanced) = n
      /\ \A i \in 1 .. n : Advanced[i].tool = frames[i].tool
      /\ \A i \in 1 .. n - 1 : Advanced[i] = frames[i]
      /\ Advanced[n].at = Position
    BY <1>0, <1>1, <1>2, AdvancedFrames
<1>8. /\ frames' \in Seq(Frame) /\ Len(frames') = n + 1
      /\ DOMAIN frames' = 1 .. n + 1
      /\ \A i \in 1 .. n : frames'[i] = Advanced[i]
      /\ frames'[n + 1] = top
    BY <1>1, <1>4, <1>6, <1>7, AppendProperties
<1>9. /\ \A i \in 1 .. n : frames'[i].tool = frames[i].tool
      /\ \A i \in 1 .. n - 1 : frames'[i].at = frames[i].at
      /\ frames'[n].at = Position
      /\ frames'[n + 1].tool = Prereq /\ frames'[n + 1].at = 0
    BY <1>4, <1>6, <1>7, <1>8
<1>10. Finished' = Finished
    BY <1>1, <1>3 DEF Finished
<1>11. ConfigTypeOK'
  <2>1. visited' \subseteq Nodes /\ recursionStack' \subseteq visited'
    BY <1>1, <1>2, <1>5 DEF ConfigTypeOK
  <2> QED BY <1>2, <1>8, <2>1 DEF Descend, ConfigTypeOK
<1>12. StackMatches'
  <2>1. \A i \in 1 .. n : frames[i].tool \in recursionStack
    BY <1>2, <1>4 DEF StackMatches
  <2>2. recursionStack' = {frames'[i].tool : i \in DOMAIN frames'}
    BY <1>1, <1>2, <1>4, <1>8, <1>9 DEF StackMatches
  <2>3. \A i, j \in DOMAIN frames' : frames'[i].tool = frames'[j].tool => i = j
    <3> SUFFICES ASSUME NEW i \in 1 .. n + 1, NEW j \in 1 .. n + 1,
                        frames'[i].tool = frames'[j].tool
                 PROVE  i = j
      BY <1>8
    <3>1. \A k \in 1 .. n : frames[k].tool # Prereq
      BY <1>1, <1>3, <2>1
    <3>2. CASE i \in 1 .. n /\ j \in 1 .. n
      BY <1>2, <1>4, <1>9, <3>2 DEF StackMatches
    <3>3. CASE ~(i \in 1 .. n /\ j \in 1 .. n)
      BY <1>4, <1>9, <3>1, <3>3
    <3> QED BY <3>2, <3>3
  <2> QED BY <2>2, <2>3 DEF StackMatches
<1>13. FramesArePath'
  <2> SUFFICES ASSUME NEW i \in 1 .. n + 1, i # n + 1
               PROVE  Edge(loading, frames'[i].tool, frames'[i + 1].tool)
    BY <1>1, <1>8 DEF FramesArePath
  <2>1. CASE i = n
    BY <1>4, <1>5, <1>9, <2>1
  <2>2. CASE i # n
    <3>1. i \in 1 .. n /\ i + 1 \in 1 .. n
      BY <1>4, <2>2
    <3> QED BY <1>0, <1>2, <1>4, <1>9, <2>2, <3>1 DEF FramesArePath
  <2> QED BY <2>1, <2>2
<1>14. LookedAtDone'
  <2> SUFFICES ASSUME NEW i \in 1 .. n + 1,
                      NEW k \in findRules(loading, frames'[i].tool),
                      k <= frames'[i].at
               PROVE  \/ loading[k].prereq \in Finished
                      \/ i # n + 1 /\ loading[k].prereq = frames'[i + 1].tool
    BY <1>1, <1>8, <1>10 DEF LookedAtDone
  <2>0. k \in Nat /\ k > 0
    BY <1>3, RuleAt
  <2>1. CASE i = n + 1
    BY <1>9, <2>0, <2>1
  <2>2. CASE i = n /\ k # Position
    <3>1. k \in findRules(loading, frames[n].tool) /\ k <= frames[n].at
      BY <1>4, <1>5, <1>9, <2>2
    <3> QED BY <1>2, <1>4, <3>1, <1>0 DEF LookedAtDone
  <2>3. CASE i = n /\ k = Position
    BY <1>4, <1>5, <1>9, <2>3
  <2>4. CASE i \in 1 .. n - 1
    <3>1. i \in 1 .. n /\ i + 1 \in 1 .. n /\ i # n /\ i # n + 1
      BY <1>4, <2>4
    <3>2. k \in findRules(loading, frames[i].tool) /\ k <= frames[i].at
      BY <1>9, <2>4, <3>1
    <3> QED BY <1>2, <1>4, <1>9, <3>1, <3>2, <1>0 DEF LookedAtDone
  <2> QED BY <1>4, <2>1, <2>2, <2>3, <2>4
<1>15. FinishedClosed' /\ FinishedAcyclic'
    BY <1>1, <1>2, <1>10 DEF FinishedClosed, FinishedAcyclic
<1>16. LoadingNamed' /\ VerdictCorrect' /\ LoadedRulesAcyclic'
    BY DEF ConfigInv, Descend, LoadingNamed, VerdictCorrect, LoadedRulesAcyclic
<1> QED BY <1>11, <1>12, <1>13, <1>14, <1>15, <1>16 DEF ConfigInv, SearchInv

(* Skip: the innermost call moves on, past a finished prerequisite. *)
LEMMA SkipInv ==
    ASSUME ConfigInv, Skip
    PROVE  ConfigInv'
<1>0. PICK n : n = Len(frames)
    OBVIOUS
<1>1. /\ Looking /\ pc = "search" /\ pc' = "search"
      /\ Prereq \in Finished
      /\ visited' = visited /\ recursionStack' = recursionStack
      /\ frames' = Advanced
      /\ loading' = loading
    BY DEF Skip, Looking, Finished
<1>2. /\ ConfigTypeOK /\ StackMatches /\ FramesArePath /\ LookedAtDone
      /\ FinishedClosed /\ FinishedAcyclic
    BY <1>1 DEF ConfigInv, SearchInv
<1>3. frames # <<>> /\ loading \in Seq(Rule)
    BY <1>1, <1>2 DEF Looking, ConfigTypeOK
<1>4. /\ n \in Nat /\ n > 0 /\ DOMAIN frames = 1 .. n
      /\ Top = frames[n]
    BY <1>0, <1>2, <1>3, FramesTyped
<1>5. /\ loading[Position].prereq = Prereq
      /\ \A k \in findRules(loading, Top.tool) :
             k <= Position => k <= Top.at \/ k = Position
    BY <1>1, <1>2, LookingAt DEF Prereq
<1>6. /\ frames' \in Seq(Frame) /\ Len(frames') = n
      /\ DOMAIN frames' = 1 .. n
    BY <1>0, <1>1, <1>2, <1>4, AdvancedFrames
<1>7. /\ \A i \in 1 .. n : frames'[i].tool = frames[i].tool
      /\ \A i \in 1 .. n - 1 : frames'[i] = frames[i]
      /\ frames'[n].at = Position
    BY <1>0, <1>1, <1>2, AdvancedFrames
<1>8. Finished' = Finished
    BY <1>1 DEF Finished
<1>9. ConfigTypeOK'
    BY <1>1, <1>2, <1>6 DEF Skip, ConfigTypeOK
<1>10. StackMatches'
    BY <1>1, <1>2, <1>4, <1>6, <1>7 DEF StackMatches
<1>11. FramesArePath'
  <2> SUFFICES ASSUME NEW i \in 1 .. n, i # n
               PROVE  Edge(loading, frames'[i].tool, frames'[i + 1].tool)
    BY <1>1, <1>6 DEF FramesArePath
  <2>1. i + 1 \in 1 .. n
    BY <1>4
  <2> QED BY <1>0, <1>2, <1>4, <1>7, <2>1 DEF FramesArePath
<1>12. LookedAtDone'
  <2> SUFFICES ASSUME NEW i \in 1 .. n,
                      NEW k \in findRules(loading, frames'[i].tool),
                      k <= frames'[i].at
               PROVE  \/ loading[k].prereq \in Finished
                      \/ i # n /\ loading[k].prereq = frames'[i + 1].tool
    BY <1>1, <1>6, <1>8 DEF LookedAtDone
  <2>1. CASE i = n /\ k = Position
    BY <1>1, <1>5, <2>1
  <2>2. CASE i = n /\ k # Position
    <3>1. k \in findRules(loading, frames[n].tool) /\ k <= frames[n].at
      BY <1>4, <1>5, <1>7, <2>2
    <3> QED BY <1>0, <1>2, <1>4, <3>1 DEF LookedAtDone
  <2>3. CASE i # n
    <3>1. i \in 1 .. n - 1 /\ i + 1 \in 1 .. n
      BY <1>4, <2>3
    <3>2. k \in findRules(loading, frames[i].tool) /\ k <= frames[i].at
      BY <1>7, <3>1
    <3> QED BY <1>0, <1>2, <1>4, <1>7, <2>3, <3>1, <3>2 DEF LookedAtDone
  <2> QED BY <2>1, <2>2, <2>3
<1>13. FinishedClosed' /\ FinishedAcyclic'
    BY <1>1, <1>2, <1>8 DEF FinishedClosed, FinishedAcyclic
<1>14. LoadingNamed' /\ VerdictCorrect' /\ LoadedRulesAcyclic'
    BY DEF ConfigInv, Skip, LoadingNamed, VerdictCorrect, LoadedRulesAcyclic
<1> QED BY <1>9, <1>10, <1>11, <1>12, <1>13, <1>14 DEF ConfigInv, SearchInv

(* BackEdge: the active calls from the tool met again up to the innermost  *)
(* one are a circular dependency.                                          *)
LEMMA BackEdgeInv ==
    ASSUME ConfigInv, BackEdge
    PROVE  ConfigInv'
<1>0. PICK n : n = Len(frames)
    OBVIOUS
<1>1. /\ Looking /\ pc = "search" /\ pc' = "idle"
      /\ Prereq \in recursionStack
      /\ verdict' = "circular"
      /\ loading' = loading
      /\ UNCHANGED <<rules, loading, visited, recursionStack, frames,
                     registered, loads>>
    BY DEF BackEdge, Looking, search
<1>2. ConfigTypeOK /\ StackMatches /\ FramesArePath
    BY <1>1 DEF ConfigInv, SearchInv
<1>3. frames # <<>> /\ loading \in Seq(Rule)
    BY <1>1, <1>2 DEF Looking, ConfigTypeOK
<1>4. /\ n \in Nat /\ n > 0 /\ DOMAIN frames = 1 .. n
      /\ \A i \in 1 .. n : frames[i].tool \in Nodes
      /\ Top = frames[n]
    BY <1>0, <1>2, <1>3, FramesTyped
<1>5. Edge(loading, Top.tool, Prereq)
    BY <1>1, <1>2, LookingAt
<1>6. PICK m \in 1 .. n : frames[m].tool = Prereq
    BY <1>1, <1>2, <1>4 DEF StackMatches
<1> DEFINE S == {frames[i].tool : i \in m .. n}
<1>7. \A t \in S : \E u \in S : Edge(loading, t, u)
  <2> SUFFICES ASSUME NEW i \in m .. n
               PROVE  \E u \in S : Edge(loading, frames[i].tool, u)
    OBVIOUS
  <2>1. CASE i = n
    <3>1. Prereq \in S
      BY <1>4, <1>6
    <3> QED BY <1>4, <1>5, <2>1, <3>1
  <2>2. CASE i # n
    <3>1. i \in 1 .. n /\ i + 1 \in m .. n
      BY <1>4, <2>2
    <3>2. Edge(loading, frames[i].tool, frames[i + 1].tool)
      BY <1>0, <1>2, <1>4, <2>2, <3>1 DEF FramesArePath
    <3> QED BY <3>1, <3>2
  <2> QED BY <2>1, <2>2
<1>8. S \in SUBSET Tools
  <2> SUFFICES ASSUME NEW i \in m .. n
               PROVE  frames[i].tool \in Tools
    OBVIOUS
  <2>1. PICK u \in S : Edge(loading, frames[i].tool, u)
    BY <1>7
  <2>2. frames[i].tool \in Nodes
    BY <1>4
  <2> QED BY <2>1, <2>2, NoToolHasNoRules DEF ConfigInv
<1>9. Prereq \in S
    BY <1>4, <1>6
<1>10. HasCycle(loading)
    BY <1>7, <1>8, <1>9 DEF HasCycle, Circular
<1>11. ConfigTypeOK'
    BY <1>1, <1>2 DEF ConfigTypeOK
<1>12. VerdictCorrect'
    BY <1>1, <1>10 DEF VerdictCorrect
<1>13. LoadingNamed' /\ LoadedRulesAcyclic' /\ SearchInv'
    BY <1>1 DEF ConfigInv, LoadingNamed, LoadedRulesAcyclic, SearchInv
<1> QED BY <1>11, <1>12, <1>13 DEF ConfigInv

(* Return: the innermost tool is finished.  Its prerequisites all are, so  *)
(* a cycle through it would be a cycle of finished tools without it.       *)
LEMMA ReturnInv ==
    ASSUME ConfigInv, Return
    PROVE  ConfigInv'
<1>0. PICK n : n = Len(frames)
    OBVIOUS
<1>1. /\ pc = "search" /\ pc' = "search"
      /\ frames # <<>>
      /\ RulesAfter(loading, Top.tool, Top.at) = {}
      /\ visited' = visited
      /\ recursionStack' = recursionStack \ {Top.tool}
      /\ frames' = SubSeq(frames, 1, n - 1)
      /\ loading' = loading
    BY <1>0 DEF Return
<1>2. /\ ConfigTypeOK /\ StackMatches /\ FramesArePath /\ LookedAtDone
      /\ FinishedClosed /\ FinishedAcyclic
    BY <1>1 DEF ConfigInv, SearchInv
<1>3. /\ loading \in Seq(Rule) /\ frames \in Seq(Frame)
      /\ recursionStack \subseteq visited
    BY <1>1, <1>2 DEF ConfigTypeOK
<1>4. /\ n \in Nat /\ n > 0 /\ DOMAIN frames = 1 .. n
      /\ \A i \in 1 .. n : frames[i].at \in Nat
      /\ Top = frames[n]
    BY <1>0, <1>1, <1>2, FramesTyped
<1>5. PICK t : t = Top.tool
    OBVIOUS
<1>6. t \in recursionStack /\ t = frames[n].tool
    BY <1>2, <1>4, <1>5 DEF StackMatches
<1>7. Finished' = Finished \cup {t} /\ t \notin Finished
    BY <1>1, <1>3, <1>5, <1>6 DEF Finished
<1>8. /\ frames' \in Seq(Frame) /\ Len(frames') = n - 1
      /\ DOMAIN frames' = 1 .. n - 1
      /\ \A i \in 1 .. n - 1 : frames'[i] = frames[i]
  <2>1. \A i \in 1 .. n - 1 : frames[i] \in Frame
    BY <1>3, <1>4
  <2>2. frames' = [i \in 1 .. n - 1 |-> frames[i]]
    BY <1>0, <1>1, <1>3, <1>4
  <2> QED BY <1>4, <2>1, <2>2
(* Everything the innermost call looked at is finished. *)
<1>9. \A u \in Nodes : Edge(loading, t, u) => u \in Finished
  <2> SUFFICES ASSUME NEW k \in findRules(loading, t)
               PROVE  loading[k].prereq \in Finished
    BY DEF Edge
  <2>1. k \in Nat
    BY <1>3, RuleAt
  <2>2. ~ (k > frames[n].at)
    BY <1>1, <1>4, <1>5, <1>6 DEF RulesAfter
  <2>3. k <= frames[n].at
    BY <1>4, <2>1, <2>2
  <2> QED BY <1>0, <1>2, <1>4, <1>6, <2>3 DEF LookedAtDone
<1>10. ConfigTypeOK'
    BY <1>1, <1>2, <1>8 DEF Return, ConfigTypeOK
<1>11. StackMatches'
  <2>1. \A i \in 1 .. n - 1 : frames[i].tool # t
    <3>1. \A i \in 1 .. n - 1 : i \in 1 .. n /\ i # n
      BY <1>4
    <3>2. n \in 1 .. n
      BY <1>4
    <3> QED BY <1>2, <1>4, <1>6, <3>1, <3>2 DEF StackMatches
  <2>2. \A i \in 1 .. n : i = n \/ i \in 1 .. n - 1
    BY <1>4
  <2>3. \A i \in 1 .. n - 1 : i \in 1 .. n
    BY <1>4
  <2>4. recursionStack = {frames[i].tool : i \in 1 .. n}
    BY <1>2, <1>4 DEF StackMatches
  <2>5. recursionStack' = {frames[i].tool : i \in 1 .. n - 1}
    BY <1>1, <1>5, <1>6, <2>1, <2>2, <2>3, <2>4
  <2>6. recursionStack' = {frames'[i].tool : i \in DOMAIN frames'}
    BY <1>8, <2>5
  <2>7. \A i, j \in DOMAIN frames' : frames'[i].tool = frames'[j].tool => i = j
    BY <1>2, <1>4, <1>8, <2>3 DEF StackMatches
  <2> QED BY <2>6, <2>7 DEF StackMatches
<1>12. FramesArePath'
  <2> SUFFICES ASSUME NEW i \in 1 .. n - 1, i # n - 1
               PROVE  Edge(loading, frames'[i].tool, frames'[i + 1].tool)
    BY <1>1, <1>8 DEF FramesArePath
  <2>1. i \in 1 .. n /\ i # n /\ i + 1 \in 1 .. n - 1
    BY <1>4
  <2> QED BY <1>0, <1>2, <1>4, <1>8, <2>1 DEF FramesArePath
<1>13. LookedAtDone'
  <2> SUFFICES ASSUME NEW i \in 1 .. n - 1,
                      NEW k \in findRules(loading, frames[i].tool),
                      k <= frames[i].at
               PROVE  \/ loading[k].prereq \in Finished'
                      \/ i # n - 1 /\ loading[k].prereq = frames'[i + 1].tool
    BY <1>1, <1>8 DEF LookedAtDone
  <2>1. i \in 1 .. n /\ i # n
    BY <1>4
  <2>2. \/ loading[k].prereq \in Finished
        \/ loading[k].prereq = frames[i + 1].tool
    BY <1>0, <1>2, <1>4, <2>1 DEF LookedAtDone
  <2>3. CASE i = n - 1
    <3>1. i + 1 = n
      BY <1>4, <2>3
    <3> QED BY <1>6, <1>7, <2>2, <3>1
  <2>4. CASE i # n - 1
    <3>1. i + 1 \in 1 .. n - 1
      BY <1>4, <2>4
    <3> QED BY <1>7, <1>8, <2>2, <2>4, <3>1
  <2> QED BY <2>3, <2>4
<1>14. FinishedClosed'
    BY <1>1, <1>2, <1>7, <1>9 DEF FinishedClosed
<1>15. FinishedAcyclic'
  <2> SUFFICES ASSUME NEW S \in SUBSET (Finished \cup {t}),
                      Circular(loading, S)
               PROVE  FALSE
    BY <1>1, <1>7 DEF FinishedAcyclic
  <2>1. S \subseteq Nodes
    BY <1>2, <1>3, <1>6 DEF Finished, ConfigTypeOK
  <2>2. \A s \in S : \E u \in S \ {t} : Edge(loading, s, u)
    <3> SUFFICES ASSUME NEW s \in S
                 PROVE  \E u \in S \ {t} : Edge(loading, s, u)
      OBVIOUS
    <3>1. PICK u \in S : Edge(loading, s, u)
      BY DEF Circular
    <3>2. u \in Finished
      BY <1>2, <1>9, <2>1, <3>1 DEF FinishedClosed
    <3> QED BY <1>7, <3>1, <3>2
  <2>3. S # {}
    BY DEF Circular
  <2>4. Circular(loading, S \ {t})
    BY <2>2, <2>3 DEF Circular
  <2>5. S \ {t} \in SUBSET Finished
    OBVIOUS
  <2> QED BY <1>2, <2>4, <2>5 DEF FinishedAcyclic
<1>16. LoadingNamed' /\ VerdictCorrect' /\ LoadedRulesAcyclic'
    BY DEF ConfigInv, Return, LoadingNamed, VerdictCorrect, LoadedRulesAcyclic
<1> QED
    BY <1>10, <1>11, <1>12, <1>13, <1>14, <1>15, <1>16 DEF ConfigInv, SearchInv

(* Install: every tool that has a prerequisite is finished. *)
LEMMA InstallInv ==
    ASSUME ConfigInv, Install
    PROVE  ConfigInv'
<1>1. /\ pc = "search" /\ pc' = "idle" /\ frames = <<>>
      /\ \A i \in DOMAIN loading : loading[i].tool \in visited
      /\ rules' = loading /\ loading' = loading
      /\ verdict' = "accepted" /\ registered' = FALSE
      /\ UNCHANGED <<visited, recursionStack, frames, loads>>
    BY DEF Install, search
<1>2. ConfigTypeOK /\ StackMatches /\ FinishedAcyclic
    BY <1>1 DEF ConfigInv, SearchInv
<1>3. recursionStack = {}
    BY <1>1, <1>2 DEF StackMatches
<1>4. ASSUME NEW S \in SUBSET Tools, Circular(loading, S) PROVE FALSE
  <2>1. S \subseteq visited
    BY <1>1, <1>4 DEF Circular, Edge, findRules
  <2> QED BY <1>2, <1>3, <1>4, <2>1 DEF FinishedAcyclic, Finished
<1>5. ~HasCycle(loading)
    BY <1>4 DEF HasCycle
<1>6. ConfigTypeOK'
    BY <1>1, <1>2 DEF ConfigTypeOK
<1>7. VerdictCorrect' /\ LoadedRulesAcyclic'
    BY <1>1, <1>5 DEF VerdictCorrect, LoadedRulesAcyclic
<1>8. SearchInv' /\ LoadingNamed'
    BY <1>1 DEF ConfigInv, SearchInv, LoadingNamed
<1> QED BY <1>6, <1>7, <1>8 DEF ConfigInv

(* The steps outside the search. *)
LEMMA LoadInv ==
    ASSUME ConfigInv, LoadConfiguration
    PROVE  ConfigInv'
<1>1. PICK f \in Files \cup {Undecodable} : StartLoad(f) \/ LoadFails(f)
    BY DEF LoadConfiguration
<1>2. pc = "idle" /\ loads \in Nat
    BY DEF LoadConfiguration, ConfigInv, ConfigTypeOK
<1>3. CASE StartLoad(f)
  <2>1. /\ visited' = {} /\ recursionStack' = {} /\ frames' = <<>>
        /\ loading' \in Seq(Rule) /\ LoadingNamed'
    BY <1>3, LoadTyped DEF StartLoad, LoadingNamed
  <2>2. ConfigTypeOK'
    BY <1>2, <1>3, <2>1, EmptySeq DEF ConfigInv, StartLoad, ConfigTypeOK
  <2>3. SearchInv'
    BY <2>1 DEF SearchInv, StackMatches, FramesArePath, LookedAtDone,
                FinishedClosed, FinishedAcyclic, Finished, Circular
  <2>4. VerdictCorrect' /\ LoadedRulesAcyclic'
    BY <1>3 DEF ConfigInv, StartLoad, VerdictCorrect, LoadedRulesAcyclic
  <2> QED BY <2>1, <2>2, <2>3, <2>4 DEF ConfigInv
<1>4. CASE LoadFails(f)
  <2>1. ConfigTypeOK'
    BY <1>2, <1>4 DEF ConfigInv, LoadFails, search, ConfigTypeOK
  <2>2. SearchInv' /\ LoadingNamed' /\ VerdictCorrect' /\ LoadedRulesAcyclic'
    BY <1>2, <1>4 DEF ConfigInv, LoadFails, search, SearchInv, LoadingNamed,
                      VerdictCorrect, LoadedRulesAcyclic
  <2> QED BY <2>1, <2>2 DEF ConfigInv
<1> QED BY <1>1, <1>3, <1>4

LEMMA BootInv ==
    ASSUME ConfigInv, Boot
    PROVE  ConfigInv'
<1>1. PICK f \in Files \cup {Undecodable} : BootDemo(f) \/ BootFails(f)
    BY DEF Boot
<1>2. pc = "idle" /\ rules = <<>>
    BY DEF Boot
<1>3. CASE BootDemo(f)
  <2>1. rules' \in Seq(Rule)
    BY <1>2, <1>3, LoadTyped, EmptySeq, ConcatProperties DEF BootDemo
  <2>2. ConfigTypeOK'
    BY <1>3, <2>1, LoadBoundsAssumption
       DEF ConfigInv, BootDemo, search, ConfigTypeOK
  <2>3. SearchInv' /\ LoadingNamed' /\ VerdictCorrect' /\ LoadedRulesAcyclic'
    BY <1>2, <1>3 DEF ConfigInv, BootDemo, search, SearchInv, LoadingNamed,
                      VerdictCorrect, LoadedRulesAcyclic
  <2> QED BY <2>2, <2>3 DEF ConfigInv
<1>4. CASE BootFails(f)
    BY <1>2, <1>4 DEF ConfigInv, BootFails, search, ConfigTypeOK, SearchInv,
                      LoadingNamed, VerdictCorrect, LoadedRulesAcyclic
<1> QED BY <1>1, <1>3, <1>4

LEMMA RegisterInv ==
    ASSUME ConfigInv, NEW r \in Rule, RegisterRule(r)
    PROVE  ConfigInv'
<1>1. rules' \in Seq(Rule)
    BY DEF ConfigInv, ConfigTypeOK, RegisterRule, Registered
<1> QED
    BY <1>1 DEF ConfigInv, RegisterRule, search, ConfigTypeOK, SearchInv,
                LoadingNamed, VerdictCorrect, LoadedRulesAcyclic

LEMMA StutterInv ==
    ASSUME ConfigInv, UNCHANGED vars
    PROVE  ConfigInv'
<1>1. UNCHANGED <<rules, pc, loading, visited, recursionStack, frames, verdict,
                  registered, loads>>
    BY DEF vars
<1>2. ConfigTypeOK' /\ LoadingNamed' /\ VerdictCorrect' /\ LoadedRulesAcyclic'
    BY <1>1 DEF ConfigInv, ConfigTypeOK, LoadingNamed, VerdictCorrect,
                LoadedRulesAcyclic
<1>3. SearchInv'
    BY <1>1 DEF ConfigInv, SearchInv, StackMatches, FramesArePath, LookedAtDone,
                FinishedClosed, FinishedAcyclic, Finished
<1> QED BY <1>2, <1>3 DEF ConfigInv

LEMMA NextConfig == ConfigInv /\ [Next]_vars => ConfigInv'
<1> SUFFICES ASSUME ConfigInv, [Next]_vars PROVE ConfigInv'
    OBVIOUS
<1>1. CASE LoadConfiguration
    BY <1>1, LoadInv
<1>2. CASE Boot
    BY <1>2, BootInv
<1>3. CASE Validation
    BY <1>3, VisitInv, DescendInv, SkipInv, BackEdgeInv, ReturnInv, InstallInv
       DEF Validation
<1>4. ASSUME NEW t \in Tools, NEW u \in Tools \cup {NoTool},
             RegisterRule([tool |-> t, prereq |-> u,
                           expiry |-> DefaultExpiry, oneTime |-> FALSE])
      PROVE  ConfigInv'
  <2>1. [tool |-> t, prereq |-> u, expiry |-> DefaultExpiry,
         oneTime |-> FALSE] \in Rule
    BY ExpiryAssumption DEF Rule
  <2> QED BY <1>4, <2>1, RegisterInv
<1>5. CASE Served \/ UNCHANGED vars
    BY <1>5, StutterInv DEF Served
<1> QED BY <1>1, <1>2, <1>3, <1>4, <1>5 DEF Next

(* Validate is right: for every rule set and every order of the search it  *)
(* answers ErrCircularDependency exactly when the rules are circular.      *)
THEOREM CycleCheckCorrect == Spec => []VerdictCorrect
<1>1. ConfigInv => VerdictCorrect
    BY DEF ConfigInv
<1> QED BY <1>1, InitConfig, NextConfig, PTL DEF Spec

(* A service configured by LoadConfiguration never holds circular rules.   *)
THEOREM LoadedRulesStayAcyclic == Spec => []LoadedRulesAcyclic
<1>1. ConfigInv => LoadedRulesAcyclic
    BY DEF ConfigInv
<1> QED BY <1>1, InitConfig, NextConfig, PTL DEF Spec

(* The variables of the loader and of the search keep their types. *)
THEOREM ConfigTypeCorrect == Spec => []ConfigTypeOK
<1>1. ConfigInv => ConfigTypeOK
    BY DEF ConfigInv
<1> QED BY <1>1, InitConfig, NextConfig, PTL DEF Spec
=============================================================================
