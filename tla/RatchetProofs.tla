--------------------------- MODULE RatchetProofs ---------------------------
(***************************************************************************)
(* Proofs about RatchetCalls, for every number of calls, tools, sessions   *)
(* and every set of valid rules: the type invariant, and that the order of *)
(* calls is enforced whatever calls overlap, by the model itself and as a  *)
(* refinement of Gate.                                                     *)
(***************************************************************************)
EXTENDS RatchetProperties, DomainProofs, SequenceTheorems

(***************************************************************************)
(* Facts about the operators of the model.                                 *)
(***************************************************************************)

(* The configured rules are rules. *)
LEMMA RulesTyped ==
    ASSUME TypeOK
    PROVE  /\ rules \in Seq(Rule)
           /\ \A i \in DOMAIN rules : /\ rules[i] \in Rule
                                      /\ rules[i].prereq \in Tools \cup {NoTool}
<1>1. rules \in Seq(Rule)
    BY ConfigsAssumption DEF TypeOK, VariablesTyped
<1>2. \A i \in DOMAIN rules : rules[i] \in Rule
    BY <1>1
<1> QED BY <1>1, <1>2 DEF Rule

(* The locals of a call that is not running. *)
LEMMA IdleTyped == Idle \in Locals
<1>1. \E s \in Sessions : TRUE
    BY SessionsAssumption
<1>2. \E t \in Tools : TRUE
    BY ToolsAssumption
<1> QED BY <1>1, <1>2 DEF Idle, Locals, Header, NoSession, NoToken

(* The lifetime of a token is a natural number. *)
LEMMA ExpiryTyped ==
    ASSUME NEW rs \in Seq(Rule), NEW t
    PROVE  TokenExpiry(rs, t) \in Nat
<1>1. CASE findRule(rs, t) # 0 /\ rs[findRule(rs, t)].expiry > 0
  <2>1. rs[findRule(rs, t)] \in Rule
    BY <1>1, FindRuleFinds DEF findRules
  <2> QED BY <1>1, <2>1 DEF TokenExpiry, Rule
<1>2. CASE ~ (findRule(rs, t) # 0 /\ rs[findRule(rs, t)].expiry > 0)
    BY <1>2, ExpiryAssumption DEF TokenExpiry
<1> QED BY <1>1, <1>2

(* What GetValidTokens returns last is a token value. *)
LEMMA LastValidTyped ==
    ASSUME TypeOK, NEW s \in Sessions, NEW t \in Tools, ValidTokens(s, t) # {}
    PROVE  LastValidToken(s, t) \in Nat
<1>1. tokens[s][t] \in Seq(Entry)
    BY DEF TypeOK, VariablesTyped
<1>2. /\ Len(tokens[s][t]) \in Nat
      /\ ValidTokens(s, t) \in SUBSET (1 .. Len(tokens[s][t]))
    BY <1>1 DEF ValidTokens
<1>3. \E i \in ValidTokens(s, t) : \A j \in ValidTokens(s, t) : j <= i
    BY <1>2, GreatestOf
<1>4. PICK i \in ValidTokens(s, t) : LastValidToken(s, t) = tokens[s][t][i].value
    BY <1>3 DEF LastValidToken
<1>5. tokens[s][t][i] \in Entry
    BY <1>1, <1>2, <1>4
<1> QED BY <1>4, <1>5 DEF Entry

(* What a slice of a sequence is, and what RemoveAt returns. *)
LEMMA SliceIs ==
    ASSUME NEW E, NEW q \in Seq(E), NEW m \in 1 .. Len(q) + 1, NEW n \in 0 .. Len(q)
    PROVE  /\ SubSeq(q, m, n) \in Seq(E)
           /\ Len(SubSeq(q, m, n)) = IF m <= n THEN n - m + 1 ELSE 0
           /\ \A i \in 1 .. n - m + 1 : SubSeq(q, m, n)[i] = q[m + i - 1]
OBVIOUS

(* What RemoveAt returns: the sequence without its entry c. *)
LEMMA RemoveAtTyped ==
    ASSUME NEW E, NEW q \in Seq(E), NEW c \in 1 .. Len(q)
    PROVE  /\ RemoveAt(q, c) \in Seq(E) /\ Len(RemoveAt(q, c)) = Len(q) - 1
           /\ \A i \in 1 .. Len(q) - 1 :
                 RemoveAt(q, c)[i] = q[IF i < c THEN i ELSE i + 1]
<1> DEFINE l == SubSeq(q, 1, c - 1)
           r == SubSeq(q, c + 1, Len(q))
<1>1. /\ Len(q) \in Nat /\ 1 \in 1 .. Len(q) + 1 /\ Len(q) \in 0 .. Len(q)
      /\ c - 1 \in 0 .. Len(q) /\ c + 1 \in 1 .. Len(q) + 1
    OBVIOUS
<1>2. l \in Seq(E) /\ r \in Seq(E)
    BY <1>1, SliceIs
<1>3. /\ Len(l) = (IF 1 <= c - 1 THEN c - 1 - 1 + 1 ELSE 0)
      /\ \A i \in 1 .. c - 1 - 1 + 1 : l[i] = q[1 + i - 1]
    BY <1>1, SliceIs
<1>4. /\ Len(r) = (IF c + 1 <= Len(q) THEN Len(q) - (c + 1) + 1 ELSE 0)
      /\ \A i \in 1 .. Len(q) - (c + 1) + 1 : r[i] = q[c + 1 + i - 1]
    BY <1>1, SliceIs
<1>5. /\ l \o r \in Seq(E) /\ Len(l \o r) = Len(l) + Len(r)
      /\ \A i \in 1 .. Len(l) + Len(r) :
            (l \o r)[i] = IF i <= Len(l) THEN l[i] ELSE r[i - Len(l)]
    BY <1>2, ConcatProperties
<1> HIDE DEF l, r
<1>6. Len(l) = c - 1 /\ Len(r) = Len(q) - c
    BY <1>1, <1>3, <1>4
<1>7. \A i \in 1 .. Len(q) - 1 : (l \o r)[i] = q[IF i < c THEN i ELSE i + 1]
  <2> SUFFICES ASSUME NEW i \in 1 .. Len(q) - 1
               PROVE  (l \o r)[i] = q[IF i < c THEN i ELSE i + 1]
    OBVIOUS
  <2>1. CASE i < c
    <3>1. i \in 1 .. c - 1 - 1 + 1 /\ 1 + i - 1 = i /\ i <= Len(l) /\ i \in 1 .. Len(l) + Len(r)
        BY <1>6, <2>1
    <3> QED BY <1>3, <1>5, <2>1, <3>1
  <2>2. CASE ~ (i < c)
    <3> DEFINE j == i - Len(l)
    <3>1. /\ j \in 1 .. Len(q) - (c + 1) + 1 /\ c + 1 + j - 1 = i + 1
          /\ ~ (i <= Len(l)) /\ i \in 1 .. Len(l) + Len(r)
        BY <1>6, <2>2
    <3>2. (l \o r)[i] = r[j]
        BY <1>5, <3>1
    <3> HIDE DEF j
    <3>3. r[j] = q[i + 1]
        BY <1>4, <3>1
    <3> QED BY <2>2, <3>2, <3>3
  <2> QED BY <2>1, <2>2
<1>8. RemoveAt(q, c) = l \o r
    BY DEF RemoveAt, l, r
<1>9. Len(l \o r) = Len(q) - 1
    BY <1>1, <1>5, <1>6
<1> QED BY <1>5, <1>7, <1>8, <1>9

(* RemoveToken cuts out one entry, which holds the token. *)
LEMMA RemoveTyped ==
    ASSUME TypeOK, NEW s \in Sessions, NEW t \in Tools, NEW v, Holds(s, t, v),
           RemoveToken(s, t, v)
    PROVE  /\ tokens' \in [Sessions -> [Tools -> Seq(Entry)]]
           /\ \E c \in DOMAIN tokens[s][t] :
                 /\ tokens[s][t][c].value = v
                 /\ tokens' = [tokens EXCEPT ![s] =
                                 [tokens[s] EXCEPT ![t] = RemoveAt(tokens[s][t], c)]]
<1> DEFINE q == tokens[s][t]
           A == {i \in DOMAIN q : q[i].value = v}
           First(i) == q[i].value = v /\ \A j \in DOMAIN q : q[j].value = v => i <= j
           c == CHOOSE i \in DOMAIN q : First(i)
<1>1. tokens \in [Sessions -> [Tools -> Seq(Entry)]] /\ q \in Seq(Entry)
    BY DEF TypeOK, VariablesTyped
<1>2. A \in SUBSET Nat /\ A # {}
    BY <1>1 DEF Holds
<1>3. \E i \in A : \A j \in A : i <= j
    BY <1>2, LeastOf
<1>4. \E i \in DOMAIN q : First(i)
    BY <1>3
<1>5. c \in DOMAIN q /\ q[c].value = v
    BY <1>4
<1>6. RemoveAt(q, c) \in Seq(Entry)
    BY <1>1, <1>5, RemoveAtTyped
<1>7. tokens' = [tokens EXCEPT ![s] = [tokens[s] EXCEPT ![t] = RemoveAt(q, c)]]
    BY <1>1 DEF RemoveToken
<1> QED BY <1>1, <1>5, <1>6, <1>7

(***************************************************************************)
(* The type invariant.  Most steps leave the heaps alone and move one call *)
(* from one step to another: the two frame lemmas say what is left to show *)
(* for them.                                                               *)
(***************************************************************************)

(* Copies are valid after a step that leaves the session store alone. *)
LEMMA FrameCopies ==
    ASSUME TypeOK, UNCHANGED svars, NEW p \in Calls, NEW x, NEW c,
           pc' = [pc EXCEPT ![p] = x], call' = [call EXCEPT ![p] = c],
           x \in HoldsCopy => ValidHeader(c.ses, c.hdr)
    PROVE  CopiesValid'
<1>1. ASSUME NEW s, NEW h, ValidHeader(s, h) PROVE ValidHeader(s, h)'
    BY <1>1 DEF svars, ValidHeader
<1>2. \A s \in Sessions : Exists(s)' => ValidHeader(s, sessions[s])'
    BY <1>1 DEF TypeOK, CopiesValid, Exists, svars
<1>3. ASSUME NEW q \in Calls, pc'[q] \in HoldsCopy
      PROVE  ValidHeader(call[q].ses, call[q].hdr)'
  <2>1. CASE q = p
    BY <1>1, <1>3, <2>1 DEF TypeOK, VariablesTyped
  <2>2. CASE q # p
    BY <1>1, <1>3, <2>2 DEF TypeOK, VariablesTyped, CopiesValid, S, H
  <2> QED BY <2>1, <2>2
<1> QED BY <1>2, <1>3 DEF CopiesValid, S, H

(* The rule in hand is right after a step of one call. *)
LEMMA FrameRules ==
    ASSUME TypeOK, UNCHANGED rules, NEW p \in Calls, NEW x, NEW c,
           pc' = [pc EXCEPT ![p] = x], call' = [call EXCEPT ![p] = c],
           x \in Validating => Gated(rules, c.tool),
           x \in KeepsRule => /\ c.rule \in findRules(rules, c.tool)
                              /\ rules[c.rule].prereq \in Tools
    PROVE  RulesInHand'
<1> SUFFICES ASSUME NEW q \in Calls
             PROVE  /\ pc'[q] \in Validating => Gated(rules, call'[q].tool)
                    /\ pc'[q] \in KeepsRule =>
                          /\ call'[q].rule \in findRules(rules, call'[q].tool)
                          /\ rules[call'[q].rule].prereq \in Tools
    BY DEF RulesInHand, T, Required
<1>1. CASE q = p
    BY <1>1 DEF TypeOK, VariablesTyped
<1>2. CASE q # p
    BY <1>2 DEF TypeOK, VariablesTyped, RulesInHand, T, Required
<1> QED BY <1>1, <1>2

(* The wrapper, up to ValidateToolCall. *)
LEMMA WrapperTyped ==
    ASSUME TypeOK, NEW p \in Calls,
           \/ Begin(p) \/ WrapGet(p) \/ CreateGet(p) \/ CreateFails(p) \/ ReadToken(p)
    PROVE  TypeOK'
<1> USE DEF At, Goto, Set, Keep, S, T, H
<1>1. CASE Begin(p)
  <2>0. PICK s \in Sessions, t \in Tools :
            call' = [call EXCEPT ![p] = [Idle EXCEPT !.ses = s, !.tool = t]]
    BY <1>1 DEF Begin
  <2>a. [Idle EXCEPT !.ses = s, !.tool = t] \in Locals
    BY IdleTyped DEF Locals
  <2>c. begun' = begun + 1 /\ begun < MaxCalls /\ begun \in 0 .. MaxCalls
    BY <1>1 DEF Begin, TypeOK, VariablesTyped
  <2>b. begun' \in 0 .. MaxCalls
    BY <2>c, BoundsAssumption
  <2>1. VariablesTyped'
    BY <1>1, <2>0, <2>a, <2>b DEF TypeOK, VariablesTyped, Begin, Steps, tvars, svars, hvars
  <2>2. CopiesValid'
    BY <1>1, FrameCopies DEF Begin, HoldsCopy
  <2>3. RulesInHand'
    BY <1>1, FrameRules DEF Begin, KeepsRule, Validating
  <2> QED BY <2>1, <2>2, <2>3 DEF TypeOK
<1>2. CASE WrapGet(p)
  <2>1. VariablesTyped'
    BY <1>2 DEF TypeOK, VariablesTyped, WrapGet, Steps, Locals, gvars, tvars, svars, hvars
  <2>2. CopiesValid'
    BY <1>2, FrameCopies DEF WrapGet, HoldsCopy, TypeOK, VariablesTyped, CopiesValid, Locals
  <2>3. RulesInHand'
    BY <1>2, FrameRules DEF WrapGet, KeepsRule, Validating, gvars
  <2> QED BY <2>1, <2>2, <2>3 DEF TypeOK
<1>3. CASE CreateGet(p)
  <2>1. VariablesTyped'
    BY <1>3 DEF TypeOK, VariablesTyped, CreateGet, Steps, Locals, gvars, tvars, svars, hvars
  <2>2. CopiesValid'
    BY <1>3, FrameCopies DEF CreateGet, HoldsCopy, TypeOK, VariablesTyped, CopiesValid, Locals
  <2>3. RulesInHand'
    BY <1>3, FrameRules DEF CreateGet, KeepsRule, Validating, gvars
  <2> QED BY <2>1, <2>2, <2>3 DEF TypeOK
<1>4. CASE CreateFails(p)
  <2>0. call' = [call EXCEPT ![p] = call[p]]
    BY <1>4 DEF CreateFails, TypeOK, VariablesTyped
  <2>1. VariablesTyped'
    BY <1>4 DEF TypeOK, VariablesTyped, CreateFails, Steps, gvars, tvars, svars, hvars
  <2>2. CopiesValid'
    BY <1>4, <2>0, FrameCopies DEF CreateFails, HoldsCopy
  <2>3. RulesInHand'
    BY <1>4, <2>0, FrameRules DEF CreateFails, KeepsRule, Validating, gvars
  <2> QED BY <2>1, <2>2, <2>3 DEF TypeOK
<1>5. CASE ReadToken(p)
  <2>0. TokensOf(H(p), T(p)) \in Seq(Nat)
    BY <1>5 DEF ReadToken, TokensOf, TypeOK, VariablesTyped, CopiesValid, ValidHeader,
       HoldsCopy, Locals
  <2>a. ASSUME NEW ts \in Seq(Nat) PROVE (IF ts = <<>> THEN NoToken ELSE ts[Len(ts)]) \in Nat
    BY <2>a DEF NoToken
  <2>c. PICK n \in Nat : call' = [call EXCEPT ![p] = [call[p] EXCEPT !.tok = n]]
    BY <1>5, <2>0, <2>a DEF ReadToken
  <2>b. call' \in [Calls -> Locals]
    BY <2>c DEF TypeOK, VariablesTyped, Locals
  <2>1. VariablesTyped'
    BY <1>5, <2>b DEF TypeOK, VariablesTyped, ReadToken, Steps, gvars, tvars, svars, hvars
  <2>2. CopiesValid'
    BY <1>5, FrameCopies DEF ReadToken, HoldsCopy
  <2>3. RulesInHand'
    BY <1>5, FrameRules DEF ReadToken, KeepsRule, Validating, gvars
  <2> QED BY <2>1, <2>2, <2>3 DEF TypeOK
<1> QED BY <1>1, <1>2, <1>3, <1>4, <1>5

(* Emitted events are counted in natural numbers. *)
LEMMA EmitTyped ==
    ASSUME TypeOK, NEW E, Emit(E)
    PROVE  events' \in [EventTypes -> Nat]
BY DEF TypeOK, VariablesTyped, Emit

(* A call that returns leaves nothing to show. *)
LEMMA ReturnTyped ==
    ASSUME TypeOK, NEW p \in Calls, Return(p), UNCHANGED rules
    PROVE  /\ pc' \in [Calls -> Steps]
           /\ call' \in [Calls -> Locals]
           /\ UNCHANGED svars => CopiesValid'
           /\ RulesInHand'
<1>1. pc' = [pc EXCEPT ![p] = "idle"] /\ call' = [call EXCEPT ![p] = Idle]
    BY DEF Return, Goto, Set
<1>2. UNCHANGED svars => CopiesValid'
    BY <1>1, FrameCopies DEF HoldsCopy
<1>3. RulesInHand'
    BY <1>1, FrameRules DEF KeepsRule, Validating
<1> QED BY <1>1, <1>2, <1>3, IdleTyped DEF TypeOK, VariablesTyped, Steps

(* After a rule that is not satisfied: the next rule, or the end. *)
LEMMA RuleFailsTyped ==
    ASSUME TypeOK, NEW p \in Calls, pc[p] \in {"history", "tokens"},
           RuleFails(p), UNCHANGED <<rules, svars>>
    PROVE  /\ pc' \in [Calls -> Steps]
           /\ call' \in [Calls -> Locals]
           /\ events' \in [EventTypes -> Nat]
           /\ CopiesValid'
           /\ RulesInHand'
<1> DEFINE n == NextRule(rules, T(p), call[p].rule)
<1>1. CASE RulesAfter(rules, T(p), call[p].rule) # {}
  <2>1. /\ pc' = [pc EXCEPT ![p] = "history"]
        /\ call' = [call EXCEPT ![p] = [call[p] EXCEPT !.rule = n]]
        /\ events' = events
    BY <1>1 DEF RuleFails, Goto, Set
  <2>2. call[p] \in Locals /\ call[p].rule \in Nat
    BY DEF TypeOK, VariablesTyped, Locals
  <2>3. n \in findRules(rules, T(p)) /\ n \in Nat
    BY <1>1, <2>2, RulesTyped, NextRuleFinds
  <2>4. Gated(rules, T(p)) /\ ValidHeader(S(p), H(p))
    BY DEF TypeOK, RulesInHand, CopiesValid, Validating, HoldsCopy
  <2>5. rules[n].prereq \in Tools
    BY <2>3, <2>4, RulesTyped DEF Gated, findRules
  <2>6. [call[p] EXCEPT !.rule = n] \in Locals
    BY <2>2, <2>3 DEF Locals
  <2>7. CopiesValid'
    BY <2>1, <2>2, <2>4, FrameCopies DEF S, H, Locals
  <2>8. RulesInHand'
    BY <2>1, <2>2, <2>3, <2>4, <2>5, FrameRules DEF T, Locals
  <2> QED BY <2>1, <2>6, <2>7, <2>8 DEF TypeOK, VariablesTyped, Steps
<1>2. CASE RulesAfter(rules, T(p), call[p].rule) = {}
    BY <1>2, ReturnTyped, EmitTyped DEF RuleFails
<1> QED BY <1>1, <1>2

(* ValidateToolCall. *)
LEMMA ValidateTyped ==
    ASSUME TypeOK, NEW p \in Calls,
           \/ AdmitFree(p) \/ RejectNoSession(p) \/ StartValidation(p) \/ ValidateGet(p)
           \/ HistoryHit(p) \/ HistoryMiss(p) \/ CheckTokens(p)
    PROVE  TypeOK'
<1> USE DEF At, Goto, S, T, H
<1>0. call = [call EXCEPT ![p] = call[p]]
    BY DEF TypeOK, VariablesTyped
<1>1. CASE AdmitFree(p)
  <2>1. VariablesTyped'
    BY <1>1, EmitTyped DEF TypeOK, VariablesTyped, AdmitFree, Steps, gvars, tvars, svars, hvars
  <2>2. CopiesValid'
    BY <1>0, <1>1, FrameCopies DEF AdmitFree, HoldsCopy
  <2>3. RulesInHand'
    BY <1>0, <1>1, FrameRules DEF AdmitFree, KeepsRule, Validating, gvars
  <2> QED BY <2>1, <2>2, <2>3 DEF TypeOK
<1>2. CASE RejectNoSession(p)
    BY <1>2, EmitTyped, ReturnTyped DEF TypeOK, VariablesTyped, RejectNoSession,
       gvars, tvars, svars, hvars
<1>3. CASE StartValidation(p)
  <2>1. VariablesTyped'
    BY <1>3, EmitTyped DEF TypeOK, VariablesTyped, StartValidation, Steps,
       gvars, tvars, svars, hvars
  <2>2. CopiesValid'
    BY <1>0, <1>3, FrameCopies DEF StartValidation, HoldsCopy
  <2>3. RulesInHand'
    BY <1>0, <1>3, FrameRules DEF StartValidation, KeepsRule, Validating, gvars
  <2> QED BY <2>1, <2>2, <2>3 DEF TypeOK
<1>4. CASE ValidateGet(p)
  <2>1. CASE Exists(S(p))
    <3> DEFINE c == [call[p] EXCEPT !.hdr = sessions[S(p)], !.rule = findRule(rules, T(p))]
    <3>1. /\ pc' = [pc EXCEPT ![p] = "history"]
          /\ call' = [call EXCEPT ![p] = c]
          /\ events' = events
      BY <1>4, <2>1 DEF ValidateGet, Set
    <3>2. call[p] \in Locals /\ S(p) \in Sessions /\ sessions[S(p)] \in Header
      BY DEF TypeOK, VariablesTyped, Locals
    <3>3. Gated(rules, T(p))
      BY <1>4 DEF ValidateGet, TypeOK, RulesInHand, Validating
    <3>4. findRule(rules, T(p)) \in findRules(rules, T(p)) /\ findRule(rules, T(p)) \in Nat
      BY <3>3, RulesTyped, FindRuleFinds DEF Gated
    <3>5. rules[findRule(rules, T(p))].prereq \in Tools
      BY <3>3, <3>4, RulesTyped DEF Gated, findRules
    <3>6. c \in Locals /\ c.ses = S(p) /\ c.tool = T(p) /\ c.hdr = sessions[S(p)]
                       /\ c.rule = findRule(rules, T(p))
      BY <3>2, <3>4 DEF Locals
    <3>7. ValidHeader(S(p), sessions[S(p)])
      BY <2>1, <3>2 DEF TypeOK, CopiesValid
    <3>8. CopiesValid'
      BY <1>4, <3>1, <3>6, <3>7, FrameCopies DEF ValidateGet
    <3>9. RulesInHand'
      BY <1>4, <3>1, <3>3, <3>4, <3>5, <3>6, FrameRules DEF ValidateGet, gvars
    <3>10. VariablesTyped'
      BY <1>4, <3>1, <3>6 DEF ValidateGet, TypeOK, VariablesTyped, Steps,
         gvars, tvars, svars, hvars
    <3> QED BY <3>8, <3>9, <3>10 DEF TypeOK
  <2>2. CASE ~Exists(S(p))
    BY <1>4, <2>2, EmitTyped, ReturnTyped DEF TypeOK, VariablesTyped, ValidateGet,
       gvars, tvars, svars, hvars
  <2> QED BY <2>1, <2>2
<1>5. CASE HistoryHit(p)
  <2>1. VariablesTyped'
    BY <1>5 DEF TypeOK, VariablesTyped, HistoryHit, Steps, gvars, tvars, svars, hvars
  <2>2. CopiesValid'
    BY <1>0, <1>5, FrameCopies DEF HistoryHit, HoldsCopy, TypeOK, CopiesValid
  <2>3. RulesInHand'
    BY <1>0, <1>5, FrameRules DEF HistoryHit, KeepsRule, Validating, gvars, TypeOK,
       RulesInHand, Required
  <2> QED BY <2>1, <2>2, <2>3 DEF TypeOK
<1>6. CASE HistoryMiss(p)
    BY <1>6, RuleFailsTyped DEF HistoryMiss, TypeOK, VariablesTyped, gvars, tvars, svars, hvars
<1>7. CASE CheckTokens(p)
  <2>1. CASE ValidTokens(S(p), Required(p)) # {}
    <3>0. Emit({"success"}) /\ pc' = [pc EXCEPT ![p] = "handler"] /\ call' = call
      BY <1>7, <2>1 DEF CheckTokens
    <3>1. VariablesTyped'
      BY <1>7, <3>0, EmitTyped DEF TypeOK, VariablesTyped, CheckTokens, Steps,
         gvars, tvars, svars, hvars
    <3>2. CopiesValid'
      BY <1>0, <1>7, <3>0, FrameCopies DEF CheckTokens, HoldsCopy
    <3>3. RulesInHand'
      BY <1>0, <1>7, <3>0, FrameRules DEF CheckTokens, KeepsRule, Validating, gvars
    <3> QED BY <3>1, <3>2, <3>3 DEF TypeOK
  <2>2. CASE ~ (ValidTokens(S(p), Required(p)) # {})
    BY <1>7, <2>2, RuleFailsTyped DEF CheckTokens, TypeOK, VariablesTyped,
       gvars, tvars, svars, hvars
  <2> QED BY <2>1, <2>2
<1> QED BY <1>1, <1>2, <1>3, <1>4, <1>5, <1>6, <1>7

(* The handler. *)
LEMMA HandlerTyped ==
    ASSUME TypeOK, NEW p \in Calls, HandlerSucceeds(p) \/ HandlerFails(p)
    PROVE  TypeOK'
<1> USE DEF At, Goto, S, T, H
<1>0. call = [call EXCEPT ![p] = call[p]] /\ S(p) \in Sessions /\ T(p) \in Tools
    BY DEF TypeOK, VariablesTyped, Locals
<1>1. CASE HandlerSucceeds(p)
  <2>1. executed' \in [Sessions -> [Tools -> Nat]]
    <3>1. /\ executed' = [executed EXCEPT ![S(p)][T(p)] = @ + 1]
          /\ executed \in [Sessions -> [Tools -> Nat]]
      BY <1>1 DEF HandlerSucceeds, TypeOK, VariablesTyped
    <3> QED BY <1>0, <3>1
  <2>2. VariablesTyped'
    BY <1>1, <2>1 DEF TypeOK, VariablesTyped, HandlerSucceeds, Steps, gvars, tvars, svars
  <2>3. CopiesValid'
    BY <1>0, <1>1, FrameCopies DEF HandlerSucceeds, HoldsCopy
  <2>4. RulesInHand'
    BY <1>0, <1>1, FrameRules DEF HandlerSucceeds, KeepsRule, Validating, gvars
  <2> QED BY <2>2, <2>3, <2>4 DEF TypeOK
<1>2. CASE HandlerFails(p)
    BY <1>2, ReturnTyped DEF TypeOK, VariablesTyped, HandlerFails, gvars, tvars, svars, hvars
<1> QED BY <1>1, <1>2

(* A session copy that a call has written back is in order: so is the store. *)
LEMMA UpdateTyped ==
    ASSUME TypeOK, NEW p \in Calls, ValidHeader(S(p), H(p)), Update(S(p), H(p)),
           NEW x, NEW c, pc' = [pc EXCEPT ![p] = x], call' = [call EXCEPT ![p] = c],
           x \notin HoldsCopy
    PROVE  /\ sessions' \in [Sessions -> Header]
           /\ CopiesValid'
<1>1. S(p) \in Sessions /\ H(p) \in Header
    BY DEF TypeOK, VariablesTyped, Locals, S, H
<1>2. /\ sessions' = [sessions EXCEPT ![S(p)] = H(p)]
      /\ mapHeap' = mapHeap /\ arrayHeap' = arrayHeap
    BY DEF Update
<1>3. sessions' \in [Sessions -> Header]
    BY <1>1, <1>2 DEF TypeOK, VariablesTyped
<1>4. ASSUME NEW s, NEW h, ValidHeader(s, h) PROVE ValidHeader(s, h)'
    BY <1>2, <1>4 DEF ValidHeader
<1>5. ASSUME NEW s \in Sessions, Exists(s)' PROVE ValidHeader(s, sessions[s])'
  <2>1. CASE s = S(p)
    BY <1>1, <1>2, <1>4, <2>1 DEF TypeOK, VariablesTyped
  <2>2. CASE s # S(p)
    BY <1>1, <1>2, <1>4, <1>5, <2>2 DEF TypeOK, VariablesTyped, CopiesValid, Exists
  <2> QED BY <2>1, <2>2
<1>6. ASSUME NEW q \in Calls, pc'[q] \in HoldsCopy
      PROVE  ValidHeader(call[q].ses, call[q].hdr)'
    BY <1>4, <1>6 DEF TypeOK, VariablesTyped, CopiesValid, S, H
<1> QED BY <1>3, <1>5, <1>6 DEF CopiesValid, S, H

(* The heap of token maps only grows, and its maps stay maps: every copy   *)
(* is as good as it was.                                                   *)
LEMMA MapHeapTyped ==
    ASSUME TypeOK, sessions' = sessions, arrayHeap' = arrayHeap, call' = call,
           Len(mapHeap') = Len(mapHeap),
           \A q \in Calls : pc'[q] \in HoldsCopy => pc[q] \in HoldsCopy
    PROVE  CopiesValid'
<1>1. ASSUME NEW s, NEW h, ValidHeader(s, h) PROVE ValidHeader(s, h)'
    BY <1>1 DEF ValidHeader
<1> QED BY <1>1 DEF TypeOK, CopiesValid, Exists, S, H

(* Writes to a Tokens map keep the heap of maps what it is. *)
LEMMA MapWriteTyped ==
    ASSUME TypeOK, NEW p \in Calls, pc[p] \in HoldsCopy, NEW t \in Tools
    PROVE  /\ \A v \in Nat : /\ AddToken(H(p), t, v) \in Seq([Tools -> Seq(Nat)])
                             /\ Len(AddToken(H(p), t, v)) = Len(mapHeap)
           /\ TokensOf(H(p), t) # <<>> =>
                 /\ DropLastToken(H(p), t) \in Seq([Tools -> Seq(Nat)])
                 /\ Len(DropLastToken(H(p), t)) = Len(mapHeap)
<1> DEFINE h == H(p)
           m == mapHeap[h.toks]
<1>1. /\ mapHeap \in Seq([Tools -> Seq(Nat)]) /\ h.toks \in 1 .. Len(mapHeap)
      /\ m \in [Tools -> Seq(Nat)] /\ m[t] \in Seq(Nat)
    BY DEF TypeOK, VariablesTyped, CopiesValid, ValidHeader
<1>2. ASSUME NEW q \in Seq(Nat)
      PROVE  /\ [mapHeap EXCEPT ![h.toks] = [m EXCEPT ![t] = q]] \in Seq([Tools -> Seq(Nat)])
             /\ Len([mapHeap EXCEPT ![h.toks] = [m EXCEPT ![t] = q]]) = Len(mapHeap)
  <2>1. [m EXCEPT ![t] = q] \in [Tools -> Seq(Nat)]
    BY <1>1, <1>2
  <2> QED BY <1>1, <2>1, ExceptSeq
<1>3. ASSUME NEW v \in Nat
      PROVE  /\ AddToken(h, t, v) \in Seq([Tools -> Seq(Nat)])
             /\ Len(AddToken(h, t, v)) = Len(mapHeap)
  <2>1. Append(m[t], v) \in Seq(Nat)
    BY <1>1, <1>3
  <2>2. AddToken(h, t, v) = [mapHeap EXCEPT ![h.toks] = [m EXCEPT ![t] = Append(m[t], v)]]
    BY <1>1 DEF AddToken
  <2> QED BY <1>2, <2>1, <2>2
<1>4. ASSUME TokensOf(h, t) # <<>>
      PROVE  /\ DropLastToken(h, t) \in Seq([Tools -> Seq(Nat)])
             /\ Len(DropLastToken(h, t)) = Len(mapHeap)
  <2> DEFINE d == SubSeq(m[t], 1, Len(m[t]) - 1)
  <2>1. d \in Seq(Nat)
    <3>1. /\ 1 \in Int /\ Len(m[t]) - 1 \in Int
          /\ \A i \in 1 .. Len(m[t]) - 1 : m[t][i] \in Nat
      BY <1>1
    <3> QED BY ONLY <3>1, SubSeqProperties, Zenon
  <2>2. DropLastToken(h, t) = [mapHeap EXCEPT ![h.toks] = [m EXCEPT ![t] = d]]
    BY <1>1 DEF DropLastToken
  <2> HIDE DEF d
  <2> QED BY <1>2, <2>1, <2>2
<1> QED BY <1>3, <1>4

(* ConsumePrerequisiteToken. *)
LEMMA ConsumeTyped ==
    ASSUME TypeOK, NEW p \in Calls,
           \/ ConsumeFind(p) \/ ConsumeRemove(p) \/ ConsumeTooLate(p) \/ ConsumeGet(p)
           \/ ConsumeTruncate(p) \/ ConsumeUpdate(p)
    PROVE  TypeOK'
<1> USE DEF At, Goto, S, T, H
<1>0. /\ call = [call EXCEPT ![p] = call[p]] /\ call[p] \in Locals
      /\ S(p) \in Sessions /\ T(p) \in Tools /\ H(p) \in Header
    BY DEF TypeOK, VariablesTyped, Locals
<1>1. CASE ConsumeFind(p)
  <2> DEFINE i == findRule(rules, T(p))
             u == rules[i].prereq
  <2>1. CASE OneTimeRule(T(p)) /\ ValidTokens(S(p), u) # {}
    <3> DEFINE c == [call[p] EXCEPT !.rule = i, !.tok = LastValidToken(S(p), u)]
    <3>1. pc' = [pc EXCEPT ![p] = "remove"] /\ call' = [call EXCEPT ![p] = c]
      BY <1>1, <2>1 DEF ConsumeFind, Set
    <3>2. i \in findRules(rules, T(p)) /\ i \in Nat
      BY <2>1, RulesTyped, FindRuleFinds DEF OneTimeRule
    <3>3. u \in Tools
      BY <2>1, <3>2, RulesTyped DEF OneTimeRule, findRules
    <3>4. LastValidToken(S(p), u) \in Nat
      BY <1>0, <2>1, <3>3, LastValidTyped
    <3>5. c \in Locals /\ c.tool = T(p) /\ c.rule = i
      BY <1>0, <3>2, <3>4 DEF Locals
    <3>6. CopiesValid'
      BY <1>1, <3>1, FrameCopies DEF ConsumeFind, HoldsCopy
    <3>7. RulesInHand'
      BY <1>1, <3>1, <3>2, <3>3, <3>5, FrameRules DEF ConsumeFind, Validating, gvars
    <3>8. VariablesTyped'
      BY <1>1, <3>1, <3>5 DEF ConsumeFind, TypeOK, VariablesTyped, Steps,
         gvars, tvars, svars, hvars
    <3> QED BY <3>6, <3>7, <3>8 DEF TypeOK
  <2>2. CASE ~ (OneTimeRule(T(p)) /\ ValidTokens(S(p), u) # {})
    <3>1. pc' = [pc EXCEPT ![p] = "issue"] /\ call' = call
      BY <1>1, <2>2 DEF ConsumeFind
    <3>2. CopiesValid'
      BY <1>0, <1>1, <3>1, FrameCopies DEF ConsumeFind, HoldsCopy
    <3>3. RulesInHand'
      BY <1>0, <1>1, <3>1, FrameRules DEF ConsumeFind, Validating, KeepsRule, gvars
    <3>4. VariablesTyped'
      BY <1>1, <3>1 DEF ConsumeFind, TypeOK, VariablesTyped, Steps, gvars, tvars, svars, hvars
    <3> QED BY <3>2, <3>3, <3>4 DEF TypeOK
  <2> QED BY <2>1, <2>2
<1>2. CASE ConsumeRemove(p)
  <2>1. Required(p) \in Tools /\ call[p].rule \in findRules(rules, T(p))
    BY <1>2 DEF ConsumeRemove, TypeOK, RulesInHand, KeepsRule
  <2>2. tokens' \in [Sessions -> [Tools -> Seq(Entry)]]
    BY <1>0, <1>2, <2>1, RemoveTyped DEF ConsumeRemove
  <2>3. VariablesTyped'
    BY <1>2, <2>2, EmitTyped DEF ConsumeRemove, TypeOK, VariablesTyped, Steps, gvars, svars, hvars
  <2>4. CopiesValid'
    BY <1>0, <1>2, FrameCopies DEF ConsumeRemove, HoldsCopy
  <2>5. RulesInHand'
    BY <1>0, <1>2, <2>1, FrameRules DEF ConsumeRemove, Validating, Required, gvars
  <2> QED BY <2>3, <2>4, <2>5 DEF TypeOK
<1>3. CASE ConsumeTooLate(p)
  <2>1. VariablesTyped'
    BY <1>3 DEF ConsumeTooLate, TypeOK, VariablesTyped, Steps, gvars, tvars, svars, hvars
  <2>2. CopiesValid'
    BY <1>0, <1>3, FrameCopies DEF ConsumeTooLate, HoldsCopy
  <2>3. RulesInHand'
    BY <1>0, <1>3, FrameRules DEF ConsumeTooLate, Validating, KeepsRule, gvars
  <2> QED BY <2>1, <2>2, <2>3 DEF TypeOK
<1>4. CASE ConsumeGet(p)
  <2> DEFINE c == [call[p] EXCEPT !.hdr = sessions[S(p)]]
             x == IF Exists(S(p)) THEN "truncate" ELSE "issue"
  <2>1. call' = [call EXCEPT ![p] = c] /\ pc' = [pc EXCEPT ![p] = x]
    BY <1>4 DEF ConsumeGet, Keep, Set
  <2>2. /\ c \in Locals /\ c.tool = T(p) /\ c.ses = S(p) /\ c.rule = call[p].rule
        /\ c.hdr = sessions[S(p)]
    BY <1>0 DEF TypeOK, VariablesTyped, Locals
  <2>3. VariablesTyped'
    BY <1>4, <2>1, <2>2 DEF ConsumeGet, TypeOK, VariablesTyped, Steps, gvars, tvars, svars, hvars
  <2>4. x \in HoldsCopy => ValidHeader(S(p), sessions[S(p)])
    BY <1>0 DEF HoldsCopy, TypeOK, CopiesValid
  <2>5. CopiesValid'
    BY <1>4, <2>1, <2>2, <2>4, FrameCopies DEF ConsumeGet
  <2>6. call[p].rule \in findRules(rules, T(p)) /\ rules[call[p].rule].prereq \in Tools
    BY <1>4 DEF ConsumeGet, TypeOK, RulesInHand, KeepsRule, Required
  <2>7. RulesInHand'
    BY <1>4, <2>1, <2>2, <2>6, FrameRules DEF ConsumeGet, Validating, gvars
  <2> QED BY <2>3, <2>5, <2>7 DEF TypeOK
<1>5. CASE ConsumeTruncate(p)
  <2>1. pc[p] \in HoldsCopy /\ Required(p) \in Tools
    BY <1>5 DEF ConsumeTruncate, HoldsCopy, TypeOK, RulesInHand, KeepsRule
  <2>2. /\ mapHeap' \in Seq([Tools -> Seq(Nat)]) /\ Len(mapHeap') = Len(mapHeap)
        /\ \/ pc' = [pc EXCEPT ![p] = "consumeUpdate"]
           \/ pc' = [pc EXCEPT ![p] = "issue"]
    <3>1. CASE TokensOf(H(p), Required(p)) # <<>>
      BY <1>5, <2>1, <3>1, MapWriteTyped DEF ConsumeTruncate
    <3>2. CASE ~ (TokensOf(H(p), Required(p)) # <<>>)
      BY <1>5, <3>2 DEF ConsumeTruncate, TypeOK, VariablesTyped
    <3> QED BY <3>1, <3>2
  <2>3. VariablesTyped'
    BY <1>5, <2>2 DEF ConsumeTruncate, TypeOK, VariablesTyped, Steps, gvars, tvars, hvars
  <2>4. \A q \in Calls : pc'[q] \in HoldsCopy => pc[q] \in HoldsCopy
    BY <2>1, <2>2 DEF TypeOK, VariablesTyped
  <2>5. CopiesValid'
    BY <1>5, <2>2, <2>4, MapHeapTyped DEF ConsumeTruncate
  <2>6. RulesInHand'
    BY <1>0, <1>5, <2>2, FrameRules DEF ConsumeTruncate, Validating, KeepsRule, gvars
  <2> QED BY <2>3, <2>5, <2>6 DEF TypeOK
<1>6. CASE ConsumeUpdate(p)
  <2>1. ValidHeader(S(p), H(p))
    BY <1>6 DEF ConsumeUpdate, TypeOK, CopiesValid, HoldsCopy
  <2>2. sessions' \in [Sessions -> Header] /\ CopiesValid'
    BY <1>0, <1>6, <2>1, UpdateTyped DEF ConsumeUpdate, HoldsCopy
  <2>3. VariablesTyped'
    BY <1>6, <2>2 DEF ConsumeUpdate, Update, TypeOK, VariablesTyped, Steps, gvars, tvars, hvars
  <2>4. RulesInHand'
    BY <1>0, <1>6, FrameRules DEF ConsumeUpdate, Validating, KeepsRule, gvars
  <2> QED BY <2>2, <2>3, <2>4 DEF TypeOK
<1> QED BY <1>1, <1>2, <1>3, <1>4, <1>5, <1>6

(* IssueToken. *)
LEMMA IssueTyped ==
    ASSUME TypeOK, NEW p \in Calls,
           \/ IssueStore(p) \/ GenerateTokenFails(p) \/ IssueGet(p) \/ IssueAdd(p)
           \/ IssueUpdate(p)
    PROVE  TypeOK'
<1> USE DEF At, Goto, S, T, H
<1>0. /\ call = [call EXCEPT ![p] = call[p]] /\ call[p] \in Locals
      /\ S(p) \in Sessions /\ T(p) \in Tools /\ H(p) \in Header
    BY DEF TypeOK, VariablesTyped, Locals
<1>1. CASE IssueStore(p)
  <2> DEFINE c == [call[p] EXCEPT !.tok = nextToken]
             e == [value |-> nextToken, expires |-> now + TokenExpiry(rules, T(p))]
  <2>1. e \in Entry
    BY RulesTyped, ExpiryTyped DEF Entry, TypeOK, VariablesTyped
  <2>2. tokens' = [tokens EXCEPT ![S(p)] = [tokens[S(p)] EXCEPT ![T(p)] =
                                              Append(tokens[S(p)][T(p)], e)]]
    BY <1>0, <1>1 DEF IssueStore, Store, TypeOK, VariablesTyped
  <2>3. tokens' \in [Sessions -> [Tools -> Seq(Entry)]]
    <3>1. /\ tokens \in [Sessions -> [Tools -> Seq(Entry)]]
          /\ Append(tokens[S(p)][T(p)], e) \in Seq(Entry)
      BY <1>0, <2>1 DEF TypeOK, VariablesTyped
    <3> HIDE DEF e
    <3> QED BY <1>0, <2>2, <3>1
  <2>4. issued' \in [Sessions -> [Tools -> Nat]]
    <3>1. /\ issued' = [issued EXCEPT ![S(p)][T(p)] = @ + 1]
          /\ issued \in [Sessions -> [Tools -> Nat]]
      BY <1>1 DEF IssueStore, TypeOK, VariablesTyped
    <3> QED BY <1>0, <3>1
  <2>5. call' = [call EXCEPT ![p] = c] /\ c \in Locals
    BY <1>0, <1>1 DEF IssueStore, Set, Locals, TypeOK, VariablesTyped
  <2>6. nextToken' \in Nat \ {0}
    BY <1>1 DEF IssueStore, TypeOK, VariablesTyped
  <2>7. VariablesTyped'
    BY <1>1, <2>3, <2>4, <2>5, <2>6 DEF IssueStore, TypeOK, VariablesTyped, Steps, gvars, svars
  <2>8. CopiesValid'
    BY <1>1, <2>5, FrameCopies DEF IssueStore, HoldsCopy
  <2>9. RulesInHand'
    BY <1>1, <2>5, FrameRules DEF IssueStore, Validating, KeepsRule, gvars
  <2> QED BY <2>7, <2>8, <2>9 DEF TypeOK
<1>2. CASE GenerateTokenFails(p)
  <2>1. VariablesTyped'
    BY <1>2 DEF GenerateTokenFails, TypeOK, VariablesTyped, Steps, gvars, tvars, svars, hvars
  <2>2. CopiesValid'
    BY <1>0, <1>2, FrameCopies DEF GenerateTokenFails, HoldsCopy
  <2>3. RulesInHand'
    BY <1>0, <1>2, FrameRules DEF GenerateTokenFails, Validating, KeepsRule, gvars
  <2> QED BY <2>1, <2>2, <2>3 DEF TypeOK
<1>3. CASE IssueGet(p)
  <2> DEFINE c == [call[p] EXCEPT !.hdr = sessions[S(p)]]
             x == IF Exists(S(p)) THEN "add" ELSE "recordGet"
  <2>1. call' = [call EXCEPT ![p] = c] /\ pc' = [pc EXCEPT ![p] = x]
    BY <1>3 DEF IssueGet, Keep, Set
  <2>2. c \in Locals /\ c.ses = S(p) /\ c.hdr = sessions[S(p)]
    BY <1>0 DEF TypeOK, VariablesTyped, Locals
  <2>3. VariablesTyped'
    BY <1>3, <2>1, <2>2 DEF IssueGet, TypeOK, VariablesTyped, Steps, gvars, tvars, svars, hvars
  <2>4. x \in HoldsCopy => ValidHeader(S(p), sessions[S(p)])
    BY <1>0 DEF HoldsCopy, TypeOK, CopiesValid
  <2>5. CopiesValid'
    BY <1>3, <2>1, <2>2, <2>4, FrameCopies DEF IssueGet
  <2>6. RulesInHand'
    BY <1>3, <2>1, FrameRules DEF IssueGet, Validating, KeepsRule, gvars
  <2> QED BY <2>3, <2>5, <2>6 DEF TypeOK
<1>4. CASE IssueAdd(p)
  <2>1. pc[p] \in HoldsCopy /\ call[p].tok \in Nat
    BY <1>0, <1>4 DEF IssueAdd, HoldsCopy, Locals
  <2>2. mapHeap' \in Seq([Tools -> Seq(Nat)]) /\ Len(mapHeap') = Len(mapHeap)
    BY <1>0, <1>4, <2>1, MapWriteTyped DEF IssueAdd
  <2>3. VariablesTyped'
    BY <1>4, <2>2 DEF IssueAdd, TypeOK, VariablesTyped, Steps, gvars, tvars, hvars
  <2>4. \A q \in Calls : pc'[q] \in HoldsCopy => pc[q] \in HoldsCopy
    BY <1>4, <2>1 DEF IssueAdd, TypeOK, VariablesTyped
  <2>5. CopiesValid'
    BY <1>4, <2>2, <2>4, MapHeapTyped DEF IssueAdd
  <2>6. RulesInHand'
    BY <1>0, <1>4, FrameRules DEF IssueAdd, Validating, KeepsRule, gvars
  <2> QED BY <2>3, <2>5, <2>6 DEF TypeOK
<1>5. CASE IssueUpdate(p)
  <2>1. ValidHeader(S(p), H(p))
    BY <1>5 DEF IssueUpdate, TypeOK, CopiesValid, HoldsCopy
  <2>2. sessions' \in [Sessions -> Header] /\ CopiesValid'
    BY <1>0, <1>5, <2>1, UpdateTyped DEF IssueUpdate, HoldsCopy
  <2>3. VariablesTyped'
    BY <1>5, <2>2, EmitTyped DEF IssueUpdate, Update, TypeOK, VariablesTyped, Steps,
       gvars, tvars, hvars
  <2>4. RulesInHand'
    BY <1>0, <1>5, FrameRules DEF IssueUpdate, Validating, KeepsRule, gvars
  <2> QED BY <2>2, <2>3, <2>4 DEF TypeOK
<1> QED BY <1>1, <1>2, <1>3, <1>4, <1>5

(* What RecordToolCall makes of the heap of arrays: the arrays that were   *)
(* there keep their length and their session, and an array afterwards is   *)
(* one that was there for the same session, but for padding and for the    *)
(* new name in the slot behind the copy's history.                         *)
LEMMA RecordHeapTyped ==
    ASSUME TypeOK, NEW s \in Sessions, NEW h \in Header, ValidHeader(s, h),
           NEW v \in Tools \cup {NoTool, Torn}, NEW g, g = RecordHeap(s, h, v),
           NEW r, r = RecordHeader(h)
    PROVE  /\ g \in Seq(BackingArray)
           /\ \A a \in 1 .. Len(arrayHeap) :
                 /\ a \in 1 .. Len(g)
                 /\ g[a].ses = arrayHeap[a].ses
                 /\ Len(g[a].slots) = Len(arrayHeap[a].slots)
           /\ r \in Header /\ r.toks = h.toks /\ r.arr \in 1 .. Len(g)
           /\ r.len <= Len(g[r.arr].slots) /\ g[r.arr].ses = s
           /\ \A a \in 1 .. Len(g) : \E b \in DOMAIN arrayHeap :
                 /\ arrayHeap[b].ses = g[a].ses
                 /\ \A k \in DOMAIN g[a].slots :
                       \/ g[a].slots[k] = NoTool
                       \/ g[a].slots[k] = v /\ g[a].ses = s /\ k = h.len + 1
                       \/ /\ k \in DOMAIN arrayHeap[b].slots
                          /\ arrayHeap[b].slots[k] = g[a].slots[k]
<1> DEFINE N == Tools \cup {NoTool, Torn}
           A == arrayHeap[h.arr]
           L == Len(A.slots)
<1>1. /\ arrayHeap \in Seq(BackingArray) /\ h.arr \in 1 .. Len(arrayHeap)
      /\ A \in BackingArray /\ A.ses = s /\ A.slots \in Seq(N)
      /\ L \in Nat /\ h.len \in Nat /\ h.len <= L /\ Len(arrayHeap) \in Nat
  <2>1. arrayHeap \in Seq(BackingArray) /\ h.arr \in 1 .. Len(arrayHeap)
    BY DEF TypeOK, VariablesTyped, ValidHeader
  <2>2. A \in BackingArray
    BY <2>1
  <2>3. A.slots \in Seq(N)
    BY <2>2 DEF BackingArray
  <2>4. A.ses = s /\ h.len \in Nat /\ h.len <= L
    BY DEF ValidHeader, Header
  <2> QED BY <2>1, <2>2, <2>3, <2>4
<1>2. CASE InPlace(h)
  <2> DEFINE w == [A.slots EXCEPT ![h.len + 1] = v]
             B == [A EXCEPT !.slots = w]
  <2>1. h.len + 1 \in 1 .. L
    BY <1>1, <1>2 DEF InPlace, Capacity
  <2>2. /\ w \in Seq(N) /\ Len(w) = L
        /\ \A k \in 1 .. L : w[k] = IF k = h.len + 1 THEN v ELSE A.slots[k]
    BY <1>1, <2>1, ExceptSeq
  <2>3. /\ B \in BackingArray /\ B.ses = s /\ Len(B.slots) = L /\ DOMAIN B.slots = 1 .. L
        /\ \A k \in 1 .. L : B.slots[k] = IF k = h.len + 1 THEN v ELSE A.slots[k]
    <3> HIDE DEF w, A
    <3>1. B \in BackingArray /\ B.ses = s /\ B.slots = w
      BY <1>1, <2>2 DEF BackingArray
    <3> QED BY <2>2, <3>1
  <2>4. g = [arrayHeap EXCEPT ![h.arr] = B]
    BY <1>1, <1>2 DEF RecordHeap
  <2> HIDE DEF B, A
  <2>5. /\ g \in Seq(BackingArray) /\ Len(g) = Len(arrayHeap)
        /\ \A a \in 1 .. Len(arrayHeap) : g[a] = IF a = h.arr THEN B ELSE arrayHeap[a]
    BY <1>1, <2>3, <2>4, ExceptSeq
  <2>6. \A a \in 1 .. Len(arrayHeap) : /\ g[a].ses = arrayHeap[a].ses
                                       /\ Len(g[a].slots) = Len(arrayHeap[a].slots)
    BY <1>1, <2>3, <2>5 DEF A
  <2>7. r \in Header /\ r.toks = h.toks /\ r.arr = h.arr /\ r.len = h.len + 1
    BY <1>1, <1>2 DEF RecordHeader, Header
  <2>8. ASSUME NEW a \in 1 .. Len(g)
        PROVE  /\ a \in DOMAIN arrayHeap /\ arrayHeap[a].ses = g[a].ses
               /\ \A k \in DOMAIN g[a].slots :
                     \/ g[a].slots[k] = v /\ g[a].ses = s /\ k = h.len + 1
                     \/ k \in DOMAIN arrayHeap[a].slots /\ arrayHeap[a].slots[k] = g[a].slots[k]
    <3>1. CASE a = h.arr
      <4>1. \A k \in DOMAIN g[a].slots :
               \/ g[a].slots[k] = v /\ g[a].ses = s /\ k = h.len + 1
               \/ k \in 1 .. L /\ g[a].slots[k] = A.slots[k]
        BY <1>1, <2>1, <2>3, <2>5, <3>1
      <4>2. h.arr \in DOMAIN arrayHeap /\ DOMAIN A.slots = 1 .. L /\ g[a].ses = A.ses
        BY <1>1, <2>3, <2>5, <3>1
      <4> QED BY <3>1, <4>1, <4>2 DEF A
    <3>2. CASE a # h.arr
      <4>1. g[a] = arrayHeap[a] /\ a \in DOMAIN arrayHeap
        BY <1>1, <2>5, <3>2
      <4> QED BY <4>1
    <3> QED BY <3>1, <3>2
  <2>9. /\ \A a \in 1 .. Len(arrayHeap) : a \in 1 .. Len(g)
        /\ r.arr \in 1 .. Len(g) /\ r.len <= Len(g[r.arr].slots) /\ g[r.arr].ses = s
    BY <1>1, <2>1, <2>3, <2>5, <2>7
  <2> QED BY <2>5, <2>6, <2>7, <2>8, <2>9
<1>3. CASE ~InPlace(h)
  <2> DEFINE n == IF L = 0 THEN 1 ELSE 2 * L
             B == [ses |-> s, slots |-> Grown(h, v)]
  <2>1. h.len = L /\ n \in Nat /\ L < n
    BY <1>1, <1>3 DEF InPlace, Capacity
  <2>2. /\ Grown(h, v) \in Seq(N) /\ Len(Grown(h, v)) = n
        /\ \A k \in 1 .. n : Grown(h, v)[k] = IF k <= L THEN A.slots[k]
                                             ELSE IF k = L + 1 THEN v ELSE NoTool
    <3>1. Grown(h, v) = [k \in 1 .. n |-> IF k <= L THEN A.slots[k]
                                          ELSE IF k = L + 1 THEN v ELSE NoTool]
      BY <2>1 DEF Grown, Capacity
    <3>2. \A k \in 1 .. n : (IF k <= L THEN A.slots[k]
                             ELSE IF k = L + 1 THEN v ELSE NoTool) \in N
      BY <1>1
    <3> HIDE DEF n, A, L, N
    <3> QED BY <2>1, <3>1, <3>2
  <2>3. /\ B \in BackingArray /\ B.ses = s /\ Len(B.slots) = n /\ DOMAIN B.slots = 1 .. n
        /\ B.slots = Grown(h, v)
    <3>1. B \in BackingArray /\ B.ses = s /\ B.slots = Grown(h, v)
      BY <2>2 DEF BackingArray
    <3> HIDE DEF B, n
    <3> QED BY <2>2, <3>1
  <2>4. g = Append(arrayHeap, B)
    BY <1>3 DEF RecordHeap
  <2> HIDE DEF B, A
  <2>5. /\ g \in Seq(BackingArray) /\ Len(g) = Len(arrayHeap) + 1
        /\ g[Len(arrayHeap) + 1] = B
        /\ \A a \in 1 .. Len(arrayHeap) : g[a] = arrayHeap[a]
    BY <1>1, <2>3, <2>4
  <2>6. r \in Header /\ r.toks = h.toks /\ r.arr = Len(arrayHeap) + 1 /\ r.len = L + 1
    <3>1. r = [h EXCEPT !.arr = Len(arrayHeap) + 1, !.len = L + 1]
      BY <1>3, <2>1 DEF RecordHeader
    <3>2. ASSUME NEW a \in Nat, NEW l \in Nat, r = [h EXCEPT !.arr = a, !.len = l]
          PROVE  r \in Header /\ r.toks = h.toks /\ r.arr = a /\ r.len = l
      BY ONLY <3>2, h \in Header DEF Header
    <3>3. Len(arrayHeap) + 1 \in Nat /\ L + 1 \in Nat
      BY <1>1
    <3> HIDE DEF L
    <3> QED BY ONLY <3>1, <3>2, <3>3
  <2>7. ASSUME NEW a \in 1 .. Len(g)
        PROVE  \E b \in DOMAIN arrayHeap :
                  /\ arrayHeap[b].ses = g[a].ses
                  /\ \A k \in DOMAIN g[a].slots :
                        \/ g[a].slots[k] = NoTool
                        \/ g[a].slots[k] = v /\ g[a].ses = s /\ k = h.len + 1
                        \/ /\ k \in DOMAIN arrayHeap[b].slots
                           /\ arrayHeap[b].slots[k] = g[a].slots[k]
    <3>1. CASE a = Len(arrayHeap) + 1
      <4>1. g[a].ses = s /\ DOMAIN g[a].slots = 1 .. n /\ g[a].slots = Grown(h, v)
        BY <2>3, <2>5, <3>1
      <4>2. ASSUME NEW k \in 1 .. n
            PROVE  \/ g[a].slots[k] = NoTool
                   \/ g[a].slots[k] = v /\ k = h.len + 1
                   \/ k \in 1 .. L /\ A.slots[k] = g[a].slots[k]
        BY <1>1, <2>1, <2>2, <4>1, <4>2
      <4>3. h.arr \in DOMAIN arrayHeap /\ DOMAIN A.slots = 1 .. L
        BY <1>1
      <4> QED BY <1>1, <4>1, <4>2, <4>3 DEF A
    <3>2. CASE a # Len(arrayHeap) + 1
      <4>1. g[a] = arrayHeap[a] /\ a \in DOMAIN arrayHeap
        BY <1>1, <2>5, <3>2
      <4> QED BY <4>1
    <3> QED BY <3>1, <3>2
  <2>8. /\ \A a \in 1 .. Len(arrayHeap) :
              /\ a \in 1 .. Len(g)
              /\ g[a].ses = arrayHeap[a].ses
              /\ Len(g[a].slots) = Len(arrayHeap[a].slots)
        /\ r.arr \in 1 .. Len(g) /\ r.len <= Len(g[r.arr].slots) /\ g[r.arr].ses = s
    BY <1>1, <2>1, <2>3, <2>5, <2>6
  <2> QED BY <2>5, <2>6, <2>7, <2>8
<1> QED BY <1>2, <1>3

(* When the arrays keep length and session, every copy stays in order, and *)
(* the calls of a set P that have just appended hold a copy in order.      *)
LEMMA ArraysGrowTyped ==
    ASSUME TypeOK, sessions' = sessions, mapHeap' = mapHeap,
           \A a \in 1 .. Len(arrayHeap) :
              /\ a \in 1 .. Len(arrayHeap')
              /\ arrayHeap'[a].ses = arrayHeap[a].ses
              /\ Len(arrayHeap'[a].slots) = Len(arrayHeap[a].slots),
           NEW P \in SUBSET Calls,
           \A q \in P : ValidHeader(S(q), H(q))',
           \A q \in Calls \ P : pc'[q] = pc[q] /\ call'[q] = call[q]
    PROVE  CopiesValid'
<1>1. ASSUME NEW s, NEW h, ValidHeader(s, h) PROVE ValidHeader(s, h)'
    BY <1>1 DEF ValidHeader
<1>2. \A s \in Sessions : Exists(s)' => ValidHeader(s, sessions[s])'
    BY <1>1 DEF TypeOK, CopiesValid, Exists
<1>3. ASSUME NEW q \in Calls, pc'[q] \in HoldsCopy
      PROVE  ValidHeader(call[q].ses, call[q].hdr)'
  <2>1. CASE q \in P
    BY <2>1 DEF S, H
  <2>2. CASE q \notin P
    BY <1>1, <1>3, <2>2 DEF TypeOK, CopiesValid, S, H
  <2> QED BY <2>1, <2>2
<1> QED BY <1>2, <1>3 DEF CopiesValid, S, H

(* The end of the wrapper. *)
LEMMA RecordTyped ==
    ASSUME TypeOK, NEW p \in Calls, RecordGet(p) \/ RecordTool(p) \/ RecordUpdate(p)
    PROVE  TypeOK'
<1> USE DEF At, Goto, S, T, H
<1>0. /\ call = [call EXCEPT ![p] = call[p]] /\ call[p] \in Locals
      /\ S(p) \in Sessions /\ T(p) \in Tools /\ H(p) \in Header
    BY DEF TypeOK, VariablesTyped, Locals
<1>1. CASE RecordGet(p)
  <2>1. CASE Exists(S(p))
    <3> DEFINE c == [call[p] EXCEPT !.hdr = sessions[S(p)]]
    <3>1. call' = [call EXCEPT ![p] = c] /\ pc' = [pc EXCEPT ![p] = "record"]
      BY <1>1, <2>1 DEF RecordGet, Keep, Set
    <3>2. c \in Locals /\ c.ses = S(p) /\ c.hdr = sessions[S(p)]
      BY <1>0 DEF TypeOK, VariablesTyped, Locals
    <3>3. VariablesTyped'
      BY <1>1, <3>1, <3>2 DEF RecordGet, TypeOK, VariablesTyped, Steps,
         gvars, tvars, svars, hvars
    <3>4. ValidHeader(S(p), sessions[S(p)])
      BY <1>0, <2>1 DEF TypeOK, CopiesValid
    <3>5. CopiesValid'
      BY <1>1, <3>1, <3>2, <3>4, FrameCopies DEF RecordGet
    <3>6. RulesInHand'
      BY <1>1, <3>1, FrameRules DEF RecordGet, Validating, KeepsRule, gvars
    <3> QED BY <3>3, <3>5, <3>6 DEF TypeOK
  <2>2. CASE ~Exists(S(p))
    BY <1>1, <2>2, ReturnTyped DEF TypeOK, VariablesTyped, RecordGet,
       gvars, tvars, svars, hvars
  <2> QED BY <2>1, <2>2
<1>2. CASE RecordTool(p)
  <2> DEFINE r == RecordHeader(H(p))
             c == [call[p] EXCEPT !.hdr = r]
  <2>1. ValidHeader(S(p), H(p))
    BY <1>2 DEF RecordTool, TypeOK, CopiesValid, HoldsCopy
  <2>2. /\ arrayHeap' = RecordHeap(S(p), H(p), T(p)) /\ sessions' = sessions
        /\ mapHeap' = mapHeap /\ pc' = [pc EXCEPT ![p] = "recordUpdate"]
        /\ call' = [call EXCEPT ![p] = c]
    BY <1>2 DEF RecordTool, Keep, Set
  <2>3. /\ arrayHeap' \in Seq(BackingArray)
        /\ \A a \in 1 .. Len(arrayHeap) :
              /\ a \in 1 .. Len(arrayHeap')
              /\ arrayHeap'[a].ses = arrayHeap[a].ses
              /\ Len(arrayHeap'[a].slots) = Len(arrayHeap[a].slots)
        /\ r \in Header /\ r.toks = H(p).toks /\ r.arr \in 1 .. Len(arrayHeap')
        /\ r.len <= Len(arrayHeap'[r.arr].slots) /\ arrayHeap'[r.arr].ses = S(p)
    BY <1>0, <2>1, <2>2, RecordHeapTyped
  <2> HIDE DEF r
  <2>4. c \in Locals /\ c.ses = S(p) /\ c.hdr = r
    BY <1>0, <2>3 DEF Locals
  <2>5. call'[p] = c /\ \A q \in Calls \ {p} : pc'[q] = pc[q] /\ call'[q] = call[q]
    BY <2>2 DEF TypeOK, VariablesTyped
  <2>6. ValidHeader(S(p), H(p))'
    BY <2>1, <2>2, <2>3, <2>4, <2>5 DEF ValidHeader
  <2>7. CopiesValid'
    <3>1. {p} \in SUBSET Calls /\ \A q \in {p} : ValidHeader(S(q), H(q))'
      BY <2>6
    <3> HIDE DEF S, H, c
    <3> QED BY <2>2, <2>3, <2>5, <3>1, ArraysGrowTyped
  <2>8. RulesInHand'
    BY <1>2, <2>2, FrameRules DEF RecordTool, Validating, KeepsRule, gvars
  <2>9. VariablesTyped'
    BY <1>2, <2>2, <2>3, <2>4 DEF RecordTool, TypeOK, VariablesTyped, Steps, gvars, tvars, hvars
  <2> QED BY <2>7, <2>8, <2>9 DEF TypeOK
<1>3. CASE RecordUpdate(p)
  <2>1. ValidHeader(S(p), H(p))
    BY <1>3 DEF RecordUpdate, TypeOK, CopiesValid, HoldsCopy
  <2>2. sessions' \in [Sessions -> Header] /\ CopiesValid'
    BY <1>3, <2>1, UpdateTyped DEF RecordUpdate, HoldsCopy, Return, Set
  <2>3. VariablesTyped' /\ RulesInHand'
    BY <1>3, <2>2, ReturnTyped DEF RecordUpdate, Update, TypeOK, VariablesTyped,
       gvars, tvars, hvars
  <2> QED BY <2>2, <2>3 DEF TypeOK
<1> QED BY <1>1, <1>2, <1>3

(* Create of the session store. *)
LEMMA CreateTyped ==
    ASSUME TypeOK, NEW p \in Calls, CreateNew(p)
    PROVE  TypeOK'
<1> USE DEF At, Goto, S, T, H
<1>0. PICK h : h = NewHeader
    OBVIOUS
<1> DEFINE c == [call[p] EXCEPT !.hdr = h]
           m == [t \in Tools |-> <<>>]
           b == [ses |-> S(p), slots |-> <<>>]
<1>1. /\ sessions' = [sessions EXCEPT ![S(p)] = h]
      /\ mapHeap' = Append(mapHeap, m) /\ arrayHeap' = Append(arrayHeap, b)
      /\ call' = [call EXCEPT ![p] = c] /\ pc' = [pc EXCEPT ![p] = "readToken"]
    BY <1>0 DEF CreateNew, Create, Keep, Set
<1>2. /\ call[p] \in Locals /\ S(p) \in Sessions
      /\ mapHeap \in Seq([Tools -> Seq(Nat)]) /\ arrayHeap \in Seq(BackingArray)
    BY DEF TypeOK, VariablesTyped, Locals
<1>3. /\ h \in Header /\ h.toks = Len(mapHeap) + 1
      /\ h.arr = Len(arrayHeap) + 1 /\ h.len = 0
    BY <1>0, <1>2 DEF NewHeader, Header
<1>4. m \in [Tools -> Seq(Nat)] /\ b \in BackingArray /\ b.ses = S(p) /\ b.slots = <<>>
    BY <1>2 DEF BackingArray
<1>5. c \in Locals /\ c.ses = S(p) /\ c.hdr = h
    BY <1>2, <1>3 DEF Locals
<1> HIDE DEF m, b, c
<1>6. /\ mapHeap' \in Seq([Tools -> Seq(Nat)]) /\ Len(mapHeap') = Len(mapHeap) + 1
      /\ arrayHeap' \in Seq(BackingArray) /\ Len(arrayHeap') = Len(arrayHeap) + 1
      /\ arrayHeap'[Len(arrayHeap) + 1] = b
      /\ \A a \in 1 .. Len(arrayHeap) : arrayHeap'[a] = arrayHeap[a]
    BY <1>1, <1>2, <1>4
<1>7. ASSUME NEW s, NEW g, ValidHeader(s, g) PROVE ValidHeader(s, g)'
    BY <1>2, <1>6, <1>7 DEF ValidHeader
<1>8. ASSUME NEW s, s = S(p) PROVE ValidHeader(s, h)'
  <2>1. h.toks \in 1 .. Len(mapHeap') /\ h.arr \in 1 .. Len(arrayHeap')
    BY <1>2, <1>3, <1>6
  <2>2. arrayHeap'[h.arr].ses = s /\ Len(arrayHeap'[h.arr].slots) = 0
    BY <1>3, <1>4, <1>6, <1>8
  <2> QED BY <1>3, <2>1, <2>2 DEF ValidHeader
<1>9. VariablesTyped'
  <2>1. sessions' \in [Sessions -> Header]
    BY <1>1, <1>2, <1>3 DEF TypeOK, VariablesTyped
  <2> QED BY <1>1, <1>5, <1>6, <2>1, EmitTyped DEF CreateNew, TypeOK, VariablesTyped, Steps,
          gvars, tvars, hvars
<1>10. CopiesValid'
  <2>1. ASSUME NEW s \in Sessions, Exists(s)' PROVE ValidHeader(s, sessions[s])'
    <3>1. CASE s = S(p)
      BY <1>1, <1>2, <1>8, <3>1 DEF TypeOK, VariablesTyped
    <3>2. CASE s # S(p)
      BY <1>1, <1>2, <1>7, <2>1, <3>2 DEF TypeOK, VariablesTyped, CopiesValid, Exists
    <3> QED BY <3>1, <3>2
  <2>2. ASSUME NEW q \in Calls, pc'[q] \in HoldsCopy
        PROVE  ValidHeader(call[q].ses, call[q].hdr)'
    <3>1. CASE q = p
      BY <1>1, <1>2, <1>5, <1>8, <3>1 DEF TypeOK, VariablesTyped
    <3>2. CASE q # p
      BY <1>1, <1>7, <2>2, <3>2 DEF TypeOK, VariablesTyped, CopiesValid
    <3> QED BY <3>1, <3>2
  <2> QED BY <2>1, <2>2 DEF CopiesValid
<1>11. RulesInHand'
    BY <1>1, FrameRules DEF CreateNew, Validating, KeepsRule, gvars
<1> QED BY <1>9, <1>10, <1>11 DEF TypeOK

(* Unsynchronised accesses. *)
LEMMA RaceTyped ==
    ASSUME TypeOK, NEW p \in Calls, NEW q \in Calls, Race(p, q)
    PROVE  TypeOK'
<1> USE DEF At, S, T, H
<1>0. \A r \in Calls : /\ call[r] \in Locals /\ S(r) \in Sessions /\ T(r) \in Tools
                       /\ H(r) \in Header /\ call[r].tok \in Nat
    BY DEF TypeOK, VariablesTyped, Locals
<1>1. CASE RacyMapWrite(p, q)
  <2>1. \A r \in {p, q} : pc[r] \in {"add", "truncate"}
    BY <1>1 DEF RacyMapWrite, WritesMap
  <2>2. \A r \in {p, q} : pc[r] \in HoldsCopy
    BY <2>1 DEF HoldsCopy
  <2>3. mapHeap' \in Seq([Tools -> Seq(Nat)]) /\ Len(mapHeap') = Len(mapHeap)
    <3>1. CASE pc[p] = "add"
      BY <1>0, <1>1, <2>2, <3>1, MapWriteTyped DEF RacyMapWrite
    <3>2. CASE pc[p] # "add"
      <4>1. /\ pc[p] = "truncate" /\ TokensOf(H(p), Required(p)) # <<>>
            /\ mapHeap' = DropLastToken(H(p), Required(p))
        BY <1>1, <3>2 DEF RacyMapWrite, WritesMap
      <4>2. Required(p) \in Tools
        BY <4>1 DEF TypeOK, RulesInHand, KeepsRule
      <4> QED BY <2>2, <4>1, <4>2, MapWriteTyped
    <3> QED BY <3>1, <3>2
  <2>4. /\ pc' = [r \in Calls |-> IF r \notin {p, q} THEN pc[r]
                                  ELSE IF pc[r] = "add" THEN "issueUpdate" ELSE "consumeUpdate"]
        /\ call' = call /\ rules' = rules
    BY <1>1 DEF RacyMapWrite, gvars
  <2>5. VariablesTyped'
    BY <1>1, <2>3, <2>4 DEF RacyMapWrite, TypeOK, VariablesTyped, Steps, gvars, tvars, hvars
  <2>6. \A r \in Calls : pc'[r] \in HoldsCopy => pc[r] \in HoldsCopy
    BY <2>2, <2>4
  <2>7. CopiesValid'
    BY <1>1, <2>3, <2>4, <2>6, MapHeapTyped DEF RacyMapWrite
  <2>8. RulesInHand'
    BY <2>4 DEF TypeOK, RulesInHand, Validating, KeepsRule, Required
  <2> QED BY <2>5, <2>7, <2>8 DEF TypeOK
<1>2. CASE MapThrow(p, q)
  <2>1. VariablesTyped'
    BY <1>2 DEF MapThrow, TypeOK, VariablesTyped, tvars, svars, hvars
  <2>2. CopiesValid'
    BY <1>2 DEF MapThrow, TypeOK, CopiesValid, svars, Exists, ValidHeader
  <2>3. RulesInHand'
    BY <1>2 DEF MapThrow, TypeOK, RulesInHand, Required
  <2> QED BY <2>1, <2>2, <2>3 DEF TypeOK
<1>3. CASE RacyRecord(p, q)
  <2>1. \A r \in {p, q} : ValidHeader(S(r), H(r)) /\ pc[r] = "record"
    BY <1>3 DEF RacyRecord, TypeOK, CopiesValid, HoldsCopy
  <2>2. /\ arrayHeap' = RecordHeap(S(p), H(p), Torn) /\ sessions' = sessions
        /\ mapHeap' = mapHeap /\ rules' = rules
        /\ call' = [r \in Calls |-> IF r \in {p, q}
                                    THEN [call[r] EXCEPT !.hdr = RecordHeader(@)]
                                    ELSE call[r]]
        /\ pc' = [r \in Calls |-> IF r \in {p, q} THEN "recordUpdate" ELSE pc[r]]
        /\ InPlace(H(p)) /\ H(q).arr = H(p).arr /\ H(q).len = H(p).len
    BY <1>3 DEF RacyRecord, gvars
  <2>3. PICK hp, hq : hp = RecordHeader(H(p)) /\ hq = RecordHeader(H(q))
    OBVIOUS
  <2>4. /\ arrayHeap' \in Seq(BackingArray)
        /\ \A a \in 1 .. Len(arrayHeap) :
              /\ a \in 1 .. Len(arrayHeap')
              /\ arrayHeap'[a].ses = arrayHeap[a].ses
              /\ Len(arrayHeap'[a].slots) = Len(arrayHeap[a].slots)
        /\ hp \in Header /\ hp.toks = H(p).toks /\ hp.arr \in 1 .. Len(arrayHeap')
        /\ hp.len <= Len(arrayHeap'[hp.arr].slots) /\ arrayHeap'[hp.arr].ses = S(p)
    BY <1>0, <2>1, <2>2, <2>3, RecordHeapTyped
  <2>5. hp.arr = H(p).arr /\ hp.len = H(p).len + 1
    BY <1>0, <2>2, <2>3 DEF RecordHeader, Header
  <2>6. hq \in Header /\ hq.toks = H(q).toks /\ hq.arr = hp.arr /\ hq.len = hp.len
    <3>1. hq = [H(q) EXCEPT !.len = H(q).len + 1]
      BY <2>2, <2>3 DEF RecordHeader, InPlace, Capacity
    <3> QED BY <1>0, <2>2, <2>5, <3>1 DEF Header
  <2>7. S(q) = S(p)
    BY <2>1, <2>2 DEF ValidHeader
  <2>8. /\ call'[p] = [call[p] EXCEPT !.hdr = hp] /\ call'[q] = [call[q] EXCEPT !.hdr = hq]
        /\ \A r \in Calls \ {p, q} : pc'[r] = pc[r] /\ call'[r] = call[r]
    BY <2>2, <2>3
  <2>9. /\ call'[p] \in Locals /\ call'[p].ses = S(p) /\ call'[p].hdr = hp
        /\ call'[q] \in Locals /\ call'[q].ses = S(q) /\ call'[q].hdr = hq
    BY <1>0, <2>4, <2>6, <2>8 DEF Locals
  <2>10. \A r \in {p, q} : ValidHeader(S(r), H(r))'
    BY <2>1, <2>2, <2>4, <2>6, <2>7, <2>9, ZenonT(60) DEF ValidHeader
  <2>11. CopiesValid'
    <3>1. {p, q} \in SUBSET Calls
      OBVIOUS
    <3> HIDE DEF S, H
    <3> QED BY <2>2, <2>4, <2>8, <2>10, <3>1, ArraysGrowTyped
  <2>12. RulesInHand'
    BY <2>2, <2>8 DEF TypeOK, RulesInHand, Validating, KeepsRule, Required
  <2>13. pc' \in [Calls -> Steps] /\ call' \in [Calls -> Locals]
    BY <1>0, <2>2, <2>8, <2>9 DEF TypeOK, VariablesTyped, Steps
  <2>14. VariablesTyped'
    BY <1>3, <2>2, <2>4, <2>13 DEF RacyRecord, TypeOK, VariablesTyped, gvars, tvars, hvars
  <2> QED BY <2>11, <2>12, <2>14 DEF TypeOK
<1> QED BY <1>1, <1>2, <1>3 DEF Race

(* The clock, and a host that deletes a session. *)
LEMMA HostTyped ==
    ASSUME TypeOK, Tick \/ (\E s \in Sessions : DeleteSession(s)) \/ UNCHANGED vars
    PROVE  TypeOK'
<1> USE DEF S, T, H
<1>1. CASE Tick
  <2>0. now' = now + 1 /\ now < MaxTime /\ now \in 0 .. MaxTime
    BY <1>1 DEF Tick, TypeOK, VariablesTyped
  <2>a. now' \in 0 .. MaxTime
    BY <2>0, BoundsAssumption
  <2>1. VariablesTyped'
    BY <1>1, <2>a DEF Tick, TypeOK, VariablesTyped, svars, hvars
  <2>2. CopiesValid'
    BY <1>1 DEF Tick, TypeOK, CopiesValid, svars, Exists, ValidHeader
  <2>3. RulesInHand'
    BY <1>1 DEF Tick, TypeOK, RulesInHand, Required
  <2> QED BY <2>1, <2>2, <2>3 DEF TypeOK
<1>2. ASSUME NEW s \in Sessions, DeleteSession(s) PROVE TypeOK'
  <2>0. deletes' = deletes + 1 /\ deletes < MaxDeletes /\ deletes \in 0 .. MaxDeletes
    BY <1>2 DEF DeleteSession, TypeOK, VariablesTyped
  <2>a. deletes' \in 0 .. MaxDeletes
    BY <2>0, BoundsAssumption
  <2>b. /\ sessions' = [sessions EXCEPT ![s] = NoSession]
        /\ mapHeap' = mapHeap /\ arrayHeap' = arrayHeap
    BY <1>2 DEF DeleteSession, Delete
  <2>c. sessions' \in [Sessions -> Header]
    BY <2>b DEF NoSession, Header, TypeOK, VariablesTyped
  <2>1. VariablesTyped'
    BY <1>2, <2>a, <2>b, <2>c DEF DeleteSession, TypeOK, VariablesTyped, tvars, hvars
  <2>d. ASSUME NEW z, NEW h, ValidHeader(z, h) PROVE ValidHeader(z, h)'
    BY <2>b, <2>d DEF ValidHeader
  <2>e. ASSUME NEW z \in Sessions, Exists(z)' PROVE ValidHeader(z, sessions[z])'
    BY <2>b, <2>d, <2>e DEF TypeOK, VariablesTyped, CopiesValid, Exists
  <2>2. CopiesValid'
    BY <1>2, <2>d, <2>e DEF DeleteSession, TypeOK, CopiesValid
  <2>3. RulesInHand'
    BY <1>2 DEF DeleteSession, TypeOK, RulesInHand, Required
  <2> QED BY <2>1, <2>2, <2>3 DEF TypeOK
<1>3. CASE UNCHANGED vars
  <2>1. VariablesTyped'
    BY <1>3 DEF vars, gvars, tvars, svars, hvars, TypeOK, VariablesTyped
  <2>2. CopiesValid'
    BY <1>3 DEF vars, svars, TypeOK, CopiesValid, Exists, ValidHeader
  <2>3. RulesInHand'
    BY <1>3 DEF vars, gvars, TypeOK, RulesInHand, Required
  <2> QED BY <2>1, <2>2, <2>3 DEF TypeOK
<1> QED BY <1>1, <1>2, <1>3

(* The initial states are of the types. *)
LEMMA InitTyped == Init => TypeOK
<1> SUFFICES ASSUME Init PROVE TypeOK
    OBVIOUS
<1>1. VariablesTyped
  <2>1. begun \in 0 .. MaxCalls /\ deletes \in 0 .. MaxDeletes /\ now \in 0 .. MaxTime
    BY BoundsAssumption DEF Init, TokenStoreInit
  <2>2. NoSession \in Header
    BY DEF Header, NoSession
  <2>3. /\ tokens \in [Sessions -> [Tools -> Seq(Entry)]]
        /\ mapHeap \in Seq([Tools -> Seq(Nat)]) /\ arrayHeap \in Seq(BackingArray)
        /\ sessions \in [Sessions -> Header]
    BY <2>2 DEF Init, TokenStoreInit, SessionStoreInit
  <2>4. pc \in [Calls -> Steps] /\ call \in [Calls -> Locals]
    BY IdleTyped DEF Init, Steps
  <2>5. events \in [EventTypes -> Nat] /\ nextToken \in Nat \ {0}
    BY DEF Init
  <2>6. /\ executed \in [Sessions -> [Tools -> Nat]]
        /\ issued \in [Sessions -> [Tools -> Nat]]
    BY DEF Init
  <2>7. crashed \in BOOLEAN
    BY Zenon DEF Init
  <2> QED BY <2>1, <2>3, <2>4, <2>5, <2>6, <2>7 DEF Init, VariablesTyped
<1>2. CopiesValid
    BY DEF Init, SessionStoreInit, CopiesValid, Exists, HoldsCopy
<1>3. RulesInHand
    BY DEF Init, RulesInHand, Validating, KeepsRule
<1> QED BY <1>1, <1>2, <1>3 DEF TypeOK

(* Every step keeps the types. *)
LEMMA NextTyped == TypeOK /\ [Next]_vars => TypeOK'
<1> SUFFICES ASSUME TypeOK, [Next]_vars PROVE TypeOK'
    OBVIOUS
<1>1. ASSUME NEW p \in Calls, Begin(p) \/ Step(p) PROVE TypeOK'
    BY <1>1, WrapperTyped, CreateTyped, ValidateTyped, HandlerTyped, ConsumeTyped, IssueTyped,
       RecordTyped DEF Step
<1>2. ASSUME NEW p \in Calls, NEW q \in Calls, Race(p, q) PROVE TypeOK'
    BY <1>2, RaceTyped
<1>3. CASE Tick \/ (\E s \in Sessions : DeleteSession(s)) \/ UNCHANGED vars
    BY <1>3, HostTyped
<1> QED BY <1>1, <1>2, <1>3 DEF Next, Done

(* Every behaviour of the calls, for any number of calls and any rules,    *)
(* keeps the type invariant: no copy of a session that a call holds ever   *)
(* dangles or belongs to another session, and the rule in hand is always   *)
(* one of the called tool's.                                               *)
THEOREM TypeCorrect == Spec => []TypeOK
BY InitTyped, NextTyped, PTL DEF Spec

(***************************************************************************)
(* The order of calls.  OrderInv holds of the arrays and of each call; a   *)
(* step has to keep it for the arrays and for the calls it moves.          *)
(***************************************************************************)

(* With the arrays known and no execution forgotten, only moved calls matter. *)
LEMMA FrameOrder ==
    ASSUME TypeOK, OrderInv, UNCHANGED rules,
           \A s \in Sessions, t \in Tools : Executed(s, t) => Executed(s, t)',
           ArraysKnown',
           NEW P \in SUBSET Calls, \A q \in P : CallOrdered(q)',
           \A q \in Calls \ P : pc'[q] = pc[q] /\ call'[q] = call[q]
    PROVE  OrderInv'
<1>1. ASSUME NEW q \in Calls \ P PROVE CallOrdered(q)'
  <2>1. /\ CallOrdered(q) /\ call[q] \in Locals /\ S(q) \in Sessions /\ T(q) \in Tools
        /\ (pc[q] = "tokens" => Required(q) \in Tools)
    BY DEF OrderInv, TypeOK, VariablesTyped, Locals, RulesInHand, KeepsRule, S, T
  <2>2. pc'[q] = pc[q] /\ call'[q] = call[q]
    BY <1>1
  <2>3. pc'[q] \in Admitted \ {"handler"} => Executed(call[q].ses, call[q].tool)'
    BY <2>1, <2>2 DEF CallOrdered, S, T
  <2>4. pc'[q] = "tokens" => Executed(call[q].ses, rules[call[q].rule].prereq)'
    BY <2>1, <2>2 DEF CallOrdered, S, T, Required
  <2>5. pc'[q] \in Admitted /\ Gated(rules, T(q)) =>
           \E u \in Prerequisites(rules, T(q)) \cap Tools : Executed(S(q), u)'
    BY <2>1, <2>2 DEF CallOrdered, S, T
  <2> QED BY <2>2, <2>3, <2>4, <2>5 DEF CallOrdered, S, T, Required
<1> QED BY <1>1 DEF OrderInv

(* Steps that neither admit a call, nor run a handler, nor touch arrays. *)
LEMMA MoveOrdered ==
    ASSUME TypeOK, OrderInv, UNCHANGED <<rules, executed, arrayHeap>>,
           NEW p \in Calls, NEW x, NEW c,
           pc' = [pc EXCEPT ![p] = x], call' = [call EXCEPT ![p] = c],
           \/ x \notin Admitted \cup {"tokens"}
           \/ /\ pc[p] \in Admitted \ {"handler"} /\ x \in Admitted \ {"handler"}
              /\ c.ses = S(p) /\ c.tool = T(p)
    PROVE  OrderInv'
<1>1. /\ pc'[p] = x /\ call'[p] = c
      /\ \A q \in Calls \ {p} : pc'[q] = pc[q] /\ call'[q] = call[q]
    BY DEF TypeOK, VariablesTyped
<1>2. ArraysKnown'
    BY DEF OrderInv, ArraysKnown, Executed
<1>3. CallOrdered(p)'
  <2>1. CASE x \notin Admitted \cup {"tokens"}
    BY <1>1, <2>1 DEF CallOrdered
  <2>2. CASE /\ pc[p] \in Admitted \ {"handler"} /\ x \in Admitted \ {"handler"}
             /\ c.ses = S(p) /\ c.tool = T(p)
    BY <1>1, <2>2 DEF OrderInv, CallOrdered, Executed, S, T, Admitted
  <2> QED BY <2>1, <2>2
<1>4. \A s \in Sessions, t \in Tools : Executed(s, t) => Executed(s, t)'
    BY DEF Executed
<1>5. \A q \in {p} : CallOrdered(q)'
    BY <1>3
<1>6. {p} \in SUBSET Calls /\ UNCHANGED rules
    OBVIOUS
<1> QED BY ONLY TypeOK, OrderInv, <1>1, <1>2, <1>4, <1>5, <1>6, FrameOrder

(* A call that returns owes nothing. *)
LEMMA ReturnOrdered ==
    ASSUME TypeOK, OrderInv, UNCHANGED <<rules, executed, arrayHeap>>,
           NEW p \in Calls, Return(p)
    PROVE  OrderInv'
BY MoveOrdered DEF Return, Goto, Set, Admitted

(* A rule that fails admits no one. *)
LEMMA RuleFailsOrdered ==
    ASSUME TypeOK, OrderInv, UNCHANGED <<rules, executed, arrayHeap>>,
           NEW p \in Calls, RuleFails(p)
    PROVE  OrderInv'
<1>1. CASE RulesAfter(rules, T(p), call[p].rule) # {}
    BY <1>1, MoveOrdered DEF RuleFails, Goto, Set, Admitted
<1>2. CASE RulesAfter(rules, T(p), call[p].rule) = {}
    BY <1>2, ReturnOrdered DEF RuleFails
<1> QED BY <1>1, <1>2

(* An admission: the call is at its handler and keeps its session and tool. *)
LEMMA AdmitOrdered ==
    ASSUME TypeOK, OrderInv, UNCHANGED <<rules, executed, arrayHeap, call>>,
           NEW p \in Calls, pc' = [pc EXCEPT ![p] = "handler"],
           Gated(rules, T(p)) =>
              \E u \in Prerequisites(rules, T(p)) \cap Tools : Executed(S(p), u)
    PROVE  OrderInv'
<1>1. /\ pc'[p] = "handler" /\ call'[p] = call[p]
      /\ \A q \in Calls \ {p} : pc'[q] = pc[q] /\ call'[q] = call[q]
    BY DEF TypeOK, VariablesTyped
<1>2. ArraysKnown'
    BY DEF OrderInv, ArraysKnown, Executed
<1>3. \A q \in {p} : CallOrdered(q)'
    BY <1>1 DEF CallOrdered, Executed, S, T
<1>4. \A s \in Sessions, t \in Tools : Executed(s, t) => Executed(s, t)'
    BY DEF Executed
<1>5. {p} \in SUBSET Calls /\ UNCHANGED rules
    OBVIOUS
<1> QED BY ONLY TypeOK, OrderInv, <1>1, <1>2, <1>3, <1>4, <1>5, FrameOrder

(* The steps up to the handler. *)
LEMMA BeforeHandlerOrdered ==
    ASSUME TypeOK, OrderInv, NEW p \in Calls,
           \/ Begin(p) \/ WrapGet(p) \/ CreateGet(p) \/ CreateFails(p) \/ ReadToken(p)
           \/ AdmitFree(p) \/ RejectNoSession(p) \/ StartValidation(p) \/ ValidateGet(p)
           \/ HistoryHit(p) \/ HistoryMiss(p) \/ CheckTokens(p)
    PROVE  OrderInv'
<1> USE DEF At, Goto, gvars, svars, hvars
<1>0. /\ call = [call EXCEPT ![p] = call[p]] /\ call[p] \in Locals
      /\ S(p) \in Sessions /\ T(p) \in Tools /\ H(p) \in Header
    BY DEF TypeOK, VariablesTyped, Locals, S, T, H
<1>1. CASE Begin(p)
    BY <1>1, MoveOrdered DEF Begin, Set, Admitted
<1>2. CASE WrapGet(p)
    BY <1>2, MoveOrdered DEF WrapGet, Keep, Set, Admitted
<1>3. CASE CreateGet(p)
    BY <1>3, MoveOrdered DEF CreateGet, Keep, Set, Admitted
<1>4. CASE CreateFails(p)
    BY <1>0, <1>4, MoveOrdered DEF CreateFails, Admitted
<1>5. CASE ReadToken(p)
    BY <1>5, MoveOrdered DEF ReadToken, Set, Admitted
<1>6. CASE AdmitFree(p)
    BY <1>6, AdmitOrdered DEF AdmitFree
<1>7. CASE RejectNoSession(p)
    BY <1>7, ReturnOrdered DEF RejectNoSession
<1>8. CASE StartValidation(p)
    BY <1>0, <1>8, MoveOrdered DEF StartValidation, Admitted
<1>9. CASE ValidateGet(p)
  <2>1. CASE Exists(S(p))
    BY <1>9, <2>1, MoveOrdered DEF ValidateGet, Set, Admitted
  <2>2. CASE ~Exists(S(p))
    BY <1>9, <2>2, ReturnOrdered DEF ValidateGet
  <2> QED BY <2>1, <2>2
<1>10. CASE HistoryHit(p)
  <2>1. /\ pc' = [pc EXCEPT ![p] = "tokens"] /\ pc[p] = "history"
        /\ UNCHANGED <<rules, call, executed, arrayHeap>>
        /\ HasToolBeenCalled(H(p), Required(p))
    BY <1>10 DEF HistoryHit
  <2>2. ValidHeader(S(p), H(p)) /\ Required(p) \in Tools
    BY <2>1 DEF TypeOK, CopiesValid, RulesInHand, HoldsCopy, KeepsRule
  <2>3. PICK k \in 1 .. H(p).len : arrayHeap[H(p).arr].slots[k] = Required(p)
    BY <2>1 DEF HasToolBeenCalled
  <2>4. H(p).arr \in DOMAIN arrayHeap /\ k \in DOMAIN arrayHeap[H(p).arr].slots
    <3>1. arrayHeap \in Seq(BackingArray) /\ H(p).arr \in 1 .. Len(arrayHeap)
      BY <2>2 DEF TypeOK, VariablesTyped, ValidHeader
    <3>a. arrayHeap[H(p).arr] \in BackingArray
      BY <3>1
    <3>2. arrayHeap[H(p).arr].slots \in Seq(Tools \cup {NoTool, Torn})
      BY <3>a DEF BackingArray
    <3>3. H(p).len \in Nat /\ H(p).len <= Len(arrayHeap[H(p).arr].slots)
      BY <1>0, <2>2 DEF ValidHeader, Header
    <3> QED BY <2>3, <3>1, <3>2, <3>3
  <2>5. Executed(S(p), Required(p))
    BY <2>2, <2>3, <2>4 DEF OrderInv, ArraysKnown, ValidHeader
  <2>6. /\ pc'[p] = "tokens" /\ call'[p] = call[p]
        /\ \A q \in Calls \ {p} : pc'[q] = pc[q] /\ call'[q] = call[q]
    BY <2>1 DEF TypeOK, VariablesTyped
  <2>7. \A q \in {p} : CallOrdered(q)'
    BY <2>1, <2>5, <2>6 DEF CallOrdered, Executed, S, T, Required, Admitted
  <2>8. ArraysKnown' /\ \A s \in Sessions, t \in Tools : Executed(s, t) => Executed(s, t)'
    BY <2>1 DEF OrderInv, ArraysKnown, Executed
  <2> QED BY <2>1, <2>6, <2>7, <2>8, FrameOrder
<1>11. CASE HistoryMiss(p)
    BY <1>11, RuleFailsOrdered DEF HistoryMiss
<1>12. CASE CheckTokens(p)
  <2>1. CASE ValidTokens(S(p), Required(p)) # {}
    <3>1. Executed(S(p), Required(p))
      BY <1>12 DEF CheckTokens, OrderInv, CallOrdered
    <3>2. Required(p) \in Prerequisites(rules, T(p)) \cap Tools
      BY <1>12 DEF CheckTokens, TypeOK, RulesInHand, KeepsRule, Prerequisites, Required
    <3> QED BY <1>12, <2>1, <3>1, <3>2, AdmitOrdered DEF CheckTokens
  <2>2. CASE ~ (ValidTokens(S(p), Required(p)) # {})
    BY <1>12, <2>2, RuleFailsOrdered DEF CheckTokens
  <2> QED BY <2>1, <2>2
<1> QED BY <1>1, <1>2, <1>3, <1>4, <1>5, <1>6, <1>7, <1>8, <1>9, <1>10, <1>11, <1>12

(* The handler: what it executes is known from now on. *)
LEMMA HandlerOrdered ==
    ASSUME TypeOK, OrderInv, NEW p \in Calls, HandlerSucceeds(p) \/ HandlerFails(p)
    PROVE  OrderInv'
<1>1. CASE HandlerSucceeds(p)
  <2>1. /\ pc' = [pc EXCEPT ![p] = "consume"] /\ pc[p] = "handler"
        /\ executed' = [executed EXCEPT ![S(p)][T(p)] = @ + 1]
        /\ UNCHANGED <<rules, call, arrayHeap>>
    BY <1>1 DEF HandlerSucceeds, At, Goto, gvars, svars
  <2>2. /\ S(p) \in Sessions /\ T(p) \in Tools
        /\ executed \in [Sessions -> [Tools -> Nat]]
    BY DEF TypeOK, VariablesTyped, Locals, S, T
  <2>3. \A s \in Sessions, t \in Tools :
           executed'[s][t] = executed[s][t] + (IF s = S(p) /\ t = T(p) THEN 1 ELSE 0)
    BY <2>1, <2>2
  <2>4. Executed(S(p), T(p))'
    <3>1. ASSUME NEW s \in Sessions, NEW t \in Tools, s = S(p), t = T(p)
          PROVE  executed'[s][t] > 0
      BY <2>2, <2>3, <3>1
    <3>2. executed'[S(p)][T(p)] > 0
      BY <2>2, <3>1
    <3> QED BY <2>1, <3>2 DEF Executed, S, T
  <2>5. \A s \in Sessions, t \in Tools : Executed(s, t) => Executed(s, t)'
    BY <2>2, <2>3 DEF Executed
  <2>6. ArraysKnown'
    <3>1. \A a \in DOMAIN arrayHeap : \A k \in DOMAIN arrayHeap[a].slots :
             arrayHeap[a].slots[k] \in Tools =>
                 Executed(arrayHeap[a].ses, arrayHeap[a].slots[k])'
      <4> SUFFICES ASSUME NEW a \in DOMAIN arrayHeap, NEW k \in DOMAIN arrayHeap[a].slots,
                          arrayHeap[a].slots[k] \in Tools
                   PROVE  executed'[arrayHeap[a].ses][arrayHeap[a].slots[k]] > 0
        BY <2>1 DEF Executed
      <4>1. arrayHeap[a] \in BackingArray
        BY DEF TypeOK, VariablesTyped
      <4>2. arrayHeap[a].ses \in Sessions
        BY <4>1 DEF BackingArray
      <4>3. Executed(arrayHeap[a].ses, arrayHeap[a].slots[k])
        BY DEF OrderInv, ArraysKnown
      <4> QED BY <2>5, <4>2, <4>3 DEF Executed
    <3> QED BY <2>1, <3>1 DEF ArraysKnown
  <2>7. /\ pc'[p] = "consume" /\ call'[p] = call[p]
        /\ \A q \in Calls \ {p} : pc'[q] = pc[q] /\ call'[q] = call[q]
    BY <2>1 DEF TypeOK, VariablesTyped
  <2>8. \A q \in {p} : CallOrdered(q)'
    <3>1. Gated(rules, T(p)) =>
             \E u \in Prerequisites(rules, T(p)) \cap Tools : Executed(S(p), u)
      BY <2>1 DEF OrderInv, CallOrdered, Admitted
    <3>2. Gated(rules, T(p)) =>
             \E u \in Prerequisites(rules, T(p)) \cap Tools : executed'[S(p)][u] > 0
      BY <2>2, <2>5, <3>1 DEF Executed
    <3> QED BY <2>1, <2>4, <2>7, <3>2 DEF CallOrdered, Executed, S, T
  <2>9. {p} \in SUBSET Calls /\ UNCHANGED rules
    BY <2>1
  <2> QED BY ONLY TypeOK, OrderInv, <2>5, <2>6, <2>7, <2>8, <2>9, FrameOrder
<1>2. CASE HandlerFails(p)
    BY <1>2, ReturnOrdered DEF HandlerFails, gvars, svars, hvars
<1> QED BY <1>1, <1>2

(* The steps after the handler, but for the append. *)
LEMMA AfterHandlerOrdered ==
    ASSUME TypeOK, OrderInv, NEW p \in Calls,
           \/ ConsumeFind(p) \/ ConsumeRemove(p) \/ ConsumeTooLate(p) \/ ConsumeGet(p)
           \/ ConsumeTruncate(p) \/ ConsumeUpdate(p)
           \/ IssueStore(p) \/ GenerateTokenFails(p) \/ IssueGet(p) \/ IssueAdd(p)
           \/ IssueUpdate(p) \/ RecordGet(p) \/ RecordUpdate(p)
    PROVE  OrderInv'
<1> USE DEF At, Goto, gvars, svars, hvars, Admitted
<1>0. call = [call EXCEPT ![p] = call[p]] /\ call[p] \in Locals
    BY DEF TypeOK, VariablesTyped
<1>1. CASE ConsumeFind(p)
    BY <1>0, <1>1, MoveOrdered DEF ConsumeFind, Set, S, T, Locals
<1>2. CASE ConsumeRemove(p)
    BY <1>0, <1>2, MoveOrdered DEF ConsumeRemove, S, T
<1>3. CASE ConsumeTooLate(p)
    BY <1>0, <1>3, MoveOrdered DEF ConsumeTooLate, S, T
<1>4. CASE ConsumeGet(p)
    BY <1>0, <1>4, MoveOrdered DEF ConsumeGet, Keep, Set, S, T, Locals
<1>5. CASE ConsumeTruncate(p)
    BY <1>0, <1>5, MoveOrdered DEF ConsumeTruncate, S, T
<1>6. CASE ConsumeUpdate(p)
    BY <1>0, <1>6, MoveOrdered DEF ConsumeUpdate, Update, S, T
<1>7. CASE IssueStore(p)
    BY <1>0, <1>7, MoveOrdered DEF IssueStore, Set, S, T, Locals
<1>8. CASE GenerateTokenFails(p)
    BY <1>0, <1>8, MoveOrdered DEF GenerateTokenFails, S, T
<1>9. CASE IssueGet(p)
    BY <1>0, <1>9, MoveOrdered DEF IssueGet, Keep, Set, S, T, Locals
<1>10. CASE IssueAdd(p)
    BY <1>0, <1>10, MoveOrdered DEF IssueAdd, S, T
<1>11. CASE IssueUpdate(p)
    BY <1>0, <1>11, MoveOrdered DEF IssueUpdate, Update, S, T
<1>12. CASE RecordGet(p)
  <2>1. CASE Exists(S(p))
    BY <1>0, <1>12, <2>1, MoveOrdered DEF RecordGet, Keep, Set, S, T, Locals
  <2>2. CASE ~Exists(S(p))
    BY <1>12, <2>2, ReturnOrdered DEF RecordGet
  <2> QED BY <2>1, <2>2
<1>13. CASE RecordUpdate(p)
    BY <1>13, ReturnOrdered DEF RecordUpdate, Update
<1> QED BY <1>1, <1>2, <1>3, <1>4, <1>5, <1>6, <1>7, <1>8, <1>9, <1>10, <1>11, <1>12, <1>13

(* Appending the name of an executed tool, or a torn one, keeps the arrays *)
(* known.                                                                  *)
LEMMA RecordKnown ==
    ASSUME TypeOK, OrderInv, executed' = executed,
           NEW s \in Sessions, NEW h \in Header, ValidHeader(s, h),
           NEW v \in Tools \cup {Torn}, v \in Tools => Executed(s, v),
           arrayHeap' = RecordHeap(s, h, v)
    PROVE  ArraysKnown'
<1>1. PICK r : r = RecordHeader(h)
    OBVIOUS
<1>2. /\ arrayHeap' \in Seq(BackingArray)
      /\ \A a \in 1 .. Len(arrayHeap') : \E b \in DOMAIN arrayHeap :
            /\ arrayHeap[b].ses = arrayHeap'[a].ses
            /\ \A k \in DOMAIN arrayHeap'[a].slots :
                  \/ arrayHeap'[a].slots[k] = NoTool
                  \/ arrayHeap'[a].slots[k] = v /\ arrayHeap'[a].ses = s /\ k = h.len + 1
                  \/ /\ k \in DOMAIN arrayHeap[b].slots
                     /\ arrayHeap[b].slots[k] = arrayHeap'[a].slots[k]
    BY <1>1, RecordHeapTyped
<1> SUFFICES ASSUME NEW a \in DOMAIN arrayHeap', NEW k \in DOMAIN arrayHeap'[a].slots,
                    arrayHeap'[a].slots[k] \in Tools
             PROVE  executed[arrayHeap'[a].ses][arrayHeap'[a].slots[k]] > 0
    BY DEF ArraysKnown, Executed
<1>3. a \in 1 .. Len(arrayHeap')
    BY <1>2
<1>4. PICK b \in DOMAIN arrayHeap :
          /\ arrayHeap[b].ses = arrayHeap'[a].ses
          /\ \/ arrayHeap'[a].slots[k] = NoTool
             \/ arrayHeap'[a].slots[k] = v /\ arrayHeap'[a].ses = s
             \/ k \in DOMAIN arrayHeap[b].slots /\ arrayHeap[b].slots[k] = arrayHeap'[a].slots[k]
    BY <1>2, <1>3
<1>5. CASE arrayHeap'[a].slots[k] = NoTool
    BY <1>5, ToolsAssumption
<1>6. CASE arrayHeap'[a].slots[k] = v /\ arrayHeap'[a].ses = s
    BY <1>6 DEF Executed
<1>7. CASE k \in DOMAIN arrayHeap[b].slots /\ arrayHeap[b].slots[k] = arrayHeap'[a].slots[k]
    BY <1>4, <1>7 DEF OrderInv, ArraysKnown, Executed
<1> QED BY <1>4, <1>5, <1>6, <1>7

(* RecordToolCall appends a tool that was executed. *)
LEMMA RecordOrdered ==
    ASSUME TypeOK, OrderInv, NEW p \in Calls, RecordTool(p)
    PROVE  OrderInv'
<1>1. /\ pc' = [pc EXCEPT ![p] = "recordUpdate"] /\ pc[p] = "record"
      /\ call' = [call EXCEPT ![p] = [call[p] EXCEPT !.hdr = RecordHeader(H(p))]]
      /\ UNCHANGED <<rules, executed>>
      /\ arrayHeap' = RecordHeap(S(p), H(p), T(p))
    BY DEF RecordTool, At, Goto, Keep, Set, gvars, hvars
<1>2. call[p] \in Locals /\ S(p) \in Sessions /\ T(p) \in Tools /\ H(p) \in Header
    BY DEF TypeOK, VariablesTyped, Locals, S, T, H
<1>3. ValidHeader(S(p), H(p)) /\ CallOrdered(p) /\ Executed(S(p), T(p))
    BY <1>1 DEF TypeOK, CopiesValid, HoldsCopy, OrderInv, CallOrdered, Admitted
<1>4. ArraysKnown'
    BY <1>1, <1>2, <1>3, RecordKnown
<1>5. /\ pc'[p] = "recordUpdate" /\ call'[p].ses = S(p) /\ call'[p].tool = T(p)
      /\ \A q \in Calls \ {p} : pc'[q] = pc[q] /\ call'[q] = call[q]
    BY <1>1, <1>2 DEF TypeOK, VariablesTyped, Locals, S, T
<1>6. \A q \in {p} : CallOrdered(q)'
    BY <1>1, <1>3, <1>5 DEF CallOrdered, Executed, S, T, Admitted
<1>7. /\ {p} \in SUBSET Calls /\ UNCHANGED rules
      /\ \A s \in Sessions, t \in Tools : Executed(s, t) => Executed(s, t)'
    BY <1>1 DEF Executed
<1> QED BY ONLY TypeOK, OrderInv, <1>4, <1>5, <1>6, <1>7, FrameOrder

(* A new session has an empty history. *)
LEMMA CreateOrdered ==
    ASSUME TypeOK, OrderInv, NEW p \in Calls, CreateNew(p)
    PROVE  OrderInv'
<1>1. /\ pc' = [pc EXCEPT ![p] = "readToken"] /\ UNCHANGED <<rules, executed>>
      /\ arrayHeap' = Append(arrayHeap, [ses |-> S(p), slots |-> <<>>])
      /\ \A q \in Calls \ {p} : call'[q] = call[q]
    BY DEF CreateNew, Create, Goto, Keep, Set, gvars, hvars, TypeOK, VariablesTyped
<1>2. ArraysKnown'
  <2>1. arrayHeap \in Seq(BackingArray)
    BY DEF TypeOK, VariablesTyped
  <2>2. ASSUME NEW a \in DOMAIN arrayHeap'
        PROVE  \/ a \in DOMAIN arrayHeap /\ arrayHeap'[a] = arrayHeap[a]
               \/ arrayHeap'[a] = [ses |-> S(p), slots |-> <<>>]
    BY <1>1, <2>1, <2>2
  <2>3. ASSUME NEW a \in DOMAIN arrayHeap', NEW k \in DOMAIN arrayHeap'[a].slots,
               arrayHeap'[a].slots[k] \in Tools
        PROVE  executed[arrayHeap'[a].ses][arrayHeap'[a].slots[k]] > 0
    <3>1. CASE a \in DOMAIN arrayHeap /\ arrayHeap'[a] = arrayHeap[a]
      BY <2>3, <3>1 DEF OrderInv, ArraysKnown, Executed
    <3>2. CASE arrayHeap'[a] = [ses |-> S(p), slots |-> <<>>]
      BY <2>3, <3>2
    <3> QED BY <2>2, <3>1, <3>2
  <2> QED BY <1>1, <2>3 DEF ArraysKnown, Executed
<1>3. pc'[p] = "readToken" /\ \A q \in Calls \ {p} : pc'[q] = pc[q]
    BY <1>1 DEF TypeOK, VariablesTyped
<1>4. \A q \in {p} : CallOrdered(q)'
    BY <1>3 DEF CallOrdered, Admitted
<1>5. /\ {p} \in SUBSET Calls /\ UNCHANGED rules
      /\ \A s \in Sessions, t \in Tools : Executed(s, t) => Executed(s, t)'
      /\ \A q \in Calls \ {p} : pc'[q] = pc[q] /\ call'[q] = call[q]
    BY <1>1, <1>3 DEF Executed
<1> QED BY ONLY TypeOK, OrderInv, <1>2, <1>4, <1>5, FrameOrder

(* Races write no name that was not executed. *)
LEMMA RaceOrdered ==
    ASSUME TypeOK, OrderInv, NEW p \in Calls, NEW q \in Calls, Race(p, q)
    PROVE  OrderInv'
<1>0. UNCHANGED <<rules, executed>>
    BY DEF Race, RacyMapWrite, MapThrow, RacyRecord, gvars, hvars
<1>1. /\ {p, q} \in SUBSET Calls
      /\ \A s \in Sessions, t \in Tools : Executed(s, t) => Executed(s, t)'
    BY <1>0 DEF Executed
<1>2. CASE RacyMapWrite(p, q)
  <2>1. /\ \A r \in {p, q} : pc[r] \in {"add", "truncate"}
        /\ pc' = [r \in Calls |-> IF r \notin {p, q} THEN pc[r]
                                  ELSE IF pc[r] = "add" THEN "issueUpdate" ELSE "consumeUpdate"]
        /\ UNCHANGED <<call, arrayHeap>>
    BY <1>2 DEF RacyMapWrite, WritesMap
  <2>2. ArraysKnown'
    BY <1>0, <2>1 DEF OrderInv, ArraysKnown, Executed
  <2>3. \A r \in {p, q} : CallOrdered(r)'
    <3> SUFFICES ASSUME NEW r \in {p, q} PROVE CallOrdered(r)'
      OBVIOUS
    <3>1. CallOrdered(r) /\ pc'[r] \in {"issueUpdate", "consumeUpdate"}
      BY <2>1 DEF OrderInv
    <3> QED BY <1>0, <2>1, <3>1 DEF CallOrdered, Executed, S, T, Admitted
  <2>4. \A r \in Calls \ {p, q} : pc'[r] = pc[r] /\ call'[r] = call[r]
    BY <2>1
  <2> QED BY ONLY TypeOK, OrderInv, <1>0, <1>1, <2>2, <2>3, <2>4, FrameOrder
<1>3. CASE MapThrow(p, q)
  <2>1. UNCHANGED <<pc, call, arrayHeap>>
    BY <1>3 DEF MapThrow, svars
  <2> QED BY <1>0, <2>1 DEF OrderInv, ArraysKnown, CallOrdered, Executed, S, T, Required
<1>4. CASE RacyRecord(p, q)
  <2>1. /\ \A r \in {p, q} : pc[r] = "record"
        /\ arrayHeap' = RecordHeap(S(p), H(p), Torn)
        /\ call' = [r \in Calls |-> IF r \in {p, q}
                                    THEN [call[r] EXCEPT !.hdr = RecordHeader(@)]
                                    ELSE call[r]]
        /\ pc' = [r \in Calls |-> IF r \in {p, q} THEN "recordUpdate" ELSE pc[r]]
    BY <1>4 DEF RacyRecord, At
  <2>2. /\ \A r \in Calls : call[r] \in Locals
        /\ S(p) \in Sessions /\ H(p) \in Header /\ ValidHeader(S(p), H(p))
    BY <2>1 DEF TypeOK, VariablesTyped, CopiesValid, HoldsCopy, Locals, S, H
  <2>3. ArraysKnown'
    BY <1>0, <2>1, <2>2, TornAssumption, RecordKnown
  <2>4. \A r \in {p, q} : CallOrdered(r)'
    <3> SUFFICES ASSUME NEW r \in {p, q} PROVE CallOrdered(r)'
      OBVIOUS
    <3>1. CallOrdered(r) /\ pc'[r] = "recordUpdate" /\ pc[r] = "record"
      BY <2>1 DEF OrderInv
    <3>2. call'[r].ses = S(r) /\ call'[r].tool = T(r)
      BY <2>1, <2>2 DEF Locals, S, T
    <3> QED BY <1>0, <3>1, <3>2 DEF CallOrdered, Executed, S, T, Admitted
  <2>5. \A r \in Calls \ {p, q} : pc'[r] = pc[r] /\ call'[r] = call[r]
    BY <2>1
  <2> QED BY ONLY TypeOK, OrderInv, <1>0, <1>1, <2>3, <2>4, <2>5, FrameOrder
<1> QED BY <1>2, <1>3, <1>4 DEF Race

(* Nothing is recorded at first. *)
LEMMA InitOrdered == Init => OrderInv
BY DEF Init, SessionStoreInit, OrderInv, ArraysKnown, CallOrdered, Admitted

(* Every step keeps the histories known. *)
LEMMA NextOrdered == TypeOK /\ OrderInv /\ [Next]_vars => OrderInv'
<1> SUFFICES ASSUME TypeOK, OrderInv, [Next]_vars PROVE OrderInv'
    OBVIOUS
<1>1. ASSUME NEW p \in Calls, Begin(p) \/ Step(p) PROVE OrderInv'
    BY <1>1, BeforeHandlerOrdered, CreateOrdered, HandlerOrdered, AfterHandlerOrdered,
       RecordOrdered DEF Step
<1>2. ASSUME NEW p \in Calls, NEW q \in Calls, Race(p, q) PROVE OrderInv'
    BY <1>2, RaceOrdered
<1>3. CASE Tick \/ (\E s \in Sessions : DeleteSession(s)) \/ UNCHANGED vars
  <2>1. UNCHANGED <<rules, pc, call, executed, arrayHeap>>
    BY <1>3 DEF Tick, DeleteSession, Delete, vars, gvars, svars, hvars
  <2> QED BY <2>1 DEF OrderInv, ArraysKnown, CallOrdered, Executed, S, T, Required
<1> QED BY <1>1, <1>2, <1>3 DEF Next, Done

(* For any number of overlapping calls, any tools, sessions and rules: no  *)
(* array behind a ToolHistory holds the name of a tool that has not been   *)
(* executed in its session, however appends to it race.                    *)
THEOREM HistoriesAreKnown == Spec => []OrderInv
<1>1. TypeOK /\ OrderInv /\ [Next]_vars => TypeOK' /\ OrderInv'
    BY NextTyped, NextOrdered
<1> QED BY <1>1, InitTyped, InitOrdered, PTL DEF Spec

(* Under the same conditions: a call of a gated tool that ValidateToolCall *)
(* lets through comes after a successful call of one of its prerequisites  *)
(* in the same session.                                                    *)
THEOREM OrderIsEnforced == Spec => []OrderEnforced
<1>1. OrderInv => OrderEnforced
    BY DEF OrderInv, CallOrdered, OrderEnforced, Executed
<1> QED BY <1>1, HistoriesAreKnown, PTL

(***************************************************************************)
(* The ratchet implements Gate: each step of RatchetCalls is, under the    *)
(* mapping of RatchetProperties, a step of Gate or leaves Gate's variables *)
(* alone.  TypeOK and OrderInv say which states a step starts from.        *)
(***************************************************************************)

(* The abstract phase of a call that is at step x. *)
PhaseOf(x) ==
    IF x = "idle" THEN "idle"
    ELSE IF x = "handler" THEN "admitted"
    ELSE IF x \in Admitted THEN "executed" ELSE "arrived"

(* Gate's notion of an open tool is that of the service's rules. *)
LEMMA OpenIs ==
    ASSUME NEW s \in Sessions, NEW t
    PROVE  G!Open(s, t) <=>
              \/ ~Gated(rules, t)
              \/ \E u \in Prerequisites(rules, t) : u \in Tools /\ executed[s][u] > 0
BY DEF G!Open, G!Gated, G!findRules, G!Prerequisites, Gated, findRules, Prerequisites

(* A step that keeps the phase, the session and the tool of every call. *)
LEMMA StutterStep ==
    ASSUME UNCHANGED <<rules, executed>>,
           \A q \in Calls : /\ PhaseOf(pc'[q]) = PhaseOf(pc[q])
                            /\ call'[q].ses = S(q) /\ call'[q].tool = T(q)
    PROVE  UNCHANGED G!gateVars
BY DEF G!gateVars, PhaseOf, S, T

(* The same for a step that moves call p only. *)
LEMMA MoveStutters ==
    ASSUME TypeOK, UNCHANGED <<rules, executed>>, NEW p \in Calls, NEW x, NEW c,
           pc' = [pc EXCEPT ![p] = x], call' = [call EXCEPT ![p] = c],
           PhaseOf(x) = PhaseOf(pc[p]), c.ses = S(p), c.tool = T(p)
    PROVE  UNCHANGED G!gateVars
<1>1. \A q \in Calls : /\ pc'[q] = (IF q = p THEN x ELSE pc[q])
                       /\ call'[q] = (IF q = p THEN c ELSE call[q])
    BY DEF TypeOK, VariablesTyped
<1> QED BY <1>1, StutterStep DEF S, T

(* What call p does to Gate's variables when it moves. *)
LEMMA MoveMaps ==
    ASSUME TypeOK, NEW p \in Calls, NEW x, NEW c,
           pc' = [pc EXCEPT ![p] = x], call' = [call EXCEPT ![p] = c]
    PROVE  \A from, to : PhaseOf(pc[p]) = from /\ PhaseOf(x) = to => G!Move(p, from, to)
<1>1. \A q \in Calls : pc'[q] = (IF q = p THEN x ELSE pc[q])
    BY DEF TypeOK, VariablesTyped
<1> QED BY <1>1 DEF G!Move, PhaseOf

(* A call that returns leaves. *)
LEMMA ReturnLeaves ==
    ASSUME TypeOK, UNCHANGED <<rules, executed>>, NEW p \in Calls, Return(p), pc[p] # "idle"
    PROVE  G!Leave(p)
<1>1. pc' = [pc EXCEPT ![p] = "idle"] /\ call' = [call EXCEPT ![p] = Idle]
    BY DEF Return, Goto, Set
<1>2. \A q \in Calls : /\ pc'[q] = (IF q = p THEN "idle" ELSE pc[q])
                       /\ call'[q] = (IF q = p THEN Idle ELSE call[q])
    BY <1>1 DEF TypeOK, VariablesTyped
<1>3. [ses |-> Idle.ses, tool |-> Idle.tool] \in [ses : Sessions, tool : Tools]
    BY IdleTyped DEF Locals
<1> QED BY <1>2, <1>3 DEF G!Leave, S, T

(* A rule that fails is a stutter, or the call leaves. *)
LEMMA RuleFailsMaps ==
    ASSUME TypeOK, UNCHANGED <<rules, executed>>, NEW p \in Calls,
           pc[p] \in {"history", "tokens"}, RuleFails(p)
    PROVE  G!Leave(p) \/ UNCHANGED G!gateVars
<1>1. CASE RulesAfter(rules, T(p), call[p].rule) # {}
  <2>1. call[p] \in Locals
    BY DEF TypeOK, VariablesTyped
  <2> QED BY <1>1, <2>1, MoveStutters DEF RuleFails, Goto, Set, PhaseOf, Admitted, S, T, Locals
<1>2. CASE RulesAfter(rules, T(p), call[p].rule) = {}
    BY <1>2, ReturnLeaves DEF RuleFails
<1> QED BY <1>1, <1>2

(* An admission opens the gate. *)
LEMMA AdmissionMaps ==
    ASSUME TypeOK, UNCHANGED <<rules, executed, call>>, NEW p \in Calls,
           pc' = [pc EXCEPT ![p] = "handler"], PhaseOf(pc[p]) = "arrived",
           Gated(rules, T(p)) =>
              \E u \in Prerequisites(rules, T(p)) \cap Tools : Executed(S(p), u)
    PROVE  G!Admit(p)
<1>1. S(p) \in Sessions /\ call = [call EXCEPT ![p] = call[p]]
    BY DEF TypeOK, VariablesTyped, Locals, S
<1>2. G!Open(S(p), T(p))
    BY <1>1, OpenIs DEF Executed
<1>3. G!Move(p, "arrived", "admitted")
    BY <1>1, MoveMaps DEF PhaseOf
<1> QED BY <1>2, <1>3 DEF G!Admit, S, T

(* A call begins. *)
LEMMA BeginMaps ==
    ASSUME TypeOK, NEW p \in Calls, Begin(p)
    PROVE  G!Arrive(p)
<1>1. PICK s \in Sessions, t \in Tools :
          call' = [call EXCEPT ![p] = [Idle EXCEPT !.ses = s, !.tool = t]]
    BY DEF Begin, Set
<1>2. pc[p] = "idle" /\ pc' = [pc EXCEPT ![p] = "get"] /\ UNCHANGED <<rules, executed>>
    BY DEF Begin, At, Goto, hvars
<1>3. G!Move(p, "idle", "arrived")
  <2>1. PhaseOf(pc[p]) = "idle" /\ PhaseOf("get") = "arrived"
    BY <1>2 DEF PhaseOf, Admitted
  <2> QED BY <1>1, <1>2, <2>1, MoveMaps
<1>4. [Idle EXCEPT !.ses = s, !.tool = t].ses = s /\ [Idle EXCEPT !.ses = s, !.tool = t].tool = t
    BY IdleTyped DEF Locals
<1>5. \A q \in Calls : /\ q # p => call'[q] = call[q]
                       /\ q = p => call'[q].ses = s /\ call'[q].tool = t
    BY <1>1, <1>4 DEF TypeOK, VariablesTyped
<1> QED BY <1>2, <1>3, <1>5 DEF G!Arrive, S, T

(* Up to the handler: the call stays where it is, is admitted or leaves. *)
LEMMA BeforeHandlerMaps ==
    ASSUME TypeOK, OrderInv, NEW p \in Calls,
           \/ WrapGet(p) \/ CreateGet(p) \/ CreateNew(p) \/ CreateFails(p) \/ ReadToken(p)
           \/ AdmitFree(p) \/ RejectNoSession(p) \/ StartValidation(p) \/ ValidateGet(p)
           \/ HistoryHit(p) \/ HistoryMiss(p) \/ CheckTokens(p)
    PROVE  G!Admit(p) \/ G!Leave(p) \/ UNCHANGED G!gateVars
<1> USE DEF At, Goto, gvars, hvars
<1>0. call = [call EXCEPT ![p] = call[p]] /\ call[p] \in Locals
    BY DEF TypeOK, VariablesTyped
<1>1. CASE WrapGet(p)
    BY <1>0, <1>1, MoveStutters DEF WrapGet, Keep, Set, PhaseOf, Admitted, S, T, Locals
<1>2. CASE CreateGet(p)
    BY <1>0, <1>2, MoveStutters DEF CreateGet, Keep, Set, PhaseOf, Admitted, S, T, Locals
<1>3. CASE CreateNew(p)
    BY <1>0, <1>3, MoveStutters DEF CreateNew, Keep, Set, PhaseOf, Admitted, S, T, Locals
<1>4. CASE CreateFails(p)
    BY <1>0, <1>4, MoveStutters DEF CreateFails, PhaseOf, Admitted, S, T
<1>5. CASE ReadToken(p)
    BY <1>0, <1>5, MoveStutters DEF ReadToken, Set, PhaseOf, Admitted, S, T, Locals
<1>6. CASE AdmitFree(p)
    BY <1>6, AdmissionMaps DEF AdmitFree, PhaseOf, Admitted
<1>7. CASE RejectNoSession(p)
    BY <1>7, ReturnLeaves DEF RejectNoSession
<1>8. CASE StartValidation(p)
    BY <1>0, <1>8, MoveStutters DEF StartValidation, PhaseOf, Admitted, S, T
<1>9. CASE ValidateGet(p)
  <2>1. CASE Exists(S(p))
    BY <1>0, <1>9, <2>1, MoveStutters DEF ValidateGet, Set, PhaseOf, Admitted, S, T, Locals
  <2>2. CASE ~Exists(S(p))
    BY <1>9, <2>2, ReturnLeaves DEF ValidateGet
  <2> QED BY <2>1, <2>2
<1>10. CASE HistoryHit(p)
    BY <1>0, <1>10, MoveStutters DEF HistoryHit, PhaseOf, Admitted, S, T
<1>11. CASE HistoryMiss(p)
    BY <1>11, RuleFailsMaps DEF HistoryMiss
<1>12. CASE CheckTokens(p)
  <2>1. CASE ValidTokens(S(p), Required(p)) # {}
    <3>1. Executed(S(p), Required(p))
      BY <1>12 DEF CheckTokens, OrderInv, CallOrdered
    <3>2. Required(p) \in Prerequisites(rules, T(p)) \cap Tools
      BY <1>12 DEF CheckTokens, TypeOK, RulesInHand, KeepsRule, Prerequisites, Required
    <3> QED BY <1>12, <2>1, <3>1, <3>2, AdmissionMaps DEF CheckTokens, PhaseOf, Admitted
  <2>2. CASE ~ (ValidTokens(S(p), Required(p)) # {})
    BY <1>12, <2>2, RuleFailsMaps DEF CheckTokens
  <2> QED BY <2>1, <2>2
<1> QED BY <1>1, <1>2, <1>3, <1>4, <1>5, <1>6, <1>7, <1>8, <1>9, <1>10, <1>11, <1>12

(* The handler: the call is executed, or leaves. *)
LEMMA HandlerMaps ==
    ASSUME TypeOK, NEW p \in Calls, HandlerSucceeds(p) \/ HandlerFails(p)
    PROVE  G!Execute(p) \/ G!Leave(p)
<1>1. CASE HandlerSucceeds(p)
  <2>1. /\ pc[p] = "handler" /\ pc' = [pc EXCEPT ![p] = "consume"]
        /\ executed' = [executed EXCEPT ![S(p)][T(p)] = @ + 1]
        /\ UNCHANGED <<rules, call>>
    BY <1>1 DEF HandlerSucceeds, At, Goto, gvars
  <2>2. /\ call = [call EXCEPT ![p] = call[p]] /\ S(p) \in Sessions /\ T(p) \in Tools
        /\ executed \in [Sessions -> [Tools -> Nat]]
    BY DEF TypeOK, VariablesTyped, Locals, S, T
  <2>3. G!Move(p, "admitted", "executed")
    BY <2>1, <2>2, MoveMaps DEF PhaseOf, Admitted
  <2>4. \A s \in Sessions, t \in Tools :
            executed'[s][t] = executed[s][t] + (IF s = S(p) /\ t = T(p) THEN 1 ELSE 0)
    BY <2>1, <2>2
  <2>5. \A s \in Sessions, t \in Tools :
            executed'[s][t] > 0 <=> executed[s][t] > 0 \/ (s = S(p) /\ t = T(p))
    BY <2>2, <2>4
  <2>6. \A s \in Sessions : {t \in Tools : executed'[s][t] > 0}
            = IF s = S(p) THEN {t \in Tools : executed[s][t] > 0} \cup {T(p)}
              ELSE {t \in Tools : executed[s][t] > 0}
    BY <2>2, <2>5
  <2> DEFINE D == [s \in Sessions |-> {t \in Tools : executed[s][t] > 0}]
  <2>7. D' = [D EXCEPT ![S(p)] = @ \cup {T(p)}]
    <3>1. D' = [s \in Sessions |-> IF s = S(p) THEN D[s] \cup {T(p)} ELSE D[s]]
        BY <2>6
    <3> QED BY <2>2, <3>1
  <2> QED BY <2>1, <2>2, <2>3, <2>7 DEF G!Execute, S, T
<1>2. CASE HandlerFails(p)
    BY <1>2, ReturnLeaves DEF HandlerFails, At, gvars, hvars
<1> QED BY <1>1, <1>2

(* After the handler the call stays executed until it returns. *)
LEMMA AfterHandlerMaps ==
    ASSUME TypeOK, NEW p \in Calls,
           \/ ConsumeFind(p) \/ ConsumeRemove(p) \/ ConsumeTooLate(p) \/ ConsumeGet(p)
           \/ ConsumeTruncate(p) \/ ConsumeUpdate(p)
           \/ IssueStore(p) \/ GenerateTokenFails(p) \/ IssueGet(p) \/ IssueAdd(p)
           \/ IssueUpdate(p) \/ RecordGet(p) \/ RecordTool(p) \/ RecordUpdate(p)
    PROVE  G!Leave(p) \/ UNCHANGED G!gateVars
<1> USE DEF At, Goto, gvars, hvars, PhaseOf, Admitted
<1>0. call = [call EXCEPT ![p] = call[p]] /\ call[p] \in Locals
    BY DEF TypeOK, VariablesTyped
<1>1. CASE ConsumeFind(p)
    BY <1>0, <1>1, MoveStutters DEF ConsumeFind, Set, S, T, Locals
<1>2. CASE ConsumeRemove(p)
    BY <1>0, <1>2, MoveStutters DEF ConsumeRemove, S, T
<1>3. CASE ConsumeTooLate(p)
    BY <1>0, <1>3, MoveStutters DEF ConsumeTooLate, S, T
<1>4. CASE ConsumeGet(p)
    BY <1>0, <1>4, MoveStutters DEF ConsumeGet, Keep, Set, S, T, Locals
<1>5. CASE ConsumeTruncate(p)
    BY <1>0, <1>5, MoveStutters DEF ConsumeTruncate, S, T
<1>6. CASE ConsumeUpdate(p)
    BY <1>0, <1>6, MoveStutters DEF ConsumeUpdate, S, T
<1>7. CASE IssueStore(p)
    BY <1>0, <1>7, MoveStutters DEF IssueStore, Set, S, T, Locals
<1>8. CASE GenerateTokenFails(p)
    BY <1>0, <1>8, MoveStutters DEF GenerateTokenFails, S, T
<1>9. CASE IssueGet(p)
    BY <1>0, <1>9, MoveStutters DEF IssueGet, Keep, Set, S, T, Locals
<1>10. CASE IssueAdd(p)
    BY <1>0, <1>10, MoveStutters DEF IssueAdd, S, T
<1>11. CASE IssueUpdate(p)
    BY <1>0, <1>11, MoveStutters DEF IssueUpdate, S, T
<1>12. CASE RecordGet(p)
  <2>1. CASE Exists(S(p))
    BY <1>0, <1>12, <2>1, MoveStutters DEF RecordGet, Keep, Set, S, T, Locals
  <2>2. CASE ~Exists(S(p))
    BY <1>12, <2>2, ReturnLeaves DEF RecordGet
  <2> QED BY <2>1, <2>2
<1>13. CASE RecordTool(p)
    BY <1>0, <1>13, MoveStutters DEF RecordTool, Keep, Set, S, T, Locals
<1>14. CASE RecordUpdate(p)
    BY <1>14, ReturnLeaves DEF RecordUpdate
<1> QED BY <1>1, <1>2, <1>3, <1>4, <1>5, <1>6, <1>7, <1>8, <1>9, <1>10, <1>11, <1>12,
           <1>13, <1>14

(* A race moves calls that are past their handlers. *)
LEMMA RaceMaps ==
    ASSUME TypeOK, NEW p \in Calls, NEW q \in Calls, Race(p, q)
    PROVE  UNCHANGED G!gateVars
<1>0. UNCHANGED <<rules, executed>>
    BY DEF Race, RacyMapWrite, MapThrow, RacyRecord, gvars, hvars
<1>1. CASE RacyMapWrite(p, q)
  <2>1. /\ \A r \in {p, q} : pc[r] \in {"add", "truncate"}
        /\ pc' = [r \in Calls |-> IF r \notin {p, q} THEN pc[r]
                                  ELSE IF pc[r] = "add" THEN "issueUpdate" ELSE "consumeUpdate"]
        /\ UNCHANGED call
    BY <1>1 DEF RacyMapWrite, WritesMap
  <2>2. \A r \in Calls : PhaseOf(pc'[r]) = PhaseOf(pc[r])
    BY <2>1 DEF PhaseOf, Admitted
  <2> QED BY <1>0, <2>1, <2>2, StutterStep DEF S, T
<1>2. CASE MapThrow(p, q)
    BY <1>0, <1>2, StutterStep DEF MapThrow, S, T
<1>3. CASE RacyRecord(p, q)
  <2>1. /\ \A r \in {p, q} : pc[r] = "record"
        /\ call' = [r \in Calls |-> IF r \in {p, q}
                                    THEN [call[r] EXCEPT !.hdr = RecordHeader(@)]
                                    ELSE call[r]]
        /\ pc' = [r \in Calls |-> IF r \in {p, q} THEN "recordUpdate" ELSE pc[r]]
    BY <1>3 DEF RacyRecord, At
  <2>2. \A r \in Calls : PhaseOf(pc'[r]) = PhaseOf(pc[r])
    BY <2>1 DEF PhaseOf, Admitted
  <2>3. \A r \in Calls : call[r] \in Locals
    BY DEF TypeOK, VariablesTyped
  <2>4. \A r \in Calls : call'[r].ses = S(r) /\ call'[r].tool = T(r)
    BY <2>1, <2>3 DEF Locals, S, T
  <2> QED BY <1>0, <2>2, <2>4, StutterStep
<1> QED BY <1>1, <1>2, <1>3 DEF Race

(* The ratchet implements Gate: whatever calls overlap, however they race, *)
(* whichever sessions the host deletes, the wrapper and ValidateToolCall   *)
(* do what a gate does that lets a call of a gated tool through only after *)
(* one of its prerequisites has succeeded in the session.                  *)
THEOREM RatchetImplementsGate == Spec => ImplementsGate
<1>1. Init => G!GateInit
  <2> SUFFICES ASSUME Init PROVE G!GateInit
    OBVIOUS
  <2>1. Idle.ses \in Sessions /\ Idle.tool \in Tools
    BY IdleTyped DEF Locals
  <2>2. /\ \A p \in Calls : pc[p] = "idle" /\ call[p] = Idle
        /\ \A s \in Sessions, t \in Tools : executed[s][t] = 0
        /\ rules \in Configs
    BY DEF Init
  <2>3. \A s \in Sessions : {t \in Tools : executed[s][t] > 0} = {}
    BY <2>2
  <2> QED BY <2>1, <2>2, <2>3 DEF G!GateInit, S, T
<1>2. TypeOK /\ OrderInv /\ [Next]_vars => [G!GateNext]_G!gateVars
  <2> SUFFICES ASSUME TypeOK, OrderInv, [Next]_vars
               PROVE  G!GateNext \/ UNCHANGED G!gateVars
    OBVIOUS
  <2>1. ASSUME NEW p \in Calls, Begin(p) \/ Step(p)
        PROVE  G!GateNext \/ UNCHANGED G!gateVars
    <3>1. \/ G!Arrive(p) \/ G!Admit(p) \/ G!Execute(p) \/ G!Leave(p)
          \/ UNCHANGED G!gateVars
        BY <2>1, BeginMaps, BeforeHandlerMaps, HandlerMaps, AfterHandlerMaps DEF Step
    <3> QED BY <3>1 DEF G!GateNext
  <2>2. ASSUME NEW p \in Calls, NEW q \in Calls, Race(p, q)
        PROVE  UNCHANGED G!gateVars
    BY <2>2, RaceMaps
  <2>3. CASE Tick \/ (\E s \in Sessions : DeleteSession(s)) \/ UNCHANGED vars
    <3>1. UNCHANGED <<rules, pc, call, executed>>
        BY <2>3 DEF Tick, DeleteSession, vars, gvars, hvars
    <3> QED BY <3>1, StutterStep DEF S, T
  <2> QED BY <2>1, <2>2, <2>3 DEF Next, Done
<1>3. TypeOK /\ OrderInv /\ [Next]_vars => TypeOK' /\ OrderInv'
    BY NextTyped, NextOrdered
<1> QED BY <1>1, <1>2, <1>3, InitTyped, InitOrdered, PTL DEF Spec, ImplementsGate, G!GateSpec
=============================================================================
