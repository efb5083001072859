--------------------------- MODULE AccountProofs ---------------------------
(***************************************************************************)
(* Proofs about what RatchetCalls keeps account of, for every number of    *)
(* calls, tools, sessions and every set of valid rules: sessions are not   *)
(* replaced, attempts are answered, histories do not invent calls, tokens  *)
(* are conserved and announced, histories are not wiped, and a one-time    *)
(* token opens a bounded number of executions.                             *)
(***************************************************************************)
EXTENDS RatchetProofs, FiniteSetTheorems, FunctionTheorems

(***************************************************************************)
(* Sessions are not replaced.  As long as the host deletes none, a call's  *)
(* copy shares its Tokens map with the session in the store, so what it    *)
(* saves is the session it read.                                           *)
(***************************************************************************)
Current(p) == Exists(S(p)) /\ H(p).toks = sessions[S(p)].toks
CopiesCurrent == \A p \in Calls : pc[p] \in HoldsCopy => Current(p)

SessionsKept == \A s \in Sessions : Exists(s) => sessions'[s].toks = sessions[s].toks

(* Copies stay current when sessions keep their maps and the calls of P do. *)
LEMMA FrameCurrent ==
    ASSUME TypeOK, CopiesCurrent, SessionsKept, NEW P \in SUBSET Calls,
           \A q \in Calls \ P : pc'[q] = pc[q] /\ call'[q] = call[q],
           \A q \in P : pc'[q] \in HoldsCopy => Current(q)'
    PROVE  CopiesCurrent'
<1>1. \A s \in Sessions : Exists(s) => Exists(s)'
  <2> SUFFICES ASSUME NEW s \in Sessions, Exists(s) PROVE Exists(s)'
    OBVIOUS
  <2>1. sessions[s].toks # 0 /\ sessions'[s].toks = sessions[s].toks
    BY DEF TypeOK, CopiesValid, ValidHeader, SessionsKept
  <2> QED BY <2>1 DEF Exists, NoSession
<1>2. ASSUME NEW q \in Calls \ P, pc'[q] \in HoldsCopy
      PROVE  Current(q)'
  <2>1. call'[q] = call[q] /\ pc[q] \in HoldsCopy /\ call[q].ses \in Sessions
    BY <1>2 DEF TypeOK, VariablesTyped, Locals
  <2>2. Exists(call[q].ses) /\ call[q].hdr.toks = sessions[call[q].ses].toks
    BY <2>1 DEF CopiesCurrent, Current, S, H
  <2>3. sessions'[call[q].ses] # NoSession
    BY <1>1, <2>1, <2>2 DEF Exists
  <2> QED BY <2>1, <2>2, <2>3 DEF SessionsKept, Current, Exists, S, H
<1> QED BY <1>2 DEF CopiesCurrent

(* Steps of one call that leave the session store alone. *)
LEMMA MoveCurrent ==
    ASSUME TypeOK, CopiesCurrent, sessions' = sessions, NEW p \in Calls, NEW x, NEW c,
           pc' = [pc EXCEPT ![p] = x], call' = [call EXCEPT ![p] = c],
           \/ x \notin HoldsCopy
           \/ pc[p] \in HoldsCopy /\ c.ses = S(p) /\ c.hdr.toks = H(p).toks
           \/ Exists(S(p)) /\ c.ses = S(p) /\ c.hdr = sessions[S(p)]
    PROVE  SessionsKept /\ CopiesCurrent'
<1>1. SessionsKept
    BY DEF SessionsKept
<1>2. /\ \A q \in Calls \ {p} : pc'[q] = pc[q] /\ call'[q] = call[q]
      /\ pc'[p] = x /\ call'[p] = c
    BY DEF TypeOK, VariablesTyped
<1>3. x \in HoldsCopy => Exists(c.ses) /\ c.hdr.toks = sessions[c.ses].toks
    BY DEF CopiesCurrent, Current
<1>4. \A q \in {p} : pc'[q] \in HoldsCopy => Current(q)'
    BY <1>2, <1>3 DEF Current, Exists, S, H
<1>5. {p} \in SUBSET Calls /\ \A q \in Calls \ {p} : pc'[q] = pc[q] /\ call'[q] = call[q]
    BY <1>2
<1> QED BY ONLY TypeOK, CopiesCurrent, <1>1, <1>4, <1>5, FrameCurrent

(* A call that returns holds no copy. *)
LEMMA ReturnCurrent ==
    ASSUME TypeOK, CopiesCurrent, sessions' = sessions, NEW p \in Calls, Return(p)
    PROVE  SessionsKept /\ CopiesCurrent'
BY MoveCurrent DEF Return, Goto, Set, HoldsCopy

(* A rule that fails leaves the copy in hand as it is. *)
LEMMA RuleFailsCurrent ==
    ASSUME TypeOK, CopiesCurrent, sessions' = sessions, NEW p \in Calls,
           pc[p] \in {"history", "tokens"}, RuleFails(p)
    PROVE  SessionsKept /\ CopiesCurrent'
<1>1. CASE RulesAfter(rules, T(p), call[p].rule) # {}
  <2>1. call[p] \in Locals
    BY DEF TypeOK, VariablesTyped
  <2> QED BY <1>1, <2>1, MoveCurrent DEF RuleFails, Goto, Set, HoldsCopy, S, H, Locals
<1>2. CASE RulesAfter(rules, T(p), call[p].rule) = {}
    BY <1>2, ReturnCurrent DEF RuleFails
<1> QED BY <1>1, <1>2

(* Update saves the copy in hand. *)
LEMMA UpdateCurrent ==
    ASSUME TypeOK, CopiesCurrent, NEW p \in Calls, pc[p] \in HoldsCopy,
           Update(S(p), H(p)), NEW x, NEW c, x \notin HoldsCopy,
           pc' = [pc EXCEPT ![p] = x], call' = [call EXCEPT ![p] = c]
    PROVE  SessionsKept /\ CopiesCurrent'
<1>1. H(p).toks = sessions[S(p)].toks
    BY DEF CopiesCurrent, Current
<1>2. SessionsKept
    BY <1>1 DEF SessionsKept, Update, TypeOK, VariablesTyped
<1>3. /\ \A q \in Calls \ {p} : pc'[q] = pc[q] /\ call'[q] = call[q]
      /\ pc'[p] = x
    BY DEF TypeOK, VariablesTyped
<1>4. \A q \in {p} : pc'[q] \in HoldsCopy => Current(q)'
    BY <1>3
<1> QED BY <1>2, <1>3, <1>4, FrameCurrent

(* An absent session is created; the creator holds what it stored. *)
LEMMA CreateCurrent ==
    ASSUME TypeOK, CopiesCurrent, NEW p \in Calls, CreateNew(p)
    PROVE  SessionsKept /\ CopiesCurrent'
<1>1. /\ ~Exists(S(p)) /\ sessions' = [sessions EXCEPT ![S(p)] = NewHeader]
      /\ call' = [call EXCEPT ![p] = [call[p] EXCEPT !.hdr = NewHeader]]
      /\ pc' = [pc EXCEPT ![p] = "readToken"]
    BY DEF CreateNew, Create, Keep, Set, Goto
<1>2. /\ call[p] \in Locals /\ S(p) \in Sessions /\ sessions \in [Sessions -> Header]
      /\ NewHeader # NoSession
  <2>1. mapHeap \in Seq([Tools -> Seq(Nat)])
    BY DEF TypeOK, VariablesTyped
  <2>2. NewHeader.toks # 0
    BY <2>1 DEF NewHeader
  <2> QED BY <2>2 DEF TypeOK, VariablesTyped, Locals, S, NoSession
<1>3. SessionsKept
    BY <1>1, <1>2 DEF SessionsKept, Exists
<1>4. /\ \A q \in Calls \ {p} : pc'[q] = pc[q] /\ call'[q] = call[q]
      /\ call'[p].ses = S(p) /\ call'[p].hdr = NewHeader
    BY <1>1, <1>2 DEF TypeOK, VariablesTyped, Locals, S
<1>5. sessions'[S(p)] = NewHeader
    BY <1>1, <1>2
<1>6. \A q \in {p} : pc'[q] \in HoldsCopy => Current(q)'
    BY <1>2, <1>4, <1>5 DEF Current, Exists, S, H
<1>7. {p} \in SUBSET Calls /\ \A q \in Calls \ {p} : pc'[q] = pc[q] /\ call'[q] = call[q]
    BY <1>4
<1> QED BY ONLY TypeOK, CopiesCurrent, <1>3, <1>6, <1>7, FrameCurrent

(* Every step of a call. *)
LEMMA StepCurrent ==
    ASSUME TypeOK, CopiesCurrent, NEW p \in Calls, Begin(p) \/ Step(p)
    PROVE  SessionsKept /\ CopiesCurrent'
<1> USE DEF At, Goto, svars, HoldsCopy
<1>0. /\ call = [call EXCEPT ![p] = call[p]] /\ call[p] \in Locals /\ H(p) \in Header
      /\ S(p) \in Sessions
    BY DEF TypeOK, VariablesTyped, Locals, H, S
<1>1. CASE Begin(p)
    BY <1>1, MoveCurrent DEF Begin, Set
<1>2. CASE WrapGet(p)
    BY <1>0, <1>2, MoveCurrent DEF WrapGet, Keep, Set, S, Locals
<1>3. CASE CreateGet(p)
    BY <1>0, <1>3, MoveCurrent DEF CreateGet, Keep, Set, S, Locals
<1>4. CASE CreateNew(p)
    BY <1>4, CreateCurrent
<1>5. CASE CreateFails(p)
    BY <1>0, <1>5, MoveCurrent DEF CreateFails
<1>6. CASE ReadToken(p)
    BY <1>6, MoveCurrent DEF ReadToken, Set
<1>7. CASE AdmitFree(p)
    BY <1>0, <1>7, MoveCurrent DEF AdmitFree
<1>8. CASE RejectNoSession(p)
    BY <1>8, ReturnCurrent DEF RejectNoSession
<1>9. CASE StartValidation(p)
    BY <1>0, <1>9, MoveCurrent DEF StartValidation
<1>10. CASE ValidateGet(p)
  <2>1. CASE Exists(S(p))
    <3>1. /\ pc' = [pc EXCEPT ![p] = "history"] /\ sessions' = sessions
          /\ call' = [call EXCEPT ![p] = [call[p] EXCEPT !.hdr = sessions[S(p)],
                                                         !.rule = findRule(rules, T(p))]]
        BY <1>10, <2>1 DEF ValidateGet, Set
    <3> QED BY <1>0, <2>1, <3>1, MoveCurrent DEF S, Locals
  <2>2. CASE ~Exists(S(p))
    BY <1>10, <2>2, ReturnCurrent DEF ValidateGet
  <2> QED BY <2>1, <2>2
<1>11. CASE HistoryHit(p)
    BY <1>0, <1>11, MoveCurrent DEF HistoryHit, S, H
<1>12. CASE HistoryMiss(p)
    BY <1>12, RuleFailsCurrent DEF HistoryMiss
<1>13. CASE CheckTokens(p)
  <2>1. CASE ValidTokens(S(p), Required(p)) # {}
    BY <1>0, <1>13, <2>1, MoveCurrent DEF CheckTokens
  <2>2. CASE ~ (ValidTokens(S(p), Required(p)) # {})
    BY <1>13, <2>2, RuleFailsCurrent DEF CheckTokens
  <2> QED BY <2>1, <2>2
<1>14. CASE HandlerSucceeds(p)
    BY <1>0, <1>14, MoveCurrent DEF HandlerSucceeds
<1>15. CASE HandlerFails(p)
    BY <1>15, ReturnCurrent DEF HandlerFails
<1>16. CASE ConsumeFind(p)
    BY <1>0, <1>16, MoveCurrent DEF ConsumeFind, Set
<1>17. CASE ConsumeRemove(p)
    BY <1>0, <1>17, MoveCurrent DEF ConsumeRemove
<1>18. CASE ConsumeTooLate(p)
    BY <1>0, <1>18, MoveCurrent DEF ConsumeTooLate
<1>19. CASE ConsumeGet(p)
    BY <1>0, <1>19, MoveCurrent DEF ConsumeGet, Keep, Set, S, Locals
<1>20. CASE ConsumeTruncate(p)
    BY <1>0, <1>20, MoveCurrent DEF ConsumeTruncate, S, H
<1>21. CASE ConsumeUpdate(p)
    BY <1>0, <1>21, UpdateCurrent DEF ConsumeUpdate
<1>22. CASE IssueStore(p)
    BY <1>0, <1>22, MoveCurrent DEF IssueStore, Set
<1>23. CASE GenerateTokenFails(p)
    BY <1>0, <1>23, MoveCurrent DEF GenerateTokenFails
<1>24. CASE IssueGet(p)
    BY <1>0, <1>24, MoveCurrent DEF IssueGet, Keep, Set, S, Locals
<1>25. CASE IssueAdd(p)
    BY <1>0, <1>25, MoveCurrent DEF IssueAdd, S, H
<1>26. CASE IssueUpdate(p)
    BY <1>0, <1>26, UpdateCurrent DEF IssueUpdate
<1>27. CASE RecordGet(p)
  <2>1. CASE Exists(S(p))
    BY <1>0, <1>27, <2>1, MoveCurrent, ZenonT(60) DEF RecordGet, Keep, Set, S, Locals
  <2>2. CASE ~Exists(S(p))
    BY <1>27, <2>2, ReturnCurrent DEF RecordGet
  <2> QED BY <2>1, <2>2
<1>28. CASE RecordTool(p)
  <2>1. RecordHeader(H(p)).toks = H(p).toks
    BY <1>0 DEF RecordHeader, Header
  <2> QED BY <1>0, <1>28, <2>1, MoveCurrent DEF RecordTool, Keep, Set, S, H, Locals
<1>29. CASE RecordUpdate(p)
    BY <1>29, UpdateCurrent DEF RecordUpdate, Return, Set
<1> QED BY <1>1, <1>2, <1>3, <1>4, <1>5, <1>6, <1>7, <1>8, <1>9, <1>10, <1>11, <1>12,
           <1>13, <1>14, <1>15, <1>16, <1>17, <1>18, <1>19, <1>20, <1>21, <1>22, <1>23,
           <1>24, <1>25, <1>26, <1>27, <1>28, <1>29 DEF Step

(* Races touch what copies refer to, not the stored sessions. *)
LEMMA RaceCurrent ==
    ASSUME TypeOK, CopiesCurrent, NEW p \in Calls, NEW q \in Calls, Race(p, q)
    PROVE  SessionsKept /\ CopiesCurrent'
<1>0. sessions' = sessions
    BY DEF Race, RacyMapWrite, MapThrow, RacyRecord, svars
<1>1. SessionsKept
    BY <1>0 DEF SessionsKept
<1>2. CASE RacyMapWrite(p, q)
  <2>1. /\ \A r \in {p, q} : pc[r] \in {"add", "truncate"}
        /\ \A r \in Calls \ {p, q} : pc'[r] = pc[r]
        /\ UNCHANGED call
    BY <1>2 DEF RacyMapWrite, WritesMap
  <2>2. \A r \in {p, q} : pc'[r] \in HoldsCopy => Current(r)'
    BY <1>0, <2>1 DEF CopiesCurrent, Current, HoldsCopy, Exists, S, H
  <2>3. /\ {p, q} \in SUBSET Calls
        /\ \A r \in Calls \ {p, q} : pc'[r] = pc[r] /\ call'[r] = call[r]
    BY <2>1
  <2> QED BY <1>1, <2>2, <2>3, FrameCurrent
<1>3. CASE MapThrow(p, q)
    BY <1>0, <1>1, <1>3 DEF MapThrow, CopiesCurrent, Current, Exists, S, H
<1>4. CASE RacyRecord(p, q)
  <2>1. /\ \A r \in {p, q} : pc[r] = "record"
        /\ call' = [r \in Calls |-> IF r \in {p, q}
                                    THEN [call[r] EXCEPT !.hdr = RecordHeader(@)]
                                    ELSE call[r]]
        /\ pc' = [r \in Calls |-> IF r \in {p, q} THEN "recordUpdate" ELSE pc[r]]
    BY <1>4 DEF RacyRecord, At
  <2>2. ASSUME NEW r \in {p, q} PROVE Current(r)'
    <3>1. call[r] \in Locals /\ H(r) \in Header /\ Current(r)
        BY <2>1 DEF TypeOK, VariablesTyped, Locals, H, CopiesCurrent, HoldsCopy
    <3>2. RecordHeader(H(r)).toks = H(r).toks
        BY <3>1 DEF RecordHeader, Header
    <3>3. call'[r] = [call[r] EXCEPT !.hdr = RecordHeader(H(r))]
        BY <2>1 DEF H
    <3>4. call'[r].ses = S(r) /\ call'[r].hdr = RecordHeader(H(r))
        BY <3>1, <3>3 DEF Locals, S
    <3> QED BY <1>0, <3>1, <3>2, <3>4 DEF Current, Exists, S, H
  <2>3. /\ {p, q} \in SUBSET Calls
        /\ \A r \in Calls \ {p, q} : pc'[r] = pc[r] /\ call'[r] = call[r]
    BY <2>1
  <2> QED BY <1>1, <2>2, <2>3, FrameCurrent
<1> QED BY <1>2, <1>3, <1>4 DEF Race

(* With a host that deletes no session, a session that exists is never     *)
(* replaced, whatever calls race to create it and to save copies of it     *)
(* (CreateSession, Create and Update of the session store).                *)
THEOREM SessionsPersist ==
    ASSUME MaxDeletes = 0
    PROVE  Spec => SessionNeverReplaced
<1>1. Init => CopiesCurrent
    BY DEF Init, CopiesCurrent, HoldsCopy
<1>2. TypeOK /\ CopiesCurrent /\ [Next]_vars => SessionsKept /\ CopiesCurrent'
  <2> SUFFICES ASSUME TypeOK, CopiesCurrent, [Next]_vars
               PROVE  SessionsKept /\ CopiesCurrent'
    OBVIOUS
  <2>1. \A s \in Sessions : ~ DeleteSession(s)
    BY DEF DeleteSession, TypeOK, VariablesTyped
  <2>2. CASE Tick \/ UNCHANGED vars
    <3>1. UNCHANGED <<pc, call, sessions>>
        BY <2>2 DEF Tick, vars, svars
    <3> QED BY <3>1 DEF SessionsKept, CopiesCurrent, Current, Exists, S, H
  <2> QED BY <2>1, <2>2, StepCurrent, RaceCurrent DEF Next, Done
<1>3. TypeOK /\ [Next]_vars => TypeOK'
    BY NextTyped
<1>4. SessionsKept => [\A s \in Sessions : Exists(s) =>
                           sessions'[s].toks = sessions[s].toks]_vars
    BY DEF SessionsKept
<1> QED BY <1>1, <1>2, <1>3, <1>4, InitTyped, PTL DEF Spec, SessionNeverReplaced

(***************************************************************************)
(* Attempts are answered.                                                  *)
(***************************************************************************)
InValidation == {p \in Calls : pc[p] \in Validating}
Answers == {"attempt", "success", "failure"}

(* The counters and the calls in validation are natural numbers. *)
LEMMA CountsTyped ==
    ASSUME TypeOK
    PROVE  /\ \A e \in EventTypes : events[e] \in Nat
           /\ Answers \subseteq EventTypes
           /\ IsFiniteSet(InValidation) /\ Cardinality(InValidation) \in Nat
<1>1. IsFiniteSet(InValidation)
    BY CallsAssumption, FS_Subset DEF InValidation
<1> QED BY <1>1, FS_CardinalityType DEF TypeOK, VariablesTyped, Answers, EventTypes

(* AttemptsAnswered, with the set of calls in validation named. *)
LEMMA AnsweredIs ==
    AttemptsAnswered <=>
        events["attempt"] = events["success"] + events["failure"] + Cardinality(InValidation)
BY DEF AttemptsAnswered, InValidation

(* Steps that neither start nor end a validation. *)
LEMMA AnsweredKept ==
    ASSUME TypeOK, AttemptsAnswered, TypeOK',
           \A e \in Answers : events'[e] = events[e],
           \A q \in Calls : pc'[q] \in Validating <=> pc[q] \in Validating
    PROVE  AttemptsAnswered'
<1>1. InValidation' = InValidation
    BY DEF InValidation
<1> QED BY <1>1 DEF AttemptsAnswered, Answers, InValidation

(* Steps that emit no answer and neither begin nor end a validation. *)
LEMMA MoveAnswered ==
    ASSUME TypeOK, AttemptsAnswered, TypeOK', NEW p \in Calls, NEW x,
           pc' = [pc EXCEPT ![p] = x], x \in Validating <=> pc[p] \in Validating,
           \A e \in Answers : events'[e] = events[e]
    PROVE  AttemptsAnswered'
<1>1. \A q \in Calls : pc'[q] \in Validating <=> pc[q] \in Validating
    BY DEF TypeOK, VariablesTyped
<1> QED BY <1>1, AnsweredKept

(* A validation starts or ends with an event. *)
LEMMA ValidationEnds ==
    ASSUME TypeOK, AttemptsAnswered, NEW p \in Calls, NEW x,
           pc[p] \in Validating, x \notin Validating, pc' = [pc EXCEPT ![p] = x],
           NEW e \in {"success", "failure"}, Emit({e})
    PROVE  AttemptsAnswered'
<1>1. InValidation' = InValidation \ {p} /\ p \in InValidation
    BY DEF InValidation, TypeOK, VariablesTyped
<1>2. Cardinality(InValidation') = Cardinality(InValidation) - 1
    BY <1>1, CountsTyped, FS_RemoveElement
<1>3. \A a \in Answers : events'[a] = events[a] + (IF a = e THEN 1 ELSE 0)
    BY DEF Emit, Answers, EventTypes
<1>4. /\ \A a \in Answers : events[a] \in Nat
      /\ Cardinality(InValidation) \in Nat
    BY CountsTyped
<1>5. events["attempt"] = events["success"] + events["failure"] + Cardinality(InValidation)
    BY AnsweredIs
<1>6. events'["attempt"]
          = events'["success"] + events'["failure"] + Cardinality(InValidation')
  <2> DEFINE n == Cardinality(InValidation)
             m == Cardinality(InValidation')
  <2>1. n \in Nat /\ m = n - 1
    BY <1>2, <1>4
  <2>2. events["attempt"] = events["success"] + events["failure"] + n
    BY <1>5
  <2> HIDE DEF n, m
  <2>3. events'["attempt"] = events'["success"] + events'["failure"] + m
    BY <1>3, <1>4, <2>1, <2>2 DEF Answers
  <2> QED BY <2>3 DEF m
<1> QED BY <1>6 DEF AttemptsAnswered, InValidation

(* The last rule that fails answers the attempt. *)
LEMMA RuleFailsAnswered ==
    ASSUME TypeOK, AttemptsAnswered, TypeOK', NEW p \in Calls,
           pc[p] \in {"history", "tokens"}, RuleFails(p)
    PROVE  AttemptsAnswered'
<1>1. CASE RulesAfter(rules, T(p), call[p].rule) # {}
    BY <1>1, MoveAnswered DEF RuleFails, Goto, Validating
<1>2. CASE RulesAfter(rules, T(p), call[p].rule) = {}
    BY <1>2, ValidationEnds DEF RuleFails, Return, Goto, Validating
<1> QED BY <1>1, <1>2

(* ValidateToolCall, where attempts and answers are emitted. *)
LEMMA ValidateAnswered ==
    ASSUME TypeOK, AttemptsAnswered, TypeOK', NEW p \in Calls,
           \/ AdmitFree(p) \/ RejectNoSession(p) \/ StartValidation(p) \/ ValidateGet(p)
           \/ HistoryHit(p) \/ HistoryMiss(p) \/ CheckTokens(p)
    PROVE  AttemptsAnswered'
<1> USE DEF At, Goto
<1>0. /\ \A a \in Answers : events[a] \in Nat /\ a \in EventTypes
      /\ Cardinality(InValidation) \in Nat
    BY CountsTyped
<1>1. CASE AdmitFree(p) \/ RejectNoSession(p)
  <2>1. PICK e \in {"success", "failure"} : Emit({"attempt", e})
    BY <1>1 DEF AdmitFree, RejectNoSession
  <2>2. \A a \in Answers : events'[a] = events[a] + (IF a \in {"attempt", e} THEN 1 ELSE 0)
    BY <1>0, <2>1 DEF Emit
  <2>3. InValidation' = InValidation
    BY <1>1 DEF AdmitFree, RejectNoSession, Return, InValidation, Validating, TypeOK, VariablesTyped
  <2> DEFINE n == Cardinality(InValidation)
  <2>4. n \in Nat /\ events["attempt"] = events["success"] + events["failure"] + n
    BY <1>0, AnsweredIs
  <2> HIDE DEF n
  <2>5. events'["attempt"] = events'["success"] + events'["failure"] + n
    BY <1>0, <2>2, <2>4 DEF Answers
  <2> QED BY <2>3, <2>5 DEF n, AttemptsAnswered, InValidation
<1>2. CASE StartValidation(p)
  <2>1. \A a \in Answers : events'[a] = events[a] + (IF a = "attempt" THEN 1 ELSE 0)
    BY <1>0, <1>2 DEF StartValidation, Emit
  <2>2. InValidation' = InValidation \cup {p} /\ p \notin InValidation
    BY <1>2 DEF StartValidation, InValidation, Validating, TypeOK, VariablesTyped
  <2> DEFINE n == Cardinality(InValidation)
             m == Cardinality(InValidation')
  <2>3. m = n + 1
    BY <2>2, CountsTyped, FS_AddElement
  <2>4. n \in Nat /\ events["attempt"] = events["success"] + events["failure"] + n
    BY <1>0, AnsweredIs
  <2> HIDE DEF n, m
  <2>5. events'["attempt"] = events'["success"] + events'["failure"] + m
    BY <1>0, <2>1, <2>3, <2>4 DEF Answers
  <2> QED BY <2>5 DEF m, AttemptsAnswered, InValidation
<1>3. CASE ValidateGet(p)
  <2>1. CASE Exists(S(p))
    BY <1>3, <2>1, MoveAnswered DEF ValidateGet, Validating
  <2>2. CASE ~Exists(S(p))
    BY <1>3, <2>2, ValidationEnds DEF ValidateGet, Return, Validating
  <2> QED BY <2>1, <2>2
<1>4. CASE HistoryHit(p)
    BY <1>4, MoveAnswered DEF HistoryHit, Validating
<1>5. CASE HistoryMiss(p)
    BY <1>5, RuleFailsAnswered DEF HistoryMiss
<1>6. CASE CheckTokens(p)
  <2>1. CASE ValidTokens(S(p), Required(p)) # {}
    BY <1>6, <2>1, ValidationEnds DEF CheckTokens, Validating
  <2>2. CASE ~ (ValidTokens(S(p), Required(p)) # {})
    BY <1>6, <2>2, RuleFailsAnswered DEF CheckTokens
  <2> QED BY <2>1, <2>2
<1> QED BY <1>1, <1>2, <1>3, <1>4, <1>5, <1>6

(* The other steps of a call, which emit other events if any. *)
LEMMA OtherStepAnswered ==
    ASSUME TypeOK, AttemptsAnswered, TypeOK', NEW p \in Calls,
           \/ Begin(p) \/ WrapGet(p) \/ CreateGet(p) \/ CreateNew(p) \/ CreateFails(p)
           \/ ReadToken(p) \/ HandlerSucceeds(p) \/ HandlerFails(p)
           \/ ConsumeFind(p) \/ ConsumeRemove(p) \/ ConsumeTooLate(p) \/ ConsumeGet(p)
           \/ ConsumeTruncate(p) \/ ConsumeUpdate(p)
           \/ IssueStore(p) \/ GenerateTokenFails(p) \/ IssueGet(p) \/ IssueAdd(p)
           \/ IssueUpdate(p) \/ RecordGet(p) \/ RecordTool(p) \/ RecordUpdate(p)
    PROVE  AttemptsAnswered'
<1>1. \/ events' = events
      \/ \E E \in {{"session_created"}, {"token_consumed"}, {"token_created"}} : Emit(E)
    BY DEF Begin, WrapGet, CreateGet, CreateNew, CreateFails, ReadToken, HandlerSucceeds,
       HandlerFails, ConsumeFind, ConsumeRemove, ConsumeTooLate, ConsumeGet, ConsumeTruncate,
       ConsumeUpdate, IssueStore, GenerateTokenFails, IssueGet, IssueAdd, IssueUpdate,
       RecordGet, RecordTool, RecordUpdate
<1>2. \A a \in Answers : events'[a] = events[a]
    BY <1>1, CountsTyped DEF Emit, Answers
<1>3. pc[p] \notin Validating /\ \E x : pc' = [pc EXCEPT ![p] = x] /\ x \notin Validating
    BY ZenonT(60) DEF Begin, WrapGet, CreateGet, CreateNew, CreateFails, ReadToken, HandlerSucceeds,
       HandlerFails, ConsumeFind, ConsumeRemove, ConsumeTooLate, ConsumeGet, ConsumeTruncate,
       ConsumeUpdate, IssueStore, GenerateTokenFails, IssueGet, IssueAdd, IssueUpdate,
       RecordGet, RecordTool, RecordUpdate, At, Goto, Return, Validating
<1> QED BY <1>2, <1>3, MoveAnswered

(* Every attempt event is answered by one success or one failure event on  *)
(* every return path of ValidateToolCall, for any number of calls.         *)
THEOREM EveryAttemptAnswered == Spec => []AttemptsAnswered
<1>1. Init => AttemptsAnswered
  <2> SUFFICES ASSUME Init PROVE AttemptsAnswered
    OBVIOUS
  <2>1. InValidation = {}
    BY DEF Init, InValidation, Validating
  <2>2. Cardinality(InValidation) = 0
    BY <2>1, FS_EmptySet
  <2> QED BY <2>2, AnsweredIs DEF Init, EventTypes
<1>2. TypeOK /\ AttemptsAnswered /\ [Next]_vars => TypeOK' /\ AttemptsAnswered'
  <2> SUFFICES ASSUME TypeOK, AttemptsAnswered, [Next]_vars
               PROVE  TypeOK' /\ AttemptsAnswered'
    OBVIOUS
  <2>1. TypeOK'
    BY NextTyped
  <2>2. CASE \E p \in Calls : Begin(p) \/ Step(p)
    BY <2>1, <2>2, ValidateAnswered, OtherStepAnswered DEF Step
  <2>3. ASSUME NEW p \in Calls, NEW q \in Calls, Race(p, q) PROVE AttemptsAnswered'
    <3>1. events' = events
        BY <2>3 DEF Race, RacyMapWrite, MapThrow, RacyRecord
    <3>2. \A r \in Calls : pc'[r] \in Validating <=> pc[r] \in Validating
        BY <2>3 DEF Race, RacyMapWrite, MapThrow, RacyRecord, WritesMap, At, Validating
    <3> QED BY <2>1, <3>1, <3>2, AnsweredKept
  <2>4. CASE Tick \/ (\E s \in Sessions : DeleteSession(s)) \/ UNCHANGED vars
    <3>1. UNCHANGED <<events, pc>>
        BY <2>4 DEF Tick, DeleteSession, vars
    <3> QED BY <2>1, <3>1, AnsweredKept
  <2> QED BY <2>1, <2>2, <2>3, <2>4 DEF Next, Done
<1> QED BY <1>1, <1>2, InitTyped, PTL DEF Spec

(***************************************************************************)
(* Histories do not invent calls.  A call whose handler succeeded and that *)
(* has not appended to a history yet is owed one entry; an array shows a   *)
(* tool at most as often as it was executed, less the entries still owed.  *)
(* This covers every slot of every array, also those behind the length of  *)
(* the copies, which an append in place or a stale copy brings back.       *)
(***************************************************************************)
Unrecorded == Admitted \ {"handler", "recordUpdate"}
Pending(s, t) == {p \in Calls : pc[p] \in Unrecorded /\ S(p) = s /\ T(p) = t}
Slots(a, t) == {k \in DOMAIN arrayHeap[a].slots : arrayHeap[a].slots[k] = t}

OwedWithin == \A s \in Sessions, t \in Tools : Cardinality(Pending(s, t)) <= executed[s][t]
ArraysWithin ==
    \A a \in DOMAIN arrayHeap : \A s \in Sessions, t \in Tools :
        arrayHeap[a].ses = s =>
            Cardinality(Slots(a, t)) + Cardinality(Pending(s, t)) <= executed[s][t]
HistoryInv == OwedWithin /\ ArraysWithin

(* A subset of a finite set is finite and no larger. *)
LEMMA SmallerSet ==
    ASSUME NEW B, IsFiniteSet(B), NEW A, A \subseteq B
    PROVE  /\ IsFiniteSet(A) /\ Cardinality(A) \in Nat /\ Cardinality(B) \in Nat
           /\ Cardinality(A) <= Cardinality(B)
BY FS_Subset, FS_CardinalityType

(* Adding an element adds at most one. *)
LEMMA OneMore ==
    ASSUME NEW B, IsFiniteSet(B), NEW x
    PROVE  /\ IsFiniteSet(B \cup {x}) /\ Cardinality(B \cup {x}) \in Nat
           /\ Cardinality(B) \in Nat /\ Cardinality(B \cup {x}) <= Cardinality(B) + 1
<1> DEFINE m == Cardinality(B \cup {x})
           n == Cardinality(B)
<1>1. IsFiniteSet(B \cup {x}) /\ (m = n \/ m = n + 1)
    BY FS_AddElement
<1>2. m \in Nat /\ n \in Nat
    BY <1>1, FS_CardinalityType
<1> HIDE DEF m, n
<1>3. m <= n + 1
    BY <1>1, <1>2
<1> QED BY <1>1, <1>2, <1>3 DEF m, n

(* The calls that owe an entry are finitely many. *)
LEMMA PendingFinite ==
    ASSUME NEW s, NEW t
    PROVE  /\ IsFiniteSet(Pending(s, t)) /\ Cardinality(Pending(s, t)) \in Nat
           /\ IsFiniteSet(Pending(s, t)') /\ Cardinality(Pending(s, t)') \in Nat
<1>1. Pending(s, t) \subseteq Calls /\ Pending(s, t)' \subseteq Calls
    BY DEF Pending
<1> QED BY <1>1, CallsAssumption, SmallerSet

(* The slots that show a tool are finitely many. *)
LEMMA SlotsFinite ==
    ASSUME NEW g \in Seq(BackingArray), NEW a \in DOMAIN g, NEW t, NEW K,
           K = {k \in DOMAIN g[a].slots : g[a].slots[k] = t}
    PROVE  IsFiniteSet(K) /\ Cardinality(K) \in Nat
<1>1. g[a].slots \in Seq(Tools \cup {NoTool, Torn})
  <2>1. g[a] \in BackingArray
    OBVIOUS
  <2> QED BY <2>1 DEF BackingArray
<1>2. IsFiniteSet(1 .. Len(g[a].slots))
    BY <1>1, FS_Interval
<1>3. K \subseteq 1 .. Len(g[a].slots)
    BY <1>1
<1> QED BY <1>2, <1>3, SmallerSet

(* Steps that neither append nor end a handler. *)
LEMMA FrameHistory ==
    ASSUME TypeOK, HistoryInv, arrayHeap' = arrayHeap, executed' = executed,
           \A q \in Calls : pc'[q] \in Unrecorded =>
               pc[q] \in Unrecorded /\ call'[q].ses = S(q) /\ call'[q].tool = T(q)
    PROVE  HistoryInv'
<1>1. ASSUME NEW s \in Sessions, NEW t \in Tools
      PROVE  /\ Cardinality(Pending(s, t))' <= Cardinality(Pending(s, t))
             /\ Cardinality(Pending(s, t))' \in Nat /\ Cardinality(Pending(s, t)) \in Nat
             /\ executed[s][t] \in Nat
  <2>1. Pending(s, t)' \subseteq Pending(s, t)
    BY DEF Pending, S, T
  <2> QED BY <2>1, PendingFinite, SmallerSet DEF TypeOK, VariablesTyped
<1>2. OwedWithin'
  <2> SUFFICES ASSUME NEW s \in Sessions, NEW t \in Tools
               PROVE  Cardinality(Pending(s, t))' <= executed[s][t]
    BY DEF OwedWithin
  <2> DEFINE m == Cardinality(Pending(s, t))'
             n == Cardinality(Pending(s, t))
  <2>1. m <= n /\ m \in Nat /\ n \in Nat /\ n <= executed[s][t] /\ executed[s][t] \in Nat
    BY <1>1 DEF HistoryInv, OwedWithin
  <2> HIDE DEF m, n
  <2>2. m <= executed[s][t]
    BY <2>1
  <2> QED BY <2>2 DEF m
<1>3. ArraysWithin'
  <2> SUFFICES ASSUME NEW a \in DOMAIN arrayHeap, NEW s \in Sessions, NEW t \in Tools,
                      arrayHeap[a].ses = s
               PROVE  Cardinality(Slots(a, t))' + Cardinality(Pending(s, t))' <= executed[s][t]
    BY DEF ArraysWithin
  <2> DEFINE m == Cardinality(Pending(s, t))'
             n == Cardinality(Pending(s, t))
             k == Cardinality(Slots(a, t))
  <2>1. Cardinality(Slots(a, t))' = k
    BY DEF Slots
  <2>2. m <= n /\ m \in Nat /\ n \in Nat /\ executed[s][t] \in Nat
    BY <1>1
  <2>3. k \in Nat /\ k + n <= executed[s][t]
    BY SlotsFinite DEF HistoryInv, ArraysWithin, Slots, TypeOK, VariablesTyped
  <2> HIDE DEF m, n, k
  <2>4. k + m <= executed[s][t]
    BY <2>2, <2>3
  <2> QED BY <2>1, <2>4 DEF m
<1> QED BY <1>2, <1>3 DEF HistoryInv

(* Such steps of one call. *)
LEMMA MoveHistory ==
    ASSUME TypeOK, HistoryInv, arrayHeap' = arrayHeap, executed' = executed,
           NEW p \in Calls, NEW x, NEW c,
           pc' = [pc EXCEPT ![p] = x], call' = [call EXCEPT ![p] = c],
           \/ x \notin Unrecorded
           \/ pc[p] \in Unrecorded /\ c.ses = S(p) /\ c.tool = T(p)
    PROVE  HistoryInv'
<1>1. \A q \in Calls : pc'[q] \in Unrecorded =>
          pc[q] \in Unrecorded /\ call'[q].ses = S(q) /\ call'[q].tool = T(q)
    BY DEF TypeOK, VariablesTyped, S, T
<1> QED BY <1>1, FrameHistory

(* A handler that succeeds is counted and its call is owed an entry. *)
LEMMA HandlerHistory ==
    ASSUME TypeOK, HistoryInv, NEW p \in Calls, HandlerSucceeds(p)
    PROVE  HistoryInv'
<1>1. /\ executed' = [executed EXCEPT ![S(p)][T(p)] = @ + 1]
      /\ pc' = [pc EXCEPT ![p] = "consume"] /\ pc[p] = "handler"
      /\ UNCHANGED <<call, arrayHeap>>
    BY DEF HandlerSucceeds, At, Goto, svars
<1>2. S(p) \in Sessions /\ T(p) \in Tools /\ executed \in [Sessions -> [Tools -> Nat]]
    BY DEF TypeOK, VariablesTyped, Locals, S, T
<1>3. ASSUME NEW s \in Sessions, NEW t \in Tools
      PROVE  \E d \in {0, 1} :
                /\ Cardinality(Pending(s, t))' <= Cardinality(Pending(s, t)) + d
                /\ executed'[s][t] = executed[s][t] + d
                /\ executed[s][t] \in Nat
                /\ Cardinality(Pending(s, t)) \in Nat /\ Cardinality(Pending(s, t))' \in Nat
  <2>1. /\ Cardinality(Pending(s, t)) \in Nat /\ Cardinality(Pending(s, t))' \in Nat
        /\ executed[s][t] \in Nat
    BY <1>2, PendingFinite
  <2>2. CASE s = S(p) /\ t = T(p)
    <3>1. executed'[s][t] = executed[s][t] + 1
      BY <1>1, <1>2, <2>2
    <3>2. Pending(s, t)' = Pending(s, t) \cup {p} /\ p \notin Pending(s, t)
      BY <1>1, <2>2 DEF Pending, Unrecorded, Admitted, S, T, TypeOK, VariablesTyped
    <3>3. Cardinality(Pending(s, t))' = Cardinality(Pending(s, t)) + 1
      BY <3>2, PendingFinite, FS_AddElement
    <3> QED BY <2>1, <3>1, <3>3
  <2>3. CASE ~ (s = S(p) /\ t = T(p))
    <3>1. executed'[s][t] = executed[s][t]
      BY <1>1, <1>2, <2>3
    <3>2. Pending(s, t)' = Pending(s, t)
      BY <1>1, <2>3 DEF Pending, Unrecorded, Admitted, S, T, TypeOK, VariablesTyped
    <3> QED BY <2>1, <3>1, <3>2
  <2> QED BY <2>2, <2>3
<1>4. OwedWithin'
  <2> SUFFICES ASSUME NEW s \in Sessions, NEW t \in Tools
               PROVE  Cardinality(Pending(s, t))' <= executed'[s][t]
    BY DEF OwedWithin
  <2> DEFINE m == Cardinality(Pending(s, t))'
             n == Cardinality(Pending(s, t))
  <2>1. PICK d \in {0, 1} : /\ m <= n + d /\ executed'[s][t] = executed[s][t] + d
                            /\ executed[s][t] \in Nat /\ n \in Nat /\ m \in Nat
    BY <1>3
  <2>2. n <= executed[s][t]
    BY DEF HistoryInv, OwedWithin
  <2> HIDE DEF m, n
  <2>3. m <= executed'[s][t]
    BY <2>1, <2>2
  <2> QED BY <2>3 DEF m
<1>5. ArraysWithin'
  <2> SUFFICES ASSUME NEW a \in DOMAIN arrayHeap, NEW s \in Sessions, NEW t \in Tools,
                      arrayHeap[a].ses = s
               PROVE  Cardinality(Slots(a, t))' + Cardinality(Pending(s, t))' <= executed'[s][t]
    BY <1>1 DEF ArraysWithin
  <2> DEFINE m == Cardinality(Pending(s, t))'
             n == Cardinality(Pending(s, t))
             k == Cardinality(Slots(a, t))
  <2>1. PICK d \in {0, 1} : /\ m <= n + d /\ executed'[s][t] = executed[s][t] + d
                            /\ executed[s][t] \in Nat /\ n \in Nat /\ m \in Nat
    BY <1>3
  <2>2. k \in Nat /\ k + n <= executed[s][t]
    BY SlotsFinite, ZenonT(60) DEF HistoryInv, ArraysWithin, Slots, TypeOK, VariablesTyped
  <2>3. Cardinality(Slots(a, t))' = k
    BY <1>1 DEF Slots
  <2> HIDE DEF m, n, k
  <2>4. k + m <= executed'[s][t]
    BY <2>1, <2>2
  <2> QED BY <2>3, <2>4 DEF m
<1> QED BY <1>4, <1>5 DEF HistoryInv

(* A new session has an empty history. *)
LEMMA CreateHistory ==
    ASSUME TypeOK, HistoryInv, NEW p \in Calls, CreateNew(p)
    PROVE  HistoryInv'
<1>1. /\ arrayHeap' = Append(arrayHeap, [ses |-> S(p), slots |-> <<>>])
      /\ pc' = [pc EXCEPT ![p] = "readToken"] /\ pc[p] = "create"
      /\ \A q \in Calls \ {p} : call'[q] = call[q]
      /\ executed' = executed
    BY DEF CreateNew, Create, At, Goto, Keep, Set, hvars, TypeOK, VariablesTyped
<1>2. \A s \in Sessions, t \in Tools : Pending(s, t)' = Pending(s, t)
    BY <1>1 DEF Pending, Unrecorded, Admitted, S, T, TypeOK, VariablesTyped
<1>3. OwedWithin'
    BY <1>1, <1>2 DEF HistoryInv, OwedWithin
<1>4. arrayHeap \in Seq(BackingArray)
    BY DEF TypeOK, VariablesTyped
<1>5. ASSUME NEW a \in DOMAIN arrayHeap', NEW s \in Sessions, NEW t \in Tools,
             arrayHeap'[a].ses = s
      PROVE  Cardinality(Slots(a, t))' + Cardinality(Pending(s, t))' <= executed'[s][t]
  <2>1. \/ a \in DOMAIN arrayHeap /\ arrayHeap'[a] = arrayHeap[a]
        \/ arrayHeap'[a] = [ses |-> S(p), slots |-> <<>>]
    BY <1>1, <1>4, <1>5
  <2>2. CASE a \in DOMAIN arrayHeap /\ arrayHeap'[a] = arrayHeap[a]
    <3>1. Slots(a, t)' = Slots(a, t)
      BY <2>2 DEF Slots
    <3> QED BY <1>1, <1>2, <1>5, <2>2, <3>1 DEF HistoryInv, ArraysWithin
  <2>3. CASE arrayHeap'[a] = [ses |-> S(p), slots |-> <<>>]
    <3>1. Slots(a, t)' = {}
      BY <2>3 DEF Slots
    <3>2. Cardinality(Slots(a, t))' = 0
      BY <3>1, FS_EmptySet
    <3> DEFINE n == Cardinality(Pending(s, t))
    <3>3. n \in Nat /\ n <= executed[s][t] /\ n = Cardinality(Pending(s, t))'
      BY <1>2, PendingFinite DEF HistoryInv, OwedWithin
    <3> HIDE DEF n
    <3>4. 0 + n <= executed[s][t]
      BY <3>3
    <3> QED BY <1>1, <3>2, <3>3, <3>4
  <2> QED BY <2>1, <2>2, <2>3
<1> QED BY <1>3, <1>5 DEF HistoryInv, ArraysWithin

(* An append of a name that was owed, or of a torn one. *)
LEMMA AppendHistory ==
    ASSUME TypeOK, HistoryInv, executed' = executed,
           NEW s \in Sessions, NEW h \in Header, ValidHeader(s, h),
           NEW v \in Tools \cup {Torn}, arrayHeap' = RecordHeap(s, h, v),
           \A u \in Sessions, t \in Tools : Pending(u, t)' \subseteq Pending(u, t),
           v \in Tools => \E p \in Pending(s, v) : p \notin Pending(s, v)'
    PROVE  HistoryInv'
<1> DEFINE D(u, t) == IF u = s /\ t = v THEN 1 ELSE 0
<1>1. ASSUME NEW u \in Sessions, NEW t \in Tools
      PROVE  /\ Cardinality(Pending(u, t))' + D(u, t) <= Cardinality(Pending(u, t))
             /\ Cardinality(Pending(u, t))' \in Nat /\ Cardinality(Pending(u, t)) \in Nat
             /\ executed[u][t] \in Nat
  <2>1. Cardinality(Pending(u, t))' \in Nat /\ Cardinality(Pending(u, t)) \in Nat
    BY PendingFinite
  <2>2. CASE u = s /\ t = v
    <3>1. PICK p \in Pending(u, t) : p \notin Pending(u, t)'
      BY <2>2
    <3>2. Pending(u, t)' \subseteq Pending(u, t) \ {p}
      BY <3>1
    <3>3. /\ Cardinality(Pending(u, t) \ {p}) = Cardinality(Pending(u, t)) - 1
          /\ IsFiniteSet(Pending(u, t) \ {p})
      BY <3>1, PendingFinite, FS_RemoveElement
    <3>4. Cardinality(Pending(u, t))' <= Cardinality(Pending(u, t)) - 1
      BY <3>2, <3>3, SmallerSet
    <3> QED BY <2>1, <2>2, <3>4 DEF TypeOK, VariablesTyped
  <2>3. CASE ~ (u = s /\ t = v)
    <3>1. Cardinality(Pending(u, t))' <= Cardinality(Pending(u, t))
      BY PendingFinite, SmallerSet
    <3> QED BY <2>1, <2>3, <3>1 DEF TypeOK, VariablesTyped
  <2> QED BY <2>2, <2>3
<1>2. /\ arrayHeap' \in Seq(BackingArray)
      /\ \A a \in 1 .. Len(arrayHeap') : \E b \in DOMAIN arrayHeap :
            /\ arrayHeap[b].ses = arrayHeap'[a].ses
            /\ \A k \in DOMAIN arrayHeap'[a].slots :
                  \/ arrayHeap'[a].slots[k] = NoTool
                  \/ arrayHeap'[a].slots[k] = v /\ arrayHeap'[a].ses = s /\ k = h.len + 1
                  \/ /\ k \in DOMAIN arrayHeap[b].slots
                     /\ arrayHeap[b].slots[k] = arrayHeap'[a].slots[k]
  <2>1. PICK r : r = RecordHeader(h)
    OBVIOUS
  <2> QED BY <2>1, RecordHeapTyped
<1>3. OwedWithin'
  <2> SUFFICES ASSUME NEW u \in Sessions, NEW t \in Tools
               PROVE  Cardinality(Pending(u, t))' <= executed[u][t]
    BY DEF OwedWithin
  <2> DEFINE m == Cardinality(Pending(u, t))'
             n == Cardinality(Pending(u, t))
  <2>1. m + D(u, t) <= n /\ m \in Nat /\ n \in Nat /\ executed[u][t] \in Nat
    BY <1>1
  <2>2. n <= executed[u][t]
    BY DEF HistoryInv, OwedWithin
  <2> HIDE DEF m, n
  <2>3. m <= executed[u][t]
    BY <2>1, <2>2
  <2> QED BY <2>3 DEF m
<1>4. ASSUME NEW a \in DOMAIN arrayHeap', NEW u \in Sessions, NEW t \in Tools,
             arrayHeap'[a].ses = u
      PROVE  Cardinality(Slots(a, t))' + Cardinality(Pending(u, t))' <= executed[u][t]
  <2>1. PICK b \in DOMAIN arrayHeap :
            /\ arrayHeap[b].ses = u
            /\ \A k \in DOMAIN arrayHeap'[a].slots :
                  \/ arrayHeap'[a].slots[k] = NoTool
                  \/ arrayHeap'[a].slots[k] = v /\ u = s /\ k = h.len + 1
                  \/ /\ k \in DOMAIN arrayHeap[b].slots
                     /\ arrayHeap[b].slots[k] = arrayHeap'[a].slots[k]
    BY <1>2, <1>4
  <2>2. t # NoTool
    BY ToolsAssumption
  <2>3. /\ IsFiniteSet(Slots(b, t)) /\ Cardinality(Slots(b, t)) \in Nat
        /\ IsFiniteSet(Slots(a, t)') /\ Cardinality(Slots(a, t)') \in Nat
    <3>1. IsFiniteSet(Slots(b, t)) /\ Cardinality(Slots(b, t)) \in Nat
      BY SlotsFinite, ZenonT(60) DEF Slots, TypeOK, VariablesTyped
    <3>2. PICK g, K : g = arrayHeap' /\ K = Slots(a, t)'
      OBVIOUS
    <3>3. /\ g \in Seq(BackingArray) /\ a \in DOMAIN g
          /\ K = {k \in DOMAIN g[a].slots : g[a].slots[k] = t}
      BY <1>2, <3>2 DEF Slots
    <3>4. IsFiniteSet(K) /\ Cardinality(K) \in Nat
      BY ONLY <3>3, SlotsFinite
    <3> QED BY <3>1, <3>2, <3>4
  <2>4. Cardinality(Slots(a, t)') <= Cardinality(Slots(b, t)) + D(u, t)
    <3>1. CASE u = s /\ t = v
      <4>1. Slots(a, t)' \subseteq Slots(b, t) \cup {h.len + 1}
        BY <2>1, <2>2, <3>1 DEF Slots
      <4>2. /\ IsFiniteSet(Slots(b, t) \cup {h.len + 1})
            /\ Cardinality(Slots(b, t) \cup {h.len + 1}) <= Cardinality(Slots(b, t)) + 1
        BY <2>3, OneMore
      <4>3. Cardinality(Slots(a, t)') <= Cardinality(Slots(b, t) \cup {h.len + 1})
        BY <4>1, <4>2, SmallerSet
      <4>4. Cardinality(Slots(b, t) \cup {h.len + 1}) \in Nat
        BY <4>2, FS_CardinalityType
      <4> QED BY <2>3, <3>1, <4>2, <4>3, <4>4
    <3>2. CASE ~ (u = s /\ t = v)
      <4>1. Slots(a, t)' \subseteq Slots(b, t)
        BY <2>1, <2>2, <3>2 DEF Slots
      <4>2. Cardinality(Slots(a, t)') <= Cardinality(Slots(b, t))
        BY <2>3, <4>1, SmallerSet
      <4> QED BY <2>3, <3>2, <4>2
    <3> QED BY <3>1, <3>2
  <2> DEFINE m == Cardinality(Pending(u, t))'
             n == Cardinality(Pending(u, t))
             i == Cardinality(Slots(b, t))
             j == Cardinality(Slots(a, t))'
  <2>5. m + D(u, t) <= n /\ m \in Nat /\ n \in Nat /\ executed[u][t] \in Nat
    BY <1>1
  <2>6. i + n <= executed[u][t]
    BY <2>1 DEF HistoryInv, ArraysWithin
  <2>7. i \in Nat /\ j \in Nat /\ j <= i + D(u, t)
    BY <2>3, <2>4
  <2> HIDE DEF m, n, i, j
  <2>8. j + m <= executed[u][t]
    BY <2>5, <2>6, <2>7
  <2> QED BY <2>8 DEF j, m
<1>5. ArraysWithin'
    BY <1>4 DEF ArraysWithin
<1> QED BY <1>3, <1>5 DEF HistoryInv

(* RecordToolCall of one call. *)
LEMMA RecordHistory ==
    ASSUME TypeOK, HistoryInv, NEW p \in Calls, RecordTool(p)
    PROVE  HistoryInv'
<1>1. /\ pc' = [pc EXCEPT ![p] = "recordUpdate"] /\ pc[p] = "record"
      /\ \A q \in Calls \ {p} : call'[q] = call[q]
      /\ executed' = executed /\ arrayHeap' = RecordHeap(S(p), H(p), T(p))
    BY DEF RecordTool, At, Goto, Keep, Set, hvars, TypeOK, VariablesTyped
<1>2. S(p) \in Sessions /\ T(p) \in Tools /\ H(p) \in Header /\ ValidHeader(S(p), H(p))
    BY <1>1 DEF TypeOK, VariablesTyped, CopiesValid, HoldsCopy, Locals, S, T, H
<1>3. \A u \in Sessions, t \in Tools : Pending(u, t)' \subseteq Pending(u, t)
    BY <1>1 DEF Pending, Unrecorded, S, T, TypeOK, VariablesTyped
<1>4. p \in Pending(S(p), T(p))
    BY <1>1 DEF Pending, Unrecorded, Admitted
<1>5. \A u, t : p \notin Pending(u, t)'
    BY <1>1 DEF Pending, Unrecorded, TypeOK, VariablesTyped
<1>6. ASSUME NEW s, s = S(p), NEW v, v = T(p) PROVE HistoryInv'
  <2>1. \E q \in Pending(s, v) : q \notin Pending(s, v)'
    BY <1>4, <1>5, <1>6
  <2> QED BY <1>1, <1>2, <1>3, <1>6, <2>1, AppendHistory
<1> QED BY <1>6

(* Races: a torn name is no tool, a lost one is one less. *)
LEMMA RaceHistory ==
    ASSUME TypeOK, HistoryInv, NEW p \in Calls, NEW q \in Calls, Race(p, q)
    PROVE  HistoryInv'
<1>0. executed' = executed
    BY DEF Race, RacyMapWrite, MapThrow, RacyRecord, hvars
<1>1. CASE RacyMapWrite(p, q)
  <2>1. \A r \in {p, q} : pc[r] \in {"add", "truncate"}
    BY <1>1 DEF RacyMapWrite, WritesMap
  <2>2. \A r \in Calls : pc'[r] \in Unrecorded =>
            pc[r] \in Unrecorded /\ call'[r].ses = S(r) /\ call'[r].tool = T(r)
    BY <1>1, <2>1 DEF RacyMapWrite, Unrecorded, Admitted, S, T
  <2> QED BY <1>0, <1>1, <2>2, FrameHistory DEF RacyMapWrite
<1>2. CASE MapThrow(p, q)
    BY <1>0, <1>2, FrameHistory DEF MapThrow, svars, S, T
<1>3. CASE RacyRecord(p, q)
  <2>1. /\ pc[p] = "record" /\ pc[q] = "record"
        /\ arrayHeap' = RecordHeap(S(p), H(p), Torn)
        /\ \A r \in Calls \ {p, q} : call'[r] = call[r] /\ pc'[r] = pc[r]
        /\ pc'[p] = "recordUpdate" /\ pc'[q] = "recordUpdate"
    BY <1>3 DEF RacyRecord, At
  <2>2. S(p) \in Sessions /\ H(p) \in Header /\ ValidHeader(S(p), H(p))
    BY <2>1 DEF TypeOK, VariablesTyped, CopiesValid, HoldsCopy, Locals, S, H
  <2>3. \A u \in Sessions, t \in Tools : Pending(u, t)' \subseteq Pending(u, t)
    BY <2>1 DEF Pending, Unrecorded, S, T
  <2> QED BY <1>0, <2>1, <2>2, <2>3, TornAssumption, AppendHistory
<1> QED BY <1>1, <1>2, <1>3 DEF Race

(* A rule that fails leaves the histories alone. *)
LEMMA RuleFailsHistory ==
    ASSUME TypeOK, HistoryInv, arrayHeap' = arrayHeap, executed' = executed,
           NEW p \in Calls, RuleFails(p)
    PROVE  HistoryInv'
BY MoveHistory DEF RuleFails, Return, Goto, Set, Unrecorded, Admitted

(* The wrapper and ValidateToolCall, and a handler that fails. *)
LEMMA BeforeHandlerHistory ==
    ASSUME TypeOK, HistoryInv, NEW p \in Calls,
           \/ Begin(p) \/ WrapGet(p) \/ CreateGet(p) \/ CreateFails(p) \/ ReadToken(p)
           \/ AdmitFree(p) \/ RejectNoSession(p) \/ StartValidation(p) \/ ValidateGet(p)
           \/ HistoryHit(p) \/ HistoryMiss(p) \/ CheckTokens(p) \/ HandlerFails(p)
    PROVE  HistoryInv'
<1>1. UNCHANGED <<arrayHeap, executed>>
    BY DEF Begin, WrapGet, CreateGet, CreateFails, ReadToken, AdmitFree, RejectNoSession,
       StartValidation, ValidateGet, HistoryHit, HistoryMiss, CheckTokens, HandlerFails,
       svars, hvars
<1>2. call = [call EXCEPT ![p] = call[p]]
    BY DEF TypeOK, VariablesTyped
<1> USE DEF Goto, Set, Keep, Return, Unrecorded, Admitted
<1>3. CASE Begin(p) \/ WrapGet(p) \/ CreateGet(p) \/ ReadToken(p)
    BY <1>1, <1>3, MoveHistory, ZenonT(60) DEF Begin, WrapGet, CreateGet, ReadToken
<1>4. CASE CreateFails(p) \/ AdmitFree(p) \/ StartValidation(p) \/ HistoryHit(p)
    BY <1>1, <1>2, <1>4, MoveHistory DEF CreateFails, AdmitFree, StartValidation, HistoryHit
<1>5. CASE RejectNoSession(p) \/ HandlerFails(p) \/ ValidateGet(p)
    BY <1>1, <1>5, MoveHistory DEF RejectNoSession, HandlerFails, ValidateGet
<1>6. CASE HistoryMiss(p)
    BY <1>1, <1>6, RuleFailsHistory DEF HistoryMiss
<1>7. CASE CheckTokens(p)
  <2>1. CASE RuleFails(p)
    BY <1>1, <2>1, RuleFailsHistory
  <2>2. CASE Goto(p, "handler") /\ UNCHANGED call
    BY <1>1, <1>2, <2>2, MoveHistory
  <2> QED BY <1>7, <2>1, <2>2 DEF CheckTokens
<1> QED BY <1>3, <1>4, <1>5, <1>6, <1>7

(* ConsumePrerequisiteToken, IssueToken and the saving of the record. *)
LEMMA AfterHandlerHistory ==
    ASSUME TypeOK, HistoryInv, NEW p \in Calls,
           \/ ConsumeFind(p) \/ ConsumeRemove(p) \/ ConsumeTooLate(p) \/ ConsumeGet(p)
           \/ ConsumeTruncate(p) \/ ConsumeUpdate(p) \/ IssueStore(p)
           \/ GenerateTokenFails(p) \/ IssueGet(p) \/ IssueAdd(p) \/ IssueUpdate(p)
           \/ RecordGet(p) \/ RecordUpdate(p)
    PROVE  HistoryInv'
<1>1. UNCHANGED <<arrayHeap, executed>>
    BY DEF ConsumeFind, ConsumeRemove, ConsumeTooLate, ConsumeGet, ConsumeTruncate,
       ConsumeUpdate, IssueStore, GenerateTokenFails, IssueGet, IssueAdd, IssueUpdate,
       RecordGet, RecordUpdate, Update, svars, hvars
<1>2. call = [call EXCEPT ![p] = call[p]] /\ call[p] \in Locals
    BY DEF TypeOK, VariablesTyped
<1> USE DEF At, Goto, Set, Keep, Return, Unrecorded, Admitted, S, T
<1>3. CASE \/ ConsumeRemove(p) \/ ConsumeTooLate(p) \/ ConsumeTruncate(p) \/ ConsumeUpdate(p)
           \/ GenerateTokenFails(p) \/ IssueAdd(p) \/ IssueUpdate(p)
  <2>1. /\ pc[p] \in Unrecorded /\ call' = [call EXCEPT ![p] = call[p]]
        /\ \E x : pc' = [pc EXCEPT ![p] = x]
    BY <1>2, <1>3 DEF ConsumeRemove, ConsumeTooLate, ConsumeTruncate, ConsumeUpdate,
       GenerateTokenFails, IssueAdd, IssueUpdate
  <2> QED BY <1>1, <2>1, MoveHistory
<1>4. CASE ConsumeGet(p) \/ IssueGet(p) \/ IssueStore(p)
  <2>1. PICK c : /\ pc[p] \in Unrecorded /\ call' = [call EXCEPT ![p] = c]
                 /\ \E x : pc' = [pc EXCEPT ![p] = x]
                 /\ c.ses = S(p) /\ c.tool = T(p)
    BY <1>2, <1>4 DEF ConsumeGet, IssueGet, IssueStore, Locals
  <2> QED BY <1>1, <2>1, MoveHistory
<1>5. CASE ConsumeFind(p)
  <2>1. CASE UNCHANGED call
    BY <1>1, <1>2, <1>5, <2>1, MoveHistory DEF ConsumeFind
  <2>2. CASE call' # call
    <3>1. PICK i, v : /\ call' = [call EXCEPT ![p] = [call[p] EXCEPT !.rule = i, !.tok = v]]
                      /\ pc' = [pc EXCEPT ![p] = "remove"]
        BY <1>5, <2>2 DEF ConsumeFind
    <3>2. PICK c : c = [call[p] EXCEPT !.rule = i, !.tok = v]
        OBVIOUS
    <3>3. c.ses = S(p) /\ c.tool = T(p)
        BY <1>2, <3>2 DEF Locals
    <3> QED BY <1>1, <1>5, <3>1, <3>2, <3>3, MoveHistory DEF ConsumeFind
  <2> QED BY <2>1, <2>2
<1>6. CASE RecordGet(p)
  <2>1. CASE Exists(S(p))
    BY <1>1, <1>2, <1>6, <2>1, MoveHistory DEF RecordGet, Locals
  <2>2. CASE ~Exists(S(p))
    BY <1>1, <1>6, <2>2, MoveHistory DEF RecordGet
  <2> QED BY <2>1, <2>2
<1>7. CASE RecordUpdate(p)
    BY <1>1, <1>7, MoveHistory DEF RecordUpdate
<1> QED BY <1>3, <1>4, <1>5, <1>6, <1>7

(* What a copy shows is part of its array. *)
LEMMA CopyWithin ==
    ASSUME TypeOK, HistoryInv, NEW s \in Sessions, NEW h \in Header, ValidHeader(s, h),
           NEW t \in Tools
    PROVE  Times(h, t) <= executed[s][t]
<1>1. /\ arrayHeap \in Seq(BackingArray) /\ h.arr \in DOMAIN arrayHeap
      /\ arrayHeap[h.arr].ses = s /\ h.len \in Nat
      /\ h.len <= Len(arrayHeap[h.arr].slots)
      /\ executed[s][t] \in Nat
    BY DEF ValidHeader, TypeOK, VariablesTyped, Header
<1>2. arrayHeap[h.arr].slots \in Seq(Tools \cup {NoTool, Torn})
  <2>1. arrayHeap[h.arr] \in BackingArray
    BY <1>1
  <2> QED BY <2>1 DEF BackingArray
<1>3. {k \in 1 .. h.len : arrayHeap[h.arr].slots[k] = t} \subseteq Slots(h.arr, t)
    BY <1>1, <1>2 DEF Slots
<1>4. IsFiniteSet(Slots(h.arr, t)) /\ Cardinality(Slots(h.arr, t)) \in Nat
    BY <1>1, SlotsFinite DEF Slots
<1> DEFINE i == Times(h, t)
           j == Cardinality(Slots(h.arr, t))
           n == Cardinality(Pending(s, t))
<1>5. i <= j /\ i \in Nat /\ j \in Nat
    BY <1>3, <1>4, SmallerSet DEF Times
<1>6. n \in Nat /\ j + n <= executed[s][t]
    BY <1>1, PendingFinite DEF HistoryInv, ArraysWithin
<1> HIDE DEF i, j, n
<1>7. i <= executed[s][t]
    BY <1>1, <1>5, <1>6
<1> QED BY <1>7 DEF i

(* A session's ToolHistory, stored or in any call's copy, shows no tool    *)
(* more often than its handler succeeded in that session, for any number   *)
(* of calls whose appends overlap (RecordToolCall on shared arrays).       *)
THEOREM HistoriesDoNotInvent == Spec => []HistoryNeverInvents
<1>1. Init => HistoryInv
  <2> SUFFICES ASSUME Init PROVE HistoryInv
    OBVIOUS
  <2>1. DOMAIN arrayHeap = {} /\ \A s \in Sessions, t \in Tools : executed[s][t] = 0
    BY DEF Init, SessionStoreInit
  <2>2. \A s \in Sessions, t \in Tools : Pending(s, t) = {}
    BY DEF Init, Pending, Unrecorded, Admitted
  <2>3. \A s \in Sessions, t \in Tools : Cardinality(Pending(s, t)) = 0
    BY <2>2, FS_EmptySet
  <2>4. OwedWithin
    BY <2>1, <2>3 DEF OwedWithin
  <2> QED BY <2>1, <2>4 DEF HistoryInv, ArraysWithin
<1>2. TypeOK /\ HistoryInv /\ [Next]_vars => HistoryInv'
  <2> SUFFICES ASSUME TypeOK, HistoryInv, [Next]_vars PROVE HistoryInv'
    OBVIOUS
  <2>1. ASSUME NEW p \in Calls, Begin(p) \/ Step(p) PROVE HistoryInv'
    BY <2>1, BeforeHandlerHistory, CreateHistory, HandlerHistory, AfterHandlerHistory,
       RecordHistory DEF Step
  <2>2. CASE Tick \/ (\E s \in Sessions : DeleteSession(s)) \/ UNCHANGED vars
    <3>1. UNCHANGED <<pc, call, executed, arrayHeap>>
        BY <2>2 DEF Tick, DeleteSession, Delete, vars, svars, hvars
    <3> QED BY <3>1, FrameHistory DEF S, T
  <2> QED BY <2>1, <2>2, RaceHistory DEF Next, Done
<1>3. TypeOK /\ HistoryInv => HistoryNeverInvents
  <2> SUFFICES ASSUME TypeOK, HistoryInv PROVE HistoryNeverInvents
    OBVIOUS
  <2>1. ASSUME NEW s \in Sessions, Exists(s), NEW t \in Tools
        PROVE  Times(sessions[s], t) <= executed[s][t]
    BY <2>1, CopyWithin DEF TypeOK, VariablesTyped, CopiesValid
  <2>2. ASSUME NEW p \in Calls, pc[p] \in HoldsCopy, NEW t \in Tools
        PROVE  Times(H(p), t) <= executed[S(p)][t]
    <3>1. S(p) \in Sessions /\ H(p) \in Header /\ ValidHeader(S(p), H(p))
        BY <2>2 DEF TypeOK, VariablesTyped, CopiesValid, Locals, S, H
    <3> QED BY <3>1, CopyWithin
  <2> QED BY <2>1, <2>2 DEF HistoryNeverInvents
<1>4. TypeOK /\ [Next]_vars => TypeOK'
    BY NextTyped
<1> QED BY <1>1, <1>2, <1>3, <1>4, InitTyped, PTL DEF Spec

(***************************************************************************)
(* Tokens are conserved.  No value in the store is one the generator has   *)
(* still to make, so the value of a new token is new there; then a removal *)
(* takes away one place and one value.                                     *)
(***************************************************************************)
Drawn ==
    \A s \in Sessions, t \in Tools : \A i \in DOMAIN tokens[s][t] :
        tokens[s][t][i].value \in Made
TokenInv == Drawn /\ TokensConserved

(* The tokens made and the tokens stored are finitely many. *)
LEMMA MadeCount ==
    ASSUME TypeOK
    PROVE  /\ IsFiniteSet(Made) /\ Cardinality(Made) = nextToken - 1
           /\ IsFiniteSet(Stored) /\ Cardinality(Stored) \in Nat
<1>1. nextToken \in Nat \ {0} /\ 1 \in Int /\ nextToken - 1 \in Int
    BY DEF TypeOK, VariablesTyped
<1>2. /\ IsFiniteSet(1 .. nextToken - 1)
      /\ Cardinality(1 .. nextToken - 1) =
            IF 1 > nextToken - 1 THEN 0 ELSE nextToken - 1 - 1 + 1
    BY ONLY <1>1, FS_Interval
<1>3. IsFiniteSet(Made) /\ Cardinality(Made) = nextToken - 1
    BY <1>1, <1>2 DEF Made
<1>4. Stored \subseteq Made
    BY DEF Stored
<1> QED BY <1>3, <1>4, SmallerSet

(* Steps that leave the token store alone and consume nothing. *)
LEMMA FrameTokens ==
    ASSUME TokenInv, tokens' = tokens, nextToken' = nextToken,
           events'["token_consumed"] = events["token_consumed"]
    PROVE  TokenInv'
<1>1. Made' = Made /\ Stored' = Stored
    BY DEF Made, Stored, Holds
<1>2. Drawn' /\ StoredOnce'
    BY <1>1 DEF TokenInv, Drawn, TokensConserved, StoredOnce
<1> QED BY <1>1, <1>2 DEF TokenInv, TokensConserved

(* Store: the new token is in one new place. *)
LEMMA StoreConserves ==
    ASSUME TypeOK, TypeOK', TokenInv, NEW p \in Calls, IssueStore(p)
    PROVE  TokenInv'
<1>1. PICK s, t, e : /\ s = S(p) /\ t = T(p)
                     /\ e = [value |-> nextToken, expires |-> now + TokenExpiry(rules, T(p))]
    OBVIOUS
<1>2. /\ s \in Sessions /\ t \in Tools /\ tokens \in [Sessions -> [Tools -> Seq(Entry)]]
      /\ tokens' \in [Sessions -> [Tools -> Seq(Entry)]]
      /\ nextToken \in Nat \ {0} /\ e.value = nextToken
    BY <1>1 DEF TypeOK, VariablesTyped, Locals, S, T
<1>3. /\ tokens' = [tokens EXCEPT ![s] = [tokens[s] EXCEPT ![t] = Append(tokens[s][t], e)]]
      /\ nextToken' = nextToken + 1 /\ events' = events
    BY <1>1, <1>2 DEF IssueStore, Store
<1>4. tokens'[s][t] = Append(tokens[s][t], e)
    BY <1>2, <1>3
<1>5. \A u \in Sessions, w \in Tools : u # s \/ w # t => tokens'[u][w] = tokens[u][w]
    BY <1>2, <1>3
<1>6. Made' = Made \cup {nextToken} /\ nextToken \notin Made
    BY <1>2, <1>3 DEF Made
<1>7. ASSUME NEW u \in Sessions, NEW w \in Tools, NEW i \in DOMAIN tokens'[u][w]
      PROVE  \/ i \in DOMAIN tokens[u][w] /\ tokens'[u][w][i] = tokens[u][w][i]
             \/ u = s /\ w = t /\ i = Len(tokens[s][t]) + 1 /\ tokens'[u][w][i].value = nextToken
  <2>1. CASE u = s /\ w = t
    <3>1. PICK q \in Seq(Entry) : q = tokens[s][t]
      BY <1>2
    <3>2. e \in Entry
      <4>1. TokenExpiry(rules, T(p)) \in Nat
        BY ExpiryTyped, RulesTyped DEF TypeOK, VariablesTyped
      <4>2. now \in Nat
        BY BoundsAssumption DEF TypeOK, VariablesTyped
      <4> QED BY <1>1, <1>2, <4>1, <4>2, SMTT(30) DEF Entry
    <3>3. i \in DOMAIN Append(q, e)
      BY <1>4, <1>7, <2>1, <3>1
    <3>4. \/ i \in DOMAIN q /\ Append(q, e)[i] = q[i]
          \/ i = Len(q) + 1 /\ Append(q, e)[i] = e
      BY <3>2, <3>3
    <3> QED BY <1>2, <1>4, <2>1, <3>1, <3>4
  <2>2. CASE ~ (u = s /\ w = t)
    BY <1>5, <1>7, <2>2
  <2> QED BY <2>1, <2>2
<1>8. Drawn'
  <2> SUFFICES ASSUME NEW u \in Sessions, NEW w \in Tools, NEW i \in DOMAIN tokens'[u][w]
               PROVE  tokens'[u][w][i].value \in Made'
    BY DEF Drawn
  <2> QED BY <1>6, <1>7 DEF TokenInv, Drawn
<1>9. StoredOnce'
  <2> SUFFICES ASSUME NEW s1 \in Sessions, NEW s2 \in Sessions, NEW t1 \in Tools, NEW t2 \in Tools,
                      NEW i \in DOMAIN tokens'[s1][t1], NEW j \in DOMAIN tokens'[s2][t2],
                      tokens'[s1][t1][i].value = tokens'[s2][t2][j].value
               PROVE  s1 = s2 /\ t1 = t2 /\ i = j
    BY DEF StoredOnce
  <2> DEFINE Old(u, w, k) == k \in DOMAIN tokens[u][w] /\ tokens'[u][w][k] = tokens[u][w][k]
  <2>1. ASSUME NEW u \in Sessions, NEW w \in Tools, NEW k, Old(u, w, k)
        PROVE  tokens'[u][w][k].value # nextToken
    BY <1>6, <2>1 DEF TokenInv, Drawn
  <2>2. CASE Old(s1, t1, i) /\ Old(s2, t2, j)
    BY <2>2 DEF TokenInv, TokensConserved, StoredOnce
  <2> QED BY <1>7, <2>1, <2>2
<1>10. Stored' = Stored \cup {nextToken} /\ nextToken \notin Stored
  <2>1. nextToken \notin Stored
    BY <1>6 DEF Stored
  <2>2. ASSUME NEW v \in Stored' PROVE v \in Stored \cup {nextToken}
    <3>1. PICK u \in Sessions, w \in Tools : \E i \in DOMAIN tokens'[u][w] :
              v \in Made' /\ tokens'[u][w][i].value = v
      BY <2>2 DEF Stored, Holds
    <3> PICK i \in DOMAIN tokens'[u][w] : v \in Made' /\ tokens'[u][w][i].value = v
      BY <3>1
    <3>2. CASE i \in DOMAIN tokens[u][w] /\ tokens'[u][w][i] = tokens[u][w][i]
      BY <3>1, <3>2 DEF Stored, Holds, TokenInv, Drawn
    <3> QED BY <1>7, <3>1, <3>2
  <2>3. ASSUME NEW v \in Stored PROVE v \in Stored'
    <3>1. PICK u \in Sessions, w \in Tools : \E i \in DOMAIN tokens[u][w] :
              v \in Made /\ tokens[u][w][i].value = v
      BY <2>3 DEF Stored, Holds
    <3> PICK i \in DOMAIN tokens[u][w] : v \in Made /\ tokens[u][w][i].value = v
      BY <3>1
    <3>2. i \in DOMAIN tokens'[u][w] /\ tokens'[u][w][i] = tokens[u][w][i]
      <4>1. CASE u = s /\ w = t
        BY <1>2, <1>4, <4>1
      <4>2. CASE ~ (u = s /\ w = t)
        BY <1>5, <4>2
      <4> QED BY <4>1, <4>2
    <3> QED BY <1>6, <3>1, <3>2 DEF Stored, Holds
  <2>4. nextToken \in Stored'
    <3>1. Len(tokens[s][t]) + 1 \in DOMAIN tokens'[s][t]
      BY <1>2, <1>4
    <3>2. tokens'[s][t][Len(tokens[s][t]) + 1] = e
      BY <1>2, <1>4
    <3> QED BY <1>2, <1>6, <3>1, <3>2 DEF Stored, Holds
  <2> QED BY <2>1, <2>2, <2>3, <2>4
<1>11. Cardinality(Stored') = Cardinality(Stored) + 1
    BY <1>10, MadeCount, FS_AddElement
<1>12. Cardinality(Made') = Cardinality(Made) + 1
    BY <1>6, MadeCount, FS_AddElement
<1>13. /\ Cardinality(Made) = Cardinality(Stored) + events["token_consumed"]
       /\ Cardinality(Stored) \in Nat /\ events["token_consumed"] \in Nat
    BY MadeCount DEF TokenInv, TokensConserved, TypeOK, VariablesTyped, EventTypes
<1>14. Cardinality(Made') = Cardinality(Stored') + events'["token_consumed"]
  <2> DEFINE n == Cardinality(Stored)
             m == Cardinality(Made)
  <2>1. /\ m = n + events["token_consumed"] /\ n \in Nat /\ events["token_consumed"] \in Nat
        /\ Cardinality(Stored') = n + 1 /\ Cardinality(Made') = m + 1
    BY <1>11, <1>12, <1>13
  <2> HIDE DEF n, m
  <2> QED BY <1>3, <2>1
<1> QED BY <1>8, <1>9, <1>14 DEF TokenInv, TokensConserved

(* RemoveToken: one token leaves its place, and one event says so. *)
LEMMA RemoveConserves ==
    ASSUME TypeOK, TypeOK', TokenInv, NEW p \in Calls, ConsumeRemove(p)
    PROVE  TokenInv'
<1>1. PICK s, t, v : s = S(p) /\ t = Required(p) /\ v = call[p].tok
    OBVIOUS
<1>2. /\ s \in Sessions /\ t \in Tools /\ tokens \in [Sessions -> [Tools -> Seq(Entry)]]
      /\ nextToken' = nextToken /\ Emit({"token_consumed"})
      /\ Holds(s, t, v) /\ RemoveToken(s, t, v)
    BY <1>1 DEF ConsumeRemove, At, TypeOK, VariablesTyped, RulesInHand, KeepsRule, Locals, S
<1>3. PICK q \in Seq(Entry) : q = tokens[s][t]
    BY <1>2
<1>4. PICK c \in DOMAIN q :
          /\ q[c].value = v
          /\ tokens' = [tokens EXCEPT ![s] = [tokens[s] EXCEPT ![t] = RemoveAt(q, c)]]
  <2>1. \E c \in DOMAIN tokens[s][t] :
            /\ tokens[s][t][c].value = v
            /\ tokens' = [tokens EXCEPT ![s] = [tokens[s] EXCEPT ![t] = RemoveAt(tokens[s][t], c)]]
    BY <1>2, RemoveTyped
  <2> QED BY <1>3, <2>1
<1>5. PICK r : r = RemoveAt(q, c)
    OBVIOUS
<1>6. /\ r \in Seq(Entry) /\ Len(r) = Len(q) - 1
      /\ \A i \in 1 .. Len(q) - 1 : r[i] = q[IF i < c THEN i ELSE i + 1]
  <2>1. c \in 1 .. Len(q)
    OBVIOUS
  <2> QED BY <1>5, <2>1, RemoveAtTyped
<1>7. /\ tokens'[s][t] = r
      /\ \A u \in Sessions, w \in Tools : u # s \/ w # t => tokens'[u][w] = tokens[u][w]
    BY <1>2, <1>4, <1>5
<1>8. Made' = Made
    BY <1>2 DEF Made
<1> DEFINE From(u, w, i) == IF u = s /\ w = t /\ i >= c THEN i + 1 ELSE i
<1>9. ASSUME NEW u \in Sessions, NEW w \in Tools, NEW i \in DOMAIN tokens'[u][w]
      PROVE  /\ i \in Nat /\ From(u, w, i) \in DOMAIN tokens[u][w]
             /\ tokens'[u][w][i] = tokens[u][w][From(u, w, i)]
             /\ u = s /\ w = t => From(u, w, i) # c
  <2>1. CASE u = s /\ w = t
    <3>1. i \in 1 .. Len(q) - 1 /\ Len(q) \in Nat /\ c \in 1 .. Len(q)
      BY <1>6, <1>7, <1>9, <2>1
    <3>2. r[i] = q[IF i < c THEN i ELSE i + 1]
      BY <1>6, <3>1
    <3>3. From(u, w, i) = (IF i < c THEN i ELSE i + 1)
      BY <2>1, <3>1
    <3>4. i \in Nat /\ (IF i < c THEN i ELSE i + 1) \in 1 .. Len(q) /\ From(u, w, i) # c
      BY <3>1, <3>3
    <3> QED BY <1>3, <1>7, <2>1, <3>2, <3>3, <3>4
  <2>2. CASE ~ (u = s /\ w = t)
    <3>1. tokens[u][w] \in Seq(Entry)
      BY <1>2
    <3> QED BY <1>7, <1>9, <2>2, <3>1
  <2> QED BY <2>1, <2>2
<1>10. ASSUME NEW u \in Sessions, NEW w \in Tools, NEW k \in DOMAIN tokens[u][w],
              ~ (u = s /\ w = t /\ k = c)
       PROVE  \E i \in DOMAIN tokens'[u][w] : tokens'[u][w][i] = tokens[u][w][k]
  <2>1. CASE u = s /\ w = t
    <3> DEFINE i == IF k < c THEN k ELSE k - 1
    <3>1. k \in 1 .. Len(q) /\ Len(q) \in Nat /\ c \in 1 .. Len(q) /\ k # c
      BY <1>3, <1>10, <2>1
    <3>2. i \in 1 .. Len(q) - 1 /\ (IF i < c THEN i ELSE i + 1) = k
      BY <3>1
    <3> HIDE DEF i
    <3>3. r[i] = q[k] /\ i \in DOMAIN r
      BY <1>6, <3>2
    <3> QED BY <1>3, <1>7, <2>1, <3>3
  <2>2. CASE ~ (u = s /\ w = t)
    BY <1>7, <2>2
  <2> QED BY <2>1, <2>2
<1>11. Drawn'
  <2> SUFFICES ASSUME NEW u \in Sessions, NEW w \in Tools, NEW i \in DOMAIN tokens'[u][w]
               PROVE  tokens'[u][w][i].value \in Made
    BY <1>8 DEF Drawn
  <2> HIDE DEF From
  <2> QED BY <1>9 DEF TokenInv, Drawn
<1>12. StoredOnce'
  <2> SUFFICES ASSUME NEW s1 \in Sessions, NEW s2 \in Sessions, NEW t1 \in Tools, NEW t2 \in Tools,
                      NEW i \in DOMAIN tokens'[s1][t1], NEW j \in DOMAIN tokens'[s2][t2],
                      tokens'[s1][t1][i].value = tokens'[s2][t2][j].value
               PROVE  s1 = s2 /\ t1 = t2 /\ i = j
    BY DEF StoredOnce
  <2>1. s1 = s2 /\ t1 = t2 /\ From(s1, t1, i) = From(s2, t2, j)
    <3> HIDE DEF From
    <3> QED BY <1>9 DEF TokenInv, TokensConserved, StoredOnce
  <2>2. i \in Nat /\ j \in Nat /\ c \in Nat
    BY <1>9
  <2> QED BY <2>1, <2>2
<1>13. v \in Stored /\ Stored' = Stored \ {v}
  <2>1. v \in Stored
    BY <1>2, <1>3, <1>4 DEF Stored, Holds, TokenInv, Drawn
  <2>2. ASSUME NEW x \in Stored' PROVE x \in Stored \ {v}
    <3>1. PICK u \in Sessions, w \in Tools : \E i \in DOMAIN tokens'[u][w] :
              tokens'[u][w][i].value = x
      BY <2>2 DEF Stored, Holds
    <3>2. PICK i \in DOMAIN tokens'[u][w] : tokens'[u][w][i].value = x
      BY <3>1
    <3> DEFINE k == From(u, w, i)
    <3>3. k \in DOMAIN tokens[u][w] /\ tokens[u][w][k].value = x /\ (u = s /\ w = t => k # c)
      BY <1>9, <3>2
    <3> HIDE DEF k
    <3>4. x # v
      BY <1>2, <1>3, <1>4, <3>3 DEF TokenInv, TokensConserved, StoredOnce
    <3> QED BY <3>3, <3>4 DEF Stored, Holds, TokenInv, Drawn
  <2>3. ASSUME NEW x \in Stored, x # v PROVE x \in Stored'
    <3>1. PICK u \in Sessions, w \in Tools : \E k \in DOMAIN tokens[u][w] :
              x \in Made /\ tokens[u][w][k].value = x
      BY <2>3 DEF Stored, Holds
    <3>2. PICK k \in DOMAIN tokens[u][w] : tokens[u][w][k].value = x
      BY <3>1
    <3>3. ~ (u = s /\ w = t /\ k = c)
      BY <1>3, <1>4, <2>3, <3>2
    <3>4. PICK i \in DOMAIN tokens'[u][w] : tokens'[u][w][i] = tokens[u][w][k]
      BY <1>10, <3>3
    <3> QED BY <1>8, <3>1, <3>2, <3>4 DEF Stored, Holds
  <2> QED BY <2>1, <2>2, <2>3
<1>14. Cardinality(Stored') = Cardinality(Stored) - 1
    BY <1>13, MadeCount, FS_RemoveElement
<1>15. /\ events'["token_consumed"] = events["token_consumed"] + 1
       /\ events["token_consumed"] \in Nat
    BY <1>2 DEF Emit, EventTypes, TypeOK, VariablesTyped
<1>16. Cardinality(Made') = Cardinality(Stored') + events'["token_consumed"]
  <2> DEFINE n == Cardinality(Stored)
             m == Cardinality(Made)
  <2>1. /\ m = n + events["token_consumed"] /\ n \in Nat
        /\ Cardinality(Stored') = n - 1 /\ Cardinality(Made') = m
    BY <1>8, <1>14, MadeCount DEF TokenInv, TokensConserved
  <2> HIDE DEF n, m
  <2> QED BY <1>15, <2>1
<1> QED BY <1>11, <1>12, <1>16 DEF TokenInv, TokensConserved

(* The other steps. *)
LEMMA OtherStepConserves ==
    ASSUME TypeOK, TokenInv, NEW p \in Calls,
           \/ Begin(p) \/ WrapGet(p) \/ CreateGet(p) \/ CreateNew(p) \/ CreateFails(p)
           \/ ReadToken(p) \/ AdmitFree(p) \/ RejectNoSession(p) \/ StartValidation(p)
           \/ ValidateGet(p) \/ HistoryHit(p) \/ HistoryMiss(p) \/ CheckTokens(p)
           \/ HandlerSucceeds(p) \/ HandlerFails(p) \/ ConsumeFind(p) \/ ConsumeTooLate(p)
           \/ ConsumeGet(p) \/ ConsumeTruncate(p) \/ ConsumeUpdate(p)
           \/ GenerateTokenFails(p) \/ IssueGet(p) \/ IssueAdd(p) \/ IssueUpdate(p)
           \/ RecordGet(p) \/ RecordTool(p) \/ RecordUpdate(p)
    PROVE  TokenInv'
<1>1. UNCHANGED <<tokens, nextToken>>
    BY DEF Begin, WrapGet, CreateGet, CreateNew, CreateFails, ReadToken, AdmitFree,
       RejectNoSession, StartValidation, ValidateGet, HistoryHit, HistoryMiss, CheckTokens,
       HandlerSucceeds, HandlerFails, ConsumeFind, ConsumeTooLate, ConsumeGet,
       ConsumeTruncate, ConsumeUpdate, GenerateTokenFails, IssueGet, IssueAdd, IssueUpdate,
       RecordGet, RecordTool, RecordUpdate, tvars
<1>2. events' = events \/ \E E \in SUBSET (EventTypes \ {"token_consumed"}) : Emit(E)
  <2> USE DEF EventTypes
  <2>1. CASE RuleFails(p)
    BY <2>1 DEF RuleFails
  <2> QED BY <2>1 DEF Begin, WrapGet, CreateGet, CreateNew, CreateFails, ReadToken, AdmitFree,
       RejectNoSession, StartValidation, ValidateGet, HistoryHit, HistoryMiss, CheckTokens,
       HandlerSucceeds, HandlerFails, ConsumeFind, ConsumeTooLate, ConsumeGet,
       ConsumeTruncate, ConsumeUpdate, GenerateTokenFails, IssueGet, IssueAdd, IssueUpdate,
       RecordGet, RecordTool, RecordUpdate
<1>3. events'["token_consumed"] = events["token_consumed"]
    BY <1>2 DEF Emit, EventTypes, TypeOK, VariablesTyped
<1> QED BY <1>1, <1>3, FrameTokens

(* No token value is stored before it was made, and tokens are conserved. *)
LEMMA TokensInv == Spec => []TokenInv
<1>1. Init => TokenInv
  <2> SUFFICES ASSUME Init PROVE TokenInv
    OBVIOUS
  <2>1. \A s \in Sessions, t \in Tools : DOMAIN tokens[s][t] = {}
    BY DEF Init, TokenStoreInit
  <2>2. Made = {} /\ Stored = {}
    BY DEF Init, Made, Stored
  <2>3. Cardinality(Made) = 0 /\ Cardinality(Stored) = 0
    BY <2>2, FS_EmptySet
  <2>4. events["token_consumed"] = 0
    BY DEF Init, EventTypes
  <2> QED BY <2>1, <2>3, <2>4 DEF TokenInv, Drawn, TokensConserved, StoredOnce
<1>2. TypeOK /\ TokenInv /\ [Next]_vars => TypeOK' /\ TokenInv'
  <2> SUFFICES ASSUME TypeOK, TokenInv, [Next]_vars PROVE TypeOK' /\ TokenInv'
    OBVIOUS
  <2>1. TypeOK'
    BY NextTyped
  <2>2. ASSUME NEW p \in Calls, Begin(p) \/ Step(p) PROVE TokenInv'
    BY <2>1, <2>2, StoreConserves, RemoveConserves, OtherStepConserves DEF Step
  <2>3. ASSUME NEW p \in Calls, NEW q \in Calls, Race(p, q) PROVE TokenInv'
    BY <2>3, FrameTokens DEF Race, RacyMapWrite, MapThrow, RacyRecord, tvars
  <2>4. CASE Tick \/ (\E s \in Sessions : DeleteSession(s)) \/ UNCHANGED vars
    <3>1. tokens' = tokens /\ nextToken' = nextToken /\ events' = events
        BY <2>4 DEF Tick, DeleteSession, vars, tvars
    <3> QED BY <2>1, <3>1, FrameTokens
  <2> QED BY <2>1, <2>2, <2>3, <2>4 DEF Next, Done
<1> QED BY <1>1, <1>2, InitTyped, PTL DEF Spec

(* Every token that was made is in the store, in one place, or has left it *)
(* with one token_consumed event, for any number of consumers that race    *)
(* for it (Store and RemoveToken of the token store).                      *)
THEOREM NoTokenIsLost == Spec => []TokensConserved
<1>1. TokenInv => TokensConserved
    BY DEF TokenInv
<1> QED BY <1>1, TokensInv, PTL

(***************************************************************************)
(* Tokens are announced.  IssueToken emits nothing for a session that is   *)
(* gone; as long as the host has deleted none, the session of a call that  *)
(* is past CreateSession is there.                                         *)
(***************************************************************************)
BeforeSession == {"idle", "get", "createGet", "create"}
SessionsThere == \A p \in Calls : pc[p] \notin BeforeSession => Exists(S(p))
Announced == Cardinality(Made) = events["token_created"] + Cardinality(Issuing)
AnnounceInv == deletes = 0 => SessionsThere /\ Announced

(* A session that is there stays, if the host does not delete it. *)
LEMMA StepsKeepSessions ==
    ASSUME TypeOK, NEW s \in Sessions, Exists(s), NEW p \in Calls, Begin(p) \/ Step(p)
    PROVE  Exists(s)'
<1>1. CASE sessions' = sessions
    BY <1>1 DEF Exists
<1>2. CASE CreateNew(p)
  <2>1. S(p) # s /\ sessions' = [sessions EXCEPT ![S(p)] = NewHeader]
    BY <1>2 DEF CreateNew, Create
  <2> QED BY <2>1 DEF Exists, TypeOK, VariablesTyped
<1>3. CASE ConsumeUpdate(p) \/ IssueUpdate(p) \/ RecordUpdate(p)
  <2>1. pc[p] \in HoldsCopy /\ sessions' = [sessions EXCEPT ![S(p)] = H(p)]
    BY <1>3 DEF ConsumeUpdate, IssueUpdate, RecordUpdate, Update, At, HoldsCopy
  <2>2. H(p).toks # 0
    BY <2>1 DEF TypeOK, CopiesValid, ValidHeader
  <2> QED BY <2>1, <2>2 DEF Exists, NoSession, TypeOK, VariablesTyped
<1>4. sessions' = sessions \/ CreateNew(p) \/ ConsumeUpdate(p) \/ IssueUpdate(p) \/ RecordUpdate(p)
    BY DEF Step, Begin, WrapGet, CreateGet, CreateFails, ReadToken, AdmitFree,
       RejectNoSession, StartValidation, ValidateGet, HistoryHit, HistoryMiss, CheckTokens,
       HandlerSucceeds, HandlerFails, ConsumeFind, ConsumeRemove, ConsumeTooLate, ConsumeGet,
       ConsumeTruncate, IssueStore, GenerateTokenFails, IssueGet, IssueAdd,
       RecordGet, RecordTool, svars
<1> QED BY <1>1, <1>2, <1>3, <1>4

(* A step moves its own call only, which keeps its session until it returns. *)
LEMMA StepShape ==
    ASSUME TypeOK, NEW p \in Calls, Step(p)
    PROVE  \E x, c : /\ pc' = [pc EXCEPT ![p] = x] /\ call' = [call EXCEPT ![p] = c]
                     /\ x = "idle" \/ c.ses = S(p)
<1> USE DEF Goto, Set, Keep, S
<1>0. call = [call EXCEPT ![p] = call[p]] /\ call[p] \in Locals
    BY DEF TypeOK, VariablesTyped
<1>1. CASE Return(p)
    BY <1>1 DEF Return
<1>2. CASE (\E x : Goto(p, x)) /\ UNCHANGED call
    BY <1>0, <1>2
<1>3. ASSUME NEW h, NEW x, Keep(h, p), Goto(p, x)
      PROVE  \E y, c : /\ pc' = [pc EXCEPT ![p] = y] /\ call' = [call EXCEPT ![p] = c]
                       /\ y = "idle" \/ c.ses = S(p)
  <2>1. [call[p] EXCEPT !.hdr = h].ses = S(p)
    BY <1>0 DEF Locals
  <2> QED BY <1>3, <2>1
<1>4. ASSUME NEW h, NEW i, NEW v, NEW x, Goto(p, x),
             \/ Set(p, [call[p] EXCEPT !.hdr = h, !.rule = i])
             \/ Set(p, [call[p] EXCEPT !.rule = i, !.tok = v])
             \/ Set(p, [call[p] EXCEPT !.rule = i])
             \/ Set(p, [call[p] EXCEPT !.tok = v])
      PROVE  \E y, c : /\ pc' = [pc EXCEPT ![p] = y] /\ call' = [call EXCEPT ![p] = c]
                       /\ y = "idle" \/ c.ses = S(p)
  <2>1. /\ [call[p] EXCEPT !.hdr = h, !.rule = i].ses = S(p)
        /\ [call[p] EXCEPT !.rule = i, !.tok = v].ses = S(p)
        /\ [call[p] EXCEPT !.rule = i].ses = S(p)
        /\ [call[p] EXCEPT !.tok = v].ses = S(p)
    BY <1>0 DEF Locals
  <2> QED BY <1>4, <2>1
<1>5. CASE RuleFails(p)
    BY <1>1, <1>4, <1>5 DEF RuleFails
<1> HIDE DEF Goto, Set, Keep, S
<1>6. CASE WrapGet(p) \/ CreateGet(p) \/ CreateNew(p) \/ ConsumeGet(p) \/ IssueGet(p) \/ RecordTool(p)
    BY <1>3, <1>6 DEF WrapGet, CreateGet, CreateNew, ConsumeGet, IssueGet, RecordTool
<1>7. CASE \/ CreateFails(p) \/ AdmitFree(p) \/ StartValidation(p) \/ HistoryHit(p)
           \/ HandlerSucceeds(p) \/ ConsumeRemove(p) \/ ConsumeTooLate(p)
           \/ ConsumeTruncate(p) \/ ConsumeUpdate(p) \/ GenerateTokenFails(p) \/ IssueAdd(p)
           \/ IssueUpdate(p)
    BY <1>2, <1>7 DEF CreateFails, AdmitFree, StartValidation, HistoryHit, HandlerSucceeds,
       ConsumeRemove, ConsumeTooLate, ConsumeTruncate, ConsumeUpdate, GenerateTokenFails,
       IssueAdd, IssueUpdate
<1>8. CASE RejectNoSession(p) \/ HandlerFails(p) \/ RecordUpdate(p)
    BY <1>1, <1>8 DEF RejectNoSession, HandlerFails, RecordUpdate
<1>9. CASE ReadToken(p) \/ IssueStore(p)
    BY <1>4, <1>9 DEF ReadToken, IssueStore
<1>10. CASE ValidateGet(p)
    BY <1>1, <1>4, <1>10 DEF ValidateGet
<1>11. CASE HistoryMiss(p) \/ CheckTokens(p)
    BY <1>2, <1>5, <1>11 DEF HistoryMiss, CheckTokens
<1>12. CASE ConsumeFind(p)
    BY <1>2, <1>4, <1>12 DEF ConsumeFind
<1>13. CASE RecordGet(p)
    BY <1>1, <1>3, <1>13 DEF RecordGet
<1> QED BY <1>6, <1>7, <1>8, <1>9, <1>10, <1>11, <1>12, <1>13 DEF Step

(* A call gets past CreateSession only when its session is there. *)
LEMMA MoverThere ==
    ASSUME TypeOK, SessionsThere, NEW p \in Calls, Begin(p) \/ Step(p)
    PROVE  SessionsThere'
<1>0. call[p] \in Locals /\ S(p) \in Sessions
    BY DEF TypeOK, VariablesTyped, Locals, S
<1>1. PICK x, c : /\ pc' = [pc EXCEPT ![p] = x] /\ call' = [call EXCEPT ![p] = c]
                  /\ x \in BeforeSession \/ c.ses = S(p)
  <2>1. CASE Begin(p)
    BY <2>1 DEF Begin, Goto, Set, BeforeSession
  <2>2. CASE Step(p)
    BY <2>2, StepShape DEF BeforeSession
  <2> QED BY <2>1, <2>2
<1>2. x \notin BeforeSession => sessions'[S(p)] # NoSession
  <2> SUFFICES ASSUME x \notin BeforeSession PROVE sessions'[S(p)] # NoSession
    OBVIOUS
  <2>1. PICK s \in Sessions : s = S(p)
    BY <1>0
  <2>2. CASE Exists(s)
    <3>1. Exists(s)'
        BY <2>2, StepsKeepSessions
    <3> QED BY <2>1, <3>1 DEF Exists
  <2>3. CASE ~Exists(s)
    <3>1. pc[p] \in BeforeSession
        BY <2>1, <2>3 DEF SessionsThere
    <3>2. pc'[p] = x
        BY <1>1 DEF TypeOK, VariablesTyped
    <3>3. CreateNew(p)
        BY <2>1, <2>3, <3>1, <3>2 DEF BeforeSession, Step, Begin, WrapGet, CreateGet,
           CreateFails, ReadToken, AdmitFree, RejectNoSession, StartValidation, ValidateGet,
           HistoryHit, HistoryMiss, CheckTokens, HandlerSucceeds, HandlerFails, ConsumeFind,
           ConsumeRemove, ConsumeTooLate, ConsumeGet, ConsumeTruncate, ConsumeUpdate,
           IssueStore, GenerateTokenFails, IssueGet, IssueAdd, IssueUpdate, RecordGet,
           RecordTool, RecordUpdate, At, Goto, TypeOK, VariablesTyped
    <3>4. sessions' = [sessions EXCEPT ![S(p)] = NewHeader]
        BY <3>3 DEF CreateNew, Create
    <3>5. mapHeap \in Seq([Tools -> Seq(Nat)])
        BY DEF TypeOK, VariablesTyped
    <3>6. NewHeader.toks # 0
        BY <3>5 DEF NewHeader
    <3> QED BY <1>0, <3>4, <3>6 DEF NoSession, TypeOK, VariablesTyped
  <2> QED BY <2>2, <2>3
<1>3. ASSUME NEW q \in Calls, pc'[q] \notin BeforeSession
      PROVE  sessions'[call'[q].ses] # NoSession
  <2>1. CASE q = p
    BY <1>1, <1>2, <1>3, <2>1 DEF TypeOK, VariablesTyped
  <2>2. CASE q # p
    <3>1. pc'[q] = pc[q] /\ call'[q] = call[q]
        BY <1>1, <2>2 DEF TypeOK, VariablesTyped
    <3>2. PICK s \in Sessions : s = call[q].ses
        BY DEF TypeOK, VariablesTyped, Locals
    <3>3. Exists(s)
        BY <1>3, <3>1, <3>2 DEF SessionsThere, S
    <3>4. Exists(s)'
        BY <3>3, StepsKeepSessions
    <3> QED BY <3>1, <3>2, <3>4 DEF Exists
  <2> QED BY <2>1, <2>2
<1> QED BY <1>3 DEF SessionsThere, Exists, S

(* A step after which no session has been deleted deletes none. *)
LEMMA NoDelete ==
    ASSUME TypeOK, [Next]_vars, deletes' = 0
    PROVE  /\ deletes = 0
           /\ \/ \E p \in Calls : Begin(p) \/ Step(p)
              \/ \E p, q \in Calls : Race(p, q)
              \/ Tick \/ UNCHANGED vars
<1>1. ASSUME NEW s \in Sessions, DeleteSession(s) PROVE FALSE
    BY <1>1 DEF DeleteSession, TypeOK, VariablesTyped
<1>2. deletes' = deletes
    BY <1>1, ZenonT(60) DEF Next, Begin, Step, WrapGet, CreateGet, CreateNew, CreateFails,
       ReadToken, AdmitFree, RejectNoSession, StartValidation, ValidateGet, HistoryHit,
       HistoryMiss, CheckTokens, HandlerSucceeds, HandlerFails, ConsumeFind,
       ConsumeRemove, ConsumeTooLate, ConsumeGet, ConsumeTruncate, ConsumeUpdate,
       IssueStore, GenerateTokenFails, IssueGet, IssueAdd, IssueUpdate, RecordGet,
       RecordTool, RecordUpdate, Race, RacyMapWrite, MapThrow, RacyRecord, Tick, Done,
       vars, gvars
<1> QED BY <1>1, <1>2 DEF Next, Done

(* The calls inside IssueToken are finitely many. *)
LEMMA IssuingFinite ==
    IsFiniteSet(Issuing) /\ Cardinality(Issuing) \in Nat
<1>1. Issuing \subseteq Calls
    BY DEF Issuing
<1> QED BY <1>1, CallsAssumption, SmallerSet

(* Steps that neither make nor announce a token. *)
LEMMA FrameAnnounced ==
    ASSUME TypeOK, Announced, nextToken' = nextToken,
           events'["token_created"] = events["token_created"],
           \A q \in Calls : q \in Issuing' <=> q \in Issuing
    PROVE  Announced'
<1>1. Made' = Made
    BY DEF Made
<1>2. Issuing' = Issuing
    BY DEF Issuing
<1> QED BY <1>1, <1>2 DEF Announced

(* Every step of a call whose session is there. *)
LEMMA StepAnnounced ==
    ASSUME TypeOK, TypeOK', SessionsThere, Announced, NEW p \in Calls, Begin(p) \/ Step(p)
    PROVE  Announced'
<1> DEFINE I == {"issueGet", "add", "issueUpdate"}
<1>0. /\ Announced /\ Cardinality(Issuing) \in Nat /\ IsFiniteSet(Issuing)
      /\ events["token_created"] \in Nat /\ events \in [EventTypes -> Nat]
      /\ nextToken \in Nat /\ IsFiniteSet(Made) /\ Cardinality(Made) = nextToken - 1
    BY IssuingFinite, MadeCount DEF TypeOK, VariablesTyped, EventTypes
<1>1. CASE IssueStore(p)
  <2>1. /\ nextToken' = nextToken + 1 /\ events' = events
        /\ pc[p] = "issue" /\ pc' = [pc EXCEPT ![p] = "issueGet"]
    BY <1>1 DEF IssueStore, At, Goto
  <2>2. Issuing' = Issuing \cup {p} /\ p \notin Issuing
    BY <2>1 DEF Issuing, TypeOK, VariablesTyped
  <2>3. Made' = Made \cup {nextToken} /\ nextToken \notin Made
    BY <2>1 DEF Made, TypeOK, VariablesTyped
  <2> DEFINE n == Cardinality(Issuing)
             m == Cardinality(Made)
  <2>4. /\ Cardinality(Issuing') = n + 1 /\ Cardinality(Made') = m + 1 /\ n \in Nat
        /\ m = events["token_created"] + n
    BY <1>0, <2>2, <2>3, FS_AddElement DEF Announced
  <2> HIDE DEF n, m
  <2>5. Cardinality(Made') = events'["token_created"] + Cardinality(Issuing')
    BY <1>0, <2>1, <2>4
  <2> QED BY <2>5 DEF Announced
<1>2. CASE IssueUpdate(p)
  <2>1. /\ nextToken' = nextToken /\ Emit({"token_created"})
        /\ pc[p] = "issueUpdate" /\ pc' = [pc EXCEPT ![p] = "recordGet"]
    BY <1>2 DEF IssueUpdate, At, Goto
  <2>2. Issuing' = Issuing \ {p} /\ p \in Issuing
    BY <2>1 DEF Issuing, TypeOK, VariablesTyped
  <2>3. Made' = Made /\ events'["token_created"] = events["token_created"] + 1
    BY <2>1 DEF Made, Emit, EventTypes
  <2> DEFINE n == Cardinality(Issuing)
             m == Cardinality(Made)
  <2>4. /\ Cardinality(Issuing') = n - 1 /\ Cardinality(Made') = m /\ n \in Nat
        /\ m = events["token_created"] + n
    BY <1>0, <2>2, <2>3, FS_RemoveElement DEF Announced
  <2> HIDE DEF n, m
  <2>5. Cardinality(Made') = events'["token_created"] + Cardinality(Issuing')
    BY <1>0, <2>3, <2>4
  <2> QED BY <2>5 DEF Announced
<1>3. CASE IssueGet(p)
  <2>1. Exists(S(p))
    BY <1>3 DEF IssueGet, At, SessionsThere, BeforeSession
  <2>2. /\ nextToken' = nextToken /\ events' = events
        /\ pc[p] = "issueGet" /\ pc' = [pc EXCEPT ![p] = "add"]
    BY <1>3, <2>1 DEF IssueGet, At, Goto
  <2>3. \A q \in Calls : q \in Issuing' <=> q \in Issuing
    BY <2>2 DEF Issuing, TypeOK, VariablesTyped
  <2> QED BY <2>2, <2>3, FrameAnnounced
<1>4. CASE IssueAdd(p)
  <2>1. /\ nextToken' = nextToken /\ events' = events
        /\ pc[p] = "add" /\ pc' = [pc EXCEPT ![p] = "issueUpdate"]
    BY <1>4 DEF IssueAdd, At, Goto
  <2>2. \A q \in Calls : q \in Issuing' <=> q \in Issuing
    BY <2>1 DEF Issuing, TypeOK, VariablesTyped
  <2> QED BY <2>1, <2>2, FrameAnnounced
<1>5. CASE ~ (IssueStore(p) \/ IssueUpdate(p) \/ IssueGet(p) \/ IssueAdd(p))
  <2>1. /\ nextToken' = nextToken
        /\ pc[p] \notin I /\ \E x : pc' = [pc EXCEPT ![p] = x] /\ x \notin I
    <3>1. CASE RuleFails(p) /\ pc[p] \in {"history", "tokens"} /\ nextToken' = nextToken
        BY <3>1 DEF RuleFails, Return, Goto
    <3> QED BY <1>5, <3>1, ZenonT(60) DEF Step, Begin, WrapGet, CreateGet, CreateNew, CreateFails,
        ReadToken, AdmitFree, RejectNoSession, StartValidation, ValidateGet, HistoryHit,
        HistoryMiss, CheckTokens, HandlerSucceeds, HandlerFails, ConsumeFind, ConsumeRemove,
        ConsumeTooLate, ConsumeGet, ConsumeTruncate, ConsumeUpdate, GenerateTokenFails,
        RecordGet, RecordTool, RecordUpdate, At, Goto, Return
  <2>2. events' = events \/ \E E \in SUBSET (EventTypes \ {"token_created"}) : Emit(E)
    <3> USE DEF EventTypes
    <3>1. CASE RuleFails(p)
        BY <3>1 DEF RuleFails
    <3> QED BY <1>5, <3>1 DEF Step, Begin, WrapGet, CreateGet, CreateNew, CreateFails,
        ReadToken, AdmitFree, RejectNoSession, StartValidation, ValidateGet, HistoryHit,
        HistoryMiss, CheckTokens, HandlerSucceeds, HandlerFails, ConsumeFind, ConsumeRemove,
        ConsumeTooLate, ConsumeGet, ConsumeTruncate, ConsumeUpdate, GenerateTokenFails,
        RecordGet, RecordTool, RecordUpdate
  <2>3. events'["token_created"] = events["token_created"]
    BY <1>0, <2>2 DEF Emit, EventTypes
  <2>4. \A q \in Calls : q \in Issuing' <=> q \in Issuing
    BY <2>1 DEF Issuing, TypeOK, VariablesTyped
  <2> QED BY <2>1, <2>3, <2>4, FrameAnnounced
<1> QED BY <1>1, <1>2, <1>3, <1>4, <1>5

(* Races neither make nor announce tokens. *)
LEMMA RaceAnnounced ==
    ASSUME TypeOK, SessionsThere, Announced, NEW p \in Calls, NEW q \in Calls, Race(p, q)
    PROVE  SessionsThere' /\ Announced'
<1>1. sessions' = sessions /\ nextToken' = nextToken /\ events' = events
    BY DEF Race, RacyMapWrite, MapThrow, RacyRecord, svars
<1> DEFINE I == {"issueGet", "add", "issueUpdate"}
<1>2. /\ \A r \in Calls : (pc'[r] \in I) = (pc[r] \in I)
      /\ \A r \in Calls : pc'[r] \notin BeforeSession => pc[r] \notin BeforeSession
      /\ \A r \in Calls : call'[r].ses = call[r].ses
  <2>1. CASE RacyMapWrite(p, q)
    BY <2>1 DEF RacyMapWrite, WritesMap, BeforeSession
  <2>2. CASE MapThrow(p, q)
    BY <2>2 DEF MapThrow
  <2>3. CASE RacyRecord(p, q)
    <3>1. \A r \in Calls : call[r] \in Locals
      BY DEF TypeOK, VariablesTyped
    <3>2. \A r \in Calls : call'[r].ses = call[r].ses
      BY <2>3, <3>1 DEF RacyRecord, Locals
    <3> QED BY <2>3, <3>2 DEF RacyRecord, At, BeforeSession
  <2> QED BY <2>1, <2>2, <2>3 DEF Race
<1>3. SessionsThere'
    BY <1>1, <1>2 DEF SessionsThere, Exists, S
<1>4. \A r \in Calls : r \in Issuing' <=> r \in Issuing
    BY <1>2 DEF Issuing
<1> QED BY <1>1, <1>3, <1>4, FrameAnnounced

(* Sessions stay, and tokens are announced, while the host deletes nothing. *)
LEMMA AnnouncementsInv == Spec => [](TypeOK /\ AnnounceInv)
<1>1. Init => AnnounceInv
  <2> SUFFICES ASSUME Init PROVE SessionsThere /\ Announced
    BY DEF AnnounceInv
  <2>1. Made = {} /\ Issuing = {} /\ events["token_created"] = 0
    BY DEF Init, Made, Issuing, EventTypes
  <2>2. Cardinality(Made) = 0 /\ Cardinality(Issuing) = 0
    BY <2>1, FS_EmptySet
  <2> QED BY <2>1, <2>2 DEF Announced, SessionsThere, BeforeSession, Init
<1>2. TypeOK /\ AnnounceInv /\ [Next]_vars => TypeOK' /\ AnnounceInv'
  <2> SUFFICES ASSUME TypeOK, AnnounceInv, [Next]_vars PROVE TypeOK' /\ AnnounceInv'
    OBVIOUS
  <2>1. TypeOK'
    BY NextTyped
  <2>2. ASSUME deletes' = 0 PROVE SessionsThere' /\ Announced'
    <3>2. SessionsThere /\ Announced
      BY <2>2, NoDelete DEF AnnounceInv
    <3>3. CASE \E p \in Calls : Begin(p) \/ Step(p)
      BY <2>1, <3>2, <3>3, MoverThere, StepAnnounced
    <3>4. CASE \E p, q \in Calls : Race(p, q)
      BY <3>2, <3>4, RaceAnnounced
    <3>5. CASE Tick \/ UNCHANGED vars
      <4>1. UNCHANGED <<pc, call, sessions>> /\ nextToken' = nextToken /\ events' = events
        BY <3>5 DEF Tick, vars, svars
      <4>2. SessionsThere' /\ \A q \in Calls : q \in Issuing' <=> q \in Issuing
        BY <3>2, <4>1 DEF SessionsThere, Exists, S, Issuing
      <4> QED BY <3>2, <4>1, <4>2, FrameAnnounced
    <3> QED BY <2>2, <3>3, <3>4, <3>5, NoDelete
  <2> QED BY <2>1, <2>2 DEF AnnounceInv
<1> QED BY <1>1, <1>2, InitTyped, PTL DEF Spec

(* As long as the host deletes no session, every token made has its        *)
(* token_created event or belongs to a call that is still in IssueToken,   *)
(* for any number of calls and whether or not the token is consumed        *)
(* meanwhile.                                                              *)
THEOREM EveryTokenAnnounced == Spec => []TokensAnnounced
<1>1. AnnounceInv => TokensAnnounced
    BY DEF AnnounceInv, Announced, TokensAnnounced
<1> QED BY <1>1, AnnouncementsInv, PTL

(***************************************************************************)
(* Histories are not wiped.  What a call writes back may be older than     *)
(* what it overwrites, but it is then still to record itself; and its last *)
(* write is of a copy to which it has appended.                            *)
(***************************************************************************)
Ran(s) == \E t \in Tools : executed[s][t] > 0
HistoryKept ==
    \A s \in Sessions : Ran(s) =>
        sessions[s].len >= 1 \/ \E p \in Calls : pc[p] \in Executing /\ S(p) = s
CopiesRecorded == \A p \in Calls : pc[p] = "recordUpdate" => H(p).len >= 1
KeptInv == deletes = 0 => HistoryKept /\ CopiesRecorded

(* A step of one call: what it takes from its session's history it is      *)
(* still to give back.                                                     *)
LEMMA MoveKept ==
    ASSUME TypeOK, HistoryKept, NEW p \in Calls, NEW x, NEW c,
           pc' = [pc EXCEPT ![p] = x], call' = [call EXCEPT ![p] = c],
           x \in Executing => c.ses = S(p),
           pc[p] \in Executing => x \in Executing \/ sessions'[S(p)].len >= 1,
           \A s \in Sessions :
               executed'[s] = executed[s] \/ (s = S(p) /\ x \in Executing),
           \A s \in Sessions :
               \/ sessions'[s].len = sessions[s].len
               \/ s = S(p) /\ (x \in Executing \/ sessions'[s].len >= 1)
    PROVE  HistoryKept'
<1>1. /\ pc'[p] = x /\ call'[p] = c
      /\ \A q \in Calls \ {p} : pc'[q] = pc[q] /\ call'[q] = call[q]
    BY DEF TypeOK, VariablesTyped
<1> SUFFICES ASSUME NEW s \in Sessions, NEW t \in Tools, executed'[s][t] > 0
             PROVE  \/ sessions'[s].len >= 1
                    \/ \E q \in Calls : pc'[q] \in Executing /\ call'[q].ses = s
    BY DEF HistoryKept, Ran, S
<1>2. CASE s = S(p) /\ x \in Executing
    BY <1>1, <1>2
<1>3. CASE ~ (s = S(p) /\ x \in Executing)
  <2>1. Ran(s)
    BY <1>3 DEF Ran
  <2>2. CASE sessions[s].len >= 1
    BY <1>3, <2>2
  <2>3. CASE \E q \in Calls : pc[q] \in Executing /\ S(q) = s
    <3>1. PICK q \in Calls : pc[q] \in Executing /\ S(q) = s
        BY <2>3
    <3>2. CASE q = p
        BY <1>3, <3>1, <3>2
    <3>3. CASE q # p
        BY <1>1, <3>1, <3>3 DEF S
    <3> QED BY <3>2, <3>3
  <2> QED BY <2>1, <2>2, <2>3 DEF HistoryKept
<1> QED BY <1>2, <1>3

(* Every step of a call whose session is there. *)
LEMMA StepKept ==
    ASSUME TypeOK, SessionsThere, HistoryKept, CopiesRecorded, NEW p \in Calls,
           Begin(p) \/ Step(p)
    PROVE  HistoryKept'
<1>0. /\ call[p] \in Locals /\ S(p) \in Sessions /\ pc \in [Calls -> Steps]
      /\ sessions \in [Sessions -> Header] /\ executed \in [Sessions -> [Tools -> Nat]]
    BY DEF TypeOK, VariablesTyped, Locals, S
<1>1. PICK x, c : /\ pc' = [pc EXCEPT ![p] = x] /\ call' = [call EXCEPT ![p] = c]
                  /\ x \in Executing => c.ses = S(p)
  <2>1. CASE Begin(p)
    <3>1. "get" \notin Executing
        BY DEF Executing, Admitted
    <3>2. \E c : pc' = [pc EXCEPT ![p] = "get"] /\ call' = [call EXCEPT ![p] = c]
        BY <2>1 DEF Begin, Goto, Set
    <3> QED BY <3>1, <3>2
  <2>2. CASE Step(p)
    BY <2>2, StepShape DEF Executing, Admitted
  <2> QED BY <2>1, <2>2
<1>2. pc'[p] = x
    BY <1>0, <1>1
<1>3. CASE HandlerSucceeds(p)
  <2>1. /\ pc'[p] = "consume" /\ sessions' = sessions
        /\ \A s \in Sessions \ {S(p)} : executed'[s] = executed[s]
    BY <1>0, <1>3 DEF HandlerSucceeds, Goto, svars
  <2>2. x \in Executing
    BY <1>2, <2>1 DEF Executing, Admitted
  <2> QED BY <1>1, <2>1, <2>2, MoveKept
<1>4. CASE ConsumeUpdate(p) \/ IssueUpdate(p)
  <2>1. /\ pc'[p] \in {"issue", "recordGet"} /\ executed' = executed
        /\ \A s \in Sessions \ {S(p)} : sessions'[s] = sessions[s]
    BY <1>0, <1>4 DEF ConsumeUpdate, IssueUpdate, Update, Goto, hvars
  <2>2. x \in Executing
    BY <1>2, <2>1 DEF Executing, Admitted
  <2> QED BY <1>1, <2>1, <2>2, MoveKept
<1>5. CASE RecordUpdate(p)
  <2>1. /\ pc[p] = "recordUpdate" /\ executed' = executed
        /\ sessions' = [sessions EXCEPT ![S(p)] = H(p)]
    BY <1>5 DEF RecordUpdate, At, Update, hvars
  <2>2. sessions'[S(p)].len >= 1 /\ \A s \in Sessions \ {S(p)} : sessions'[s] = sessions[s]
    BY <1>0, <2>1 DEF CopiesRecorded
  <2> QED BY <1>1, <2>1, <2>2, MoveKept
<1>6. CASE CreateNew(p)
  <2>1. /\ pc[p] = "create" /\ executed' = executed /\ sessions[S(p)] = NoSession
        /\ sessions' = [sessions EXCEPT ![S(p)] = NewHeader]
    BY <1>6 DEF CreateNew, Create, Exists, At, hvars
  <2>2. \A s \in Sessions : sessions'[s].len = sessions[s].len
    BY <1>0, <2>1 DEF NoSession, NewHeader
  <2>3. pc[p] \notin Executing
    BY <2>1 DEF Executing, Admitted
  <2> QED BY <1>1, <2>1, <2>2, <2>3, MoveKept
<1>7. CASE ~ (HandlerSucceeds(p) \/ ConsumeUpdate(p) \/ IssueUpdate(p) \/ RecordUpdate(p)
              \/ CreateNew(p))
  <2>1. sessions' = sessions /\ executed' = executed
    BY <1>7 DEF Step, Begin, WrapGet, CreateGet, CreateFails, ReadToken, AdmitFree,
       RejectNoSession, StartValidation, ValidateGet, HistoryHit, HistoryMiss, CheckTokens,
       HandlerFails, ConsumeFind, ConsumeRemove, ConsumeTooLate, ConsumeGet,
       ConsumeTruncate, IssueStore, GenerateTokenFails, IssueGet, IssueAdd,
       RecordGet, RecordTool, svars, hvars
  <2>2. pc[p] \in Executing => pc'[p] \in Executing
    <3> SUFFICES ASSUME pc[p] \in Executing PROVE pc'[p] \in Executing
        OBVIOUS
    <3> USE DEF Executing, Admitted
    <3>1. \A y : Goto(p, y) => pc'[p] = y
        BY <1>0 DEF Goto
    <3>2. Exists(S(p))
        BY DEF SessionsThere, BeforeSession
    <3> QED BY <1>7, <3>1, <3>2, ZenonT(60) DEF Step, Begin, WrapGet, CreateGet, CreateFails,
        ReadToken, AdmitFree, RejectNoSession, StartValidation, ValidateGet, HistoryHit,
        HistoryMiss, CheckTokens, HandlerFails, ConsumeFind, ConsumeRemove, ConsumeTooLate,
        ConsumeGet, ConsumeTruncate, IssueStore, GenerateTokenFails, IssueGet, IssueAdd,
        RecordGet, RecordTool, At
  <2> QED BY <1>1, <1>2, <2>1, <2>2, MoveKept
<1> QED BY <1>3, <1>4, <1>5, <1>6, <1>7

(* RecordToolCall is the only way to the last write, and it appends. *)
LEMMA StepRecorded ==
    ASSUME TypeOK, CopiesRecorded, NEW p \in Calls, Begin(p) \/ Step(p)
    PROVE  CopiesRecorded'
<1>0. pc \in [Calls -> Steps] /\ call \in [Calls -> Locals] /\ H(p).len \in Nat /\ H(p) \in Header
    BY DEF TypeOK, VariablesTyped, Locals, Header, H
<1>1. \A q \in Calls \ {p} : pc'[q] = pc[q] /\ call'[q] = call[q]
  <2>1. \E x, c : pc' = [pc EXCEPT ![p] = x] /\ call' = [call EXCEPT ![p] = c]
    BY StepShape DEF Begin, Goto, Set
  <2> QED BY <1>0, <2>1
<1>2. CASE RecordTool(p)
  <2>1. call'[p].hdr = RecordHeader(H(p))
    BY <1>0, <1>2 DEF RecordTool, Keep, Set, Locals
  <2>2. call'[p].hdr.len >= 1
    BY <1>0, <2>1 DEF RecordHeader, Header
  <2> QED BY <1>1, <2>2 DEF CopiesRecorded, H
<1>3. CASE ~RecordTool(p)
  <2>1. pc'[p] # "recordUpdate"
    <3>1. \A y : Goto(p, y) => pc'[p] = y
        BY <1>0 DEF Goto
    <3>2. RuleFails(p) => pc'[p] \in {"history", "idle"}
        BY <3>1 DEF RuleFails, Return
    <3> QED BY <1>3, <3>1, <3>2, ZenonT(60) DEF Step, Begin, WrapGet, CreateGet, CreateNew,
        CreateFails, ReadToken, AdmitFree, RejectNoSession, StartValidation, ValidateGet,
        HistoryHit, HistoryMiss, CheckTokens, HandlerSucceeds, HandlerFails, ConsumeFind,
        ConsumeRemove, ConsumeTooLate, ConsumeGet, ConsumeTruncate, ConsumeUpdate,
        IssueStore, GenerateTokenFails, IssueGet, IssueAdd, IssueUpdate, RecordGet,
        RecordUpdate, Return
  <2> QED BY <1>1, <2>1 DEF CopiesRecorded, H
<1> QED BY <1>2, <1>3

(* Races save no session and move calls within what follows the handler. *)
LEMMA RaceKept ==
    ASSUME TypeOK, HistoryKept, CopiesRecorded, NEW p \in Calls, NEW q \in Calls, Race(p, q)
    PROVE  HistoryKept' /\ CopiesRecorded'
<1>0. \A r \in Calls : call[r] \in Locals /\ H(r) \in Header /\ H(r).len \in Nat
    BY DEF TypeOK, VariablesTyped, Locals, Header, H
<1>1. sessions' = sessions /\ executed' = executed
    BY DEF Race, RacyMapWrite, MapThrow, RacyRecord, svars, hvars
<1>2. \A r \in Calls : /\ pc[r] \in Executing => pc'[r] \in Executing
                       /\ call'[r].ses = call[r].ses
                       /\ pc'[r] = "recordUpdate" /\ pc[r] # "recordUpdate"
                             => call'[r].hdr = RecordHeader(H(r))
                       /\ pc[r] = "recordUpdate" => call'[r] = call[r]
  <2> USE DEF Executing, Admitted
  <2>1. CASE RacyMapWrite(p, q)
    BY <2>1 DEF RacyMapWrite, WritesMap
  <2>2. CASE MapThrow(p, q)
    BY <2>2 DEF MapThrow
  <2>3. CASE RacyRecord(p, q)
    <3>1. \A r \in Calls : call'[r].ses = call[r].ses
      BY <1>0, <2>3 DEF RacyRecord, Locals
    <3>2. \A r \in {p, q} : call'[r].hdr = RecordHeader(H(r))
      BY <1>0, <2>3 DEF RacyRecord, Locals, H
    <3> QED BY <2>3, <3>1, <3>2 DEF RacyRecord, At
  <2> QED BY <2>1, <2>2, <2>3 DEF Race
<1>3. HistoryKept'
    BY <1>1, <1>2 DEF HistoryKept, Ran, S
<1>4. \A r \in Calls : RecordHeader(H(r)).len >= 1
    BY <1>0 DEF RecordHeader, Header
<1>5. CopiesRecorded'
    BY <1>2, <1>4 DEF CopiesRecorded, H
<1> QED BY <1>3, <1>5

(* For any number of overlapping calls, tools and sessions: as long as the *)
(* host deletes none, a session in which a tool has run has a history that *)
(* is not empty, or a call that is yet to record itself, whatever stale    *)
(* copies the calls write back (Update of the session store).              *)
THEOREM HistoriesSurvive == Spec => []HistoryNeverWiped
<1>1. Init => KeptInv
    BY DEF Init, KeptInv, HistoryKept, Ran, CopiesRecorded
<1>2. TypeOK /\ AnnounceInv /\ KeptInv /\ [Next]_vars => KeptInv'
  <2> SUFFICES ASSUME TypeOK, AnnounceInv, KeptInv, [Next]_vars, deletes' = 0
               PROVE  HistoryKept' /\ CopiesRecorded'
    BY DEF KeptInv
  <2>1. SessionsThere /\ HistoryKept /\ CopiesRecorded
    BY NoDelete DEF AnnounceInv, KeptInv
  <2>2. CASE \E p \in Calls : Begin(p) \/ Step(p)
    BY <2>1, <2>2, StepKept, StepRecorded
  <2>3. CASE \E p, q \in Calls : Race(p, q)
    BY <2>1, <2>3, RaceKept
  <2>4. CASE Tick \/ UNCHANGED vars
    <3>1. UNCHANGED <<pc, call, sessions, executed>>
      BY <2>4 DEF Tick, vars, svars, hvars
    <3> QED BY <2>1, <3>1 DEF HistoryKept, Ran, CopiesRecorded, S, H
  <2> QED BY <2>2, <2>3, <2>4, NoDelete
<1>3. KeptInv => HistoryNeverWiped
    BY DEF KeptInv, HistoryKept, Ran, HistoryNeverWiped
<1> QED BY <1>1, <1>2, <1>3, AnnouncementsInv, PTL DEF Spec

(***************************************************************************)
(* One-time tokens open a bounded number of executions.  The executions    *)
(* are charged to tokens that are gone: consumed or expired.  While no     *)
(* token of u has gone since it passed the check, a call is unpaid, and    *)
(* the token that opened it is still valid; when a token goes, it pays for *)
(* every call in flight.  Which calls are unpaid is not in the state, so   *)
(* the invariant says that some set U of them makes the balance right.     *)
(***************************************************************************)
AfterCheck == {"handler", "consume", "remove"}
Opened(s, u) ==
    {p \in Calls : pc[p] \in AfterCheck /\ S(p) = s /\ T(p) \in OneTimeDependents(u)}
Unexecuted(s, u) == {p \in Opened(s, u) : pc[p] = "handler"}
StillValid(s, u, v) == \E i \in ValidTokens(s, u) : tokens[s][u][i].value = v
Unpaid(s, u, U) ==
    /\ U \subseteq Opened(s, u)
    /\ \A p \in U : IF pc[p] = "remove" THEN StillValid(s, u, call[p].tok)
                    ELSE ValidTokens(s, u) # {}
Uses(s, u) == Counted(executed[s], OneTimeDependents(u))
Paid(s, u, U) ==
    Cardinality(Uses(s, u)) + Cardinality(Unexecuted(s, u))
      + Cardinality(Calls) * Cardinality(ValidTokens(s, u))
    <= Cardinality(Calls) * issued[s][u] + Cardinality(U)
Balanced(s, u) ==
    IsFiniteSet(Uses(s, u)) /\ \E U \in SUBSET Calls : Unpaid(s, u, U) /\ Paid(s, u, U)
ReuseInv == \A s \in Sessions, u \in Tools : Balanced(s, u)

(* What the balance adds up are natural numbers. *)
LEMMA ReuseCounts ==
    ASSUME TypeOK, NEW s \in Sessions, NEW u \in Tools, IsFiniteSet(Uses(s, u)),
           NEW U \in SUBSET Calls
    PROVE  /\ Cardinality(Calls) \in Nat /\ issued[s][u] \in Nat
           /\ Cardinality(Uses(s, u)) \in Nat
           /\ IsFiniteSet(Unexecuted(s, u)) /\ Cardinality(Unexecuted(s, u)) \in Nat
           /\ IsFiniteSet(ValidTokens(s, u)) /\ Cardinality(ValidTokens(s, u)) \in Nat
           /\ IsFiniteSet(U) /\ Cardinality(U) \in Nat /\ Cardinality(U) <= Cardinality(Calls)
<1>1. Unexecuted(s, u) \subseteq Calls
    BY DEF Unexecuted, Opened
<1>2. tokens[s][u] \in Seq(Entry) /\ issued[s][u] \in Nat
    BY DEF TypeOK, VariablesTyped
<1>3. IsFiniteSet(1 .. Len(tokens[s][u]))
  <2>1. 1 \in Int /\ Len(tokens[s][u]) \in Int
    BY <1>2
  <2> QED BY ONLY <2>1, FS_Interval
<1>4. ValidTokens(s, u) \subseteq 1 .. Len(tokens[s][u])
    BY <1>2 DEF ValidTokens
<1>5. IsFiniteSet(ValidTokens(s, u)) /\ Cardinality(ValidTokens(s, u)) \in Nat
    BY <1>3, <1>4, SmallerSet
<1>6. IsFiniteSet(Unexecuted(s, u)) /\ Cardinality(Unexecuted(s, u)) \in Nat
    BY <1>1, CallsAssumption, SmallerSet
<1>7. IsFiniteSet(U) /\ Cardinality(U) \in Nat /\ Cardinality(U) <= Cardinality(Calls)
    BY CallsAssumption, SmallerSet
<1> QED BY <1>2, <1>5, <1>6, <1>7, CallsAssumption, FS_CardinalityType

(* A token that goes pays for all the calls in flight. *)
LEMMA PaidByOne ==
    ASSUME NEW n \in Nat, NEW v \in Nat, NEW w \in Nat, w < v, NEW i \in Nat,
           NEW e \in Nat, NEW k \in Nat, k <= n, e + n * v <= n * i + k
    PROVE  e + n * w <= n * i
<1>1. n * v = n * w + n * (v - w)
    OBVIOUS
<1>2. PICK d \in Nat : v - w = d + 1
    <2>1. v - w - 1 \in Nat /\ v - w = (v - w - 1) + 1
        OBVIOUS
    <2> QED BY <2>1
<1>3. n * (d + 1) = n * d + n /\ n * d \in Nat
    OBVIOUS
<1>4. n * (v - w) >= n
    BY <1>2, <1>3
<1>5. n * v \in Nat /\ n * w \in Nat /\ n * i \in Nat /\ n * (v - w) \in Nat
    BY <1>2, <1>3
<1> QED BY <1>1, <1>4, <1>5

(* Steps of one call that take it out of the way of the tokens of u, or do *)
(* not concern them.                                                       *)
LEMMA MoveReuse ==
    ASSUME TypeOK, ReuseInv, rules' = rules, tokens' = tokens, now' = now,
           issued' = issued, executed' = executed, NEW p \in Calls, NEW x, NEW c,
           pc' = [pc EXCEPT ![p] = x], call' = [call EXCEPT ![p] = c],
           x \notin AfterCheck \/ \A u \in Tools : c.tool \notin OneTimeDependents(u),
           \A u \in Tools, U \in SUBSET Calls :
               pc[p] # "handler" /\ Unpaid(S(p), u, U) => p \notin U
    PROVE  ReuseInv'
<1> SUFFICES ASSUME NEW s \in Sessions, NEW u \in Tools
             PROVE  Balanced(s, u)'
    BY DEF ReuseInv
<1>1. IsFiniteSet(Uses(s, u)) /\ \E U \in SUBSET Calls : Unpaid(s, u, U) /\ Paid(s, u, U)
    BY DEF ReuseInv, Balanced
<1>2. PICK U \in SUBSET Calls : Unpaid(s, u, U) /\ Paid(s, u, U)
    BY <1>1
<1>3. /\ OneTimeDependents(u)' = OneTimeDependents(u)
      /\ Uses(s, u)' = Uses(s, u) /\ ValidTokens(s, u)' = ValidTokens(s, u)
    BY DEF OneTimeDependents, OneTimeRule, Uses, ValidTokens
<1>4. /\ \A q \in Calls : q # p => pc'[q] = pc[q] /\ call'[q] = call[q]
      /\ pc'[p] = x /\ call'[p] = c
    BY DEF TypeOK, VariablesTyped
<1>5. Opened(s, u)' = Opened(s, u) \ {p}
    BY <1>3, <1>4 DEF Opened, S, T
<1>6. Unexecuted(s, u)' = Unexecuted(s, u) \ {p}
    BY <1>4, <1>5 DEF Unexecuted, Opened
<1>7. Unpaid(s, u, U \ {p})'
  <2>1. U \ {p} \subseteq Opened(s, u)'
    BY <1>2, <1>5 DEF Unpaid
  <2>2. ASSUME NEW q \in U \ {p}
        PROVE  IF pc'[q] = "remove" THEN StillValid(s, u, call[q].tok)'
               ELSE ValidTokens(s, u)' # {}
    <3>1. pc'[q] = pc[q] /\ call'[q] = call[q]
        BY <1>4
    <3> QED BY <1>2, <1>3, <3>1 DEF Unpaid, StillValid
  <2> QED BY <2>1, <2>2 DEF Unpaid
<1> DEFINE n == Cardinality(Calls)
           e == Cardinality(Uses(s, u))
           w == Cardinality(Unexecuted(s, u))
           v == Cardinality(ValidTokens(s, u))
           k == Cardinality(U)
           w2 == Cardinality(Unexecuted(s, u) \ {p})
           k2 == Cardinality(U \ {p})
<1>8. /\ n \in Nat /\ e \in Nat /\ w \in Nat /\ v \in Nat /\ k \in Nat /\ issued[s][u] \in Nat
      /\ e + w + n * v <= n * issued[s][u] + k
    BY <1>1, <1>2, ReuseCounts DEF Paid
<1>9. w2 \in Nat /\ k2 \in Nat /\ w2 + k <= w + k2
  <2>1. /\ IsFiniteSet(Unexecuted(s, u)) /\ IsFiniteSet(U)
    BY <1>1, ReuseCounts
  <2>2. /\ w2 = (IF p \in Unexecuted(s, u) THEN w - 1 ELSE w)
        /\ k2 = (IF p \in U THEN k - 1 ELSE k)
        /\ w2 \in Nat /\ k2 \in Nat
    <3>1. w2 = (IF p \in Unexecuted(s, u) THEN w - 1 ELSE w)
        BY <2>1, FS_RemoveElement
    <3>2. k2 = (IF p \in U THEN k - 1 ELSE k)
        BY <2>1, FS_RemoveElement
    <3>3. w2 \in Nat /\ k2 \in Nat
        BY <2>1, SmallerSet
    <3> QED BY <3>1, <3>2, <3>3
  <2>3. p \in U => p \in Unexecuted(s, u)
    <3>1. p \in U => p \in Opened(s, u) /\ S(p) = s
        BY <1>2 DEF Unpaid, Opened
    <3>2. p \in U => pc[p] = "handler"
        BY <1>2, <3>1
    <3> QED BY <3>1, <3>2 DEF Unexecuted
  <2> HIDE DEF w, k, w2, k2
  <2> QED BY <1>8, <2>2, <2>3
<1> HIDE DEF n, e, w, v, k, w2, k2
<1>10. e + w2 + n * v <= n * issued[s][u] + k2
  <2>1. n * v \in Nat /\ n * issued[s][u] \in Nat
    BY <1>8
  <2> QED BY <1>8, <1>9, <2>1
<1>11. Paid(s, u, U \ {p})'
    BY <1>3, <1>6, <1>10 DEF Paid, n, e, w2, v, k2
<1> QED BY <1>1, <1>3, <1>7, <1>11 DEF Balanced

(* The rules a one-time dependent of u is checked against all name u. *)
LEMMA DependentRules ==
    ASSUME TypeOK, NEW u \in Tools, NEW t \in OneTimeDependents(u)
    PROVE  /\ \A i \in findRules(rules, t) : rules[i].prereq = u
           /\ Gated(rules, t) /\ OneTimeRule(t) /\ t \in Tools
           /\ rules[findRule(rules, t)].prereq = u
<1>1. /\ \A i \in findRules(rules, t) : rules[i].prereq = u
      /\ findRules(rules, t) # {} /\ OneTimeRule(t) /\ t \in Tools
    BY DEF OneTimeDependents
<1>2. Gated(rules, t)
    BY <1>1, ToolsAssumption DEF Gated
<1>3. findRule(rules, t) \in findRules(rules, t)
  <2>1. rules \in Seq(Rule)
    BY RulesTyped
  <2> QED BY <1>1, <2>1, FindRuleFinds
<1> QED BY <1>1, <1>2, <1>3

(* What concerns the tokens of u in session s stays as it is. *)
LEMMA FrameReuse ==
    ASSUME TypeOK, NEW s \in Sessions, NEW u \in Tools, Balanced(s, u),
           rules' = rules, tokens'[s][u] = tokens[s][u], now' = now,
           issued'[s][u] = issued[s][u], executed'[s] = executed[s],
           \A q \in Calls : /\ q \in Opened(s, u)' <=> q \in Opened(s, u)
                            /\ q \in Opened(s, u) => pc'[q] = pc[q] /\ call'[q].tok = call[q].tok
    PROVE  Balanced(s, u)'
<1>1. PICK U \in SUBSET Calls : Unpaid(s, u, U) /\ Paid(s, u, U)
    BY DEF Balanced
<1>2. /\ OneTimeDependents(u)' = OneTimeDependents(u)
      /\ Uses(s, u)' = Uses(s, u) /\ ValidTokens(s, u)' = ValidTokens(s, u)
    BY DEF OneTimeDependents, OneTimeRule, Uses, ValidTokens
<1>3. Opened(s, u)' = Opened(s, u)
    BY DEF Opened
<1>4. Unexecuted(s, u)' = Unexecuted(s, u)
    BY <1>3 DEF Unexecuted, Opened
<1>5. Unpaid(s, u, U)'
  <2>1. ASSUME NEW q \in U
        PROVE  IF pc'[q] = "remove" THEN StillValid(s, u, call[q].tok)'
               ELSE ValidTokens(s, u)' # {}
    <3>1. pc'[q] = pc[q] /\ call'[q].tok = call[q].tok
        BY <1>1 DEF Unpaid
    <3> QED BY <1>1, <1>2, <3>1 DEF Unpaid, StillValid
  <2> QED BY <1>1, <1>3, <2>1 DEF Unpaid
<1>6. Paid(s, u, U)'
    BY <1>1, <1>2, <1>4 DEF Paid
<1> QED BY <1>2, <1>5, <1>6 DEF Balanced

(* A call that passes the check is unpaid: a valid token is there. *)
LEMMA AdmitReuse ==
    ASSUME TypeOK, ReuseInv, NEW p \in Calls, CheckTokens(p),
           ValidTokens(S(p), Required(p)) # {}
    PROVE  ReuseInv'
<1> SUFFICES ASSUME NEW s \in Sessions, NEW u \in Tools
             PROVE  Balanced(s, u)'
    BY DEF ReuseInv
<1>1. /\ pc[p] = "tokens" /\ pc' = [pc EXCEPT ![p] = "handler"] /\ call' = call
      /\ rules' = rules /\ tokens' = tokens /\ now' = now
      /\ issued' = issued /\ executed' = executed
    BY DEF CheckTokens, At, Goto, gvars, tvars, hvars
<1>2. Balanced(s, u)
    BY DEF ReuseInv
<1>3. /\ \A q \in Calls : q # p => pc'[q] = pc[q]
      /\ pc'[p] = "handler"
    BY <1>1 DEF TypeOK, VariablesTyped
<1>4. OneTimeDependents(u)' = OneTimeDependents(u)
    BY <1>1 DEF OneTimeDependents, OneTimeRule
<1>5. CASE S(p) = s /\ T(p) \in OneTimeDependents(u)
  <2>1. PICK U \in SUBSET Calls : Unpaid(s, u, U) /\ Paid(s, u, U)
    BY <1>2 DEF Balanced
  <2>2. Required(p) = u
    <3>1. call[p].rule \in findRules(rules, T(p))
        BY <1>1 DEF TypeOK, RulesInHand, KeepsRule
    <3> QED BY <1>5, <3>1, DependentRules DEF Required
  <2>3. p \notin Opened(s, u) /\ p \notin Unexecuted(s, u) /\ p \notin U
    BY <1>1, <2>1 DEF Opened, Unexecuted, Unpaid, AfterCheck
  <2>4. Opened(s, u)' = Opened(s, u) \cup {p} /\ Unexecuted(s, u)' = Unexecuted(s, u) \cup {p}
    <3>1. Opened(s, u)' = Opened(s, u) \cup {p}
        BY <1>1, <1>3, <1>4, <1>5 DEF Opened, S, T, AfterCheck
    <3> QED BY <1>3, <2>3, <3>1 DEF Unexecuted, Opened
  <2>5. Uses(s, u)' = Uses(s, u) /\ ValidTokens(s, u)' = ValidTokens(s, u)
    BY <1>1, <1>4 DEF Uses, ValidTokens
  <2>6. Unpaid(s, u, U \cup {p})'
    <3>1. ASSUME NEW q \in U \cup {p}
          PROVE  IF pc'[q] = "remove" THEN StillValid(s, u, call[q].tok)'
                 ELSE ValidTokens(s, u)' # {}
      <4>1. CASE q = p
        BY <1>3, <1>5, <2>2, <2>5, <4>1
      <4>2. CASE q \in U /\ q # p
        BY <1>1, <1>3, <2>1, <2>5, <4>2 DEF Unpaid, StillValid
      <4> QED BY <4>1, <4>2
    <3> QED BY <2>1, <2>4, <3>1 DEF Unpaid
  <2> DEFINE n == Cardinality(Calls)
             e == Cardinality(Uses(s, u))
             w == Cardinality(Unexecuted(s, u))
             v == Cardinality(ValidTokens(s, u))
             k == Cardinality(U)
             w2 == Cardinality(Unexecuted(s, u) \cup {p})
             k2 == Cardinality(U \cup {p})
  <2>7. /\ n \in Nat /\ e \in Nat /\ w \in Nat /\ v \in Nat /\ k \in Nat /\ issued[s][u] \in Nat
        /\ e + w + n * v <= n * issued[s][u] + k
        /\ IsFiniteSet(Unexecuted(s, u)) /\ IsFiniteSet(U)
    BY <1>2, <2>1, ReuseCounts DEF Paid, Balanced
  <2>8. w2 = w + 1 /\ k2 = k + 1
    BY <2>3, <2>7, FS_AddElement
  <2> HIDE DEF n, e, w, v, k, w2, k2
  <2>9. e + w2 + n * v <= n * issued[s][u] + k2
    <3>1. n * v \in Nat /\ n * issued[s][u] \in Nat
        BY <2>7
    <3> QED BY <2>7, <2>8, <3>1
  <2>10. Paid(s, u, U \cup {p})'
    BY <1>1, <2>4, <2>5, <2>9 DEF Paid, n, e, w2, v, k2
  <2> QED BY <1>2, <2>5, <2>6, <2>10 DEF Balanced
<1>6. CASE ~ (S(p) = s /\ T(p) \in OneTimeDependents(u))
  <2>1. \A q \in Calls : /\ q \in Opened(s, u)' <=> q \in Opened(s, u)
                         /\ q \in Opened(s, u) => pc'[q] = pc[q] /\ call'[q].tok = call[q].tok
    BY <1>1, <1>3, <1>4, <1>6 DEF Opened, S, T
  <2> QED BY <1>1, <1>2, <2>1, FrameReuse
<1> QED BY <1>5, <1>6

(* A handler that succeeds: its call is no longer about to be counted. *)
LEMMA HandlerReuse ==
    ASSUME TypeOK, ReuseInv, NEW p \in Calls, HandlerSucceeds(p)
    PROVE  ReuseInv'
<1> SUFFICES ASSUME NEW s \in Sessions, NEW u \in Tools
             PROVE  Balanced(s, u)'
    BY DEF ReuseInv
<1>1. /\ pc[p] = "handler" /\ pc' = [pc EXCEPT ![p] = "consume"] /\ call' = call
      /\ rules' = rules /\ tokens' = tokens /\ now' = now /\ issued' = issued
      /\ executed' = [executed EXCEPT ![S(p)][T(p)] = @ + 1]
    BY DEF HandlerSucceeds, At, Goto, gvars, tvars, hvars
<1>2. Balanced(s, u) /\ S(p) \in Sessions /\ T(p) \in Tools
    BY DEF ReuseInv, TypeOK, VariablesTyped, Locals, S, T
<1>3. /\ \A q \in Calls : q # p => pc'[q] = pc[q]
      /\ pc'[p] = "consume"
    BY <1>1 DEF TypeOK, VariablesTyped
<1>4. OneTimeDependents(u)' = OneTimeDependents(u)
    BY <1>1 DEF OneTimeDependents, OneTimeRule
<1>5. PICK U \in SUBSET Calls : Unpaid(s, u, U) /\ Paid(s, u, U)
    BY <1>2 DEF Balanced
<1>6. ValidTokens(s, u)' = ValidTokens(s, u) /\ Opened(s, u)' = Opened(s, u)
    BY <1>1, <1>3, <1>4 DEF ValidTokens, Opened, S, T, AfterCheck
<1>7. Unexecuted(s, u)' = Unexecuted(s, u) \ {p}
    BY <1>3, <1>6 DEF Unexecuted, Opened
<1>8. Unpaid(s, u, U)'
  <2>1. ASSUME NEW q \in U
        PROVE  IF pc'[q] = "remove" THEN StillValid(s, u, call[q].tok)'
               ELSE ValidTokens(s, u)' # {}
    BY <1>1, <1>3, <1>5, <1>6 DEF Unpaid, StillValid
  <2> QED BY <1>5, <1>6, <2>1 DEF Unpaid
<1> DEFINE n == Cardinality(Calls)
           e == Cardinality(Uses(s, u))
           w == Cardinality(Unexecuted(s, u))
           v == Cardinality(ValidTokens(s, u))
           k == Cardinality(U)
           e2 == Cardinality(Uses(s, u)')
           w2 == Cardinality(Unexecuted(s, u)')
<1>9. /\ n \in Nat /\ e \in Nat /\ w \in Nat /\ v \in Nat /\ k \in Nat /\ issued[s][u] \in Nat
      /\ e + w + n * v <= n * issued[s][u] + k
      /\ IsFiniteSet(Unexecuted(s, u)) /\ IsFiniteSet(Uses(s, u))
    BY <1>2, <1>5, ReuseCounts DEF Paid, Balanced
<1>10. IsFiniteSet(Uses(s, u)') /\ e2 \in Nat /\ w2 \in Nat /\ e2 + w2 = e + w
  <2>1. CASE S(p) = s /\ T(p) \in OneTimeDependents(u)
    <3> DEFINE z == <<T(p), executed[s][T(p)] + 1>>
    <3>1. p \in Unexecuted(s, u)
        BY <1>1, <2>1 DEF Unexecuted, Opened, AfterCheck
    <3>2. /\ executed[s] \in [Tools -> Nat]
          /\ executed'[s] = [executed[s] EXCEPT ![T(p)] = executed[s][T(p)] + 1]
        BY <1>1, <1>2, <2>1 DEF TypeOK, VariablesTyped
    <3>3. Uses(s, u)' = Uses(s, u) \cup {z} /\ z \notin Uses(s, u)
      <4>1. OneTimeDependents(u) \subseteq Tools
        BY DEF OneTimeDependents
      <4>2. \A t \in OneTimeDependents(u) :
                /\ executed[s][t] \in Nat
                /\ executed'[s][t] = IF t = T(p) THEN executed[s][t] + 1 ELSE executed[s][t]
        BY <3>2, <4>1
      <4>3. Uses(s, u)' = UNION {{t} \X (1 .. executed'[s][t]) : t \in OneTimeDependents(u)}
        BY <1>4 DEF Uses, Counted
      <4>4. Uses(s, u) = UNION {{t} \X (1 .. executed[s][t]) : t \in OneTimeDependents(u)}
        BY DEF Uses, Counted
      <4>5. z \notin Uses(s, u)
        <5> SUFFICES ASSUME z \in Uses(s, u) PROVE FALSE
          OBVIOUS
        <5>1. PICK t \in OneTimeDependents(u) : z \in {t} \X (1 .. executed[s][t])
          BY <4>4
        <5>2. T(p) = t /\ executed[s][t] + 1 \in 1 .. executed[s][t]
          BY <5>1
        <5> QED BY <4>2, <5>2
      <4>6. ASSUME NEW y \in Uses(s, u)' PROVE y \in Uses(s, u) \cup {z}
        <5>1. PICK t \in OneTimeDependents(u) : y \in {t} \X (1 .. executed'[s][t])
          BY <4>3, <4>6
        <5>2. PICK i \in 1 .. executed'[s][t] : y = <<t, i>>
          BY <5>1
        <5>3. CASE i \in 1 .. executed[s][t]
          BY <4>4, <5>2, <5>3
        <5>4. CASE i \notin 1 .. executed[s][t]
          BY <4>2, <5>2, <5>4
        <5> QED BY <5>3, <5>4
      <4>7. ASSUME NEW y \in Uses(s, u) \cup {z} PROVE y \in Uses(s, u)'
        <5>1. CASE y = z
          <6>1. executed[s][T(p)] + 1 \in 1 .. executed'[s][T(p)]
            BY <2>1, <4>2
          <6>2. y \in {T(p)} \X (1 .. executed'[s][T(p)])
            BY <5>1, <6>1
          <6> QED BY <2>1, <4>3, <6>2
        <5>2. CASE y \in Uses(s, u)
          <6>1. PICK t \in OneTimeDependents(u) : y \in {t} \X (1 .. executed[s][t])
            BY <4>4, <5>2
          <6>2. y \in {t} \X (1 .. executed'[s][t])
            BY <4>2, <6>1
          <6> QED BY <4>3, <6>2
        <5> QED BY <4>7, <5>1, <5>2
      <4> QED BY <4>5, <4>6, <4>7
    <3> HIDE DEF z
    <3>4. e2 = e + 1 /\ IsFiniteSet(Uses(s, u)')
        BY <1>9, <3>3, FS_AddElement
    <3>5. w2 = w - 1 /\ w2 \in Nat
      <4>1. w2 = w - 1
        BY <1>7, <1>9, <3>1, FS_RemoveElement
      <4>2. w2 \in Nat
        BY <1>7, <1>9, SmallerSet
      <4> QED BY <4>1, <4>2
    <3>6. e \in Nat /\ w \in Nat
        BY <1>9
    <3> HIDE DEF e, w, e2, w2
    <3>7. e2 \in Nat /\ w2 \in Nat /\ e2 + w2 = e + w
        BY <3>4, <3>5, <3>6
    <3> QED BY <3>4, <3>7
  <2>2. CASE ~ (S(p) = s /\ T(p) \in OneTimeDependents(u))
    <3>1. p \notin Unexecuted(s, u)
        BY <2>2 DEF Unexecuted, Opened
    <3>2. \A t \in OneTimeDependents(u) : executed'[s][t] = executed[s][t]
        BY <1>1, <1>2, <2>2 DEF OneTimeDependents, TypeOK, VariablesTyped
    <3>3. Uses(s, u)' = Uses(s, u)
        BY <1>4, <3>2 DEF Uses, Counted
    <3>4. Unexecuted(s, u)' = Unexecuted(s, u)
        BY <1>7, <3>1
    <3> QED BY <1>9, <3>3, <3>4
  <2> QED BY <2>1, <2>2
<1> HIDE DEF n, e, w, v, k, e2, w2
<1>11. e2 + w2 + n * v <= n * issued[s][u] + k
  <2>1. n * v \in Nat /\ n * issued[s][u] \in Nat
    BY <1>9
  <2> QED BY <1>9, <1>10, <2>1
<1>12. Paid(s, u, U)'
    BY <1>1, <1>6, <1>11 DEF Paid, n, e2, w2, v, k
<1> QED BY <1>8, <1>10, <1>12 DEF Balanced

(* ConsumePrerequisiteToken finds a valid token: the call stays unpaid, or *)
(* paid, as it was.                                                        *)
LEMMA FindReuse ==
    ASSUME TypeOK, ReuseInv, NEW p \in Calls, ConsumeFind(p),
           OneTimeRule(T(p)), ValidTokens(S(p), rules[findRule(rules, T(p))].prereq) # {}
    PROVE  ReuseInv'
<1> SUFFICES ASSUME NEW s \in Sessions, NEW u \in Tools
             PROVE  Balanced(s, u)'
    BY DEF ReuseInv
<1> DEFINE v == LastValidToken(S(p), rules[findRule(rules, T(p))].prereq)
           c == [call[p] EXCEPT !.rule = findRule(rules, T(p)), !.tok = v]
<1>1. /\ pc[p] = "consume" /\ pc' = [pc EXCEPT ![p] = "remove"]
      /\ call' = [call EXCEPT ![p] = c]
      /\ rules' = rules /\ tokens' = tokens /\ now' = now
      /\ issued' = issued /\ executed' = executed
    BY DEF ConsumeFind, At, Goto, Set, gvars, tvars, hvars
<1>2. Balanced(s, u) /\ c.ses = S(p) /\ c.tool = T(p) /\ c.tok = v
    BY DEF ReuseInv, TypeOK, VariablesTyped, Locals, S, T
<1>3. /\ \A q \in Calls : q # p => pc'[q] = pc[q] /\ call'[q] = call[q]
      /\ pc'[p] = "remove" /\ call'[p] = c
    BY <1>1 DEF TypeOK, VariablesTyped
<1> HIDE DEF c
<1>4. /\ OneTimeDependents(u)' = OneTimeDependents(u)
      /\ Uses(s, u)' = Uses(s, u) /\ ValidTokens(s, u)' = ValidTokens(s, u)
    BY <1>1 DEF OneTimeDependents, OneTimeRule, Uses, ValidTokens
<1>5. PICK U \in SUBSET Calls : Unpaid(s, u, U) /\ Paid(s, u, U)
    BY <1>2 DEF Balanced
<1>6. Opened(s, u)' = Opened(s, u)
    BY <1>1, <1>2, <1>3, <1>4 DEF Opened, S, T, AfterCheck
<1>7. Unexecuted(s, u)' = Unexecuted(s, u)
    BY <1>1, <1>3, <1>6 DEF Unexecuted, Opened
<1>8. Unpaid(s, u, U)'
  <2>1. ASSUME NEW q \in U
        PROVE  IF pc'[q] = "remove" THEN StillValid(s, u, call[q].tok)'
               ELSE ValidTokens(s, u)' # {}
    <3>1. CASE q # p
        BY <1>1, <1>3, <1>4, <1>5, <3>1 DEF Unpaid, StillValid
    <3>2. CASE q = p
      <4>1. S(p) = s /\ T(p) \in OneTimeDependents(u)
        BY <1>5, <3>2 DEF Unpaid, Opened
      <4>2. v = LastValidToken(s, u) /\ ValidTokens(s, u) # {}
        BY <4>1, DependentRules
      <4>3. /\ tokens[s][u] \in Seq(Entry) /\ Len(tokens[s][u]) \in Nat
            /\ ValidTokens(s, u) \in SUBSET (1 .. Len(tokens[s][u]))
        BY DEF TypeOK, VariablesTyped, ValidTokens
      <4>4. \E i \in ValidTokens(s, u) : \A j \in ValidTokens(s, u) : j <= i
        BY <4>2, <4>3, GreatestOf
      <4>5. PICK i \in ValidTokens(s, u) : LastValidToken(s, u) = tokens[s][u][i].value
        BY <4>4 DEF LastValidToken
      <4> HIDE DEF v
      <4>6. StillValid(s, u, v)
        BY <4>2, <4>5 DEF StillValid
      <4> QED BY <1>1, <1>2, <1>3, <1>4, <3>2, <4>6 DEF StillValid
    <3> QED BY <3>1, <3>2
  <2> QED BY <1>5, <1>6, <2>1 DEF Unpaid
<1>9. Paid(s, u, U)'
    BY <1>1, <1>4, <1>5, <1>7 DEF Paid
<1> QED BY <1>2, <1>4, <1>8, <1>9 DEF Balanced

(* The valid entries of a list that loses its entry c. *)
ValidIn(q, n) == {i \in DOMAIN q : n < q[i].expires}
LEMMA ValidRemoved ==
    ASSUME NEW q \in Seq(Entry), NEW c \in 1 .. Len(q), NEW n \in Nat
    PROVE  /\ IsFiniteSet(ValidIn(q, n))
           /\ Cardinality(ValidIn(RemoveAt(q, c), n)) = Cardinality(ValidIn(q, n) \ {c})
           /\ \A j \in ValidIn(q, n) \ {c} :
                 \E i \in ValidIn(RemoveAt(q, c), n) : RemoveAt(q, c)[i] = q[j]
<1>0. PICK r, A, B : /\ r = RemoveAt(q, c) /\ A = {i \in DOMAIN q : n < q[i].expires}
                     /\ B = {i \in DOMAIN r : n < r[i].expires}
    OBVIOUS
<1>1. /\ r \in Seq(Entry) /\ Len(r) = Len(q) - 1 /\ Len(q) \in Nat
      /\ \A i \in 1 .. Len(q) - 1 : r[i] = q[IF i < c THEN i ELSE i + 1]
    BY <1>0, RemoveAtTyped
<1>2. /\ DOMAIN q = 1 .. Len(q) /\ DOMAIN r = 1 .. Len(q) - 1
    BY <1>1
<1> DEFINE f == [i \in B |-> IF i < c THEN i ELSE i + 1]
<1>3. IsFiniteSet(A)
  <2>1. 1 \in Int /\ Len(q) \in Int
    BY <1>1
  <2>2. IsFiniteSet(1 .. Len(q))
    BY ONLY <2>1, FS_Interval
  <2>3. A \subseteq 1 .. Len(q)
    BY <1>0, <1>2
  <2> QED BY <2>2, <2>3, FS_Subset
<1>4. \A i \in B : i \in Nat /\ f[i] \in A \ {c} /\ r[i] = q[f[i]]
  <2> SUFFICES ASSUME NEW i \in B PROVE i \in Nat /\ f[i] \in A \ {c} /\ r[i] = q[f[i]]
    OBVIOUS
  <2>1. i \in 1 .. Len(q) - 1 /\ n < r[i].expires
    BY <1>0, <1>2
  <2>2. f[i] = (IF i < c THEN i ELSE i + 1) /\ f[i] \in 1 .. Len(q) /\ f[i] # c
    BY <1>1, <2>1
  <2>3. r[i] = q[f[i]]
    BY <1>1, <2>1, <2>2
  <2> QED BY <1>0, <1>2, <2>1, <2>2, <2>3
<1>5. ASSUME NEW j \in A \ {c} PROVE \E i \in B : f[i] = j /\ r[i] = q[j]
  <2> DEFINE i == IF j < c THEN j ELSE j - 1
  <2>1. j \in 1 .. Len(q) /\ j # c /\ n < q[j].expires
    BY <1>0, <1>2
  <2>2. i \in 1 .. Len(q) - 1 /\ (IF i < c THEN i ELSE i + 1) = j
    BY <1>1, <2>1
  <2> HIDE DEF i
  <2>3. r[i] = q[j]
    BY <1>1, <2>2
  <2>4. i \in B
    BY <1>0, <1>2, <2>1, <2>2, <2>3
  <2> QED BY <2>2, <2>3, <2>4
<1>6. \A i, j \in B : f[i] = f[j] => i = j
  <2> SUFFICES ASSUME NEW i \in B, NEW j \in B, f[i] = f[j] PROVE i = j
    OBVIOUS
  <2>1. i \in Nat /\ j \in Nat /\ c \in Nat
    BY <1>1, <1>4
  <2>2. (IF i < c THEN i ELSE i + 1) = (IF j < c THEN j ELSE j + 1)
    OBVIOUS
  <2> QED BY <2>1, <2>2
<1>7. f \in Bijection(B, A \ {c})
  <2>1. f \in [B -> A \ {c}]
    BY <1>4
  <2> HIDE DEF f
  <2>2. f \in Surjection(B, A \ {c})
    BY <1>5, <2>1 DEF Surjection
  <2>3. f \in Injection(B, A \ {c})
    BY <1>6, <2>1 DEF Injection, IsInjective
  <2> QED BY <2>2, <2>3 DEF Bijection
<1>8. Cardinality(B) = Cardinality(A \ {c})
  <2>1. IsFiniteSet(A \ {c})
    BY <1>3, FS_Subset
  <2>2. ExistsBijection(A \ {c}, B)
    BY <1>7, Fun_ExistsBijSymmetric DEF ExistsBijection
  <2> QED BY <2>1, <2>2, FS_Bijection
<1>9. \A j \in A \ {c} : \E i \in B : r[i] = q[j]
    BY <1>5
<1> QED BY <1>0, <1>3, <1>8, <1>9 DEF ValidIn

(* RemoveToken: a valid token that goes pays for every call in flight; an  *)
(* expired one has done so when it expired.                                *)
LEMMA RemoveReuse ==
    ASSUME TypeOK, TokenInv, ReuseInv, NEW p \in Calls, ConsumeRemove(p)
    PROVE  ReuseInv'
<1> SUFFICES ASSUME NEW s \in Sessions, NEW u \in Tools
             PROVE  Balanced(s, u)'
    BY DEF ReuseInv
<1>1. /\ pc[p] = "remove" /\ pc' = [pc EXCEPT ![p] = "consumeGet"] /\ call' = call
      /\ rules' = rules /\ now' = now /\ issued' = issued /\ executed' = executed
      /\ Holds(S(p), Required(p), call[p].tok)
      /\ RemoveToken(S(p), Required(p), call[p].tok)
    BY DEF ConsumeRemove, At, Goto, gvars, hvars
<1>2. /\ Balanced(s, u) /\ S(p) \in Sessions /\ Required(p) \in Tools
      /\ call[p].rule \in findRules(rules, T(p))
      /\ tokens \in [Sessions -> [Tools -> Seq(Entry)]] /\ now \in Nat
    BY <1>1, BoundsAssumption DEF ReuseInv, TypeOK, VariablesTyped, RulesInHand, KeepsRule, Locals, S
<1>3. /\ \A q \in Calls : q # p => pc'[q] = pc[q]
      /\ pc'[p] = "consumeGet"
    BY <1>1 DEF TypeOK, VariablesTyped
<1>4. OneTimeDependents(u)' = OneTimeDependents(u) /\ Uses(s, u)' = Uses(s, u)
    BY <1>1 DEF OneTimeDependents, OneTimeRule, Uses
<1>5. PICK U \in SUBSET Calls : Unpaid(s, u, U) /\ Paid(s, u, U)
    BY <1>2 DEF Balanced
<1>6. Opened(s, u)' = Opened(s, u) \ {p}
    BY <1>1, <1>3, <1>4 DEF Opened, S, T, AfterCheck
<1>7. Unexecuted(s, u)' = Unexecuted(s, u)
    BY <1>1, <1>3, <1>6 DEF Unexecuted, Opened
<1>8. PICK c \in DOMAIN tokens[S(p)][Required(p)] :
          /\ tokens[S(p)][Required(p)][c].value = call[p].tok
          /\ tokens' = [tokens EXCEPT ![S(p)] = [tokens[S(p)] EXCEPT ![Required(p)] =
                                                   RemoveAt(tokens[S(p)][Required(p)], c)]]
  <2>1. PICK z, t, v : z = S(p) /\ t = Required(p) /\ v = call[p].tok
    OBVIOUS
  <2>2. z \in Sessions /\ t \in Tools /\ Holds(z, t, v) /\ RemoveToken(z, t, v)
    BY <1>1, <1>2, <2>1
  <2>3. \E c \in DOMAIN tokens[z][t] :
            /\ tokens[z][t][c].value = v
            /\ tokens' = [tokens EXCEPT ![z] = [tokens[z] EXCEPT ![t] = RemoveAt(tokens[z][t], c)]]
    BY <2>2, RemoveTyped
  <2> QED BY <2>1, <2>3
<1>9. CASE S(p) = s /\ Required(p) = u
  <2>1. PICK q \in Seq(Entry) : q = tokens[s][u]
    BY <1>2
  <2>2. c \in 1 .. Len(q) /\ q[c].value = call[p].tok /\ tokens'[s][u] = RemoveAt(q, c)
    BY <1>2, <1>8, <1>9, <2>1
  <2>3. PICK r : r = RemoveAt(q, c)
    OBVIOUS
  <2> DEFINE A == ValidTokens(s, u)
             B == ValidTokens(s, u)'
  <2>4. A = {i \in DOMAIN q : now < q[i].expires} /\ B = {i \in DOMAIN r : now < r[i].expires}
    BY <1>1, <2>1, <2>2, <2>3 DEF ValidTokens
  <2>5. /\ IsFiniteSet(A) /\ Cardinality(B) = Cardinality(A \ {c})
        /\ \A j \in A \ {c} : \E i \in B : r[i] = q[j]
    <3>1. A = ValidIn(q, now) /\ B = ValidIn(RemoveAt(q, c), now)
        BY <2>3, <2>4 DEF ValidIn
    <3> HIDE DEF A, B
    <3>2. q \in Seq(Entry) /\ c \in 1 .. Len(q) /\ now \in Nat
        BY <1>2, <2>2
    <3>3. /\ IsFiniteSet(ValidIn(q, now))
          /\ Cardinality(ValidIn(RemoveAt(q, c), now)) = Cardinality(ValidIn(q, now) \ {c})
          /\ \A j \in ValidIn(q, now) \ {c} :
                \E i \in ValidIn(RemoveAt(q, c), now) : RemoveAt(q, c)[i] = q[j]
        BY ONLY <3>2, ValidRemoved
    <3> QED BY <2>3, <3>1, <3>3
  <2> DEFINE n == Cardinality(Calls)
             e == Cardinality(Uses(s, u))
             w == Cardinality(Unexecuted(s, u))
             a == Cardinality(A)
             b == Cardinality(B)
             k == Cardinality(U)
  <2>6. /\ n \in Nat /\ e \in Nat /\ w \in Nat /\ a \in Nat /\ k \in Nat /\ issued[s][u] \in Nat
        /\ k <= n /\ e + w + n * a <= n * issued[s][u] + k
    BY <1>2, <1>5, ReuseCounts DEF Paid, Balanced
  <2>7. CASE c \in A
    <3>1. b = a - 1 /\ b \in Nat
      <4>1. b = a - 1
        BY <2>5, <2>7, FS_RemoveElement
      <4>2. b \in Nat
        BY <2>5, SmallerSet
      <4> QED BY <4>1, <4>2
    <3>2. Unpaid(s, u, {})'
        BY DEF Unpaid
    <3> HIDE DEF n, e, w, a, b, k
    <3>3. e + w + n * b <= n * issued[s][u]
      <4>1. b < a /\ e + w \in Nat
        BY <2>6, <3>1
      <4> QED BY <2>6, <3>1, <4>1, PaidByOne
    <3>4. Paid(s, u, {})'
      <4>1. /\ Cardinality(Uses(s, u)') = e /\ Cardinality(Unexecuted(s, u)') = w
            /\ Cardinality(ValidTokens(s, u)') = b /\ Cardinality({}) = 0
        BY <1>4, <1>7, FS_EmptySet DEF e, w, b
      <4>2. n * issued[s][u] + 0 = n * issued[s][u]
        BY <2>6
      <4> QED BY <1>1, <3>3, <4>1, <4>2 DEF Paid, n
    <3> QED BY <1>2, <1>4, <3>2, <3>4 DEF Balanced
  <2>8. CASE c \notin A
    <3>1. A \ {c} = A
        BY <2>8
    <3>2. p \notin U
      <4> SUFFICES ASSUME p \in U PROVE FALSE
        OBVIOUS
      <4>1. StillValid(s, u, call[p].tok)
        BY <1>1, <1>5 DEF Unpaid
      <4>2. PICK i \in A : q[i].value = call[p].tok
        BY <2>1, <4>1 DEF StillValid
      <4>3. i \in DOMAIN q /\ c \in DOMAIN q
        BY <2>2, <2>4
      <4>4. i = c
        BY <2>1, <2>2, <4>2, <4>3 DEF TokenInv, TokensConserved, StoredOnce
      <4> QED BY <2>8, <4>2, <4>4
    <3>3. Unpaid(s, u, U)'
      <4>1. ASSUME NEW h \in U
            PROVE  IF pc'[h] = "remove" THEN StillValid(s, u, call[h].tok)'
                   ELSE ValidTokens(s, u)' # {}
        <5>1. pc'[h] = pc[h] /\ call'[h] = call[h] /\ h \in Calls
            BY <1>1, <1>3, <3>2
        <5>2. CASE pc[h] = "remove"
          <6>1. PICK j \in A : q[j].value = call[h].tok
            BY <1>5, <2>1, <5>2 DEF Unpaid, StillValid
          <6>2. PICK i \in B : r[i] = q[j]
            BY <2>5, <3>1, <6>1
          <6>3. tokens'[s][u][i].value = call'[h].tok
            BY <2>2, <2>3, <5>1, <6>1, <6>2
          <6>4. StillValid(s, u, call[h].tok)'
            BY <6>2, <6>3 DEF StillValid
          <6> QED BY <5>1, <5>2, <6>4
        <5>3. CASE pc[h] # "remove"
          <6>1. PICK j \in A : TRUE
            BY <1>5, <5>3 DEF Unpaid
          <6>2. B # {}
            BY <2>5, <3>1, <6>1
          <6> QED BY <5>1, <5>3, <6>2
        <5> QED BY <5>2, <5>3
      <4>2. U \subseteq Opened(s, u)'
        BY <1>5, <1>6, <3>2 DEF Unpaid
      <4> QED BY <4>1, <4>2 DEF Unpaid
    <3>4. Paid(s, u, U)'
        BY <1>1, <1>4, <1>5, <1>7, <2>5, <3>1 DEF Paid
    <3> QED BY <1>2, <1>4, <3>3, <3>4 DEF Balanced
  <2> QED BY <2>7, <2>8
<1>10. CASE ~ (S(p) = s /\ Required(p) = u)
  <2>1. tokens'[s][u] = tokens[s][u]
    BY <1>2, <1>8, <1>10
  <2>2. p \notin Opened(s, u)
    BY <1>2, <1>10, DependentRules DEF Opened, Required
  <2>3. \A h \in Calls : /\ h \in Opened(s, u)' <=> h \in Opened(s, u)
                         /\ h \in Opened(s, u) => pc'[h] = pc[h] /\ call'[h].tok = call[h].tok
    BY <1>1, <1>3, <1>6, <2>2
  <2> QED BY <1>1, <1>2, <2>1, <2>3, FrameReuse
<1> QED BY <1>9, <1>10

(* A token lives for at least a tick. *)
LEMMA ExpiryPositive ==
    ASSUME NEW rs \in Seq(Rule), NEW t
    PROVE  TokenExpiry(rs, t) \in Nat \ {0}
<1>1. TokenExpiry(rs, t) \in Nat
    BY ExpiryTyped
<1>2. CASE findRule(rs, t) # 0 /\ rs[findRule(rs, t)].expiry > 0
    BY <1>1, <1>2 DEF TokenExpiry
<1>3. CASE ~ (findRule(rs, t) # 0 /\ rs[findRule(rs, t)].expiry > 0)
    BY <1>3, ExpiryAssumption DEF TokenExpiry
<1> QED BY <1>2, <1>3

(* Store: one more token issued, and one more that is valid. *)
LEMMA StoreReuse ==
    ASSUME TypeOK, ReuseInv, NEW p \in Calls, IssueStore(p)
    PROVE  ReuseInv'
<1> SUFFICES ASSUME NEW s \in Sessions, NEW u \in Tools
             PROVE  Balanced(s, u)'
    BY DEF ReuseInv
<1> DEFINE x == [value |-> nextToken, expires |-> now + TokenExpiry(rules, T(p))]
           c == [call[p] EXCEPT !.tok = nextToken]
<1>1. /\ pc[p] = "issue" /\ pc' = [pc EXCEPT ![p] = "issueGet"]
      /\ call' = [call EXCEPT ![p] = c]
      /\ rules' = rules /\ now' = now /\ executed' = executed
      /\ issued' = [issued EXCEPT ![S(p)][T(p)] = @ + 1]
      /\ tokens' = [tokens EXCEPT ![S(p)][T(p)] = Append(@, x)]
    BY DEF IssueStore, Store, At, Goto, Set, gvars
<1>2. /\ Balanced(s, u) /\ S(p) \in Sessions /\ T(p) \in Tools /\ now \in Nat
      /\ tokens \in [Sessions -> [Tools -> Seq(Entry)]] /\ nextToken \in Nat
      /\ issued \in [Sessions -> [Tools -> Nat]]
    BY BoundsAssumption DEF ReuseInv, TypeOK, VariablesTyped, Locals, S, T
<1>3. \A h \in Calls : /\ h # p => pc'[h] = pc[h] /\ call'[h] = call[h]
                       /\ h = p => pc[h] \notin AfterCheck /\ pc'[h] \notin AfterCheck
    BY <1>1 DEF TypeOK, VariablesTyped, AfterCheck
<1>4. OneTimeDependents(u)' = OneTimeDependents(u) /\ Uses(s, u)' = Uses(s, u)
    BY <1>1 DEF OneTimeDependents, OneTimeRule, Uses
<1>5. Opened(s, u)' = Opened(s, u)
    BY <1>3, <1>4 DEF Opened, S, T
<1>6. \A h \in Opened(s, u) : h \in Calls /\ pc'[h] = pc[h] /\ call'[h] = call[h]
    BY <1>3 DEF Opened
<1>7. CASE S(p) = s /\ T(p) = u
  <2>1. PICK q \in Seq(Entry) : q = tokens[s][u]
    BY <1>2
  <2>2. tokens'[s][u] = Append(q, x) /\ issued'[s][u] = issued[s][u] + 1
    BY <1>1, <1>2, <1>7, <2>1
  <2>3. x \in Entry /\ x.expires > now
    <3>1. TokenExpiry(rules, T(p)) \in Nat \ {0}
        BY RulesTyped, ExpiryPositive
    <3> QED BY <1>2, <3>1 DEF Entry
  <2> HIDE DEF x
  <2>4. /\ DOMAIN Append(q, x) = DOMAIN q \cup {Len(q) + 1} /\ Len(q) + 1 \notin DOMAIN q
        /\ \A i \in DOMAIN q : Append(q, x)[i] = q[i]
        /\ Append(q, x)[Len(q) + 1] = x
    BY <2>3
  <2> DEFINE A == ValidTokens(s, u)
             B == ValidTokens(s, u)'
  <2>5. B = A \cup {Len(q) + 1} /\ Len(q) + 1 \notin A
    <3>1. A = {i \in DOMAIN q : now < q[i].expires}
        BY <2>1 DEF ValidTokens
    <3>2. B = {i \in DOMAIN Append(q, x) : now < Append(q, x)[i].expires}
        BY <1>1, <2>2 DEF ValidTokens
    <3> QED BY <1>2, <2>3, <2>4, <3>1, <3>2
  <2>6. PICK U \in SUBSET Calls : Unpaid(s, u, U) /\ Paid(s, u, U)
    BY <1>2 DEF Balanced
  <2>7. Unpaid(s, u, U)'
    <3>1. ASSUME NEW h \in U
          PROVE  IF pc'[h] = "remove" THEN StillValid(s, u, call[h].tok)'
                 ELSE ValidTokens(s, u)' # {}
      <4>1. pc'[h] = pc[h] /\ call'[h] = call[h]
        BY <1>6, <2>6 DEF Unpaid
      <4>2. CASE pc[h] = "remove"
        <5>1. PICK j \in A : q[j].value = call[h].tok
            BY <2>1, <2>6, <4>2 DEF Unpaid, StillValid
        <5>2. j \in B /\ tokens'[s][u][j].value = call'[h].tok
            BY <2>1, <2>2, <2>4, <2>5, <4>1, <5>1 DEF ValidTokens
        <5> QED BY <4>1, <4>2, <5>2 DEF StillValid
      <4>3. CASE pc[h] # "remove"
        BY <2>5, <4>1, <4>3
      <4> QED BY <4>2, <4>3
    <3> QED BY <1>5, <2>6, <3>1 DEF Unpaid
  <2>8. Unexecuted(s, u)' = Unexecuted(s, u)
    BY <1>5, <1>6 DEF Unexecuted
  <2> DEFINE n == Cardinality(Calls)
             e == Cardinality(Uses(s, u))
             w == Cardinality(Unexecuted(s, u))
             a == Cardinality(A)
             b == Cardinality(B)
             k == Cardinality(U)
             i == issued[s][u]
  <2>9. /\ n \in Nat /\ e \in Nat /\ w \in Nat /\ a \in Nat /\ k \in Nat /\ i \in Nat
        /\ e + w + n * a <= n * i + k /\ IsFiniteSet(A)
    BY <1>2, <2>6, ReuseCounts DEF Paid, Balanced
  <2>10. b = a + 1
    BY <2>5, <2>9, FS_AddElement
  <2> HIDE DEF n, e, w, a, b, k, i
  <2>11. e + w + n * b <= n * (i + 1) + k
    <3>1. n * b = n * a + n /\ n * (i + 1) = n * i + n /\ n * a \in Nat /\ n * i \in Nat
        BY <2>9, <2>10
    <3> QED BY <2>9, <3>1
  <2>12. Paid(s, u, U)'
    BY <1>4, <2>2, <2>8, <2>11 DEF Paid, n, e, w, b, k, i
  <2> QED BY <1>2, <1>4, <2>7, <2>12 DEF Balanced
<1>8. CASE ~ (S(p) = s /\ T(p) = u)
  <2>1. tokens'[s][u] = tokens[s][u] /\ issued'[s][u] = issued[s][u]
    BY <1>1, <1>2, <1>8
  <2>2. \A h \in Calls : /\ h \in Opened(s, u)' <=> h \in Opened(s, u)
                         /\ h \in Opened(s, u) => pc'[h] = pc[h] /\ call'[h].tok = call[h].tok
    BY <1>5, <1>6
  <2> QED BY <1>1, <1>2, <2>1, <2>2, FrameReuse
<1> QED BY <1>7, <1>8

(* The clock: tokens that expire pay for every call in flight. *)
LEMMA TickReuse ==
    ASSUME TypeOK, ReuseInv, Tick
    PROVE  ReuseInv'
<1> SUFFICES ASSUME NEW s \in Sessions, NEW u \in Tools
             PROVE  Balanced(s, u)'
    BY DEF ReuseInv
<1>1. /\ pc' = pc /\ call' = call /\ rules' = rules /\ now' = now + 1 /\ tokens' = tokens
      /\ executed' = executed /\ issued' = issued
    BY DEF Tick, hvars
<1>2. /\ Balanced(s, u) /\ now \in Nat /\ tokens[s][u] \in Seq(Entry)
    BY BoundsAssumption DEF ReuseInv, TypeOK, VariablesTyped
<1>3. /\ OneTimeDependents(u)' = OneTimeDependents(u) /\ Uses(s, u)' = Uses(s, u)
    BY <1>1 DEF OneTimeDependents, OneTimeRule, Uses
<1>4. Opened(s, u)' = Opened(s, u) /\ Unexecuted(s, u)' = Unexecuted(s, u)
    BY <1>1, <1>3 DEF Opened, Unexecuted, S, T
<1> DEFINE A == ValidTokens(s, u)
           B == ValidTokens(s, u)'
<1>5. B \subseteq A
  <2>1. \A i \in DOMAIN tokens[s][u] : tokens[s][u][i] \in Entry
    BY <1>2
  <2>2. \A i \in DOMAIN tokens[s][u] : tokens[s][u][i].expires \in Nat
    BY <2>1 DEF Entry
  <2> QED BY <1>1, <1>2, <2>2 DEF ValidTokens
<1>6. PICK U \in SUBSET Calls : Unpaid(s, u, U) /\ Paid(s, u, U)
    BY <1>2 DEF Balanced
<1> DEFINE n == Cardinality(Calls)
           e == Cardinality(Uses(s, u))
           w == Cardinality(Unexecuted(s, u))
           a == Cardinality(A)
           b == Cardinality(B)
           k == Cardinality(U)
<1>7. /\ n \in Nat /\ e \in Nat /\ w \in Nat /\ a \in Nat /\ k \in Nat /\ issued[s][u] \in Nat
      /\ k <= n /\ e + w + n * a <= n * issued[s][u] + k /\ IsFiniteSet(A)
    BY <1>2, <1>6, ReuseCounts DEF Paid, Balanced
<1>8. CASE B = A
  <2>1. Unpaid(s, u, U)'
    BY <1>1, <1>4, <1>6, <1>8 DEF Unpaid, StillValid
  <2>2. Paid(s, u, U)'
    BY <1>1, <1>3, <1>4, <1>6, <1>8 DEF Paid
  <2> QED BY <1>2, <1>3, <2>1, <2>2 DEF Balanced
<1>9. CASE B # A
  <2>1. b < a /\ b \in Nat
    <3>1. b <= a /\ b # a /\ b \in Nat /\ a \in Nat
        BY <1>5, <1>7, <1>9, FS_Subset, SmallerSet
    <3> HIDE DEF a, b
    <3> QED BY <3>1
  <2>2. Unpaid(s, u, {})'
    BY DEF Unpaid
  <2> HIDE DEF n, e, w, a, b, k
  <2>3. e + w + n * b <= n * issued[s][u]
    BY <1>7, <2>1, PaidByOne
  <2>4. Paid(s, u, {})'
    <3>1. /\ Cardinality(Uses(s, u)') = e /\ Cardinality(Unexecuted(s, u)') = w
          /\ Cardinality(ValidTokens(s, u)') = b /\ Cardinality({}) = 0
        BY <1>3, <1>4, FS_EmptySet DEF e, w, b
    <3>2. n * issued[s][u] + 0 = n * issued[s][u]
        BY <1>7
    <3> QED BY <1>1, <2>3, <3>1, <3>2 DEF Paid, n
  <2> QED BY <1>2, <1>3, <2>2, <2>4 DEF Balanced
<1> QED BY <1>8, <1>9

(* Steps of a call before the check, or after its token is consumed. *)
LEMMA OtherStepReuse ==
    ASSUME TypeOK, ReuseInv, NEW p \in Calls,
           \/ Begin(p) \/ WrapGet(p) \/ CreateGet(p) \/ CreateNew(p) \/ CreateFails(p)
           \/ ReadToken(p) \/ RejectNoSession(p) \/ StartValidation(p) \/ ValidateGet(p)
           \/ HistoryHit(p) \/ HistoryMiss(p)
           \/ CheckTokens(p) /\ ValidTokens(S(p), Required(p)) = {}
           \/ ConsumeGet(p) \/ ConsumeTruncate(p) \/ ConsumeUpdate(p)
           \/ GenerateTokenFails(p) \/ IssueGet(p) \/ IssueAdd(p) \/ IssueUpdate(p)
           \/ RecordGet(p) \/ RecordTool(p) \/ RecordUpdate(p)
    PROVE  ReuseInv'
<1>1. PICK x, c : pc' = [pc EXCEPT ![p] = x] /\ call' = [call EXCEPT ![p] = c]
  <2>1. CASE Begin(p)
    BY <2>1 DEF Begin, Goto, Set
  <2>2. CASE Step(p)
    BY <2>2, StepShape
  <2> QED BY <2>1, <2>2 DEF Step
<1>2. pc'[p] = x
    BY <1>1 DEF TypeOK, VariablesTyped
<1>3. pc[p] \notin AfterCheck /\ pc'[p] \notin AfterCheck
  <2> USE DEF AfterCheck
  <2>0. \A y : Goto(p, y) => pc'[p] = y
    BY DEF Goto, TypeOK, VariablesTyped
  <2>1. RuleFails(p) => pc'[p] \in {"history", "idle"}
    BY <2>0 DEF RuleFails, Return
  <2> QED BY <2>0, <2>1, ZenonT(60) DEF Begin, WrapGet, CreateGet, CreateNew, CreateFails, ReadToken,
       RejectNoSession, StartValidation, ValidateGet, HistoryHit, HistoryMiss, CheckTokens,
       ConsumeGet, ConsumeTruncate, ConsumeUpdate, GenerateTokenFails, IssueGet, IssueAdd,
       IssueUpdate, RecordGet, RecordTool, RecordUpdate, At, Return
<1>4. /\ rules' = rules /\ tokens' = tokens /\ now' = now /\ issued' = issued
      /\ executed' = executed
    BY DEF Begin, WrapGet, CreateGet, CreateNew, CreateFails, ReadToken,
       RejectNoSession, StartValidation, ValidateGet, HistoryHit, HistoryMiss, CheckTokens,
       ConsumeGet, ConsumeTruncate, ConsumeUpdate, GenerateTokenFails, IssueGet, IssueAdd,
       IssueUpdate, RecordGet, RecordTool, RecordUpdate, gvars, tvars, hvars
<1>5. \A u \in Tools, U \in SUBSET Calls : Unpaid(S(p), u, U) => p \notin U
    BY <1>3 DEF Unpaid, Opened
<1> QED BY <1>1, <1>2, <1>3, <1>4, <1>5, MoveReuse

(* The other steps on the way from the check to the token. *)
LEMMA AfterCheckReuse ==
    ASSUME TypeOK, ReuseInv, NEW p \in Calls,
           \/ AdmitFree(p) \/ HandlerFails(p) \/ ConsumeTooLate(p)
           \/ /\ ConsumeFind(p)
              /\ ~ (/\ OneTimeRule(T(p))
                    /\ ValidTokens(S(p), rules[findRule(rules, T(p))].prereq) # {})
    PROVE  ReuseInv'
<1>0. call = [call EXCEPT ![p] = call[p]]
    BY DEF TypeOK, VariablesTyped
<1>1. /\ rules' = rules /\ tokens' = tokens /\ now' = now /\ issued' = issued
      /\ executed' = executed
    BY DEF AdmitFree, HandlerFails, ConsumeTooLate, ConsumeFind, gvars, tvars, hvars
<1>2. CASE AdmitFree(p)
  <2>1. pc[p] = "validate" /\ pc' = [pc EXCEPT ![p] = "handler"] /\ call' = call
    BY <1>2 DEF AdmitFree, At, Goto
  <2>2. \A u \in Tools : call[p].tool \notin OneTimeDependents(u)
    BY <1>2, DependentRules DEF AdmitFree, T
  <2>3. \A u \in Tools, U \in SUBSET Calls : Unpaid(S(p), u, U) => p \notin U
    BY <2>1 DEF Unpaid, Opened, AfterCheck
  <2>4. call' = [call EXCEPT ![p] = call[p]]
    BY <1>0, <2>1
  <2> QED BY <1>1, <2>1, <2>2, <2>3, <2>4, MoveReuse
<1>3. CASE HandlerFails(p)
  <2>1. pc[p] = "handler" /\ pc' = [pc EXCEPT ![p] = "idle"] /\ call' = [call EXCEPT ![p] = Idle]
    BY <1>3 DEF HandlerFails, At, Return, Goto, Set
  <2>2. "idle" \notin AfterCheck
    BY DEF AfterCheck
  <2> QED BY <1>1, <2>1, <2>2, MoveReuse
<1>4. CASE ConsumeTooLate(p)
  <2>1. /\ pc[p] = "remove" /\ pc' = [pc EXCEPT ![p] = "issue"] /\ call' = call
        /\ ~ Holds(S(p), Required(p), call[p].tok)
    BY <1>4 DEF ConsumeTooLate, At, Goto
  <2>2. ASSUME NEW u \in Tools, NEW U \in SUBSET Calls, Unpaid(S(p), u, U), p \in U PROVE FALSE
    <3>1. T(p) \in OneTimeDependents(u) /\ call[p].rule \in findRules(rules, T(p))
        BY <2>1, <2>2 DEF Unpaid, Opened, TypeOK, RulesInHand, KeepsRule
    <3>2. Required(p) = u
        BY <3>1, DependentRules DEF Required
    <3>3. StillValid(S(p), u, call[p].tok)
        BY <2>1, <2>2 DEF Unpaid
    <3> QED BY <2>1, <3>2, <3>3 DEF StillValid, ValidTokens, Holds
  <2>3. "issue" \notin AfterCheck /\ call' = [call EXCEPT ![p] = call[p]]
    BY <1>0, <2>1 DEF AfterCheck
  <2>4. \A u \in Tools, U \in SUBSET Calls : Unpaid(S(p), u, U) => p \notin U
    BY <2>2
  <2> QED BY <1>1, <2>1, <2>3, <2>4, MoveReuse
<1>5. CASE /\ ConsumeFind(p)
           /\ ~ (/\ OneTimeRule(T(p))
                 /\ ValidTokens(S(p), rules[findRule(rules, T(p))].prereq) # {})
  <2>1. pc[p] = "consume" /\ pc' = [pc EXCEPT ![p] = "issue"] /\ call' = call
    BY <1>5 DEF ConsumeFind, At, Goto
  <2>2. ASSUME NEW u \in Tools, NEW U \in SUBSET Calls, Unpaid(S(p), u, U), p \in U PROVE FALSE
    <3>1. T(p) \in OneTimeDependents(u) /\ ValidTokens(S(p), u) # {}
        BY <2>1, <2>2 DEF Unpaid, Opened
    <3> QED BY <1>5, <3>1, DependentRules
  <2>3. "issue" \notin AfterCheck /\ call' = [call EXCEPT ![p] = call[p]]
    BY <1>0, <2>1 DEF AfterCheck
  <2>4. \A u \in Tools, U \in SUBSET Calls : Unpaid(S(p), u, U) => p \notin U
    BY <2>2
  <2> QED BY <1>1, <2>1, <2>3, <2>4, MoveReuse
<1> QED BY <1>2, <1>3, <1>4, <1>5

(* Steps that leave every call between check and token where it is. *)
LEMMA ElsewhereReuse ==
    ASSUME TypeOK, ReuseInv, rules' = rules, tokens' = tokens, now' = now,
           issued' = issued, executed' = executed,
           \A q \in Calls : \/ pc'[q] = pc[q] /\ call'[q] = call[q]
                            \/ pc[q] \notin AfterCheck /\ pc'[q] \notin AfterCheck
    PROVE  ReuseInv'
<1> SUFFICES ASSUME NEW s \in Sessions, NEW u \in Tools
             PROVE  Balanced(s, u)'
    BY DEF ReuseInv
<1>1. Balanced(s, u)
    BY DEF ReuseInv
<1>2. OneTimeDependents(u)' = OneTimeDependents(u)
    BY DEF OneTimeDependents, OneTimeRule
<1>3. \A q \in Calls : /\ q \in Opened(s, u)' <=> q \in Opened(s, u)
                       /\ q \in Opened(s, u) => pc'[q] = pc[q] /\ call'[q].tok = call[q].tok
    BY <1>2 DEF Opened, S, T
<1> QED BY <1>1, <1>3, FrameReuse

(* Every step keeps the balance. *)
LEMMA NextReuse == TypeOK /\ TokenInv /\ ReuseInv /\ [Next]_vars => ReuseInv'
<1> SUFFICES ASSUME TypeOK, TokenInv, ReuseInv, [Next]_vars PROVE ReuseInv'
    OBVIOUS
<1>1. ASSUME NEW p \in Calls, Begin(p) \/ Step(p) PROVE ReuseInv'
    BY <1>1, AdmitReuse, HandlerReuse, FindReuse, RemoveReuse, StoreReuse, OtherStepReuse,
       AfterCheckReuse DEF Step
<1>2. ASSUME NEW p \in Calls, NEW q \in Calls, Race(p, q) PROVE ReuseInv'
  <2>1. /\ rules' = rules /\ tokens' = tokens /\ now' = now /\ issued' = issued
        /\ executed' = executed
    BY <1>2 DEF Race, RacyMapWrite, MapThrow, RacyRecord, gvars, tvars, hvars
  <2>2. \A r \in Calls : \/ pc'[r] = pc[r] /\ call'[r] = call[r]
                         \/ pc[r] \notin AfterCheck /\ pc'[r] \notin AfterCheck
    <3>1. CASE RacyMapWrite(p, q)
        BY <3>1 DEF RacyMapWrite, WritesMap, AfterCheck
    <3>2. CASE MapThrow(p, q)
        BY <3>2 DEF MapThrow
    <3>3. CASE RacyRecord(p, q)
        BY <3>3 DEF RacyRecord, At, AfterCheck
    <3> QED BY <1>2, <3>1, <3>2, <3>3 DEF Race
  <2> QED BY <2>1, <2>2, ElsewhereReuse
<1>3. CASE (\E s \in Sessions : DeleteSession(s)) \/ UNCHANGED vars
  <2>1. /\ rules' = rules /\ tokens' = tokens /\ now' = now /\ issued' = issued
        /\ executed' = executed /\ pc' = pc /\ call' = call
    BY <1>3 DEF DeleteSession, vars, gvars, tvars, hvars
  <2> QED BY <2>1, ElsewhereReuse
<1> QED BY <1>1, <1>2, <1>3, TickReuse DEF Next, Done

(* A one-time token opens at most as many executions as calls can be in    *)
(* flight, for any number of calls, tools and sessions, although           *)
(* ConsumePrerequisiteToken runs after the handler and reserves nothing.   *)
(* The invariant also needs TokenInv: a token is in one place.             *)
THEOREM ReuseIsBounded == Spec => []BoundedReuse
<1>1. Init => ReuseInv
  <2> SUFFICES ASSUME Init, NEW s \in Sessions, NEW u \in Tools PROVE Balanced(s, u)
    BY DEF ReuseInv
  <2>1. /\ \A t \in OneTimeDependents(u) : executed[s][t] = 0
        /\ issued[s][u] = 0 /\ DOMAIN tokens[s][u] = {}
    BY DEF Init, TokenStoreInit, OneTimeDependents
  <2>2. Uses(s, u) = {} /\ ValidTokens(s, u) = {}
    <3>1. \A t \in OneTimeDependents(u) : 1 .. executed[s][t] = {}
        BY <2>1
    <3>2. \A t \in OneTimeDependents(u) : {t} \X (1 .. executed[s][t]) = {}
        BY <3>1
    <3> QED BY <2>1, <3>2 DEF Uses, Counted, ValidTokens
  <2>3. Unexecuted(s, u) = {}
    BY DEF Init, Unexecuted, Opened, AfterCheck
  <2>4. Unpaid(s, u, {})
    BY DEF Unpaid
  <2>5. Cardinality(Calls) \in Nat /\ Cardinality({}) = 0 /\ IsFiniteSet({})
    BY CallsAssumption, FS_CardinalityType, FS_EmptySet
  <2> DEFINE n == Cardinality(Calls)
  <2>6. 0 + 0 + n * 0 <= n * 0 + 0
    <3>1. n \in Nat
        BY <2>5
    <3> HIDE DEF n
    <3> QED BY <3>1
  <2>7. Paid(s, u, {})
    BY <2>1, <2>2, <2>3, <2>5, <2>6 DEF Paid
  <2> QED BY <2>2, <2>4, <2>5, <2>7 DEF Balanced
<1>2. TypeOK /\ ReuseInv => BoundedReuse
  <2> SUFFICES ASSUME TypeOK, NEW s \in Sessions, NEW u \in Tools, Balanced(s, u)
               PROVE  Cardinality(Uses(s, u)) <= Cardinality(Calls) * issued[s][u]
    BY DEF ReuseInv, BoundedReuse, Uses
  <2>1. PICK U \in SUBSET Calls : Unpaid(s, u, U) /\ Paid(s, u, U)
    BY DEF Balanced
  <2> DEFINE n == Cardinality(Calls)
             e == Cardinality(Uses(s, u))
             w == Cardinality(Unexecuted(s, u))
             a == Cardinality(ValidTokens(s, u))
             k == Cardinality(U)
             i == issued[s][u]
  <2>2. /\ n \in Nat /\ e \in Nat /\ w \in Nat /\ a \in Nat /\ k \in Nat /\ i \in Nat
        /\ k <= n /\ e + w + n * a <= n * i + k /\ IsFiniteSet(ValidTokens(s, u))
        /\ IsFiniteSet(U)
    BY <2>1, ReuseCounts DEF Paid, Balanced
  <2>3. k = 0 \/ a > 0
    <3>1. CASE U = {}
        BY <3>1, FS_EmptySet
    <3>2. CASE U # {}
      <4>1. ValidTokens(s, u) # {}
        BY <2>1, <3>2 DEF Unpaid, StillValid
      <4>2. a # 0
        BY <2>2, <4>1, FS_EmptySet
      <4>3. a \in Nat
        BY <2>2
      <4> HIDE DEF a
      <4> QED BY <4>2, <4>3
    <3> QED BY <3>1, <3>2
  <2> HIDE DEF n, e, w, a, k, i
  <2>4. n * a \in Nat /\ n * i \in Nat
    BY <2>2
  <2>5. CASE k = 0
    <3>1. e <= n * i
        BY <2>2, <2>4, <2>5
    <3> QED BY <3>1 DEF e, n, i
  <2>6. CASE a > 0
    <3>1. e + w + n * 0 <= n * i
      <4>1. 0 < a /\ e + w \in Nat
        BY <2>2, <2>6
      <4> QED BY <2>2, <4>1, PaidByOne
    <3>2. e <= n * i
        BY <2>2, <2>4, <3>1
    <3> QED BY <3>2 DEF e, n, i
  <2> QED BY <2>3, <2>5, <2>6
<1>3. TypeOK /\ [Next]_vars => TypeOK'
    BY NextTyped
<1> QED BY <1>1, <1>2, <1>3, NextReuse, InitTyped, TokensInv, PTL DEF Spec
=============================================================================
