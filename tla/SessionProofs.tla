--------------------------- MODULE SessionProofs ---------------------------
(***************************************************************************)
(* What RatchetCalls keeps when calls overlap in different sessions only   *)
(* and the host deletes no session, for any number of calls, tools and     *)
(* sessions and every set of valid rules: histories are complete, and the  *)
(* tokens of a session are those of the token store.                       *)
(***************************************************************************)
EXTENDS AccountProofs

(* No two calls in flight are in one session. *)
OnePerSession ==
    \A p, q \in Calls : p # q /\ pc[p] # "idle" /\ pc[q] # "idle" => S(p) # S(q)

(* A step of call p leaves the others where they are, in other sessions. *)
LEMMA OthersAway ==
    ASSUME TypeOK, OnePerSession, NEW p \in Calls, NEW x, pc' = [pc EXCEPT ![p] = x]
    PROVE  /\ pc'[p] = x
           /\ \A q \in Calls : q # p => pc'[q] = pc[q]
           /\ pc[p] # "idle" => \A q \in Calls : q # p /\ pc[q] # "idle" => S(q) # S(p)
BY DEF TypeOK, VariablesTyped, OnePerSession

(***************************************************************************)
(* Histories are complete.  HistoryNeverInvents bounds what a history      *)
(* shows from above; this is the bound from below.  While its call is      *)
(* between the handler and the append, a session, and the copy the call    *)
(* holds, is one entry behind; between the append and the save only the    *)
(* copy has it; otherwise nothing is missing.                              *)
(***************************************************************************)
Shows(s, h, T0) ==
    \A t \in Tools : executed[s][t] <= Times(h, t) + (IF t \in T0 THEN 1 ELSE 0)
Fresh == \A s \in Sessions : ~Exists(s) => \A t \in Tools : executed[s][t] = 0
Resting ==
    \A s \in Sessions :
        Exists(s) /\ (\A p \in Calls : ~ (pc[p] \in Executing /\ S(p) = s))
            => Shows(s, sessions[s], {})
ShownTo(p) ==
    /\ pc[p] \in Unrecorded => Shows(S(p), sessions[S(p)], {T(p)})
    /\ pc[p] \in Unrecorded \cap HoldsCopy => Shows(S(p), H(p), {T(p)})
    /\ pc[p] = "recordUpdate" => Shows(S(p), H(p), {})
CompleteInv == Fresh /\ Resting /\ \A p \in Calls : ShownTo(p)

(* The places where a header h shows t in a heap g of arrays: finitely many. *)
ShownIn(g, h, t) == {k \in 1 .. h.len : g[h.arr].slots[k] = t}
LEMMA TimesCounted ==
    ASSUME NEW g, NEW h \in Header, NEW t
    PROVE  IsFiniteSet(ShownIn(g, h, t)) /\ Cardinality(ShownIn(g, h, t)) \in Nat
<1>1. 1 \in Int /\ h.len \in Int
    BY DEF Header
<1>2. IsFiniteSet(1 .. h.len)
    BY ONLY <1>1, FS_Interval
<1>3. ShownIn(g, h, t) \subseteq 1 .. h.len
    BY DEF ShownIn
<1> QED BY <1>2, <1>3, SmallerSet

(* What RecordToolCall appends: the name goes behind what the copy shows,  *)
(* and only the copy's own array is written.                               *)
LEMMA RecordAppends ==
    ASSUME TypeOK, NEW s \in Sessions, NEW h \in Header, ValidHeader(s, h),
           NEW v \in Tools, NEW g, g = RecordHeap(s, h, v), NEW r, r = RecordHeader(h)
    PROVE  /\ r.len = h.len + 1 /\ g[r.arr].slots[h.len + 1] = v
           /\ \A k \in 1 .. h.len : g[r.arr].slots[k] = arrayHeap[h.arr].slots[k]
           /\ \A a \in 1 .. Len(arrayHeap) : a # h.arr => g[a] = arrayHeap[a]
<1> DEFINE A == arrayHeap[h.arr]
           L == Len(A.slots)
           N == Tools \cup {NoTool, Torn}
<1>1. /\ arrayHeap \in Seq(BackingArray) /\ h.arr \in 1 .. Len(arrayHeap)
      /\ A \in BackingArray /\ A.slots \in Seq(N)
      /\ L \in Nat /\ h.len \in Nat /\ h.len <= L /\ Len(arrayHeap) \in Nat
  <2>1. arrayHeap \in Seq(BackingArray) /\ h.arr \in 1 .. Len(arrayHeap)
    BY DEF TypeOK, VariablesTyped, ValidHeader
  <2>2. A \in BackingArray
    BY <2>1
  <2>3. A.slots \in Seq(N)
    BY <2>2 DEF BackingArray
  <2>4. h.len \in Nat /\ h.len <= L
    BY DEF ValidHeader, Header
  <2> QED BY <2>1, <2>2, <2>3, <2>4
<1>2. CASE InPlace(h)
  <2> DEFINE w == [A.slots EXCEPT ![h.len + 1] = v]
             B == [A EXCEPT !.slots = w]
  <2>1. h.len + 1 \in 1 .. L
    BY <1>1, <1>2 DEF InPlace, Capacity
  <2>2. \A k \in 1 .. L : w[k] = IF k = h.len + 1 THEN v ELSE A.slots[k]
    BY <1>1, <2>1, ExceptSeq
  <2>3. \A k \in 1 .. L : B.slots[k] = IF k = h.len + 1 THEN v ELSE A.slots[k]
    <3> HIDE DEF w, A
    <3>1. B.slots = w
        BY <1>1 DEF BackingArray
    <3> QED BY <2>2, <3>1
  <2>4. g = [arrayHeap EXCEPT ![h.arr] = B]
    BY <1>1, <1>2 DEF RecordHeap
  <2>5. r.arr = h.arr /\ r.len = h.len + 1
    BY <1>1, <1>2 DEF RecordHeader, Header
  <2> HIDE DEF B, A
  <2>6. g[h.arr] = B /\ \A a \in 1 .. Len(arrayHeap) : a # h.arr => g[a] = arrayHeap[a]
    BY <1>1, <2>4
  <2>7. \A k \in 1 .. h.len : k \in 1 .. L /\ k # h.len + 1
    BY <1>1
  <2> QED BY <2>1, <2>3, <2>5, <2>6, <2>7 DEF A
<1>3. CASE ~InPlace(h)
  <2> DEFINE n == IF L = 0 THEN 1 ELSE 2 * L
             B == [ses |-> s, slots |-> Grown(h, v)]
  <2>1. h.len = L /\ n \in Nat /\ L < n
    BY <1>1, <1>3 DEF InPlace, Capacity
  <2>2. \A k \in 1 .. n : Grown(h, v)[k] = IF k <= L THEN A.slots[k]
                                          ELSE IF k = L + 1 THEN v ELSE NoTool
    BY <2>1 DEF Grown, Capacity
  <2>3. g = Append(arrayHeap, B)
    BY <1>3 DEF RecordHeap
  <2>4. B.slots = Grown(h, v)
    OBVIOUS
  <2> HIDE DEF B
  <2>5. g[Len(arrayHeap) + 1] = B /\ \A a \in 1 .. Len(arrayHeap) : g[a] = arrayHeap[a]
    BY <1>1, <2>3
  <2>6. r.arr = Len(arrayHeap) + 1 /\ r.len = h.len + 1
    BY <1>3 DEF RecordHeader, Header
  <2>7. L + 1 \in 1 .. n /\ ~ (L + 1 <= L) /\ \A k \in 1 .. L : k \in 1 .. n /\ k <= L
    BY <1>1, <2>1
  <2> HIDE DEF n, L, A
  <2>8. /\ Grown(h, v)[L + 1] = v
        /\ \A k \in 1 .. L : Grown(h, v)[k] = A.slots[k]
    BY <2>2, <2>7
  <2>9. g[r.arr].slots = Grown(h, v)
    BY <2>4, <2>5, <2>6
  <2> QED BY <2>1, <2>5, <2>6, <2>8, <2>9 DEF A
<1> QED BY <1>2, <1>3

(* What is shown to a call that does not move, when the step leaves its    *)
(* session and the arrays it can see alone.                                *)
LEMMA OtherShown ==
    ASSUME NEW q \in Calls, ShownTo(q), pc'[q] = pc[q], call'[q] = call[q],
           pc[q] \in Executing =>
               /\ executed'[S(q)] = executed[S(q)] /\ sessions'[S(q)] = sessions[S(q)]
               /\ arrayHeap'[sessions[S(q)].arr] = arrayHeap[sessions[S(q)].arr]
               /\ pc[q] \in HoldsCopy => arrayHeap'[H(q).arr] = arrayHeap[H(q).arr]
    PROVE  ShownTo(q)'
<1>1. CASE pc[q] \notin Executing
    BY <1>1 DEF ShownTo, Unrecorded, Executing, Admitted
<1>2. CASE pc[q] \in Executing
  <2>1. /\ S(q)' = S(q) /\ T(q)' = T(q) /\ H(q)' = H(q)
        /\ pc[q] = "recordUpdate" => pc[q] \in HoldsCopy
    BY DEF S, T, H, HoldsCopy
  <2>2. ASSUME NEW h, NEW D, Shows(S(q), h, D), arrayHeap'[h.arr] = arrayHeap[h.arr]
        PROVE  \A t \in Tools : executed'[S(q)][t] <=
                   Cardinality({k \in 1 .. h.len : arrayHeap'[h.arr].slots[k] = t})
                       + (IF t \in D THEN 1 ELSE 0)
    BY <1>2, <2>2 DEF Shows, Times
  <2>3. Shows(S(q), sessions[S(q)], {T(q)}) => Shows(S(q), sessions[S(q)], {T(q)})'
    BY <1>2, <2>1, <2>2 DEF Shows, Times
  <2>4. /\ pc[q] \in HoldsCopy /\ Shows(S(q), H(q), {T(q)}) => Shows(S(q), H(q), {T(q)})'
        /\ pc[q] \in HoldsCopy /\ Shows(S(q), H(q), {}) => Shows(S(q), H(q), {})'
    BY <1>2, <2>1, <2>2 DEF Shows, Times
  <2> QED BY <2>1, <2>3, <2>4 DEF ShownTo
<1> QED BY <1>1, <1>2

(* Steps that neither append nor save a session nor end a handler. *)
LEMMA MoveComplete ==
    ASSUME TypeOK, OnePerSession, CompleteInv, sessions' = sessions, arrayHeap' = arrayHeap,
           executed' = executed, NEW p \in Calls, NEW x, NEW c,
           pc' = [pc EXCEPT ![p] = x], call' = [call EXCEPT ![p] = c],
           \/ x \notin Executing /\ pc[p] \notin Executing
           \/ /\ x \in Unrecorded /\ pc[p] \in Unrecorded /\ c.ses = S(p) /\ c.tool = T(p)
              /\ x \in HoldsCopy => \/ c.hdr = sessions[S(p)]
                                    \/ pc[p] \in HoldsCopy /\ c.hdr = H(p)
    PROVE  CompleteInv'
<1>1. /\ pc'[p] = x /\ call'[p] = c
      /\ \A q \in Calls : q # p => pc'[q] = pc[q] /\ call'[q] = call[q]
    BY DEF TypeOK, VariablesTyped
<1>3. Fresh'
    BY DEF CompleteInv, Fresh, Exists
<1>4. Resting'
  <2> SUFFICES ASSUME NEW s \in Sessions, Exists(s)',
                      \A q \in Calls : ~ (pc'[q] \in Executing /\ call'[q].ses = s)
               PROVE  Shows(s, sessions[s], {})'
    BY DEF Resting, S
  <2>1. Exists(s) /\ \A q \in Calls : ~ (pc[q] \in Executing /\ S(q) = s)
    <3>1. ~ (pc[p] \in Executing /\ S(p) = s)
        BY <1>1 DEF Unrecorded, Executing
    <3> QED BY <1>1, <3>1 DEF Exists, S
  <2>2. Shows(s, sessions[s], {})
    BY <2>1 DEF CompleteInv, Resting
  <2> QED BY <2>2 DEF Shows, Times
<1>5. ShownTo(p)'
  <2>1. ShownTo(p)
    BY DEF CompleteInv
  <2>2. CASE x \notin Executing
    BY <1>1, <2>2 DEF ShownTo, Executing, Unrecorded, Admitted
  <2>3. CASE /\ x \in Unrecorded /\ pc[p] \in Unrecorded /\ c.ses = S(p) /\ c.tool = T(p)
             /\ x \in HoldsCopy => \/ c.hdr = sessions[S(p)]
                                   \/ pc[p] \in HoldsCopy /\ c.hdr = H(p)
    <3>1. x # "recordUpdate" /\ Shows(S(p), sessions[S(p)], {T(p)})
        BY <2>1, <2>3 DEF ShownTo, Unrecorded
    <3>2. x \in HoldsCopy => Shows(S(p), c.hdr, {T(p)})
        BY <2>1, <2>3, <3>1 DEF ShownTo
    <3>3. S(p)' = S(p) /\ T(p)' = T(p) /\ H(p)' = c.hdr
        BY <1>1, <2>3 DEF S, T, H
    <3>4. Shows(S(p), sessions[S(p)], {T(p)})'
        BY <3>1, <3>3 DEF Shows, Times
    <3>5. x \in HoldsCopy => Shows(S(p), H(p), {T(p)})'
        BY <3>2, <3>3 DEF Shows, Times
    <3> QED BY <1>1, <3>1, <3>4, <3>5 DEF ShownTo
  <2> QED BY <2>2, <2>3
<1>6. ASSUME NEW q \in Calls, q # p PROVE ShownTo(q)'
  <2>1. pc'[q] = pc[q] /\ call'[q] = call[q] /\ ShownTo(q)
    BY <1>1, <1>6 DEF CompleteInv
  <2> QED BY <2>1, OtherShown
<1> QED BY <1>3, <1>4, <1>5, <1>6 DEF CompleteInv

(* A session that is saved shows what the copy shows. *)
LEMMA UpdateComplete ==
    ASSUME TypeOK, OnePerSession, CompleteInv, NEW p \in Calls, Update(S(p), H(p)),
           executed' = executed, NEW x, NEW c,
           pc' = [pc EXCEPT ![p] = x], call' = [call EXCEPT ![p] = c],
           \/ /\ pc[p] \in Unrecorded \cap HoldsCopy /\ x \in Unrecorded \ HoldsCopy
              /\ c.ses = S(p) /\ c.tool = T(p)
           \/ pc[p] = "recordUpdate" /\ x = "idle"
    PROVE  CompleteInv'
<1>1. /\ pc'[p] = x /\ call'[p] = c
      /\ \A q \in Calls : q # p => pc'[q] = pc[q] /\ call'[q] = call[q]
    BY DEF TypeOK, VariablesTyped
<1>2. /\ S(p) \in Sessions /\ sessions' = [sessions EXCEPT ![S(p)] = H(p)]
      /\ arrayHeap' = arrayHeap /\ pc[p] \in HoldsCopy
    BY DEF Update, TypeOK, VariablesTyped, Locals, S, HoldsCopy
<1>3. /\ sessions'[S(p)] = H(p) /\ \A s \in Sessions : s # S(p) => sessions'[s] = sessions[s]
      /\ H(p) # NoSession
  <2>1. H(p).toks # 0
    BY <1>2 DEF TypeOK, CopiesValid, ValidHeader
  <2> QED BY <1>2, <2>1 DEF TypeOK, VariablesTyped, NoSession
<1>4. ShownTo(p)
    BY DEF CompleteInv
<1>5. Fresh'
    BY <1>2, <1>3 DEF CompleteInv, Fresh, Exists
<1>6. Resting'
  <2> SUFFICES ASSUME NEW s \in Sessions, Exists(s)',
                      \A q \in Calls : ~ (pc'[q] \in Executing /\ call'[q].ses = s)
               PROVE  Shows(s, sessions[s], {})'
    BY DEF Resting, S
  <2>1. CASE s = S(p)
    <3>1. pc[p] = "recordUpdate"
        BY <1>1, <2>1 DEF Unrecorded, Executing
    <3>2. Shows(S(p), H(p), {})
        BY <1>4, <3>1 DEF ShownTo
    <3> QED BY <1>2, <1>3, <2>1, <3>2 DEF Shows, Times
  <2>2. CASE s # S(p)
    <3>1. Exists(s) /\ \A q \in Calls : ~ (pc[q] \in Executing /\ S(q) = s)
        BY <1>1, <1>3, <2>2 DEF Exists, S
    <3>2. Shows(s, sessions[s], {})
        BY <3>1 DEF CompleteInv, Resting
    <3> QED BY <1>2, <1>3, <2>2, <3>2 DEF Shows, Times
  <2> QED BY <2>1, <2>2
<1>7. ShownTo(p)'
  <2>1. CASE x = "idle"
    BY <1>1, <2>1 DEF ShownTo, Unrecorded, Admitted
  <2>2. CASE /\ pc[p] \in Unrecorded \cap HoldsCopy /\ x \in Unrecorded \ HoldsCopy
             /\ c.ses = S(p) /\ c.tool = T(p)
    <3>1. Shows(S(p), H(p), {T(p)}) /\ x # "recordUpdate"
        BY <1>4, <2>2 DEF ShownTo, Unrecorded
    <3>2. S(p)' = S(p) /\ T(p)' = T(p)
        BY <1>1, <2>2 DEF S, T
    <3>3. Shows(S(p), sessions[S(p)], {T(p)})'
        BY <1>2, <1>3, <3>1, <3>2 DEF Shows, Times
    <3> QED BY <1>1, <2>2, <3>1, <3>3 DEF ShownTo
  <2> QED BY <2>1, <2>2
<1>8. ASSUME NEW q \in Calls, q # p PROVE ShownTo(q)'
  <2>1. pc'[q] = pc[q] /\ call'[q] = call[q] /\ ShownTo(q) /\ S(q) \in Sessions
    BY <1>1, <1>8 DEF CompleteInv, TypeOK, VariablesTyped, Locals, S
  <2>2. pc[q] \in Executing => sessions'[S(q)] = sessions[S(q)]
    BY <1>2, <1>3, <1>8, <2>1 DEF OnePerSession, Executing, Admitted, HoldsCopy
  <2> QED BY <1>2, <2>1, <2>2, OtherShown
<1> QED BY <1>5, <1>6, <1>7, <1>8 DEF CompleteInv

(* A handler that succeeds: the session is one entry behind, which its     *)
(* call owes.                                                              *)
LEMMA HandlerComplete ==
    ASSUME TypeOK, OnePerSession, SessionsThere, CompleteInv, NEW p \in Calls, HandlerSucceeds(p)
    PROVE  CompleteInv'
<1>1. /\ pc[p] = "handler" /\ pc' = [pc EXCEPT ![p] = "consume"] /\ call' = call
      /\ sessions' = sessions /\ arrayHeap' = arrayHeap
      /\ executed' = [executed EXCEPT ![S(p)][T(p)] = @ + 1]
    BY DEF HandlerSucceeds, At, Goto, svars
<1>2. /\ pc'[p] = "consume" /\ \A q \in Calls : q # p => pc'[q] = pc[q]
      /\ \A q \in Calls : q # p /\ pc[q] # "idle" => S(q) # S(p)
    BY <1>1, OthersAway
<1>3. /\ S(p) \in Sessions /\ T(p) \in Tools /\ Exists(S(p))
      /\ executed \in [Sessions -> [Tools -> Nat]] /\ sessions[S(p)] \in Header
    BY <1>1 DEF TypeOK, VariablesTyped, Locals, S, T, SessionsThere, BeforeSession
<1>4. /\ \A s \in Sessions : s # S(p) => executed'[s] = executed[s]
      /\ \A t \in Tools : executed'[S(p)][t] =
            executed[S(p)][t] + (IF t \in {T(p)} THEN 1 ELSE 0)
    BY <1>1, <1>3
<1>5. Fresh'
    BY <1>1, <1>3, <1>4 DEF CompleteInv, Fresh, Exists
<1>6. Resting'
  <2> SUFFICES ASSUME NEW s \in Sessions, Exists(s)',
                      \A q \in Calls : ~ (pc'[q] \in Executing /\ call'[q].ses = s)
               PROVE  Shows(s, sessions[s], {})'
    BY DEF Resting, S
  <2>1. s # S(p)
    BY <1>1, <1>2 DEF Executing, Admitted, S
  <2>2. Exists(s) /\ \A q \in Calls : ~ (pc[q] \in Executing /\ S(q) = s)
    BY <1>1, <1>2, <2>1 DEF Exists, S
  <2>3. Shows(s, sessions[s], {})
    BY <2>2 DEF CompleteInv, Resting
  <2> QED BY <1>1, <1>4, <2>1, <2>3 DEF Shows, Times
<1>7. ShownTo(p)'
  <2>1. Shows(S(p), sessions[S(p)], {})
    <3>1. \A q \in Calls : ~ (pc[q] \in Executing /\ S(q) = S(p))
        BY <1>1, <1>2 DEF Executing, Admitted
    <3> QED BY <1>3, <3>1 DEF CompleteInv, Resting
  <2>2. ASSUME NEW t \in Tools
        PROVE  executed'[S(p)][t] <= Times(sessions[S(p)], t) + (IF t \in {T(p)} THEN 1 ELSE 0)
    <3> DEFINE k == Times(sessions[S(p)], t)
    <3>1. executed[S(p)][t] <= k + 0 /\ executed[S(p)][t] \in Nat
        BY <1>3, <2>1 DEF Shows
    <3>0. k \in Nat
      <4>1. PICK g, h : g = arrayHeap /\ h = sessions[S(p)]
        OBVIOUS
      <4>2. k = Cardinality(ShownIn(g, h, t))
        BY <4>1 DEF Times, ShownIn
      <4>3. h \in Header
        BY <1>3, <4>1
      <4> HIDE DEF k
      <4> QED BY <4>2, <4>3, TimesCounted
    <3> HIDE DEF k
    <3>2. executed'[S(p)][t] <= k + (IF t \in {T(p)} THEN 1 ELSE 0)
        BY <1>4, <3>0, <3>1
    <3> QED BY <3>2 DEF k
  <2>3. Shows(S(p), sessions[S(p)], {T(p)})'
    BY <1>1, <2>2 DEF Shows, Times, S, T
  <2> QED BY <1>2, <2>3 DEF ShownTo, HoldsCopy
<1>8. ASSUME NEW q \in Calls, q # p PROVE ShownTo(q)'
  <2>1. pc'[q] = pc[q] /\ ShownTo(q) /\ S(q) \in Sessions
    BY <1>2, <1>8 DEF CompleteInv, TypeOK, VariablesTyped, Locals, S
  <2>2. pc[q] \in Executing => executed'[S(q)] = executed[S(q)]
    BY <1>2, <1>4, <1>8, <2>1 DEF Executing, Admitted
  <2> QED BY <1>1, <2>1, <2>2, OtherShown
<1> QED BY <1>5, <1>6, <1>7, <1>8 DEF CompleteInv

(* A new session shows nothing, and nothing was executed in it. *)
LEMMA CreateComplete ==
    ASSUME TypeOK, OnePerSession, SessionsThere, CompleteInv, NEW p \in Calls, CreateNew(p)
    PROVE  CompleteInv'
<1>1. /\ pc[p] = "create" /\ pc' = [pc EXCEPT ![p] = "readToken"] /\ executed' = executed
      /\ ~Exists(S(p)) /\ sessions' = [sessions EXCEPT ![S(p)] = NewHeader]
      /\ arrayHeap' = Append(arrayHeap, [ses |-> S(p), slots |-> <<>>])
    BY DEF CreateNew, Create, At, Goto, hvars
<1>2. /\ pc'[p] = "readToken" /\ S(p)' = S(p)
      /\ \A q \in Calls : q # p => pc'[q] = pc[q] /\ call'[q] = call[q]
      /\ \A q \in Calls : q # p /\ pc[q] # "idle" => S(q) # S(p)
  <2>1. call' = [call EXCEPT ![p] = [call[p] EXCEPT !.hdr = NewHeader]]
    BY DEF CreateNew, Keep, Set
  <2>2. S(p)' = S(p) /\ \A q \in Calls : q # p => call'[q] = call[q]
    BY <2>1 DEF TypeOK, VariablesTyped, Locals, S
  <2> QED BY <1>1, <2>2, OthersAway
<1>3. /\ S(p) \in Sessions /\ sessions'[S(p)] = NewHeader
      /\ \A s \in Sessions : s # S(p) => sessions'[s] = sessions[s]
    BY <1>1 DEF TypeOK, VariablesTyped, Locals, S
<1>4. /\ arrayHeap \in Seq(BackingArray) /\ mapHeap \in Seq([Tools -> Seq(Nat)])
      /\ \A a \in 1 .. Len(arrayHeap) : arrayHeap'[a] = arrayHeap[a]
    BY <1>1 DEF TypeOK, VariablesTyped
<1>5. Fresh'
  <2>1. NewHeader.toks # 0
    BY <1>4 DEF NewHeader
  <2> QED BY <1>1, <1>3, <2>1 DEF CompleteInv, Fresh, Exists
<1>6. Resting'
  <2> SUFFICES ASSUME NEW s \in Sessions, Exists(s)',
                      \A q \in Calls : ~ (pc'[q] \in Executing /\ call'[q].ses = s)
               PROVE  Shows(s, sessions[s], {})'
    BY DEF Resting, S
  <2>1. CASE s = S(p)
    <3>1. NewHeader \in Header
        BY <1>4 DEF NewHeader, Header
    <3>2. ASSUME NEW t \in Tools
          PROVE  0 <= Cardinality(ShownIn(arrayHeap', NewHeader, t)) + 0
      <4> DEFINE n == Cardinality(ShownIn(arrayHeap', NewHeader, t))
      <4>1. n \in Nat
        <5>1. PICK g, h : g = arrayHeap' /\ h = NewHeader
            OBVIOUS
        <5>2. Cardinality(ShownIn(g, h, t)) \in Nat
            BY <3>1, <5>1, TimesCounted
        <5> QED BY <5>1, <5>2
      <4> HIDE DEF n
      <4>2. 0 <= n + 0
        BY <4>1
      <4> QED BY <4>2 DEF n
    <3>3. \A t \in Tools : executed'[s][t] = 0
        BY <1>1, <1>3, <2>1 DEF CompleteInv, Fresh
    <3> QED BY <1>3, <2>1, <3>2, <3>3 DEF Shows, Times, ShownIn
  <2>2. CASE s # S(p)
    <3>1. Exists(s) /\ sessions'[s] = sessions[s]
        BY <1>3, <2>2 DEF Exists
    <3>2. \A q \in Calls : ~ (pc[q] \in Executing /\ S(q) = s)
        BY <1>2, <2>2 DEF S
    <3>3. Shows(s, sessions[s], {})
        BY <3>1, <3>2 DEF CompleteInv, Resting
    <3>4. arrayHeap'[sessions[s].arr] = arrayHeap[sessions[s].arr]
        BY <1>4, <3>1 DEF TypeOK, CopiesValid, ValidHeader
    <3> QED BY <1>1, <3>1, <3>3, <3>4 DEF Shows, Times
  <2> QED BY <2>1, <2>2
<1>7. ShownTo(p)'
    BY <1>2 DEF ShownTo, Unrecorded, Admitted
<1>8. ASSUME NEW q \in Calls, q # p PROVE ShownTo(q)'
  <2>1. pc'[q] = pc[q] /\ call'[q] = call[q] /\ ShownTo(q) /\ S(q) \in Sessions
    BY <1>2, <1>8 DEF CompleteInv, TypeOK, VariablesTyped, Locals, S
  <2>2. ASSUME pc[q] \in Executing
        PROVE  /\ executed'[S(q)] = executed[S(q)] /\ sessions'[S(q)] = sessions[S(q)]
               /\ arrayHeap'[sessions[S(q)].arr] = arrayHeap[sessions[S(q)].arr]
               /\ pc[q] \in HoldsCopy => arrayHeap'[H(q).arr] = arrayHeap[H(q).arr]
    <3>1. sessions'[S(q)] = sessions[S(q)] /\ Exists(S(q))
        BY <1>2, <1>3, <1>8, <2>1, <2>2 DEF Executing, Admitted, SessionsThere, BeforeSession
    <3>2. arrayHeap'[sessions[S(q)].arr] = arrayHeap[sessions[S(q)].arr]
        BY <1>4, <2>1, <3>1 DEF TypeOK, CopiesValid, ValidHeader
    <3>3. pc[q] \in HoldsCopy => arrayHeap'[H(q).arr] = arrayHeap[H(q).arr]
        BY <1>4 DEF TypeOK, CopiesValid, ValidHeader
    <3> QED BY <1>1, <3>1, <3>2, <3>3
  <2> QED BY <2>1, <2>2, OtherShown
<1> QED BY <1>5, <1>6, <1>7, <1>8 DEF CompleteInv

(* RecordToolCall pays the entry that is owed. *)
LEMMA RecordComplete ==
    ASSUME TypeOK, OnePerSession, SessionsThere, CompleteInv, NEW p \in Calls, RecordTool(p)
    PROVE  CompleteInv'
<1>1. /\ pc[p] = "record" /\ pc' = [pc EXCEPT ![p] = "recordUpdate"] /\ executed' = executed
      /\ sessions' = sessions /\ arrayHeap' = RecordHeap(S(p), H(p), T(p))
      /\ call' = [call EXCEPT ![p] = [call[p] EXCEPT !.hdr = RecordHeader(H(p))]]
    BY DEF RecordTool, Keep, Set, At, Goto, hvars
<1>2. /\ pc'[p] = "recordUpdate"
      /\ \A q \in Calls : q # p => pc'[q] = pc[q] /\ call'[q] = call[q]
      /\ \A q \in Calls : q # p /\ pc[q] # "idle" => S(q) # S(p)
  <2>1. \A q \in Calls : q # p => call'[q] = call[q]
    BY <1>1 DEF TypeOK, VariablesTyped
  <2> QED BY <1>1, <2>1, OthersAway
<1>3. /\ S(p) \in Sessions /\ T(p) \in Tools /\ H(p) \in Header /\ ValidHeader(S(p), H(p))
      /\ S(p)' = S(p) /\ T(p)' = T(p) /\ H(p)' = RecordHeader(H(p))
      /\ executed \in [Sessions -> [Tools -> Nat]]
    BY <1>1 DEF TypeOK, VariablesTyped, CopiesValid, HoldsCopy, Locals, S, T, H
<1>4. PICK s, h, v, g, r : /\ s = S(p) /\ h = H(p) /\ v = T(p) /\ g = arrayHeap'
                           /\ r = RecordHeader(h)
    OBVIOUS
<1>5. /\ s \in Sessions /\ h \in Header /\ ValidHeader(s, h) /\ v \in Tools
      /\ g = RecordHeap(s, h, v)
    BY <1>1, <1>3, <1>4
<1>6. /\ r.len = h.len + 1 /\ g[r.arr].slots[h.len + 1] = v
      /\ \A k \in 1 .. h.len : g[r.arr].slots[k] = arrayHeap[h.arr].slots[k]
      /\ \A a \in 1 .. Len(arrayHeap) : a # h.arr => g[a] = arrayHeap[a]
    BY <1>4, <1>5, RecordAppends
<1>7. r \in Header
    BY <1>4, <1>5, RecordHeapTyped
<1>8. Fresh'
    BY <1>1 DEF CompleteInv, Fresh, Exists
<1>9. Resting'
  <2> SUFFICES ASSUME NEW z \in Sessions, Exists(z)',
                      \A q \in Calls : ~ (pc'[q] \in Executing /\ call'[q].ses = z)
               PROVE  Shows(z, sessions[z], {})'
    BY DEF Resting, S
  <2>1. z # s
    BY <1>2, <1>3, <1>4 DEF Executing, Admitted, S
  <2>2. Exists(z) /\ \A q \in Calls : ~ (pc[q] \in Executing /\ S(q) = z)
    BY <1>1, <1>2, <1>4, <2>1 DEF Exists, S
  <2>3. Shows(z, sessions[z], {})
    BY <2>2 DEF CompleteInv, Resting
  <2>4. ValidHeader(z, sessions[z])
    BY <2>2 DEF TypeOK, CopiesValid
  <2>5. g[sessions[z].arr] = arrayHeap[sessions[z].arr]
    BY <1>5, <1>6, <2>1, <2>4 DEF ValidHeader
  <2> QED BY <1>1, <1>4, <2>3, <2>5 DEF Shows, Times
<1>10. ShownTo(p)'
  <2>1. Shows(s, h, {v})
    BY <1>1, <1>4 DEF CompleteInv, ShownTo, Unrecorded, Admitted, HoldsCopy
  <2>2. ASSUME NEW t \in Tools
        PROVE  executed[s][t] <= Cardinality(ShownIn(g, r, t)) + 0
    <3> DEFINE K == ShownIn(arrayHeap, h, t)
               L == ShownIn(g, r, t)
               m == Cardinality(K)
               n == Cardinality(L)
    <3>0. executed[s][t] <= m + (IF t \in {v} THEN 1 ELSE 0) /\ executed[s][t] \in Nat
        BY <1>3, <1>5, <2>1 DEF Shows, Times, ShownIn
    <3>1. IsFiniteSet(K) /\ m \in Nat /\ IsFiniteSet(L) /\ n \in Nat
      <4>1. PICK f : f = arrayHeap
        OBVIOUS
      <4>2. IsFiniteSet(ShownIn(f, h, t)) /\ Cardinality(ShownIn(f, h, t)) \in Nat
        BY <1>5, TimesCounted
      <4>3. IsFiniteSet(L) /\ n \in Nat
        BY <1>7, TimesCounted
      <4> QED BY <4>1, <4>2, <4>3
    <3>2. h.len \in Nat
        BY <1>5 DEF Header
    <3>3. K \subseteq L /\ h.len + 1 \notin K
        BY <1>6, <3>2 DEF ShownIn
    <3>4. m + (IF t \in {v} THEN 1 ELSE 0) <= n
      <4>1. CASE t = v
        <5>1. K \cup {h.len + 1} \subseteq L
            BY <1>6, <3>2, <3>3, <4>1 DEF ShownIn
        <5>2. Cardinality(K \cup {h.len + 1}) <= n
            BY <3>1, <5>1, SmallerSet
        <5>3. Cardinality(K \cup {h.len + 1}) = m + 1
            BY <3>1, <3>3, FS_AddElement
        <5> HIDE DEF m, n, K, L
        <5>4. m + 1 <= n
            BY <5>2, <5>3
        <5> QED BY <4>1, <5>4
      <4>2. CASE t # v
        <5>1. m <= n /\ m \in Nat
            BY <3>1, <3>3, SmallerSet
        <5> HIDE DEF m, n
        <5>2. m + 0 <= n
            BY <5>1
        <5> QED BY <4>2, <5>2
      <4> QED BY <4>1, <4>2
    <3> HIDE DEF m, n
    <3>5. executed[s][t] <= n + 0
        BY <3>0, <3>1, <3>4
    <3> QED BY <3>5 DEF n
  <2>3. Shows(S(p), H(p), {})'
    BY <1>1, <1>3, <1>4, <2>2 DEF Shows, Times, ShownIn
  <2> QED BY <1>2, <2>3 DEF ShownTo, Unrecorded
<1>11. ASSUME NEW q \in Calls, q # p PROVE ShownTo(q)'
  <2>1. pc'[q] = pc[q] /\ call'[q] = call[q] /\ ShownTo(q) /\ S(q) \in Sessions
    BY <1>2, <1>11 DEF CompleteInv, TypeOK, VariablesTyped, Locals, S
  <2>2. ASSUME pc[q] \in Executing
        PROVE  /\ executed'[S(q)] = executed[S(q)] /\ sessions'[S(q)] = sessions[S(q)]
               /\ arrayHeap'[sessions[S(q)].arr] = arrayHeap[sessions[S(q)].arr]
               /\ pc[q] \in HoldsCopy => arrayHeap'[H(q).arr] = arrayHeap[H(q).arr]
    <3>1. S(q) # s /\ Exists(S(q))
        BY <1>2, <1>4, <1>11, <2>2 DEF Executing, Admitted, SessionsThere, BeforeSession
    <3>2. g[sessions[S(q)].arr] = arrayHeap[sessions[S(q)].arr]
        BY <1>5, <1>6, <2>1, <3>1 DEF TypeOK, CopiesValid, ValidHeader
    <3>3. pc[q] \in HoldsCopy => g[H(q).arr] = arrayHeap[H(q).arr]
        BY <1>5, <1>6, <3>1 DEF TypeOK, CopiesValid, ValidHeader
    <3> QED BY <1>1, <1>4, <3>2, <3>3
  <2> QED BY <2>1, <2>2, OtherShown
<1> QED BY <1>8, <1>9, <1>10, <1>11 DEF CompleteInv

(* Steps up to the handler. *)
LEMMA BeforeHandlerComplete ==
    ASSUME TypeOK, OnePerSession, CompleteInv, NEW p \in Calls,
           \/ Begin(p) \/ WrapGet(p) \/ CreateGet(p) \/ CreateFails(p)
           \/ ReadToken(p) \/ AdmitFree(p) \/ RejectNoSession(p) \/ StartValidation(p)
           \/ ValidateGet(p) \/ HistoryHit(p) \/ HistoryMiss(p) \/ CheckTokens(p)
           \/ HandlerFails(p)
    PROVE  CompleteInv'
<1>1. PICK x, c : pc' = [pc EXCEPT ![p] = x] /\ call' = [call EXCEPT ![p] = c]
  <2>1. CASE Begin(p)
    BY <2>1 DEF Begin, Goto, Set
  <2>2. CASE Step(p)
    BY <2>2, StepShape
  <2> QED BY <2>1, <2>2 DEF Step
<1>2. pc'[p] = x
    BY <1>1 DEF TypeOK, VariablesTyped
<1>3. pc[p] \notin Executing /\ pc'[p] \notin Executing
  <2> USE DEF Executing, Admitted
  <2>0. \A y : Goto(p, y) => pc'[p] = y
    BY DEF Goto, TypeOK, VariablesTyped
  <2>1. RuleFails(p) => pc'[p] \in {"history", "idle"}
    BY <2>0 DEF RuleFails, Return
  <2> QED BY <2>0, <2>1, ZenonT(60) DEF Begin, WrapGet, CreateGet, CreateFails, ReadToken,
       AdmitFree, RejectNoSession, StartValidation, ValidateGet, HistoryHit, HistoryMiss,
       CheckTokens, HandlerFails, At, Return
<1>4. sessions' = sessions /\ arrayHeap' = arrayHeap /\ executed' = executed
    BY DEF Begin, WrapGet, CreateGet, CreateFails, ReadToken, AdmitFree, RejectNoSession,
       StartValidation, ValidateGet, HistoryHit, HistoryMiss, CheckTokens, HandlerFails,
       svars, hvars
<1> QED BY <1>1, <1>2, <1>3, <1>4, MoveComplete

(* The steps after the handler that leave the stored sessions alone. *)
LEMMA AfterHandlerComplete ==
    ASSUME TypeOK, OnePerSession, SessionsThere, CompleteInv, NEW p \in Calls,
           \/ ConsumeFind(p) \/ ConsumeRemove(p) \/ ConsumeTooLate(p) \/ ConsumeGet(p)
           \/ ConsumeTruncate(p) \/ IssueStore(p) \/ GenerateTokenFails(p) \/ IssueGet(p)
           \/ IssueAdd(p) \/ RecordGet(p)
    PROVE  CompleteInv'
<1> USE DEF Goto, At, Set, Unrecorded, Admitted, HoldsCopy
<1>0. /\ call = [call EXCEPT ![p] = call[p]] /\ call[p] \in Locals
      /\ S(p) = call[p].ses /\ T(p) = call[p].tool /\ H(p) = call[p].hdr
    BY DEF TypeOK, VariablesTyped, S, T, H
<1>1. sessions' = sessions /\ arrayHeap' = arrayHeap /\ executed' = executed
    BY DEF ConsumeFind, ConsumeRemove, ConsumeTooLate, ConsumeGet, ConsumeTruncate,
       IssueStore, GenerateTokenFails, IssueGet, IssueAdd, RecordGet, svars, hvars
<1>2. CASE ConsumeFind(p)
  <2>1. CASE \E i, v : Set(p, [call[p] EXCEPT !.rule = i, !.tok = v]) /\ Goto(p, "remove")
    <3>1. PICK i, v : call' = [call EXCEPT ![p] = [call[p] EXCEPT !.rule = i, !.tok = v]]
        BY <2>1
    <3>2. /\ [call[p] EXCEPT !.rule = i, !.tok = v].ses = S(p)
          /\ [call[p] EXCEPT !.rule = i, !.tok = v].tool = T(p)
        BY <1>0 DEF Locals
    <3> QED BY <1>1, <1>2, <2>1, <3>1, <3>2, MoveComplete DEF ConsumeFind
  <2>2. CASE Goto(p, "issue") /\ UNCHANGED call
    BY <1>0, <1>1, <1>2, <2>2, MoveComplete DEF ConsumeFind
  <2> QED BY <1>2, <2>1, <2>2 DEF ConsumeFind
<1>3. CASE ConsumeRemove(p) \/ ConsumeTooLate(p) \/ GenerateTokenFails(p)
    BY <1>0, <1>1, <1>3, MoveComplete DEF ConsumeRemove, ConsumeTooLate, GenerateTokenFails
<1>4. CASE ConsumeTruncate(p) \/ IssueAdd(p)
  <2>1. pc[p] \in Unrecorded \cap HoldsCopy /\ call' = [call EXCEPT ![p] = call[p]]
    BY <1>0, <1>4 DEF ConsumeTruncate, IssueAdd
  <2>2. PICK x \in {"consumeUpdate", "issue", "issueUpdate"} : pc' = [pc EXCEPT ![p] = x]
    BY <1>4 DEF ConsumeTruncate, IssueAdd
  <2>3. x \in Unrecorded
    OBVIOUS
  <2> QED BY ONLY <1>0, <1>1, <2>1, <2>2, <2>3, MoveComplete, TypeOK, OnePerSession, CompleteInv,
          p \in Calls
<1>5. CASE ConsumeGet(p) \/ IssueGet(p) \/ RecordGet(p)
  <2>1. Exists(S(p))
    BY <1>5 DEF ConsumeGet, IssueGet, RecordGet, SessionsThere, BeforeSession
  <2>2. PICK x \in {"truncate", "add", "record"} :
            /\ pc' = [pc EXCEPT ![p] = x] /\ Keep(sessions[S(p)], p)
    BY <1>5, <2>1 DEF ConsumeGet, IssueGet, RecordGet
  <2>3. pc[p] \in Unrecorded
    BY <1>5 DEF ConsumeGet, IssueGet, RecordGet
  <2> DEFINE c == [call[p] EXCEPT !.hdr = sessions[S(p)]]
  <2>4. c.ses = S(p) /\ c.tool = T(p) /\ c.hdr = sessions[S(p)]
    BY <1>0 DEF Locals
  <2>5. call' = [call EXCEPT ![p] = c]
    BY <2>2 DEF Keep
  <2> HIDE DEF c
  <2> QED BY <1>1, <2>2, <2>3, <2>4, <2>5, MoveComplete
<1>6. CASE IssueStore(p)
  <2> DEFINE c == [call[p] EXCEPT !.tok = nextToken]
  <2>1. c.ses = S(p) /\ c.tool = T(p) /\ call' = [call EXCEPT ![p] = c]
    BY <1>0, <1>6 DEF Locals, IssueStore
  <2> HIDE DEF c
  <2> QED BY <1>1, <1>6, <2>1, MoveComplete DEF IssueStore
<1> QED BY <1>2, <1>3, <1>4, <1>5, <1>6

(* Every step of the call. *)
LEMMA StepComplete ==
    ASSUME TypeOK, OnePerSession, SessionsThere, CompleteInv, NEW p \in Calls, Begin(p) \/ Step(p)
    PROVE  CompleteInv'
<1>0. call = [call EXCEPT ![p] = call[p]]
    BY DEF TypeOK, VariablesTyped
<1>1. CASE ConsumeUpdate(p) \/ IssueUpdate(p)
  <2>1. /\ Update(S(p), H(p)) /\ executed' = executed /\ call' = [call EXCEPT ![p] = call[p]]
        /\ pc[p] \in Unrecorded \cap HoldsCopy
        /\ \E x \in Unrecorded \ HoldsCopy : pc' = [pc EXCEPT ![p] = x]
    BY <1>0, <1>1 DEF ConsumeUpdate, IssueUpdate, At, Goto, hvars, Unrecorded, Admitted, HoldsCopy
  <2> QED BY <2>1, UpdateComplete DEF S, T
<1>2. CASE RecordUpdate(p)
    BY <1>2, UpdateComplete DEF RecordUpdate, At, Return, Goto, Set, hvars
<1> QED BY <1>1, <1>2, BeforeHandlerComplete, AfterHandlerComplete, CreateComplete,
       RecordComplete, HandlerComplete DEF Step

(***************************************************************************)
(* The session's tokens mirror the store's.                                *)
(* Between a change of the token store and the change of the session's map *)
(* that follows it, the mirror is one token off, in a way the call's step  *)
(* determines.  Tokens of one tool have one lifetime, so they expire in    *)
(* the order in which they were issued: the last valid token is the last   *)
(* one, and the one that is removed from the store is the one that is cut  *)
(* off the session.                                                        *)
(***************************************************************************)
Values(q) == [i \in DOMAIN q |-> q[i].value]
RisingTo(q, n) ==
    \A i \in DOMAIN q :
        /\ q[i].expires <= n
        /\ \A j \in DOMAIN q : i <= j => q[i].expires <= q[j].expires

CutAt == {"consumeGet", "truncate"}
AddAt == {"issueGet", "add"}
Cutting(p, s, t) == pc[p] \in CutAt /\ S(p) = s /\ Required(p) = t
Adding(p, s, t) == pc[p] \in AddAt /\ S(p) = s /\ T(p) = t
Mirrors(s, t, m, v) ==
    /\ (\A p \in Calls : ~Cutting(p, s, t) /\ ~Adding(p, s, t)) => m = v
    /\ \A p \in Calls : Cutting(p, s, t) => m # <<>> /\ v = SubSeq(m, 1, Len(m) - 1)
    /\ \A p \in Calls : Adding(p, s, t) => v = Append(m, call[p].tok)

Mirrored ==
    \A s \in Sessions, t \in Tools :
        IF Exists(s) THEN Mirrors(s, t, TokensOf(sessions[s], t), Values(tokens[s][t]))
        ELSE tokens[s][t] = <<>>
Rising == \A s \in Sessions, t \in Tools : RisingTo(tokens[s][t], now + TokenExpiry(rules, t))
Separate ==
    \A s1, s2 \in Sessions :
        Exists(s1) /\ Exists(s2) /\ s1 # s2 => sessions[s1].toks # sessions[s2].toks
AimsAtLast(q, v) == q # <<>> /\ q[Len(q)].value = v
Aimed == \A p \in Calls : pc[p] = "remove" => AimsAtLast(tokens[S(p)][Required(p)], call[p].tok)
MirrorInv == Mirrored /\ Rising /\ Separate /\ Aimed

(* The sequence of the values of a slice of tokens. *)
LEMMA ValuesIs ==
    ASSUME NEW q \in Seq(Entry)
    PROVE  /\ Values(q) \in Seq(Nat) /\ Len(Values(q)) = Len(q)
           /\ \A i \in 1 .. Len(q) : Values(q)[i] = q[i].value
<1>1. Len(q) \in Nat /\ DOMAIN q = 1 .. Len(q) /\ \A i \in 1 .. Len(q) : q[i] \in Entry
    OBVIOUS
<1>2. Values(q) = [i \in 1 .. Len(q) |-> q[i].value]
    BY <1>1 DEF Values
<1>3. \A i \in 1 .. Len(q) : q[i].value \in Nat
    BY <1>1 DEF Entry
<1>4. Values(q) \in [1 .. Len(q) -> Nat]
    BY <1>2, <1>3
<1>5. Values(q) \in Seq(Nat)
    BY <1>1, <1>4
<1>6. Len(Values(q)) = Len(q)
    BY <1>1, <1>4, <1>5
<1> QED BY <1>2, <1>5, <1>6

(* Store appends a token that expires after all the others. *)
LEMMA StoreRises ==
    ASSUME NEW q \in Seq(Entry), NEW e \in Entry, RisingTo(q, e.expires)
    PROVE  /\ RisingTo(Append(q, e), e.expires)
           /\ Values(Append(q, e)) = Append(Values(q), e.value)
<1>1. /\ Append(q, e) \in Seq(Entry) /\ Len(Append(q, e)) = Len(q) + 1 /\ Len(q) \in Nat
      /\ \A i \in 1 .. Len(q) : Append(q, e)[i] = q[i]
      /\ Append(q, e)[Len(q) + 1] = e
    OBVIOUS
<1>2. e.expires \in Nat /\ e.value \in Nat /\ \A i \in 1 .. Len(q) : q[i].expires \in Nat
  <2>1. \A i \in 1 .. Len(q) : q[i] \in Entry
    OBVIOUS
  <2> QED BY <2>1 DEF Entry
<1>3. PICK a : a = Append(q, e)
    OBVIOUS
<1>4. /\ \A i \in 1 .. Len(q) + 1 : i \in 1 .. Len(q) \/ i = Len(q) + 1
      /\ DOMAIN a = 1 .. Len(q) + 1 /\ DOMAIN q = 1 .. Len(q)
    BY <1>1, <1>3
<1>5. RisingTo(a, e.expires)
  <2> SUFFICES ASSUME NEW i \in 1 .. Len(q) + 1, NEW j \in 1 .. Len(q) + 1
               PROVE  a[i].expires <= e.expires /\ (i <= j => a[i].expires <= a[j].expires)
    BY <1>4 DEF RisingTo
  <2>1. a[i].expires <= e.expires
    BY <1>1, <1>2, <1>3, <1>4 DEF RisingTo
  <2>2. CASE j = Len(q) + 1
    BY <1>1, <1>3, <2>1, <2>2
  <2>3. CASE j \in 1 .. Len(q)
    BY <1>1, <1>3, <1>4, <2>1, <2>3 DEF RisingTo
  <2> QED BY <1>4, <2>1, <2>2, <2>3
<1>6. Values(a) = Append(Values(q), e.value)
  <2>1. /\ Values(a) \in Seq(Nat) /\ Len(Values(a)) = Len(q) + 1
        /\ \A i \in 1 .. Len(q) + 1 : Values(a)[i] = a[i].value
    BY <1>1, <1>3, ValuesIs
  <2>2. /\ Values(q) \in Seq(Nat) /\ Len(Values(q)) = Len(q)
        /\ \A i \in 1 .. Len(q) : Values(q)[i] = q[i].value
    BY ValuesIs
  <2>3. PICK v, w : v = Values(a) /\ w = Values(q)
    OBVIOUS
  <2>4. /\ Append(w, e.value) \in Seq(Nat) /\ Len(Append(w, e.value)) = Len(q) + 1
        /\ \A i \in 1 .. Len(q) : Append(w, e.value)[i] = w[i]
        /\ Append(w, e.value)[Len(q) + 1] = e.value
    BY <1>2, <2>2, <2>3
  <2>5. \A i \in 1 .. Len(q) + 1 : v[i] = Append(w, e.value)[i]
    BY <1>1, <1>3, <1>4, <2>1, <2>2, <2>3, <2>4
  <2>6. v \in Seq(Nat) /\ Len(v) = Len(q) + 1
    BY <2>1, <2>3
  <2>7. v = Append(w, e.value)
    BY <2>4, <2>5, <2>6, SeqEqual
  <2> QED BY <2>3, <2>7
<1> QED BY <1>3, <1>5, <1>6

(* RemoveToken of the last token cuts it off. *)
LEMMA CutRises ==
    ASSUME NEW q \in Seq(Entry), q # <<>>, NEW n, RisingTo(q, n)
    PROVE  /\ RisingTo(RemoveAt(q, Len(q)), n)
           /\ Values(q) # <<>>
           /\ Values(RemoveAt(q, Len(q))) = SubSeq(Values(q), 1, Len(Values(q)) - 1)
<1>1. Len(q) \in Nat \ {0} /\ Len(q) \in 1 .. Len(q)
    OBVIOUS
<1>2. PICK r : r = RemoveAt(q, Len(q))
    OBVIOUS
<1>3. /\ r \in Seq(Entry) /\ Len(r) = Len(q) - 1
      /\ \A i \in 1 .. Len(q) - 1 : r[i] = q[IF i < Len(q) THEN i ELSE i + 1]
    BY <1>1, <1>2, RemoveAtTyped
<1>4. \A i \in 1 .. Len(q) - 1 : i \in 1 .. Len(q) /\ r[i] = q[i]
    BY <1>1, <1>3
<1>5. RisingTo(r, n)
  <2>1. DOMAIN r = 1 .. Len(q) - 1 /\ DOMAIN q = 1 .. Len(q)
    BY <1>3
  <2> QED BY <1>4, <2>1 DEF RisingTo
<1>6. PICK v, w : v = Values(r) /\ w = Values(q)
    OBVIOUS
<1>7. /\ w \in Seq(Nat) /\ Len(w) = Len(q) /\ \A i \in 1 .. Len(q) : w[i] = q[i].value
    BY <1>6, ValuesIs
<1>8. /\ v \in Seq(Nat) /\ Len(v) = Len(q) - 1
      /\ \A i \in 1 .. Len(q) - 1 : v[i] = r[i].value
    BY <1>3, <1>6, ValuesIs
<1>9. w # <<>>
    BY <1>1, <1>7
<1>10. v = SubSeq(w, 1, Len(w) - 1)
  <2>1. 1 \in 1 .. Len(w) + 1 /\ Len(w) - 1 \in 0 .. Len(w)
    BY <1>1, <1>7
  <2>2. /\ SubSeq(w, 1, Len(w) - 1) \in Seq(Nat)
        /\ Len(SubSeq(w, 1, Len(w) - 1)) = IF 1 <= Len(w) - 1 THEN Len(w) - 1 - 1 + 1 ELSE 0
        /\ \A i \in 1 .. Len(w) - 1 - 1 + 1 : SubSeq(w, 1, Len(w) - 1)[i] = w[1 + i - 1]
    BY ONLY <1>7, <2>1, SliceIs
  <2>3. PICK z : z = SubSeq(w, 1, Len(w) - 1)
    OBVIOUS
  <2>4. Len(z) = Len(q) - 1 /\ z \in Seq(Nat)
    BY <1>1, <1>7, <2>2, <2>3
  <2>5. \A i \in 1 .. Len(q) - 1 : z[i] = w[i]
    BY <1>1, <1>7, <2>2, <2>3
  <2>6. \A i \in 1 .. Len(q) - 1 : v[i] = z[i]
    BY <1>4, <1>7, <1>8, <2>5
  <2>7. v = z
    BY <1>8, <2>4, <2>6, SeqEqual
  <2> QED BY <2>3, <2>7
<1> QED BY <1>2, <1>5, <1>6, <1>9, <1>10

(* A step of a call that neither begins nor ends a change of the tokens t  *)
(* of session s leaves their mirror in order.                              *)
LEMMA FrameMirrors ==
    ASSUME TypeOK, rules' = rules, NEW p \in Calls, NEW x, NEW c,
           pc' = [pc EXCEPT ![p] = x], call' = [call EXCEPT ![p] = c],
           NEW s, NEW t, NEW m, NEW v, Mirrors(s, t, m, v),
           Cutting(p, s, t)' <=> Cutting(p, s, t), Adding(p, s, t)' <=> Adding(p, s, t),
           Adding(p, s, t) => c.tok = call[p].tok
    PROVE  Mirrors(s, t, m, v)'
<1>1. pc'[p] = x /\ call'[p] = c
    BY DEF TypeOK, VariablesTyped
<1>2. ASSUME NEW q \in Calls
      PROVE  /\ Cutting(q, s, t)' <=> Cutting(q, s, t)
             /\ Adding(q, s, t)' <=> Adding(q, s, t)
             /\ Adding(q, s, t) => call'[q].tok = call[q].tok
  <2>1. CASE q = p
    BY <1>1, <2>1
  <2>2. CASE q # p
    <3>1. pc'[q] = pc[q] /\ call'[q] = call[q]
        BY <2>2 DEF TypeOK, VariablesTyped
    <3> QED BY <3>1 DEF Cutting, Adding, S, T, Required
  <2> QED BY <2>1, <2>2
<1>3. (\A q \in Calls : ~Cutting(q, s, t)' /\ ~Adding(q, s, t)') => m = v
  <2> SUFFICES ASSUME m # v
               PROVE  \E q \in Calls : Cutting(q, s, t)' \/ Adding(q, s, t)'
    OBVIOUS
  <2>1. PICK q \in Calls : Cutting(q, s, t) \/ Adding(q, s, t)
    BY DEF Mirrors
  <2>2. Cutting(q, s, t)' \/ Adding(q, s, t)'
    BY <1>2, <2>1
  <2> QED BY <2>2 DEF Cutting, Adding, S, T, Required
<1>4. ASSUME NEW q \in Calls
      PROVE  /\ Cutting(q, s, t)' => m # <<>> /\ v = SubSeq(m, 1, Len(m) - 1)
             /\ Adding(q, s, t)' => v = Append(m, call'[q].tok)
  <2>1. /\ Cutting(q, s, t)' <=> Cutting(q, s, t)
        /\ Adding(q, s, t)' <=> Adding(q, s, t)
        /\ Adding(q, s, t) => call'[q].tok = call[q].tok
    BY <1>2
  <2>2. /\ Cutting(q, s, t) => m # <<>> /\ v = SubSeq(m, 1, Len(m) - 1)
        /\ Adding(q, s, t) => v = Append(m, call[q].tok)
    BY DEF Mirrors
  <2> QED BY <2>1, <2>2
<1> QED BY <1>3, <1>4 DEF Mirrors

(* In its session a call is alone: the mirror is as far off as it owes. *)
LEMMA AloneMirrors ==
    ASSUME TypeOK, OnePerSession, NEW p \in Calls, pc[p] # "idle", NEW x, NEW c,
           pc' = [pc EXCEPT ![p] = x], call' = [call EXCEPT ![p] = c],
           NEW s, s = S(p), NEW t, NEW m, NEW v,
           ~Cutting(p, s, t)' /\ ~Adding(p, s, t)' => m = v,
           Cutting(p, s, t)' => m # <<>> /\ v = SubSeq(m, 1, Len(m) - 1),
           Adding(p, s, t)' => v = Append(m, c.tok)
    PROVE  Mirrors(s, t, m, v)'
<1>1. pc'[p] = x /\ call'[p] = c
    BY DEF TypeOK, VariablesTyped
<1>2. ASSUME NEW q \in Calls, q # p PROVE ~Cutting(q, s, t)' /\ ~Adding(q, s, t)'
  <2>1. pc'[q] = pc[q] /\ call'[q] = call[q] /\ (pc[q] # "idle" => call[q].ses # s)
    BY <1>2 DEF TypeOK, VariablesTyped, OnePerSession, S
  <2> QED BY <2>1 DEF Cutting, Adding, CutAt, AddAt, S
<1>3. (\A q \in Calls : ~Cutting(q, s, t)' /\ ~Adding(q, s, t)') => m = v
    BY DEF Cutting, Adding, S, T, Required
<1>4. ASSUME NEW q \in Calls
      PROVE  /\ Cutting(q, s, t)' => m # <<>> /\ v = SubSeq(m, 1, Len(m) - 1)
             /\ Adding(q, s, t)' => v = Append(m, call'[q].tok)
    BY <1>1, <1>2
<1> QED BY <1>3, <1>4 DEF Mirrors

(* Such a step, with the stores as they are, keeps the whole invariant. *)
LEMMA MoveMirrors ==
    ASSUME TypeOK, OnePerSession, MirrorInv, rules' = rules, tokens' = tokens, now' = now,
           mapHeap' = mapHeap,
           \A s \in Sessions : /\ Exists(s)' <=> Exists(s)
                               /\ sessions'[s].toks = sessions[s].toks,
           NEW p \in Calls, NEW x, NEW c,
           pc' = [pc EXCEPT ![p] = x], call' = [call EXCEPT ![p] = c],
           \/ x \notin CutAt \cup AddAt /\ pc[p] \notin CutAt \cup AddAt
           \/ x \in CutAt /\ pc[p] \in CutAt /\ c.ses = S(p) /\ c.rule = call[p].rule
           \/ /\ x \in AddAt /\ pc[p] \in AddAt
              /\ c.ses = S(p) /\ c.tool = T(p) /\ c.tok = call[p].tok,
           x = "remove" => AimsAtLast(tokens[c.ses][rules[c.rule].prereq], c.tok)
    PROVE  MirrorInv'
<1>1. /\ pc'[p] = x /\ call'[p] = c
      /\ \A q \in Calls : q # p => pc'[q] = pc[q] /\ call'[q] = call[q]
    BY DEF TypeOK, VariablesTyped
<1>2. Rising' /\ Separate'
    BY DEF MirrorInv, Rising, Separate
<1>3. Aimed'
  <2>1. ASSUME NEW q \in Calls, pc'[q] = "remove"
        PROVE  AimsAtLast(tokens'[call'[q].ses][rules'[call'[q].rule].prereq], call'[q].tok)
    <3>1. CASE q = p
        BY <1>1, <2>1, <3>1
    <3>2. CASE q # p
      <4>1. pc[q] = "remove" /\ call'[q] = call[q]
        BY <1>1, <2>1, <3>2
      <4>2. AimsAtLast(tokens[call[q].ses][rules[call[q].rule].prereq], call[q].tok)
        BY <4>1 DEF MirrorInv, Aimed, S, Required
      <4> QED BY <4>1, <4>2
    <3> QED BY <3>1, <3>2
  <2> QED BY <2>1 DEF Aimed, AimsAtLast, S, Required
<1>4. CutAt \cap AddAt = {}
    BY DEF CutAt, AddAt
<1>5. Mirrored'
  <2> SUFFICES ASSUME NEW s \in Sessions, NEW t \in Tools
               PROVE  IF Exists(s)'
                      THEN Mirrors(s, t, TokensOf(sessions[s], t), Values(tokens[s][t]))'
                      ELSE tokens'[s][t] = <<>>
    BY DEF Mirrored
  <2>1. CASE Exists(s)
    <3>1. PICK m, v : m = TokensOf(sessions[s], t) /\ v = Values(tokens[s][t])
        OBVIOUS
    <3>2. Mirrors(s, t, m, v)
        BY <2>1, <3>1 DEF MirrorInv, Mirrored
    <3>3. /\ Cutting(p, s, t)' <=> Cutting(p, s, t)
          /\ Adding(p, s, t)' <=> Adding(p, s, t)
          /\ Adding(p, s, t) => c.tok = call[p].tok
        BY <1>1, <1>4 DEF Cutting, Adding, S, T, Required
    <3>4. Mirrors(s, t, m, v)'
        BY <3>2, <3>3, FrameMirrors
    <3>5. TokensOf(sessions[s], t)' = m /\ Values(tokens[s][t])' = v
        BY <3>1 DEF TokensOf, Values
    <3> QED BY <2>1, <3>4, <3>5 DEF Mirrors
  <2>2. CASE ~Exists(s)
    BY <2>2 DEF MirrorInv, Mirrored
  <2> QED BY <2>1, <2>2
<1> QED BY <1>2, <1>3, <1>5 DEF MirrorInv

(* The last valid token is the last token. *)
LEMMA LastIsValid ==
    ASSUME TypeOK, Rising, NEW s \in Sessions, NEW t \in Tools, ValidTokens(s, t) # {}
    PROVE  AimsAtLast(tokens[s][t], LastValidToken(s, t))
<1>1. PICK q \in Seq(Entry) : q = tokens[s][t]
    BY DEF TypeOK, VariablesTyped
<1>2. PICK n \in Nat : n = now
    BY DEF TypeOK, VariablesTyped
<1>3. PICK A : A = ValidTokens(s, t)
    OBVIOUS
<1>4. A = {i \in 1 .. Len(q) : n < q[i].expires} /\ A # {} /\ Len(q) \in Nat
    BY <1>1, <1>2, <1>3 DEF ValidTokens
<1>5. \A i \in 1 .. Len(q) : q[i].expires \in Nat
  <2>1. \A i \in 1 .. Len(q) : q[i] \in Entry
    OBVIOUS
  <2> QED BY <2>1 DEF Entry
<1>6. \A i, j \in 1 .. Len(q) : i <= j => q[i].expires <= q[j].expires
    BY <1>1 DEF Rising, RisingTo
<1>7. Len(q) \in A
  <2>1. PICK i \in A : TRUE
    BY <1>4
  <2>2. i \in 1 .. Len(q) /\ n < q[i].expires
    BY <1>4, <2>1
  <2>3. Len(q) \in 1 .. Len(q) /\ i <= Len(q)
    BY <1>4, <2>2
  <2>4. n < q[Len(q)].expires
    BY <1>5, <1>6, <2>2, <2>3
  <2> QED BY <1>4, <2>3, <2>4
<1>8. \A j \in A : j <= Len(q)
    BY <1>4
<1>9. (CHOOSE i \in A : \A j \in A : j <= i) = Len(q)
  <2>1. \A i \in A : (\A j \in A : j <= i) => i = Len(q)
    BY <1>4, <1>7, <1>8
  <2> QED BY <1>7, <1>8, <2>1
<1>10. LastValidToken(s, t) = q[Len(q)].value
    BY <1>1, <1>3, <1>9 DEF LastValidToken
<1>11. q # <<>>
    BY <1>4, <1>7
<1> QED BY <1>1, <1>10, <1>11 DEF AimsAtLast

(* A step that changes the tokens of one tool in the store, and makes its  *)
(* call the one that owes the same change to the session.                  *)
LEMMA StoreChanges ==
    ASSUME TypeOK, OnePerSession, SessionsThere, MirrorInv, rules' = rules, now' = now,
           mapHeap' = mapHeap, sessions' = sessions,
           NEW p \in Calls, NEW x, NEW c, pc[p] \notin CutAt \cup AddAt \cup BeforeSession,
           pc' = [pc EXCEPT ![p] = x], call' = [call EXCEPT ![p] = c], x # "remove",
           NEW s \in Sessions, NEW t \in Tools, s = S(p), NEW q \in Seq(Entry),
           tokens' = [tokens EXCEPT ![s] = [tokens[s] EXCEPT ![t] = q]],
           RisingTo(q, now + TokenExpiry(rules, t)), c.ses = s,
           \/ /\ x \in CutAt /\ rules[c.rule].prereq = t
              /\ Values(tokens[s][t]) # <<>>
              /\ Values(q) = SubSeq(Values(tokens[s][t]), 1, Len(Values(tokens[s][t])) - 1)
           \/ x \in AddAt /\ c.tool = t /\ Values(q) = Append(Values(tokens[s][t]), c.tok)
    PROVE  MirrorInv'
<1>1. /\ pc'[p] = x /\ call'[p] = c /\ pc[p] # "idle"
      /\ \A z \in Calls : z # p => pc'[z] = pc[z] /\ call'[z] = call[z]
      /\ \A z \in Calls : z # p /\ pc[z] # "idle" => call[z].ses # s
    BY DEF TypeOK, VariablesTyped, OnePerSession, BeforeSession, S
<1>2. /\ tokens'[s][t] = q /\ \A u \in Sessions : u # s => tokens'[u] = tokens[u]
      /\ \A u \in Sessions, w \in Tools : u # s \/ w # t => tokens'[u][w] = tokens[u][w]
    BY DEF TypeOK, VariablesTyped
<1>3. CutAt \cap AddAt = {}
    BY DEF CutAt, AddAt
<1>4. Separate' /\ \A u \in Sessions : Exists(u)' <=> Exists(u)
    BY DEF MirrorInv, Separate, Exists
<1>5. Aimed'
  <2>1. \A z \in Calls : call[z].ses \in Sessions
    BY DEF TypeOK, VariablesTyped, Locals
  <2>2. ASSUME NEW z \in Calls, pc'[z] = "remove"
        PROVE  AimsAtLast(tokens'[call'[z].ses][rules'[call'[z].rule].prereq], call'[z].tok)
    <3>1. z # p
        BY <1>1, <2>2
    <3>2. pc[z] = "remove" /\ call'[z] = call[z] /\ tokens'[call[z].ses] = tokens[call[z].ses]
        BY <1>1, <1>2, <2>1, <2>2, <3>1
    <3>3. AimsAtLast(tokens[call[z].ses][rules[call[z].rule].prereq], call[z].tok)
        BY <3>2 DEF MirrorInv, Aimed, S, Required
    <3> QED BY <3>2, <3>3
  <2> QED BY <2>2 DEF Aimed, AimsAtLast, S, Required
<1>6. Rising'
    BY <1>2 DEF MirrorInv, Rising
<1>7. \A u, w : ~Cutting(p, u, w) /\ ~Adding(p, u, w)
    BY DEF Cutting, Adding
<1>8. Exists(s)
    BY DEF SessionsThere
<1>9. Mirrored'
  <2> SUFFICES ASSUME NEW u \in Sessions, NEW w \in Tools
               PROVE  IF Exists(u)'
                      THEN Mirrors(u, w, TokensOf(sessions[u], w), Values(tokens[u][w]))'
                      ELSE tokens'[u][w] = <<>>
    BY DEF Mirrored
  <2>1. CASE ~Exists(u)
    <3>1. u # s /\ tokens[u][w] = <<>>
        BY <1>8, <2>1 DEF MirrorInv, Mirrored
    <3> QED BY <1>2, <1>4, <2>1, <3>1
  <2>2. CASE Exists(u)
    <3>1. PICK m, v, v2 : /\ m = TokensOf(sessions[u], w) /\ v = Values(tokens[u][w])
                          /\ v2 = Values(tokens'[u][w])
        OBVIOUS
    <3>2. Mirrors(u, w, m, v)
        BY <2>2, <3>1 DEF MirrorInv, Mirrored
    <3>3. Mirrors(u, w, m, v2)'
      <4>1. CASE u = s /\ w = t
        <5>1. v2 = Values(q) /\ v = Values(tokens[s][t])
            BY <1>2, <3>1, <4>1
        <5>2. m = v
          <6>1. \A z \in Calls : ~Cutting(z, u, w) /\ ~Adding(z, u, w)
            BY <1>1, <1>7, <4>1 DEF Cutting, Adding, CutAt, AddAt, S
          <6> QED BY <3>2, <6>1 DEF Mirrors
        <5>3. /\ Cutting(p, u, w)' <=> x \in CutAt
              /\ Adding(p, u, w)' <=> x \in AddAt
            BY <1>1, <1>3, <4>1 DEF Cutting, Adding, S, T, Required
        <5>4. /\ x \in CutAt => m # <<>> /\ v2 = SubSeq(m, 1, Len(m) - 1)
              /\ x \in AddAt => v2 = Append(m, c.tok)
              /\ x \in CutAt \/ x \in AddAt
            BY <1>3, <5>1, <5>2
        <5>5. /\ pc[p] # "idle" /\ u = S(p)
              /\ ~Cutting(p, u, w)' /\ ~Adding(p, u, w)' => m = v2
              /\ Cutting(p, u, w)' => m # <<>> /\ v2 = SubSeq(m, 1, Len(m) - 1)
              /\ Adding(p, u, w)' => v2 = Append(m, c.tok)
            BY <1>1, <4>1, <5>3, <5>4
        <5>6. pc' = [pc EXCEPT ![p] = x] /\ call' = [call EXCEPT ![p] = c]
            OBVIOUS
        <5> QED BY ONLY TypeOK, OnePerSession, p \in Calls, <5>5, <5>6, AloneMirrors
      <4>2. CASE ~ (u = s /\ w = t)
        <5>1. v2 = v
            BY <1>2, <3>1, <4>2
        <5>2. ~Cutting(p, u, w)' /\ ~Adding(p, u, w)'
            BY <1>1, <1>3, <4>2 DEF Cutting, Adding, S, T, Required
        <5> QED BY <1>7, <3>2, <5>1, <5>2, FrameMirrors
      <4> QED BY <4>1, <4>2
    <3>4. TokensOf(sessions[u], w)' = m
        BY <3>1 DEF TokensOf
    <3> QED BY <1>4, <2>2, <3>1, <3>3, <3>4 DEF Mirrors
  <2> QED BY <2>1, <2>2
<1> QED BY <1>4, <1>5, <1>6, <1>9 DEF MirrorInv

(* RemoveToken: the token in hand is the last one. *)
LEMMA RemoveMirrors ==
    ASSUME TypeOK, OnePerSession, SessionsThere, TokenInv, MirrorInv, NEW p \in Calls,
           ConsumeRemove(p)
    PROVE  MirrorInv'
<1>1. PICK s, t, v : s = S(p) /\ t = Required(p) /\ v = call[p].tok
    OBVIOUS
<1>2. /\ s \in Sessions /\ t \in Tools /\ tokens \in [Sessions -> [Tools -> Seq(Entry)]]
      /\ Holds(s, t, v) /\ RemoveToken(s, t, v)
      /\ pc[p] = "remove" /\ pc' = [pc EXCEPT ![p] = "consumeGet"] /\ call' = call
      /\ rules' = rules /\ now' = now /\ mapHeap' = mapHeap /\ sessions' = sessions
    BY <1>1 DEF ConsumeRemove, At, Goto, gvars, svars, TypeOK, VariablesTyped, RulesInHand,
       KeepsRule, Locals, S
<1>3. PICK q \in Seq(Entry) : q = tokens[s][t]
    BY <1>2
<1>4. PICK k \in DOMAIN q :
          /\ q[k].value = v
          /\ tokens' = [tokens EXCEPT ![s] = [tokens[s] EXCEPT ![t] = RemoveAt(q, k)]]
  <2>1. \E k \in DOMAIN tokens[s][t] :
            /\ tokens[s][t][k].value = v
            /\ tokens' = [tokens EXCEPT ![s] = [tokens[s] EXCEPT ![t] = RemoveAt(tokens[s][t], k)]]
    BY <1>2, RemoveTyped
  <2> QED BY <1>3, <2>1
<1>5. q # <<>> /\ q[Len(q)].value = v
    BY <1>1, <1>2, <1>3 DEF MirrorInv, Aimed, AimsAtLast
<1>6. k = Len(q)
  <2>1. Len(q) \in DOMAIN q
    BY <1>5
  <2> QED BY <1>2, <1>3, <1>4, <1>5, <2>1 DEF TokenInv, TokensConserved, StoredOnce
<1>7. RisingTo(q, now + TokenExpiry(rules, t))
    BY <1>2, <1>3 DEF MirrorInv, Rising
<1>8. PICK n, r : n = now + TokenExpiry(rules, t) /\ r = RemoveAt(q, Len(q))
    OBVIOUS
<1>9. /\ RisingTo(r, n) /\ Values(q) # <<>>
      /\ Values(r) = SubSeq(Values(q), 1, Len(Values(q)) - 1)
    BY <1>5, <1>7, <1>8, CutRises
<1>10. r \in Seq(Entry)
  <2>1. Len(q) \in 1 .. Len(q)
    BY <1>5
  <2> QED BY <1>8, <2>1, RemoveAtTyped
<1>11. call' = [call EXCEPT ![p] = call[p]]
    BY <1>2 DEF TypeOK, VariablesTyped
<1>12. tokens' = [tokens EXCEPT ![s] = [tokens[s] EXCEPT ![t] = r]]
    BY <1>4, <1>6, <1>8
<1>13. PICK c : c = call[p]
    OBVIOUS
<1>14. /\ c.ses = s /\ rules[c.rule].prereq = t /\ RisingTo(r, now + TokenExpiry(rules, t))
       /\ pc[p] \notin CutAt \cup AddAt \cup BeforeSession /\ "consumeGet" \in CutAt
       /\ "consumeGet" # "remove" /\ call' = [call EXCEPT ![p] = c]
    BY <1>1, <1>2, <1>8, <1>9, <1>11, <1>13 DEF S, Required, CutAt, AddAt, BeforeSession
<1>15. /\ Values(tokens[s][t]) # <<>>
       /\ Values(r) = SubSeq(Values(tokens[s][t]), 1, Len(Values(tokens[s][t])) - 1)
    BY <1>3, <1>9
<1>16. PICK x : x = "consumeGet"
    OBVIOUS
<1>17. /\ rules' = rules /\ now' = now /\ mapHeap' = mapHeap /\ sessions' = sessions
       /\ s \in Sessions /\ t \in Tools /\ s = S(p)
       /\ x \in CutAt /\ x # "remove" /\ pc' = [pc EXCEPT ![p] = x]
       /\ rules[c.rule].prereq = t
    BY <1>1, <1>2, <1>14, <1>16
<1>18. /\ pc[p] \notin CutAt \cup AddAt \cup BeforeSession /\ call' = [call EXCEPT ![p] = c]
       /\ RisingTo(r, now + TokenExpiry(rules, t)) /\ c.ses = s
    BY <1>14
<1> QED BY ONLY TypeOK, OnePerSession, SessionsThere, MirrorInv, p \in Calls, <1>10,
           <1>12, <1>15, <1>17, <1>18, StoreChanges

(* Store: the new token expires last. *)
LEMMA StoreMirrors ==
    ASSUME TypeOK, OnePerSession, SessionsThere, MirrorInv, NEW p \in Calls, IssueStore(p)
    PROVE  MirrorInv'
<1>1. PICK s, t, n, v : /\ s = S(p) /\ t = T(p) /\ n = now + TokenExpiry(rules, T(p))
                        /\ v = nextToken
    OBVIOUS
<1>2. PICK c : c = [call[p] EXCEPT !.tok = nextToken]
    OBVIOUS
<1>3. /\ s \in Sessions /\ t \in Tools /\ tokens \in [Sessions -> [Tools -> Seq(Entry)]]
      /\ v \in Nat /\ c.tok = v /\ c.ses = s /\ c.tool = t
    BY <1>1, <1>2 DEF TypeOK, VariablesTyped, Locals, S, T
<1>4. n \in Nat
    BY <1>1, RulesTyped, ExpiryTyped DEF TypeOK, VariablesTyped
<1>5. PICK e : e = [value |-> v, expires |-> n]
    OBVIOUS
<1>6. e \in Entry /\ e.value = v /\ e.expires = n
    BY <1>3, <1>4, <1>5 DEF Entry
<1>7. PICK q \in Seq(Entry) : q = tokens[s][t]
    BY <1>3
<1>8. PICK r \in Seq(Entry) : r = Append(q, e)
  <2>1. e \in Entry
    BY <1>6
  <2>2. Append(q, e) \in Seq(Entry)
    BY ONLY <2>1, q \in Seq(Entry), AppendProperties
  <2> QED BY <2>2
<1>9. RisingTo(q, e.expires)
    BY <1>1, <1>3, <1>6, <1>7 DEF MirrorInv, Rising
<1>10. RisingTo(r, e.expires) /\ Values(r) = Append(Values(q), e.value)
    BY <1>6, <1>8, <1>9, StoreRises
<1>11. /\ pc[p] = "issue" /\ pc' = [pc EXCEPT ![p] = "issueGet"]
       /\ call' = [call EXCEPT ![p] = c]
       /\ rules' = rules /\ now' = now /\ mapHeap' = mapHeap /\ sessions' = sessions
    BY <1>2 DEF IssueStore, At, Goto, Set, gvars, svars
<1>12. tokens' = [tokens EXCEPT ![s] = [tokens[s] EXCEPT ![t] = r]]
    BY <1>1, <1>3, <1>5, <1>7, <1>8 DEF IssueStore, Store
<1>13. /\ pc[p] \notin CutAt \cup AddAt \cup BeforeSession /\ "issueGet" \in AddAt
       /\ "issueGet" # "remove"
       /\ RisingTo(r, now + TokenExpiry(rules, t))
       /\ Values(r) = Append(Values(tokens[s][t]), c.tok)
    BY <1>1, <1>3, <1>6, <1>7, <1>10, <1>11 DEF CutAt, AddAt, BeforeSession
<1> QED BY <1>1, <1>3, <1>11, <1>12, <1>13, StoreChanges

(* A step that makes in the session's map the change its call owes. *)
LEMMA MapChanges ==
    ASSUME TypeOK, OnePerSession, CopiesCurrent, MirrorInv, rules' = rules, now' = now,
           tokens' = tokens, sessions' = sessions, call' = call,
           NEW p \in Calls, NEW x, pc' = [pc EXCEPT ![p] = x],
           x \notin CutAt \cup AddAt \cup {"remove"},
           pc[p] \in HoldsCopy, NEW s \in Sessions, s = S(p), NEW t \in Tools,
           Cutting(p, s, t) \/ Adding(p, s, t),
           NEW v, v = Values(tokens[s][t]),
           mapHeap' = [mapHeap EXCEPT ![H(p).toks] = [mapHeap[H(p).toks] EXCEPT ![t] = v]]
    PROVE  MirrorInv'
<1>1. /\ pc'[p] = x /\ pc[p] # "idle" /\ \A z \in Calls : z # p => pc'[z] = pc[z]
      /\ call' = [call EXCEPT ![p] = call[p]]
    BY DEF TypeOK, VariablesTyped, HoldsCopy
<1>2. CutAt \cap AddAt = {}
    BY DEF CutAt, AddAt
<1>3. Separate' /\ Rising' /\ \A u \in Sessions : Exists(u)' <=> Exists(u)
    BY DEF MirrorInv, Separate, Rising, Exists
<1>4. Aimed'
    BY <1>1 DEF MirrorInv, Aimed, AimsAtLast, S, Required
<1>5. /\ Exists(s) /\ H(p).toks = sessions[s].toks
      /\ mapHeap \in Seq([Tools -> Seq(Nat)])
      /\ \A u \in Sessions : Exists(u) => sessions[u].toks \in 1 .. Len(mapHeap)
    BY DEF CopiesCurrent, Current, TypeOK, VariablesTyped, CopiesValid, ValidHeader
<1>6. \A u, w : ~Cutting(p, u, w)' /\ ~Adding(p, u, w)'
    BY <1>1 DEF Cutting, Adding
<1>7. \A u, w : Cutting(p, u, w) \/ Adding(p, u, w) => u = s /\ w = t
    BY <1>2 DEF Cutting, Adding
<1>8. Mirrored'
  <2> SUFFICES ASSUME NEW u \in Sessions, NEW w \in Tools
               PROVE  IF Exists(u)'
                      THEN Mirrors(u, w, TokensOf(sessions[u], w), Values(tokens[u][w]))'
                      ELSE tokens'[u][w] = <<>>
    BY DEF Mirrored
  <2>1. CASE ~Exists(u)
    BY <1>3, <2>1 DEF MirrorInv, Mirrored
  <2>2. CASE Exists(u)
    <3>1. PICK m, m2, z : /\ m = TokensOf(sessions[u], w) /\ m2 = TokensOf(sessions[u], w)'
                          /\ z = Values(tokens[u][w])
        OBVIOUS
    <3>2. Mirrors(u, w, m, z) /\ ~Cutting(p, u, w)' /\ ~Adding(p, u, w)'
        BY <1>6, <2>2, <3>1 DEF MirrorInv, Mirrored
    <3>3. Mirrors(u, w, m2, z)'
      <4>1. CASE u = s /\ w = t
        <5>1. m2 = z
            BY <1>5, <3>1, <4>1 DEF TokensOf
        <5> QED BY <1>1, <3>2, <4>1, <5>1, AloneMirrors
      <4>2. CASE ~ (u = s /\ w = t)
        <5>1. ~Cutting(p, u, w) /\ ~Adding(p, u, w)
            BY <1>7, <4>2
        <5>2. sessions[u].toks # H(p).toks \/ w # t
            BY <1>5, <2>2, <4>2 DEF MirrorInv, Separate
        <5>3. mapHeap'[sessions[u].toks][w] = mapHeap[sessions[u].toks][w]
          <6>1. PICK a, b \in 1 .. Len(mapHeap) : a = sessions[u].toks /\ b = H(p).toks
            BY <1>5, <2>2
          <6>2. mapHeap[b] \in [Tools -> Seq(Nat)]
            BY <1>5, <6>1
          <6> QED BY <1>5, <5>2, <6>1, <6>2
        <5>4. m2 = m
            BY <3>1, <5>3 DEF TokensOf
        <5>5. PICK c : c = call[p]
            OBVIOUS
        <5> QED BY <1>1, <3>2, <5>1, <5>4, <5>5, FrameMirrors
      <4> QED BY <4>1, <4>2
    <3>4. Values(tokens[u][w])' = z
        BY <3>1
    <3> QED BY <1>3, <2>2, <3>1, <3>3, <3>4 DEF Mirrors
  <2> QED BY <2>1, <2>2
<1> QED BY <1>3, <1>4, <1>8 DEF MirrorInv

(* The session's last token is cut off, and there is one. *)
LEMMA TruncateMirrors ==
    ASSUME TypeOK, OnePerSession, CopiesCurrent, MirrorInv, NEW p \in Calls, ConsumeTruncate(p)
    PROVE  MirrorInv'
<1>1. PICK s, t, v : s = S(p) /\ t = Required(p) /\ v = Values(tokens[s][t])
    OBVIOUS
<1>2. /\ pc[p] = "truncate" /\ pc[p] \in HoldsCopy /\ s \in Sessions /\ t \in Tools
      /\ Cutting(p, s, t)
      /\ rules' = rules /\ now' = now /\ tokens' = tokens /\ sessions' = sessions
      /\ call' = call
    BY <1>1 DEF ConsumeTruncate, At, gvars, tvars, TypeOK, VariablesTyped, RulesInHand,
       KeepsRule, Locals, S, HoldsCopy, Cutting, CutAt
<1>3. /\ Exists(s) /\ H(p).toks = sessions[s].toks
    BY <1>1, <1>2 DEF CopiesCurrent, Current
<1>4. PICK m : m = TokensOf(H(p), t)
    OBVIOUS
<1>5. m # <<>> /\ v = SubSeq(m, 1, Len(m) - 1)
    BY <1>1, <1>2, <1>3, <1>4 DEF MirrorInv, Mirrored, Mirrors, TokensOf
<1>6. mapHeap' = DropLastToken(H(p), t) /\ pc' = [pc EXCEPT ![p] = "consumeUpdate"]
    BY <1>1, <1>4, <1>5 DEF ConsumeTruncate, Goto
<1>7. mapHeap' = [mapHeap EXCEPT ![H(p).toks] = [mapHeap[H(p).toks] EXCEPT ![t] = v]]
    BY <1>4, <1>5, <1>6 DEF DropLastToken, TokensOf
<1>8. PICK x : x = "consumeUpdate"
    OBVIOUS
<1>9. /\ x \notin CutAt \cup AddAt \cup {"remove"} /\ pc' = [pc EXCEPT ![p] = x]
      /\ s = S(p) /\ v = Values(tokens[s][t])
    BY <1>1, <1>6, <1>8 DEF CutAt, AddAt
<1> QED BY ONLY TypeOK, OnePerSession, CopiesCurrent, MirrorInv, p \in Calls, <1>2, <1>7, <1>9,
           MapChanges

(* The new token is added to the session's. *)
LEMMA AddMirrors ==
    ASSUME TypeOK, OnePerSession, CopiesCurrent, MirrorInv, NEW p \in Calls, IssueAdd(p)
    PROVE  MirrorInv'
<1>1. PICK s, t, v : s = S(p) /\ t = T(p) /\ v = Values(tokens[s][t])
    OBVIOUS
<1>2. /\ pc[p] = "add" /\ pc[p] \in HoldsCopy /\ s \in Sessions /\ t \in Tools
      /\ Adding(p, s, t)
      /\ rules' = rules /\ now' = now /\ tokens' = tokens /\ sessions' = sessions
      /\ call' = call
    BY <1>1 DEF IssueAdd, At, gvars, tvars, TypeOK, VariablesTyped, Locals, S, T, HoldsCopy,
       Adding, AddAt
<1>3. /\ Exists(s) /\ H(p).toks = sessions[s].toks
    BY <1>1, <1>2 DEF CopiesCurrent, Current
<1>4. PICK m : m = TokensOf(H(p), t)
    OBVIOUS
<1>5. v = Append(m, call[p].tok)
    BY <1>1, <1>2, <1>3, <1>4 DEF MirrorInv, Mirrored, Mirrors, TokensOf
<1>6. mapHeap' = AddToken(H(p), t, call[p].tok) /\ pc' = [pc EXCEPT ![p] = "issueUpdate"]
    BY <1>1 DEF IssueAdd, Goto
<1>7. mapHeap' = [mapHeap EXCEPT ![H(p).toks] = [mapHeap[H(p).toks] EXCEPT ![t] = v]]
    BY <1>4, <1>5, <1>6 DEF AddToken, TokensOf
<1>8. PICK x : x = "issueUpdate"
    OBVIOUS
<1>9. /\ x \notin CutAt \cup AddAt \cup {"remove"} /\ pc' = [pc EXCEPT ![p] = x]
      /\ s = S(p) /\ v = Values(tokens[s][t])
    BY <1>1, <1>6, <1>8 DEF CutAt, AddAt
<1> QED BY ONLY TypeOK, OnePerSession, CopiesCurrent, MirrorInv, p \in Calls, <1>2, <1>7, <1>9,
           MapChanges

(* A new session and a token store without tokens for it agree. *)
LEMMA CreateMirrors ==
    ASSUME TypeOK, OnePerSession, MirrorInv, NEW p \in Calls, CreateNew(p)
    PROVE  MirrorInv'
<1>1. /\ pc[p] = "create" /\ pc' = [pc EXCEPT ![p] = "readToken"]
      /\ ~Exists(S(p)) /\ sessions' = [sessions EXCEPT ![S(p)] = NewHeader]
      /\ mapHeap' = Append(mapHeap, [t \in Tools |-> <<>>])
      /\ tokens' = tokens /\ now' = now /\ rules' = rules
    BY DEF CreateNew, Create, At, Goto, tvars, gvars
<1>0. PICK x, c : x = "readToken" /\ c = [call[p] EXCEPT !.hdr = NewHeader]
    OBVIOUS
<1>2. /\ pc' = [pc EXCEPT ![p] = x] /\ call' = [call EXCEPT ![p] = c]
      /\ pc'[p] = "readToken"
      /\ \A q \in Calls : q # p => pc'[q] = pc[q] /\ call'[q] = call[q]
    BY <1>0, <1>1 DEF TypeOK, VariablesTyped, CreateNew, Keep, Set
<1>3. /\ S(p) \in Sessions /\ sessions'[S(p)] = NewHeader
      /\ \A u \in Sessions : u # S(p) => sessions'[u] = sessions[u]
    BY <1>1 DEF TypeOK, VariablesTyped, Locals, S
<1>4. /\ mapHeap \in Seq([Tools -> Seq(Nat)])
      /\ \A u \in Sessions : Exists(u) => sessions[u].toks \in 1 .. Len(mapHeap)
      /\ NewHeader.toks = Len(mapHeap) + 1
    BY DEF TypeOK, VariablesTyped, CopiesValid, ValidHeader, NewHeader
<1>5. /\ \A a \in 1 .. Len(mapHeap) : mapHeap'[a] = mapHeap[a] /\ a # Len(mapHeap) + 1
      /\ mapHeap'[Len(mapHeap) + 1] = [t \in Tools |-> <<>>]
  <2>1. PICK f : f = [t \in Tools |-> <<>>]
    OBVIOUS
  <2>2. mapHeap' = Append(mapHeap, f)
    BY <1>1, <2>1
  <2>3. /\ \A a \in 1 .. Len(mapHeap) : mapHeap'[a] = mapHeap[a] /\ a # Len(mapHeap) + 1
        /\ mapHeap'[Len(mapHeap) + 1] = f
    BY <1>4, <2>2
  <2> QED BY <2>1, <2>3
<1>6. Aimed' /\ Rising'
    BY <1>1, <1>2 DEF MirrorInv, Aimed, AimsAtLast, Rising, S, Required
<1>7. Separate'
    BY <1>3, <1>4, <1>5 DEF MirrorInv, Separate, Exists
<1>8. \A u, w : /\ ~Cutting(p, u, w) /\ ~Adding(p, u, w)
               /\ ~Cutting(p, u, w)' /\ ~Adding(p, u, w)'
    BY <1>1, <1>2 DEF Cutting, Adding, CutAt, AddAt
<1>9. Mirrored'
  <2> SUFFICES ASSUME NEW u \in Sessions, NEW w \in Tools
               PROVE  IF Exists(u)'
                      THEN Mirrors(u, w, TokensOf(sessions[u], w), Values(tokens[u][w]))'
                      ELSE tokens'[u][w] = <<>>
    BY DEF Mirrored
  <2>1. CASE u = S(p)
    <3>1. tokens[u][w] = <<>>
        BY <1>1, <2>1 DEF MirrorInv, Mirrored
    <3>2. Values(tokens[u][w])' = <<>>
        BY <1>1, <3>1 DEF Values
    <3>3. TokensOf(sessions[u], w)' = <<>>
        BY <1>3, <1>4, <1>5, <2>1 DEF TokensOf
    <3>4. PICK m : m = <<>>
        OBVIOUS
    <3>5. pc[p] # "idle" /\ ~Cutting(p, u, w)' /\ ~Adding(p, u, w)'
        BY <1>1, <1>8
    <3>6. Mirrors(u, w, m, m)'
        BY ONLY TypeOK, OnePerSession, p \in Calls, <1>2, <2>1, <3>5, AloneMirrors
    <3> QED BY <1>1, <3>1, <3>2, <3>3, <3>4, <3>6 DEF Mirrors
  <2>2. CASE u # S(p) /\ Exists(u)
    <3>1. PICK m, v : m = TokensOf(sessions[u], w) /\ v = Values(tokens[u][w])
        OBVIOUS
    <3>2. TokensOf(sessions[u], w)' = m
        BY <1>3, <1>4, <1>5, <2>2, <3>1 DEF TokensOf
    <3>3. Exists(u)' /\ Values(tokens[u][w])' = v
        BY <1>1, <1>3, <2>2, <3>1 DEF Exists
    <3>4. /\ Mirrors(u, w, m, v)
          /\ ~Cutting(p, u, w) /\ ~Adding(p, u, w)
          /\ ~Cutting(p, u, w)' /\ ~Adding(p, u, w)'
        BY <1>8, <2>2, <3>1 DEF MirrorInv, Mirrored
    <3>5. Mirrors(u, w, m, v)'
        BY <1>1, <1>2, <3>4, FrameMirrors
    <3> QED BY <3>2, <3>3, <3>5 DEF Mirrors
  <2>3. CASE u # S(p) /\ ~Exists(u)
    BY <1>1, <1>3, <2>3 DEF MirrorInv, Mirrored, Exists
  <2> QED BY <2>1, <2>2, <2>3
<1> QED BY <1>6, <1>7, <1>9 DEF MirrorInv

(* A copy that is saved has the session's map. *)
LEMMA UpdateMirrors ==
    ASSUME TypeOK, OnePerSession, CopiesCurrent, MirrorInv, NEW p \in Calls, Update(S(p), H(p)),
           pc[p] \in {"consumeUpdate", "issueUpdate", "recordUpdate"},
           rules' = rules, tokens' = tokens, now' = now,
           NEW x \in {"issue", "recordGet", "idle"}, NEW c,
           pc' = [pc EXCEPT ![p] = x], call' = [call EXCEPT ![p] = c]
    PROVE  MirrorInv'
<1>1. /\ S(p) \in Sessions /\ sessions' = [sessions EXCEPT ![S(p)] = H(p)]
      /\ mapHeap' = mapHeap /\ sessions \in [Sessions -> Header]
      /\ Exists(S(p)) /\ H(p).toks = sessions[S(p)].toks
    BY DEF Update, TypeOK, VariablesTyped, Locals, S, HoldsCopy, CopiesCurrent, Current
<1>2. H(p).toks # 0
    BY DEF TypeOK, CopiesValid, ValidHeader, HoldsCopy
<1>3. \A s \in Sessions : /\ Exists(s)' <=> Exists(s)
                          /\ sessions'[s].toks = sessions[s].toks
    BY <1>1, <1>2 DEF Exists, NoSession
<1>4. x \notin CutAt \cup AddAt /\ pc[p] \notin CutAt \cup AddAt /\ x # "remove"
    BY DEF CutAt, AddAt
<1> QED BY <1>1, <1>3, <1>4, MoveMirrors

(* Steps that change neither the stores nor the session's tokens. *)
LEMMA QuietMirrors ==
    ASSUME TypeOK, OnePerSession, SessionsThere, MirrorInv, NEW p \in Calls,
           \/ Begin(p) \/ WrapGet(p) \/ CreateGet(p) \/ CreateFails(p)
           \/ ReadToken(p) \/ AdmitFree(p) \/ RejectNoSession(p) \/ StartValidation(p)
           \/ ValidateGet(p) \/ HistoryHit(p) \/ HistoryMiss(p) \/ CheckTokens(p)
           \/ HandlerSucceeds(p) \/ HandlerFails(p) \/ ConsumeFind(p) \/ ConsumeTooLate(p)
           \/ ConsumeGet(p) \/ GenerateTokenFails(p) \/ IssueGet(p) \/ RecordGet(p)
           \/ RecordTool(p)
    PROVE  MirrorInv'
<1>1. /\ rules' = rules /\ now' = now /\ tokens' = tokens /\ mapHeap' = mapHeap
      /\ sessions' = sessions
    BY DEF Begin, WrapGet, CreateGet, CreateFails, ReadToken, AdmitFree,
       RejectNoSession, StartValidation, ValidateGet, HistoryHit, HistoryMiss, CheckTokens,
       HandlerSucceeds, HandlerFails, ConsumeFind, ConsumeTooLate, ConsumeGet,
       GenerateTokenFails, IssueGet, RecordGet, RecordTool, gvars, tvars, svars
<1>2. \A s \in Sessions : /\ Exists(s)' <=> Exists(s)
                          /\ sessions'[s].toks = sessions[s].toks
    BY <1>1 DEF Exists
<1>3. call[p] \in Locals /\ S(p) \in Sessions /\ call = [call EXCEPT ![p] = call[p]]
    BY DEF TypeOK, VariablesTyped, Locals, S
<1>4. CASE ConsumeGet(p)
  <2>1. Exists(S(p)) /\ pc[p] = "consumeGet"
    BY <1>4 DEF ConsumeGet, At, SessionsThere, BeforeSession
  <2>2. PICK c, x : c = [call[p] EXCEPT !.hdr = sessions[S(p)]] /\ x = "truncate"
    OBVIOUS
  <2>3. /\ c.ses = S(p) /\ c.rule = call[p].rule /\ pc' = [pc EXCEPT ![p] = x]
        /\ call' = [call EXCEPT ![p] = c] /\ x \in CutAt /\ pc[p] \in CutAt /\ x # "remove"
    BY <1>3, <1>4, <2>1, <2>2 DEF Locals, S, ConsumeGet, Keep, Set, Goto, CutAt
  <2> QED BY ONLY TypeOK, OnePerSession, MirrorInv, p \in Calls, <1>1, <1>2, <2>3, MoveMirrors
<1>5. CASE IssueGet(p)
  <2>1. Exists(S(p)) /\ pc[p] = "issueGet"
    BY <1>5 DEF IssueGet, At, SessionsThere, BeforeSession
  <2>2. PICK c, x : c = [call[p] EXCEPT !.hdr = sessions[S(p)]] /\ x = "add"
    OBVIOUS
  <2>3. /\ c.ses = S(p) /\ c.tool = T(p) /\ c.tok = call[p].tok
        /\ pc' = [pc EXCEPT ![p] = x] /\ call' = [call EXCEPT ![p] = c]
        /\ x \in AddAt /\ pc[p] \in AddAt /\ x # "remove"
    BY <1>3, <1>5, <2>1, <2>2 DEF Locals, S, T, IssueGet, Keep, Set, Goto, AddAt
  <2> QED BY ONLY TypeOK, OnePerSession, MirrorInv, p \in Calls, <1>1, <1>2, <2>3, MoveMirrors
<1>6. CASE ConsumeFind(p)
  <2>1. PICK i, u : i = findRule(rules, T(p)) /\ u = rules[i].prereq
    OBVIOUS
  <2>2. pc[p] = "consume" /\ pc[p] \notin CutAt \cup AddAt
    BY <1>6 DEF ConsumeFind, At, CutAt, AddAt
  <2>3. CASE OneTimeRule(T(p)) /\ ValidTokens(S(p), u) # {}
    <3>1. PICK c, x : /\ c = [call[p] EXCEPT !.rule = i, !.tok = LastValidToken(S(p), u)]
                      /\ x = "remove"
        OBVIOUS
    <3>2. /\ c.ses = S(p) /\ c.rule = i /\ c.tok = LastValidToken(S(p), u)
          /\ x \notin CutAt \cup AddAt
        BY <1>3, <3>1 DEF Locals, S, CutAt, AddAt
    <3>3. u \in Tools
      <4>1. i \in DOMAIN rules /\ u # NoTool
        BY <2>1, <2>3, RulesTyped, FindRuleFinds DEF OneTimeRule, findRules
      <4> QED BY <2>1, <4>1, RulesTyped
    <3>4. AimsAtLast(tokens[S(p)][u], LastValidToken(S(p), u))
      <4>1. PICK s : s = S(p)
        OBVIOUS
      <4>2. AimsAtLast(tokens[s][u], LastValidToken(s, u))
        BY <1>3, <2>3, <3>3, <4>1, LastIsValid DEF MirrorInv
      <4> QED BY <4>1, <4>2
    <3>5. /\ pc' = [pc EXCEPT ![p] = x] /\ call' = [call EXCEPT ![p] = c]
        BY <1>6, <2>1, <2>3, <3>1 DEF ConsumeFind, Goto, Set
    <3>6. AimsAtLast(tokens[c.ses][rules[c.rule].prereq], c.tok)
        BY <2>1, <3>2, <3>4
    <3> QED BY ONLY TypeOK, OnePerSession, MirrorInv, p \in Calls,
               <1>1, <1>2, <2>2, <3>2, <3>5, <3>6, MoveMirrors
  <2>4. CASE ~ (OneTimeRule(T(p)) /\ ValidTokens(S(p), u) # {})
    <3>1. PICK c, x : c = call[p] /\ x = "issue"
        OBVIOUS
    <3>2. /\ pc' = [pc EXCEPT ![p] = x] /\ call' = [call EXCEPT ![p] = c]
          /\ x \notin CutAt \cup AddAt /\ x # "remove"
        BY <1>3, <1>6, <2>1, <2>4, <3>1 DEF ConsumeFind, Goto, CutAt, AddAt
    <3> QED BY ONLY TypeOK, OnePerSession, MirrorInv, p \in Calls,
               <1>1, <1>2, <2>2, <3>2, MoveMirrors
  <2> QED BY <2>3, <2>4
<1>7. CASE \/ Begin(p) \/ WrapGet(p) \/ CreateGet(p) \/ CreateFails(p)
           \/ ReadToken(p) \/ AdmitFree(p) \/ RejectNoSession(p) \/ StartValidation(p)
           \/ ValidateGet(p) \/ HistoryHit(p) \/ HistoryMiss(p) \/ CheckTokens(p)
           \/ HandlerSucceeds(p) \/ HandlerFails(p) \/ ConsumeTooLate(p)
           \/ GenerateTokenFails(p) \/ RecordGet(p) \/ RecordTool(p)
  <2>1. PICK x, c : pc' = [pc EXCEPT ![p] = x] /\ call' = [call EXCEPT ![p] = c]
    <3>1. CASE Begin(p)
      BY <3>1 DEF Begin, Goto, Set
    <3>2. CASE Step(p)
      BY <3>2, StepShape
    <3> QED BY <1>7, <3>1, <3>2 DEF Step
  <2>2. pc'[p] = x
    BY <2>1 DEF TypeOK, VariablesTyped
  <2>3. /\ pc[p] \notin CutAt \cup AddAt
        /\ pc'[p] \notin CutAt \cup AddAt \cup {"remove"}
    <3> USE DEF CutAt, AddAt
    <3>0. \A y : Goto(p, y) => pc'[p] = y
      BY DEF Goto, TypeOK, VariablesTyped
    <3>1. RuleFails(p) => pc'[p] \in {"history", "idle"}
      BY <3>0 DEF RuleFails, Return
    <3> QED BY <1>7, <3>0, <3>1, ZenonT(60) DEF Begin, WrapGet, CreateGet, CreateFails,
         ReadToken, AdmitFree, RejectNoSession, StartValidation, ValidateGet, HistoryHit,
         HistoryMiss, CheckTokens, HandlerSucceeds, HandlerFails, ConsumeTooLate,
         GenerateTokenFails, RecordGet, RecordTool, At, Return
  <2>4. x \notin CutAt \cup AddAt /\ x # "remove"
    BY <2>2, <2>3
  <2> QED BY ONLY TypeOK, OnePerSession, MirrorInv, p \in Calls,
             <1>1, <1>2, <2>1, <2>3, <2>4, MoveMirrors
<1> QED BY <1>4, <1>5, <1>6, <1>7

(* Every step of the call. *)
LEMMA StepMirrors ==
    ASSUME TypeOK, OnePerSession, CopiesCurrent, SessionsThere, TokenInv, MirrorInv,
           NEW p \in Calls, Begin(p) \/ Step(p)
    PROVE  MirrorInv'
<1>0. call = [call EXCEPT ![p] = call[p]]
    BY DEF TypeOK, VariablesTyped
<1>1. CASE ConsumeUpdate(p) \/ IssueUpdate(p) \/ RecordUpdate(p)
  <2>1. /\ Update(S(p), H(p)) /\ rules' = rules /\ tokens' = tokens /\ now' = now
        /\ pc[p] \in {"consumeUpdate", "issueUpdate", "recordUpdate"}
    BY <1>1 DEF ConsumeUpdate, IssueUpdate, RecordUpdate, At, gvars, tvars
  <2>2. PICK x \in {"issue", "recordGet", "idle"} : pc' = [pc EXCEPT ![p] = x]
    BY <1>1 DEF ConsumeUpdate, IssueUpdate, RecordUpdate, Goto, Return
  <2>3. PICK c : call' = [call EXCEPT ![p] = c]
    BY <1>0, <1>1 DEF ConsumeUpdate, IssueUpdate, RecordUpdate, Return, Set
  <2> QED BY <2>1, <2>2, <2>3, UpdateMirrors
<1> QED BY <1>1, QuietMirrors, CreateMirrors, RemoveMirrors, TruncateMirrors, StoreMirrors,
           AddMirrors DEF Step

(* Time passes: the tokens that are to come expire later still. *)
LEMMA TickMirrors ==
    ASSUME TypeOK, MirrorInv, Tick \/ UNCHANGED vars
    PROVE  MirrorInv'
<1>1. /\ pc' = pc /\ call' = call /\ sessions' = sessions /\ mapHeap' = mapHeap
      /\ tokens' = tokens /\ rules' = rules /\ now' \in Nat /\ now \in Nat /\ now <= now'
    BY DEF Tick, vars, svars, gvars, tvars, TypeOK, VariablesTyped
<1>2. Separate' /\ Aimed'
    BY <1>1 DEF MirrorInv, Separate, Aimed, Exists, S, Required
<1>4. Mirrored'
  <2>2. ASSUME NEW s, NEW t, NEW m, NEW v, Mirrors(s, t, m, v)
        PROVE  Mirrors(s, t, m, v)'
    <3>1. (\A p \in Calls : ~Cutting(p, s, t)' /\ ~Adding(p, s, t)') => m = v
        BY <1>1, <2>2 DEF Mirrors, Cutting, Adding, S, T, Required
    <3>2. ASSUME NEW p \in Calls
          PROVE  /\ Cutting(p, s, t)' => m # <<>> /\ v = SubSeq(m, 1, Len(m) - 1)
                 /\ Adding(p, s, t)' => v = Append(m, call'[p].tok)
        BY <1>1, <2>2 DEF Mirrors, Cutting, Adding, S, T, Required
    <3> QED BY <3>1, <3>2 DEF Mirrors
  <2>3. ASSUME NEW s \in Sessions, NEW t \in Tools, Exists(s)
        PROVE  Mirrors(s, t, TokensOf(sessions[s], t), Values(tokens[s][t]))'
    <3>1. PICK m, v : m = TokensOf(sessions[s], t) /\ v = Values(tokens[s][t])
        OBVIOUS
    <3>2. Mirrors(s, t, m, v)'
        BY <2>2, <2>3, <3>1 DEF MirrorInv, Mirrored
    <3>3. TokensOf(sessions[s], t)' = m /\ Values(tokens[s][t])' = v
        BY <1>1, <3>1 DEF TokensOf, Values
    <3> QED BY <3>2, <3>3 DEF Mirrors
  <2>4. ASSUME NEW s \in Sessions, NEW t \in Tools, ~Exists(s)
        PROVE  tokens'[s][t] = <<>>
    BY <1>1, <2>4 DEF MirrorInv, Mirrored
  <2> QED BY <1>1, <2>3, <2>4 DEF Mirrored, Exists
<1>3. Rising'
  <2> SUFFICES ASSUME NEW s \in Sessions, NEW t \in Tools
               PROVE  RisingTo(tokens[s][t], now' + TokenExpiry(rules, t))
    BY <1>1 DEF Rising
  <2>1. PICK q \in Seq(Entry) : q = tokens[s][t]
    BY DEF TypeOK, VariablesTyped
  <2>2. PICK e \in Nat : e = TokenExpiry(rules, t)
    BY RulesTyped, ExpiryTyped
  <2>3. RisingTo(q, now + e)
    BY <2>1, <2>2 DEF MirrorInv, Rising
  <2>4. \A i \in DOMAIN q : q[i].expires \in Nat
    <3>1. \A i \in DOMAIN q : q[i] \in Entry
      OBVIOUS
    <3> QED BY <3>1 DEF Entry
  <2>5. RisingTo(q, now' + e)
    BY <1>1, <2>3, <2>4 DEF RisingTo
  <2> QED BY <2>1, <2>2, <2>5
<1> QED BY <1>2, <1>3, <1>4 DEF MirrorInv

(***************************************************************************)
(* Calls in different sessions do not race: they hold copies of different  *)
(* sessions, and those share neither a map nor an array.                   *)
(***************************************************************************)
LEMMA NoRace ==
    ASSUME TypeOK, OnePerSession, CopiesCurrent, Separate,
           NEW p \in Calls, NEW q \in Calls, Race(p, q)
    PROVE  FALSE
<1>1. /\ p # q /\ pc[p] \in HoldsCopy /\ pc[q] \in HoldsCopy
      /\ H(p).toks = H(q).toks \/ H(p).arr = H(q).arr
    BY DEF Race, RacyMapWrite, MapThrow, RacyRecord, WritesMap, UsesMap, At, HoldsCopy
<1>2. S(p) # S(q)
    BY <1>1 DEF OnePerSession, HoldsCopy
<1>3. H(p).toks # H(q).toks
  <2>1. S(p) \in Sessions /\ S(q) \in Sessions
    BY DEF TypeOK, VariablesTyped, Locals, S
  <2> QED BY <1>1, <1>2, <2>1 DEF CopiesCurrent, Current, Separate
<1>4. H(p).arr # H(q).arr
    BY <1>1, <1>2 DEF TypeOK, CopiesValid, ValidHeader
<1> QED BY <1>1, <1>3, <1>4

(* The inductive invariant, beside TokenInv: no token is in the store      *)
(* twice, so RemoveToken removes the one it is given.                      *)
SessionInv == deletes = 0 => CopiesCurrent /\ SessionsThere /\ CompleteInv /\ MirrorInv
LEMMA SessionsInOrder == Spec /\ []OnePerSession => []SessionInv
<1>1. Init => SessionInv
  <2> SUFFICES ASSUME Init PROVE CopiesCurrent /\ SessionsThere /\ CompleteInv /\ MirrorInv
    BY DEF SessionInv
  <2>1. /\ \A s \in Sessions : /\ ~Exists(s)
                              /\ \A t \in Tools : tokens[s][t] = <<>> /\ executed[s][t] = 0
        /\ \A p \in Calls : pc[p] = "idle"
    BY DEF Init, SessionStoreInit, TokenStoreInit, Exists
  <2>2. Rising
    BY <2>1 DEF Rising, RisingTo
  <2>3. CompleteInv
    BY <2>1 DEF CompleteInv, Fresh, Resting, ShownTo, Unrecorded, Admitted
  <2>4. CopiesCurrent /\ SessionsThere /\ Mirrored /\ Separate /\ Aimed
    BY <2>1 DEF CopiesCurrent, HoldsCopy, SessionsThere, BeforeSession, Mirrored, Separate, Aimed
  <2> QED BY <2>2, <2>3, <2>4 DEF MirrorInv
<1>2. TypeOK /\ TokenInv /\ OnePerSession /\ SessionInv /\ [Next]_vars => SessionInv'
  <2> SUFFICES ASSUME TypeOK, TokenInv, OnePerSession, SessionInv, [Next]_vars, deletes' = 0
               PROVE  CopiesCurrent' /\ SessionsThere' /\ CompleteInv' /\ MirrorInv'
    BY DEF SessionInv
  <2>1. CopiesCurrent /\ SessionsThere /\ CompleteInv /\ MirrorInv
    BY NoDelete DEF SessionInv
  <2>2. CASE \E p \in Calls : Begin(p) \/ Step(p)
    BY <2>1, <2>2, MoverThere, StepCurrent, StepComplete, StepMirrors
  <2>3. CASE Tick \/ UNCHANGED vars
    <3>1. /\ pc' = pc /\ call' = call /\ sessions' = sessions /\ arrayHeap' = arrayHeap
          /\ executed' = executed
      BY <2>3 DEF Tick, vars, svars, hvars
    <3>2. SessionsThere' /\ CopiesCurrent'
      BY <2>1, <3>1 DEF SessionsThere, CopiesCurrent, Current, Exists, S, H
    <3>3. CompleteInv'
      BY <2>1, <3>1 DEF CompleteInv, Fresh, Resting, ShownTo, Shows, Times, Exists, S, T, H
    <3> QED BY <2>1, <2>3, <3>2, <3>3, TickMirrors
  <2>4. ~ \E p, q \in Calls : Race(p, q)
    BY <2>1, NoRace DEF MirrorInv
  <2> QED BY <2>2, <2>3, <2>4, NoDelete
<1> QED BY <1>1, <1>2, TypeCorrect, TokensInv, PTL DEF Spec

(* Calls that overlap in different sessions only all get into the          *)
(* ToolHistory: when no call is in flight the history of every session     *)
(* shows each tool exactly as often as its handler succeeded there         *)
(* (RecordToolCall and Update at the end of the wrapper), as long as the   *)
(* host has deleted no session.                                            *)
THEOREM HistoriesAreComplete ==
    Spec /\ []OnePerSession => [](deletes = 0 => HistoryComplete)
<1>1. TypeOK /\ HistoryNeverInvents /\ SessionInv => (deletes = 0 => HistoryComplete)
  <2> SUFFICES ASSUME TypeOK, HistoryNeverInvents, SessionInv, deletes = 0, AllIdle,
                      NEW s \in Sessions, Exists(s), NEW t \in Tools
               PROVE  Times(sessions[s], t) = executed[s][t]
    BY DEF HistoryComplete
  <2> DEFINE n == Times(sessions[s], t)
  <2>1. executed[s][t] <= n + 0
    BY DEF SessionInv, CompleteInv, Resting, AllIdle, Executing, Admitted, Shows
  <2>2. n <= executed[s][t] /\ executed[s][t] \in Nat
    BY DEF HistoryNeverInvents, TypeOK, VariablesTyped
  <2>3. n \in Nat
    <3>1. PICK g, h : g = arrayHeap /\ h = sessions[s]
      OBVIOUS
    <3>2. n = Cardinality(ShownIn(g, h, t)) /\ h \in Header
      BY <3>1 DEF Times, ShownIn, TypeOK, VariablesTyped
    <3> HIDE DEF n
    <3> QED BY <3>2, TimesCounted
  <2> HIDE DEF n
  <2>4. n = executed[s][t]
    BY <2>1, <2>2, <2>3
  <2> QED BY <2>4 DEF n
<1> QED BY <1>1, TypeCorrect, SessionsInOrder, HistoriesDoNotInvent, PTL

(* With calls that overlap in different sessions only, when no call is in  *)
(* flight the Tokens map of every session lists exactly the values the     *)
(* token store holds, in its order: the token ConsumePrerequisiteToken     *)
(* removes from the store (the last valid one) is the one it cuts off the  *)
(* session (the last one), however many tokens have expired, as long as    *)
(* the host has deleted no session.                                        *)
THEOREM SessionsMirrorTokens ==
    Spec /\ []OnePerSession => [](deletes = 0 => TokensMirrored)
<1>1. SessionInv => (deletes = 0 => TokensMirrored)
  <2> SUFFICES ASSUME MirrorInv, AllIdle, NEW s \in Sessions, Exists(s), NEW t \in Tools
               PROVE  TokensOf(sessions[s], t) = Values(tokens[s][t])
    BY DEF SessionInv, TokensMirrored, Values
  <2>1. \A p \in Calls : ~Cutting(p, s, t) /\ ~Adding(p, s, t)
    BY DEF AllIdle, Cutting, Adding, CutAt, AddAt
  <2> QED BY <2>1 DEF MirrorInv, Mirrored, Mirrors
<1> QED BY <1>1, SessionsInOrder, PTL
=============================================================================
