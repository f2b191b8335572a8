------------------------- MODULE ChatSessionsProofs -------------------------
(***************************************************************************)
(* Theorems about ChatSessions, for any number of requests and sessions,   *)
(* any limits and any length of the histories.                             *)
(*                                                                         *)
(* At most one handler is in a session (the inFlight flag), so while it    *)
(* works on its copy nobody else changes the history or the tokens; and    *)
(* its copy says everything the history of the session says, because a     *)
(* turn only appends, and a compaction quotes what it removes.             *)
(***************************************************************************)
EXTENDS ChatSessions, FiniteSetTheorems, SequenceTheorems, TLAPS

\* A handler that holds a copy of the history.
Working == {"gate", "turn", "call", "store"}

\* The flag of a session is set while a handler is in it, and no two are.
Exclusive ==
  /\ \A p \in Requests : pc[p] \in Busy => inFlight[session[p]]
  /\ \A p, q \in Requests :
       pc[p] \in Busy /\ pc[q] \in Busy /\ session[p] = session[q] => p = q

\* The copy says what the history of the session says.
Covers ==
  \A p \in Requests : pc[p] \in Working => Said(messages[session[p]]) \subseteq Said(history[p])

\* A request whose message was accepted is past the budget check of its session.
AcceptedInSession ==
  \A p \in accepted : session[p] \in Requests /\ pc[p] \in Working \cup {"leave", "done"}

\* A turn is begun within the budget and spends what its calls allow.
Spends ==
  /\ \A p \in Requests : used[p] <= calls[p] * MaxCost
  /\ \A p \in Requests : pc[p] \in Working => ~Spent(session[p])

TableFinite == IsFiniteSet(Taken)

IInv ==
  /\ TypeOK
  /\ Exclusive
  /\ Covers
  /\ AcceptedInSession
  /\ NothingForgotten
  /\ Spends
  /\ OverspendsOneTurn
  /\ TableFinite
  /\ TableBounded

-----------------------------------------------------------------------------
(* Histories. *)

\* Two histories one after the other say what both say.
LEMMA SaidConcat ==
  ASSUME NEW s \in Seq(Messages), NEW t \in Seq(Messages)
  PROVE  s \o t \in Seq(Messages) /\ Said(s \o t) = Said(s) \cup Said(t)
<1>1. /\ s \o t \in Seq(Messages) /\ DOMAIN (s \o t) = 1 .. Len(s) + Len(t)
      /\ DOMAIN s = 1 .. Len(s) /\ DOMAIN t = 1 .. Len(t)
      /\ Len(s) \in Nat /\ Len(t) \in Nat
  OBVIOUS
<1>2. \A i \in DOMAIN s : i \in DOMAIN (s \o t) /\ (s \o t)[i] = s[i]
  BY <1>1
<1>3. \A i \in DOMAIN t : Len(s) + i \in DOMAIN (s \o t) /\ (s \o t)[Len(s) + i] = t[i]
  BY <1>1
<1>4. \A i \in DOMAIN (s \o t) :
        i \in DOMAIN s \/ \E j \in DOMAIN t : i = Len(s) + j
  <2> TAKE i \in DOMAIN (s \o t)
  <2>1. CASE i <= Len(s)
    BY <1>1, <2>1
  <2>2. CASE i > Len(s)
    <3>1. i - Len(s) \in DOMAIN t /\ i = Len(s) + (i - Len(s))
      BY <1>1, <2>2
    <3> QED
      BY <3>1
  <2> QED
    BY <1>1, <2>1, <2>2
<1>5. Said(s \o t) \subseteq Said(s) \cup Said(t)
  BY <1>2, <1>3, <1>4 DEF Said
<1>6. Said(s) \subseteq Said(s \o t)
  BY <1>2 DEF Said
<1>7. Said(t) \subseteq Said(s \o t)
  <2> SUFFICES ASSUME NEW x \in Said(t) PROVE x \in Said(s \o t)
    OBVIOUS
  <2>1. PICK i \in DOMAIN t : x \in t[i].says
    BY DEF Said
  <2>2. Len(s) + i \in DOMAIN (s \o t) /\ x \in (s \o t)[Len(s) + i].says
    BY <1>3, <2>1
  <2> QED
    BY <2>2 DEF Said
<1> QED
  BY <1>1, <1>5, <1>6, <1>7

\* A history says nothing but texts of requests.
LEMMA SaidTyped ==
  ASSUME NEW s \in Seq(Messages)
  PROVE  Said(s) \subseteq Requests
<1>1. \A i \in DOMAIN s : s[i] \in Messages
  OBVIOUS
<1>2. \A m \in Messages : m.says \subseteq Requests
  BY DEF Messages
<1> QED
  BY <1>1, <1>2 DEF Said

\* A message on its own is a history.
LEMMA SaidOne ==
  ASSUME NEW role \in Roles, NEW says \in SUBSET Requests
  PROVE  /\ Message(role, says) \in Messages
         /\ <<Message(role, says)>> \in Seq(Messages)
         /\ Said(<<Message(role, says)>>) = says
<1>1. Message(role, says) \in Messages /\ Message(role, says).says = says
  BY DEF Message, Messages
<1>2. DOMAIN <<Message(role, says)>> = {1} /\ <<Message(role, says)>>[1] = Message(role, says)
  OBVIOUS
<1> QED
  BY <1>1, <1>2 DEF Said

\* The user's message is added.
LEMMA SaidAppend ==
  ASSUME NEW s \in Seq(Messages), NEW p \in Requests
  PROVE  /\ Append(s, Message("user", {p})) \in Seq(Messages)
         /\ Said(Append(s, Message("user", {p}))) = Said(s) \cup {p}
<1>1. /\ <<Message("user", {p})>> \in Seq(Messages)
      /\ Said(<<Message("user", {p})>>) = {p}
      /\ Message("user", {p}) \in Messages
  BY SaidOne DEF Roles
<1>2. Append(s, Message("user", {p})) = s \o <<Message("user", {p})>>
  <2> DEFINE m == Message("user", {p})
  <2>1. m \in Messages
    BY <1>1
  <2> HIDE DEF m
  <2>2. Append(s, m) = s \o <<m>>
    BY <2>1
  <2> QED
    BY <2>2 DEF m
<1> QED
  BY <1>1, <1>2, SaidConcat

\* A compaction removes messages and nothing that they say (maybeCompactHistory).
LEMMA CompactedKeeps ==
  ASSUME NEW s \in Seq(Messages), Len(s) > 4
  PROVE  Compacted(s) \in Seq(Messages) /\ Said(Compacted(s)) = Said(s)
<1> DEFINE n == Len(s) - KeepTail
           head == SubSeq(s, 1, n)
           tail == SubSeq(s, n + 1, Len(s))
<1>1. n \in Nat /\ n < Len(s) /\ Len(s) \in Nat
  BY DEF KeepTail
<1>2. /\ head \in Seq(Messages) /\ tail \in Seq(Messages)
      /\ Len(head) = n /\ Len(tail) = Len(s) - n
      /\ \A i \in 1 .. n : head[i] = s[i]
      /\ \A i \in 1 .. Len(s) - n : tail[i] = s[n + i]
  <2> HIDE DEF n
  <2>1. head \in Seq(Messages) /\ tail \in Seq(Messages)
    BY <1>1
  <2>2. Len(head) = n /\ \A i \in 1 .. n : head[i] = s[i]
    BY <1>1
  <2>3. Len(tail) = Len(s) - n /\ \A i \in 1 .. Len(s) - n : tail[i] = s[n + i]
    BY <1>1
  <2> QED
    BY <2>1, <2>2, <2>3
<1>3. Said(s) = Said(head) \cup Said(tail)
  <2> HIDE DEF n
  <2>1. s \in Seq(Messages) /\ head \o tail \in Seq(Messages) /\ Len(head \o tail) = Len(s)
    <3> HIDE DEF head, tail
    <3> QED
      BY <1>1, <1>2
  <2>2. ASSUME NEW i \in 1 .. Len(s) PROVE (head \o tail)[i] = s[i]
    <3> HIDE DEF head, tail
    <3>1. (head \o tail)[i] = IF i <= n THEN head[i] ELSE tail[i - n]
      BY <1>1, <1>2, ConcatProperties
    <3>2. CASE i <= n
      <4>1. i \in 1 .. n
        BY <1>1, <3>2
      <4> QED
        BY <1>2, <3>1, <3>2, <4>1
    <3>3. CASE ~(i <= n)
      <4>1. i - n \in 1 .. Len(s) - n /\ n + (i - n) = i
        BY <1>1, <3>3
      <4>2. tail[i - n] = s[n + (i - n)]
        BY <1>2, <4>1
      <4> QED
        BY <3>1, <3>3, <4>1, <4>2
    <3> QED
      BY <3>2, <3>3
  <2>3. s = head \o tail
    <3> HIDE DEF head, tail
    <3> QED
      BY <2>1, <2>2, SeqEqual
  <2> QED
    BY <1>2, <2>3, SaidConcat
<1>4. Said(head) \in SUBSET Requests
  BY <1>2, SaidTyped
<1>5. /\ <<Message("user", Said(head))>> \in Seq(Messages)
      /\ Said(<<Message("user", Said(head))>>) = Said(head)
  BY <1>4, SaidOne DEF Roles
<1>6. Compacted(s) = <<Message("user", Said(head))>> \o tail
  BY DEF Compacted
<1> QED
  BY <1>2, <1>3, <1>5, <1>6, SaidConcat

\* What a call appends are messages.
LEMMA AnswersTyped ==
  /\ Answer \in Seq(Messages)
  /\ \A n \in 1 .. MaxToolCalls : ToolCalls(n) \in Seq(Messages)
<1>1. Answer \in Seq(Messages)
  BY SaidOne DEF Answer, Roles
<1>2. ASSUME NEW n \in 1 .. MaxToolCalls PROVE ToolCalls(n) \in Seq(Messages)
  <2>1. Message("tool", {}) \in Messages /\ <<Message("calls", {})>> \in Seq(Messages)
    BY SaidOne DEF Roles
  <2>2. n \in Nat
    BY LimitsAssumption
  <2>3. [i \in 1 .. n |-> Message("tool", {})] \in Seq(Messages)
    BY <2>1, <2>2
  <2> QED
    BY <2>1, <2>3 DEF ToolCalls
<1> QED
  BY <1>1, <1>2

-----------------------------------------------------------------------------
(* The types. *)

\* A provider call and a compaction give a history that says no less.
LEMMA TurnKeeps ==
  ASSUME TypeOK, NEW p \in Requests, Iterate(p) \/ CallReturns(p)
  PROVE  /\ history' \in [Requests -> Seq(Messages)]
         /\ \A q \in Requests : Said(history[q]) \subseteq Said(history'[q])
<1>1. /\ history \in [Requests -> Seq(Messages)] /\ history[p] \in Seq(Messages)
      /\ \A h \in Seq(Messages) : [history EXCEPT ![p] = h] \in [Requests -> Seq(Messages)]
  BY DEF TypeOK
<1>2. ASSUME NEW h \in Seq(Messages), history' = [history EXCEPT ![p] = h],
             Said(history[p]) \subseteq Said(h)
      PROVE  /\ history' \in [Requests -> Seq(Messages)]
             /\ \A q \in Requests : Said(history[q]) \subseteq Said(history'[q])
  BY <1>1, <1>2
<1>3. CASE UNCHANGED history
  BY <1>1, <1>3
<1>4. CASE Len(history[p]) > 4 /\ history' = [history EXCEPT ![p] = Compacted(@)]
  BY <1>1, <1>2, <1>4, CompactedKeeps
<1>5. CASE history' = [history EXCEPT ![p] = @ \o Answer]
  BY <1>1, <1>2, <1>5, SaidConcat, AnswersTyped
<1>6. CASE \E n \in 1 .. MaxToolCalls : history' = [history EXCEPT ![p] = @ \o ToolCalls(n)]
  BY <1>1, <1>2, <1>6, SaidConcat, AnswersTyped
<1> QED
  BY <1>3, <1>4, <1>5, <1>6 DEF Iterate, CallReturns

\* Where the handlers are after one of them went on.
LEMMA GotoTyped ==
  ASSUME TypeOK, NEW p \in Requests, NEW to \in Places, Goto(p, to)
  PROVE  /\ pc' \in [Requests -> Places]
         /\ pc'[p] = to
         /\ \A q \in Requests \ {p} : pc'[q] = pc[q]
<1>1. pc \in [Requests -> Places]
  BY DEF TypeOK
<1> QED
  BY <1>1 DEF Goto

\* A handler that is in a session has one.
LEMMA InSession ==
  ASSUME TypeOK, NEW p \in Requests, pc[p] \in {"take"} \cup Busy
  PROVE  session[p] \in Requests
  BY DEF TypeOK, Equipped

\* Every step keeps the types.
LEMMA TypeStep ==
  ASSUME TypeOK, [Next]_vars
  PROVE  TypeOK'
<1> USE LimitsAssumption
<1>1. ASSUME NEW p \in Requests, GetOrCreate(p) PROVE TypeOK'
  <2>1. PICK id \in Ids :
          \/ /\ table[id] # NoSession
             /\ session' = [session EXCEPT ![p] = table[id]]
             /\ Goto(p, "take")
             /\ UNCHANGED table
          \/ /\ session' = [session EXCEPT ![p] = p]
             /\ table' = [table EXCEPT ![id] = p]
             /\ Goto(p, "take")
          \/ Goto(p, "done") /\ UNCHANGED <<table, session>>
    BY <1>1 DEF GetOrCreate
  <2>2. table' \in [Ids -> Requests \cup {NoSession}]
    <3>1. table \in [Ids -> Requests \cup {NoSession}]
      BY DEF TypeOK
    <3>2. UNCHANGED table \/ table' = [table EXCEPT ![id] = p]
      BY <2>1
    <3> QED
      BY <3>1, <3>2
  <2>3. /\ session' \in [Requests -> Requests \cup {NoSession}]
        /\ pc'[p] = "take" => session'[p] # NoSession
        /\ \A q \in Requests \ {p} : session'[q] = session[q]
    <3>1. /\ session \in [Requests -> Requests \cup {NoSession}]
          /\ table[id] \in Requests \cup {NoSession}
      BY DEF TypeOK
    <3>2. \/ UNCHANGED session /\ Goto(p, "done")
          \/ session' = [session EXCEPT ![p] = table[id]] /\ table[id] # NoSession
          \/ session' = [session EXCEPT ![p] = p]
      BY <2>1
    <3>3. Goto(p, "done") => pc'[p] = "done"
      BY GotoTyped DEF Places
    <3> QED
      BY <3>1, <3>2, <3>3, NoSessionAssumption
  <2>4. /\ pc' \in [Requests -> Places] /\ pc'[p] \in {"take", "done"}
        /\ \A q \in Requests \ {p} : pc'[q] = pc[q]
    BY <2>1, GotoTyped DEF Places
  <2>5. \A q \in Requests : Equipped(q)'
    <3>1. UNCHANGED calls /\ \A q \in Requests : Equipped(q)
      BY <1>1 DEF GetOrCreate, turnVars, TypeOK
    <3> QED
      BY <2>3, <2>4, <3>1 DEF Equipped, Busy
  <2> QED
    BY <1>1, <2>2, <2>3, <2>4, <2>5 DEF TypeOK, GetOrCreate, sessionVars, turnVars
<1>2. ASSUME NEW p \in Requests, Take(p) PROVE TypeOK'
  <2>1. pc' \in [Requests -> Places] /\ \A q \in Requests : Equipped(q)'
    <3>1. /\ pc[p] = "take" /\ UNCHANGED <<session, calls>>
          /\ Goto(p, "open") \/ Goto(p, "done")
      BY <1>2 DEF Take, turnVars
    <3>2. \A q \in Requests : Equipped(q)
      BY DEF TypeOK
    <3> QED
      BY <3>1, <3>2, GotoTyped DEF Equipped, Places, Busy
  <2> QED
    BY <1>2, <2>1 DEF TypeOK, Take, turnVars
<1>3. ASSUME NEW p \in Requests, Open(p) PROVE TypeOK'
  <2> DEFINE msgs == Append(messages[session[p]], Message("user", {p}))
  <2>1. session[p] \in Requests /\ msgs \in Seq(Messages)
    BY <1>3, InSession, SaidAppend DEF TypeOK, Open, Busy
  <2>2. messages' \in [Requests -> Seq(Messages)] /\ history' \in [Requests -> Seq(Messages)]
    <3>1. \/ UNCHANGED <<messages, history>>
          \/ /\ messages' = [messages EXCEPT ![session[p]] = msgs]
             /\ history' = [history EXCEPT ![p] = msgs]
      BY <1>3 DEF Open
    <3>2. messages \in [Requests -> Seq(Messages)] /\ history \in [Requests -> Seq(Messages)]
      BY DEF TypeOK
    <3> HIDE DEF msgs
    <3> QED
      BY <2>1, <3>1, <3>2
  <2>3. idle' \subseteq Requests /\ accepted' \subseteq Requests
    BY <1>3 DEF TypeOK, Open
  <2>4. pc' \in [Requests -> Places] /\ \A q \in Requests : Equipped(q)'
    <3>1. /\ pc[p] = "open" /\ UNCHANGED <<session, calls>>
          /\ Goto(p, "leave") \/ Goto(p, "gate")
      BY <1>3 DEF Open
    <3>2. \A q \in Requests : Equipped(q)
      BY DEF TypeOK
    <3> QED
      BY <3>1, <3>2, GotoTyped DEF Equipped, Places, Busy
  <2>5. UNCHANGED <<table, tokens, inFlight, expired, session, used, calls>>
    BY <1>3 DEF Open
  <2> QED
    BY <2>2, <2>3, <2>4, <2>5 DEF TypeOK
<1>4. ASSUME NEW p \in Requests, Gate(p) \/ CallFails(p) PROVE TypeOK'
  <2>1. pc' \in [Requests -> Places] /\ \A q \in Requests : Equipped(q)'
    <3>1. /\ pc[p] \in {"gate", "call"} /\ UNCHANGED <<session, calls>>
          /\ Goto(p, "turn") \/ Goto(p, "leave") \/ Goto(p, "store")
      BY <1>4 DEF Gate, CallFails, turnVars
    <3>2. \A q \in Requests : Equipped(q)
      BY DEF TypeOK
    <3> QED
      BY <3>1, <3>2, GotoTyped DEF Equipped, Places, Busy
  <2> QED
    BY <1>4, <2>1 DEF TypeOK, Gate, CallFails, sessionVars, turnVars
<1>5. ASSUME NEW p \in Requests, Iterate(p) PROVE TypeOK'
  <2>1. pc' \in [Requests -> Places] /\ \A q \in Requests : Equipped(q)'
    <3>1. /\ pc[p] = "turn" /\ UNCHANGED <<session, calls>>
          /\ Goto(p, "store") \/ (Goto(p, "call") /\ calls[p] < MaxIterations)
      BY <1>5 DEF Iterate, MayCall
    <3>2. \A q \in Requests : Equipped(q)
      BY DEF TypeOK
    <3> QED
      BY <3>1, <3>2, GotoTyped DEF Equipped, Places, Busy
  <2>2. UNCHANGED <<table, sessionVars, idle, expired, session, used, calls, accepted>>
    BY <1>5 DEF Iterate
  <2>3. history' \in [Requests -> Seq(Messages)]
    BY <1>5, TurnKeeps
  <2> QED
    BY <2>1, <2>2, <2>3 DEF TypeOK, sessionVars
<1>6. ASSUME NEW p \in Requests, CallReturns(p) PROVE TypeOK'
  <2>1. PICK cost \in 0 .. MaxCost :
          /\ used' = [used EXCEPT ![p] = @ + cost]
          /\ calls' = [calls EXCEPT ![p] = @ + 1]
    BY <1>6 DEF CallReturns
  <2>2. used' \in [Requests -> Nat]
    <3>1. used \in [Requests -> Nat] /\ used[p] + cost \in Nat
      BY DEF TypeOK
    <3> QED
      BY <2>1, <3>1
  <2>3. calls' \in [Requests -> 0 .. MaxIterations]
        /\ \A q \in Requests \ {p} : calls'[q] = calls[q]
    <3>1. calls \in [Requests -> 0 .. MaxIterations] /\ calls[p] + 1 \in 0 .. MaxIterations
      BY <1>6 DEF TypeOK, Equipped, CallReturns
    <3> QED
      BY <2>1, <3>1
  <2>4. pc' \in [Requests -> Places] /\ \A q \in Requests : Equipped(q)'
    <3>1. /\ pc[p] = "call" /\ UNCHANGED session
          /\ Goto(p, "store") \/ Goto(p, "turn")
      BY <1>6 DEF CallReturns
    <3>2. \A q \in Requests : Equipped(q)
      BY DEF TypeOK
    <3> QED
      BY <2>3, <3>1, <3>2, GotoTyped DEF Equipped, Places, Busy
  <2>5. UNCHANGED <<table, sessionVars, idle, expired, session, accepted>>
    BY <1>6 DEF CallReturns
  <2>6. history' \in [Requests -> Seq(Messages)]
    BY <1>6, TurnKeeps
  <2> QED
    BY <2>2, <2>3, <2>4, <2>5, <2>6 DEF TypeOK, sessionVars
<1>7. ASSUME NEW p \in Requests, Store(p) PROVE TypeOK'
  <2>1. session[p] \in Requests
    BY <1>7, InSession DEF Store, Busy
  <2>2. messages' \in [Requests -> Seq(Messages)] /\ tokens' \in [Requests -> Nat]
    BY <1>7, <2>1 DEF TypeOK, Store
  <2>3. pc' \in [Requests -> Places] /\ \A q \in Requests : Equipped(q)'
    <3>1. pc[p] = "store" /\ UNCHANGED <<session, calls>> /\ Goto(p, "leave")
      BY <1>7 DEF Store, turnVars
    <3>2. \A q \in Requests : Equipped(q)
      BY DEF TypeOK
    <3> QED
      BY <3>1, <3>2, GotoTyped DEF Equipped, Places, Busy
  <2> QED
    BY <1>7, <2>2, <2>3 DEF TypeOK, Store, turnVars
<1>8. ASSUME NEW p \in Requests, Leave(p) PROVE TypeOK'
  <2>1. inFlight' \in [Requests -> BOOLEAN]
    BY <1>8 DEF TypeOK, Leave
  <2>2. history' \in [Requests -> Seq(Messages)] /\ used' \in [Requests -> Nat]
        /\ calls' \in [Requests -> 0 .. MaxIterations]
        /\ \A q \in Requests \ {p} : calls'[q] = calls[q]
    BY <1>8 DEF TypeOK, Leave
  <2>3. pc' \in [Requests -> Places] /\ \A q \in Requests : Equipped(q)'
    <3>1. pc[p] = "leave" /\ UNCHANGED session /\ Goto(p, "done")
      BY <1>8 DEF Leave
    <3>2. \A q \in Requests : Equipped(q)
      BY DEF TypeOK
    <3> QED
      BY <2>2, <3>1, <3>2, GotoTyped DEF Equipped, Places, Busy
  <2>4. UNCHANGED <<table, messages, tokens, idle, expired, session, accepted>>
    BY <1>8 DEF Leave
  <2> QED
    BY <2>1, <2>2, <2>3, <2>4 DEF TypeOK
<1>9. ASSUME NEW p \in Requests, Age(p) PROVE TypeOK'
  BY <1>9 DEF TypeOK, Equipped, Age, sessionVars, turnVars
<1>10. CASE MarkExpired
  BY <1>10 DEF TypeOK, Equipped, MarkExpired, sessionVars, turnVars
<1>11. CASE EvictExpired
  BY <1>11 DEF TypeOK, Equipped, EvictExpired, sessionVars, turnVars
<1>12. CASE UNCHANGED vars
  BY <1>12 DEF TypeOK, Equipped, vars, sessionVars, turnVars
<1> QED
  BY <1>1, <1>2, <1>3, <1>4, <1>5, <1>6, <1>7, <1>8, <1>9, <1>10, <1>11, <1>12
  DEF Next, Handle

-----------------------------------------------------------------------------
(* One handler in a session. *)

\* What the handlers do to the flags keeps at most one in a session.
LEMMA ExclusiveStep ==
  ASSUME TypeOK, Exclusive, [Next]_vars
  PROVE  Exclusive'
<1>1. ASSUME UNCHANGED <<session, inFlight>>, NEW p \in Requests, pc[p] \in Busy,
             NEW to \in Busy, Goto(p, to)
      PROVE  Exclusive'
  <2>1. \A q \in Requests : pc'[q] \in Busy <=> pc[q] \in Busy
    BY <1>1, GotoTyped DEF Places
  <2> QED
    BY <1>1, <2>1 DEF Exclusive
<1>2. ASSUME NEW p \in Requests, GetOrCreate(p) PROVE Exclusive'
  <2>1. /\ pc'[p] \notin Busy
        /\ \A q \in Requests \ {p} : pc'[q] = pc[q]
    BY <1>2, GotoTyped DEF GetOrCreate, Places, Busy
  <2>2. \A q \in Requests \ {p} : session'[q] = session[q]
    BY <1>2 DEF GetOrCreate, TypeOK
  <2>3. UNCHANGED inFlight
    BY <1>2 DEF GetOrCreate, sessionVars
  <2> QED
    BY <2>1, <2>2, <2>3 DEF Exclusive
<1>3. ASSUME NEW p \in Requests, Take(p) PROVE Exclusive'
  <2>1. session[p] \in Requests /\ UNCHANGED session
    BY <1>3, InSession DEF Take
  <2>2. CASE Takeable(session[p]) /\ inFlight' = [inFlight EXCEPT ![session[p]] = TRUE]
             /\ Goto(p, "open")
    <3>1. /\ inFlight'[session[p]] /\ ~inFlight[session[p]]
          /\ \A t \in Requests : inFlight[t] => inFlight'[t]
      BY <2>1, <2>2 DEF TypeOK, Takeable
    <3>2. pc'[p] = "open" /\ \A q \in Requests \ {p} : pc'[q] = pc[q]
      BY <2>2, GotoTyped DEF Places, Busy
    <3>3. \A q \in Requests \ {p} : pc[q] \in Busy => session[q] # session[p]
      BY <3>1 DEF Exclusive
    <3>4. \A q \in Requests : pc'[q] \in Busy => inFlight'[session'[q]]
      BY <2>1, <3>1, <3>2, InSession DEF Exclusive
    <3> QED
      BY <2>1, <3>2, <3>3, <3>4 DEF Exclusive
  <2>3. CASE Goto(p, "done") /\ UNCHANGED inFlight
    <3>1. pc'[p] = "done" /\ \A q \in Requests \ {p} : pc'[q] = pc[q]
      BY <2>3, GotoTyped DEF Places
    <3> QED
      BY <2>1, <2>3, <3>1 DEF Exclusive, Busy
  <2> QED
    BY <1>3, <2>2, <2>3 DEF Take
<1>4. ASSUME NEW p \in Requests,
             Open(p) \/ Gate(p) \/ Iterate(p) \/ CallFails(p) \/ CallReturns(p) \/ Store(p)
      PROVE  Exclusive'
  <2>1. UNCHANGED <<session, inFlight>> /\ pc[p] \in Busy
    BY <1>4 DEF Open, Gate, Iterate, CallFails, CallReturns, Store, sessionVars, Busy
  <2>2. \E to \in Busy : Goto(p, to)
    BY <1>4 DEF Open, Gate, Iterate, CallFails, CallReturns, Store, Busy
  <2> QED
    BY <1>1, <2>1, <2>2
<1>5. ASSUME NEW p \in Requests, Leave(p) PROVE Exclusive'
  <2>1. session[p] \in Requests /\ UNCHANGED session /\ pc[p] \in Busy
    BY <1>5, InSession DEF Leave, Busy
  <2>2. pc'[p] = "done" /\ \A q \in Requests \ {p} : pc'[q] = pc[q]
    BY <1>5, GotoTyped DEF Leave, Places
  <2>3. \A t \in Requests \ {session[p]} : inFlight'[t] = inFlight[t]
    BY <1>5 DEF Leave, TypeOK
  <2>4. \A q \in Requests : pc'[q] \in Busy => q # p /\ session[q] # session[p]
    BY <2>1, <2>2 DEF Exclusive, Busy
  <2>5. \A q \in Requests : pc'[q] \in Busy => inFlight'[session'[q]]
    BY <2>1, <2>2, <2>3, <2>4, InSession DEF Exclusive
  <2> QED
    BY <2>1, <2>2, <2>4, <2>5 DEF Exclusive
<1>6. CASE UNCHANGED <<session, inFlight, pc>>
  BY <1>6 DEF Exclusive
<1>7. ASSUME NEW p \in Requests, Age(p) PROVE Exclusive'
  BY <1>6, <1>7 DEF Age, sessionVars
<1>8. CASE MarkExpired \/ EvictExpired \/ UNCHANGED vars
  BY <1>6, <1>8 DEF MarkExpired, EvictExpired, vars, sessionVars
<1> QED
  BY <1>2, <1>3, <1>4, <1>5, <1>7, <1>8 DEF Next, Handle

\* While a handler has a copy, nobody else is in its session.
LEMMA Alone ==
  ASSUME TypeOK, Exclusive,
         NEW p \in Requests, pc[p] \in Busy, NEW q \in Requests \ {p}, pc[q] \in Working
  PROVE  session[q] # session[p] /\ session[q] \in Requests /\ session[p] \in Requests
<1>1. pc[q] \in Busy
  BY DEF Working, Busy
<1> QED
  BY <1>1, InSession DEF Exclusive

-----------------------------------------------------------------------------
(* No message is lost. *)

Told == Covers /\ AcceptedInSession /\ NothingForgotten

\* A handler that goes on, without a copy or with the one it has.
LEMMA GoesOnTold ==
  ASSUME TypeOK, Told, UNCHANGED <<messages, session, history, accepted>>,
         NEW p \in Requests, NEW to \in Places, Goto(p, to),
         \/ p \notin accepted /\ to \notin Working
         \/ pc[p] \in Working /\ to \in Working \cup {"leave"}
         \/ to \in {"leave", "done"}
  PROVE  Told'
<1>1. pc'[p] = to /\ \A q \in Requests \ {p} : pc'[q] = pc[q]
  BY GotoTyped
<1>2. \A q \in Requests : pc'[q] \in Working => pc[q] \in Working
  BY <1>1 DEF Working
<1>3. Covers'
  BY <1>2 DEF Covers, Told
<1>4. AcceptedInSession'
  BY <1>1 DEF AcceptedInSession, Told, TypeOK, Working
<1>5. NothingForgotten'
  BY DEF NothingForgotten, Told
<1> QED
  BY <1>3, <1>4, <1>5 DEF Told

\* The steps of the handlers, the cleanup and time keep what was accepted.
LEMMA ToldStep ==
  ASSUME TypeOK, Exclusive, Told, [Next]_vars
  PROVE  Told'
<1>1. ASSUME NEW p \in Requests, GetOrCreate(p) PROVE Told'
  <2>1. /\ pc'[p] \in {"take", "done"} /\ pc[p] = "start"
        /\ \A q \in Requests \ {p} : pc'[q] = pc[q]
    BY <1>1, GotoTyped DEF GetOrCreate, Places
  <2>2. \A q \in Requests \ {p} : session'[q] = session[q]
    BY <1>1 DEF GetOrCreate, TypeOK
  <2>3. UNCHANGED <<messages, history, accepted>>
    BY <1>1 DEF GetOrCreate, sessionVars, turnVars
  <2>4. p \notin accepted
    BY <2>1 DEF Told, AcceptedInSession, Working
  <2>5. accepted \subseteq Requests \ {p}
    BY <2>4 DEF TypeOK
  <2>6. Covers'
    BY <2>1, <2>2, <2>3 DEF Covers, Told, Working
  <2>7. AcceptedInSession' /\ NothingForgotten'
    BY <2>1, <2>2, <2>3, <2>5 DEF AcceptedInSession, NothingForgotten, Told
  <2> QED
    BY <2>6, <2>7 DEF Told
<1>2. ASSUME NEW p \in Requests, Take(p) PROVE Told'
  <2>1. p \notin accepted
    BY <1>2 DEF Take, Told, AcceptedInSession, Working
  <2> QED
    BY <1>2, <2>1, GoesOnTold DEF Take, turnVars, Places, Busy, Working
<1>3. ASSUME NEW p \in Requests, Open(p) PROVE Told'
  <2> DEFINE s == session[p]
             msgs == Append(messages[s], Message("user", {p}))
  <2>1. s \in Requests /\ pc[p] = "open" /\ messages[s] \in Seq(Messages) /\ UNCHANGED session
    BY <1>3, InSession DEF Open, Busy, TypeOK
  <2>2. CASE Goto(p, "leave") /\ UNCHANGED <<messages, history, accepted>>
    BY <2>1, <2>2, GoesOnTold DEF Places, Busy
  <2>3. CASE /\ messages' = [messages EXCEPT ![s] = msgs]
             /\ history' = [history EXCEPT ![p] = msgs]
             /\ accepted' = accepted \cup {p}
             /\ Goto(p, "gate")
    <3>1. Said(msgs) = Said(messages[s]) \cup {p}
      BY <2>1, SaidAppend
    <3>2. pc'[p] = "gate" /\ \A q \in Requests \ {p} : pc'[q] = pc[q]
      BY <2>3, GotoTyped DEF Places, Busy
    <3>3. /\ messages'[s] = msgs /\ history'[p] = msgs
          /\ \A t \in Requests \ {s} : messages'[t] = messages[t]
          /\ \A q \in Requests \ {p} : history'[q] = history[q]
      <4> HIDE DEF s, msgs
      <4> QED
        BY <2>1, <2>3 DEF TypeOK
    <3>4. \A q \in Requests \ {p} :
            pc[q] \in Working => session[q] # s /\ session[q] \in Requests
      BY <2>1, Alone DEF Busy
    <3> HIDE DEF msgs
    <3>5. Covers'
      BY <2>1, <3>2, <3>3, <3>4 DEF Covers, Told
    <3>6. AcceptedInSession'
      BY <2>1, <2>3, <3>2 DEF AcceptedInSession, Told, TypeOK, Working
    <3>7. NothingForgotten'
      <4>1. \A t \in Requests : Said(messages[t]) \subseteq Said(messages'[t])
        BY <3>1, <3>3
      <4>2. \A q \in accepted : q \in Said(messages'[session[q]])
        BY <4>1 DEF Told, NothingForgotten, AcceptedInSession
      <4>3. p \in Said(messages'[session[p]])
        BY <3>1, <3>3
      <4> QED
        BY <2>1, <2>3, <4>2, <4>3 DEF NothingForgotten
    <3> QED
      BY <3>5, <3>6, <3>7 DEF Told
  <2> QED
    BY <1>3, <2>2, <2>3 DEF Open
<1>4. ASSUME NEW p \in Requests, Gate(p) \/ CallFails(p) PROVE Told'
  <2>1. /\ UNCHANGED <<messages, session, history, accepted>> /\ pc[p] \in Working
        /\ Goto(p, "turn") \/ Goto(p, "leave") \/ Goto(p, "store")
    BY <1>4 DEF Gate, CallFails, sessionVars, turnVars, Working
  <2> QED
    BY <2>1, GoesOnTold DEF Places, Busy, Working
<1>5. ASSUME NEW p \in Requests, Iterate(p) \/ CallReturns(p) PROVE Told'
  <2>1. \A q \in Requests : Said(history[q]) \subseteq Said(history'[q])
    BY <1>5, TurnKeeps
  <2>2. UNCHANGED <<messages, session, accepted>> /\ pc[p] \in Working
    BY <1>5 DEF Iterate, CallReturns, sessionVars, Working
  <2>3. pc'[p] \in Working /\ \A q \in Requests \ {p} : pc'[q] = pc[q]
    BY <1>5, GotoTyped DEF Iterate, CallReturns, Working, Places, Busy
  <2>4. Covers'
    <3>1. \A q \in Requests : pc'[q] \in Working => pc[q] \in Working
      BY <2>2, <2>3
    <3>2. \A q \in Requests :
            pc[q] \in Working => Said(messages[session[q]]) \subseteq Said(history'[q])
      BY <2>1 DEF Covers, Told
    <3> QED
      BY <2>2, <3>1, <3>2 DEF Covers
  <2>5. AcceptedInSession' /\ NothingForgotten'
    BY <2>2, <2>3 DEF AcceptedInSession, NothingForgotten, Told, TypeOK
  <2> QED
    BY <2>4, <2>5 DEF Told
<1>6. ASSUME NEW p \in Requests, Store(p) PROVE Told'
  <2>1. /\ session[p] \in Requests /\ pc[p] = "store"
        /\ UNCHANGED <<session, history, accepted>>
    BY <1>6, InSession DEF Store, Busy, turnVars
  <2>2. pc'[p] = "leave" /\ \A q \in Requests \ {p} : pc'[q] = pc[q]
    BY <1>6, GotoTyped DEF Store, Places, Busy
  <2>3. /\ messages'[session[p]] = history[p]
        /\ \A t \in Requests \ {session[p]} : messages'[t] = messages[t]
    BY <1>6, <2>1 DEF Store, TypeOK
  <2>4. \A t \in Requests : Said(messages[t]) \subseteq Said(messages'[t])
    <3>1. Said(messages[session[p]]) \subseteq Said(history[p])
      BY <2>1 DEF Covers, Told, Working
    <3> QED
      BY <2>3, <3>1
  <2>5. \A q \in Requests \ {p} :
          pc[q] \in Working => session[q] # session[p] /\ session[q] \in Requests
    BY <2>1, Alone DEF Busy
  <2>6. Covers'
    BY <2>1, <2>2, <2>3, <2>5 DEF Covers, Told, Working
  <2>7. AcceptedInSession'
    BY <2>1, <2>2 DEF AcceptedInSession, Told, TypeOK
  <2>8. NothingForgotten'
    BY <2>1, <2>4 DEF NothingForgotten, AcceptedInSession, Told
  <2> QED
    BY <2>6, <2>7, <2>8 DEF Told
<1>7. ASSUME NEW p \in Requests, Leave(p) PROVE Told'
  <2>1. pc'[p] = "done" /\ \A q \in Requests \ {p} : pc'[q] = pc[q]
    BY <1>7, GotoTyped DEF Leave, Places
  <2>2. UNCHANGED <<messages, session, accepted>>
        /\ \A q \in Requests \ {p} : history'[q] = history[q]
    BY <1>7 DEF Leave, TypeOK
  <2>3. Covers'
    BY <2>1, <2>2 DEF Covers, Told, Working
  <2>4. AcceptedInSession' /\ NothingForgotten'
    BY <2>1, <2>2 DEF AcceptedInSession, NothingForgotten, Told, TypeOK
  <2> QED
    BY <2>3, <2>4 DEF Told
<1>8. CASE UNCHANGED <<messages, session, history, accepted, pc>>
  BY <1>8 DEF Told, Covers, AcceptedInSession, NothingForgotten
<1>9. ASSUME NEW p \in Requests, Age(p) PROVE Told'
  BY <1>8, <1>9 DEF Age, sessionVars, turnVars
<1>10. CASE MarkExpired \/ EvictExpired \/ UNCHANGED vars
  BY <1>8, <1>10 DEF MarkExpired, EvictExpired, vars, sessionVars, turnVars
<1> QED
  BY <1>1, <1>2, <1>3, <1>4, <1>5, <1>6, <1>7, <1>9, <1>10 DEF Next, Handle

-----------------------------------------------------------------------------
(* The token budget. *)

Budgeted == Spends /\ OverspendsOneTurn

\* The calls of a turn that began within the budget.
LEMMA OneTurn ==
  ASSUME NEW t \in Nat, t < TokenBudget, NEW u \in Nat, NEW c \in 0 .. MaxIterations,
         u <= c * MaxCost
  PROVE  t + u < TokenBudget + MaxIterations * MaxCost
<1>1. c * MaxCost <= MaxIterations * MaxCost
  BY LimitsAssumption
<1>2. c * MaxCost \in Nat /\ MaxIterations * MaxCost \in Nat
  BY LimitsAssumption
<1> QED
  BY <1>1, <1>2, LimitsAssumption

\* A handler that goes on and spends nothing.
LEMMA GoesOnBudgeted ==
  ASSUME TypeOK, Budgeted, UNCHANGED <<session, tokens, used, calls>>,
         NEW p \in Requests, NEW to \in Places, Goto(p, to),
         to \in Working => pc[p] \in Working
  PROVE  Budgeted'
<1>1. pc'[p] = to /\ \A q \in Requests \ {p} : pc'[q] = pc[q]
  BY GotoTyped
<1>2. \A q \in Requests : pc'[q] \in Working => pc[q] \in Working
  BY <1>1
<1> QED
  BY <1>2 DEF Budgeted, Spends, Spent, OverspendsOneTurn

\* Only a turn that is stored adds to the tokens of its session, and nobody else is in it.
LEMMA BudgetedStep ==
  ASSUME TypeOK, Exclusive, Budgeted, [Next]_vars
  PROVE  Budgeted'
<1>1. ASSUME NEW p \in Requests, GetOrCreate(p) PROVE Budgeted'
  <2>1. /\ pc'[p] \in {"take", "done"}
        /\ \A q \in Requests \ {p} : pc'[q] = pc[q]
    BY <1>1, GotoTyped DEF GetOrCreate, Places
  <2>2. \A q \in Requests \ {p} : session'[q] = session[q]
    BY <1>1 DEF GetOrCreate, TypeOK
  <2>3. UNCHANGED <<tokens, used, calls>>
    BY <1>1 DEF GetOrCreate, sessionVars, turnVars
  <2> QED
    BY <2>1, <2>2, <2>3 DEF Budgeted, Spends, Spent, OverspendsOneTurn, Working
<1>2. ASSUME NEW p \in Requests, Take(p) PROVE Budgeted'
  BY <1>2, GoesOnBudgeted DEF Take, turnVars, Places, Busy, Working
<1>3. ASSUME NEW p \in Requests, Open(p) PROVE Budgeted'
  <2>1. UNCHANGED <<session, tokens, used, calls>>
    BY <1>3 DEF Open
  <2>2. CASE Goto(p, "leave")
    BY <2>1, <2>2, GoesOnBudgeted DEF Places, Busy, Working
  <2>3. CASE ~Spent(session[p]) /\ Goto(p, "gate")
    <3>1. \A q \in Requests \ {p} : pc'[q] = pc[q]
      BY <2>3, GotoTyped DEF Places, Busy
    <3>2. \A q \in Requests : pc'[q] \in Working => ~Spent(session[q])
      BY <2>3, <3>1 DEF Budgeted, Spends
    <3> QED
      BY <2>1, <3>2 DEF Budgeted, Spends, Spent, OverspendsOneTurn
  <2> QED
    BY <1>3, <2>2, <2>3 DEF Open
<1>4. ASSUME NEW p \in Requests, Gate(p) \/ CallFails(p) \/ Iterate(p) PROVE Budgeted'
  <2>1. UNCHANGED <<session, tokens, used, calls>> /\ pc[p] \in Working
    BY <1>4 DEF Gate, CallFails, Iterate, sessionVars, turnVars, Working
  <2>2. \E to \in Places : Goto(p, to)
    BY <1>4 DEF Gate, CallFails, Iterate, Places, Busy
  <2> QED
    BY <2>1, <2>2, GoesOnBudgeted
<1>5. ASSUME NEW p \in Requests, CallReturns(p) PROVE Budgeted'
  <2>1. PICK cost \in 0 .. MaxCost :
          /\ used' = [used EXCEPT ![p] = @ + cost]
          /\ calls' = [calls EXCEPT ![p] = @ + 1]
    BY <1>5 DEF CallReturns
  <2>2. UNCHANGED <<session, tokens>> /\ pc[p] = "call"
    BY <1>5 DEF CallReturns, sessionVars
  <2>3. \A q \in Requests : pc'[q] \in Working => pc[q] \in Working
    BY <1>5, GotoTyped DEF CallReturns, Working, Places, Busy
  <2>4. used'[p] <= calls'[p] * MaxCost
    <3>1. /\ used[p] \in Nat /\ calls[p] \in Nat /\ MaxCost \in Nat
          /\ used[p] <= calls[p] * MaxCost
      BY LimitsAssumption DEF TypeOK, Budgeted, Spends
    <3>2. used'[p] = used[p] + cost /\ calls'[p] = calls[p] + 1
      BY <2>1 DEF TypeOK
    <3>3. (calls[p] + 1) * MaxCost = calls[p] * MaxCost + MaxCost
      BY <3>1
    <3>4. calls[p] * MaxCost \in Nat
      BY <3>1
    <3> QED
      BY <3>1, <3>2, <3>3, <3>4
  <2>5. \A q \in Requests \ {p} : used'[q] = used[q] /\ calls'[q] = calls[q]
    BY <2>1 DEF TypeOK
  <2> QED
    BY <2>2, <2>3, <2>4, <2>5 DEF Budgeted, Spends, Spent, OverspendsOneTurn
<1>6. ASSUME NEW p \in Requests, Store(p) PROVE Budgeted'
  <2>1. session[p] \in Requests /\ pc[p] = "store" /\ UNCHANGED <<session, used, calls>>
    BY <1>6, InSession DEF Store, Busy, turnVars
  <2>2. pc'[p] = "leave" /\ \A q \in Requests \ {p} : pc'[q] = pc[q]
    BY <1>6, GotoTyped DEF Store, Places, Busy
  <2>3. /\ tokens'[session[p]] = tokens[session[p]] + used[p]
        /\ \A t \in Requests \ {session[p]} : tokens'[t] = tokens[t]
    BY <1>6, <2>1 DEF Store, TypeOK
  <2>4. tokens'[session[p]] < TokenBudget + MaxIterations * MaxCost
    <3>1. /\ tokens[session[p]] \in Nat /\ used[p] \in Nat /\ calls[p] \in 0 .. MaxIterations
          /\ used[p] <= calls[p] * MaxCost
      BY <2>1 DEF TypeOK, Budgeted, Spends
    <3>2. tokens[session[p]] < TokenBudget
      BY <2>1, <3>1, LimitsAssumption DEF Budgeted, Spends, Spent, Working
    <3> QED
      BY <2>3, <3>1, <3>2, OneTurn
  <2>5. OverspendsOneTurn'
    BY <2>3, <2>4 DEF Budgeted, OverspendsOneTurn
  <2>6. \A q \in Requests \ {p} :
          pc[q] \in Working => session[q] # session[p] /\ session[q] \in Requests
    BY <2>1, Alone DEF Busy
  <2>7. \A q \in Requests : pc'[q] \in Working => ~Spent(session[q])'
    BY <2>1, <2>2, <2>3, <2>6 DEF Budgeted, Spends, Spent, Working
  <2> QED
    BY <2>1, <2>5, <2>7 DEF Budgeted, Spends
<1>7. ASSUME NEW p \in Requests, Leave(p) PROVE Budgeted'
  <2>1. pc'[p] = "done" /\ \A q \in Requests \ {p} : pc'[q] = pc[q]
    BY <1>7, GotoTyped DEF Leave, Places
  <2>2. UNCHANGED <<session, tokens>> /\ used'[p] = 0 /\ calls'[p] = 0
        /\ \A q \in Requests \ {p} : used'[q] = used[q] /\ calls'[q] = calls[q]
    BY <1>7 DEF Leave, TypeOK
  <2>3. 0 <= 0 * MaxCost
    BY LimitsAssumption
  <2> QED
    BY <2>1, <2>2, <2>3 DEF Budgeted, Spends, Spent, OverspendsOneTurn, Working
<1>8. CASE UNCHANGED <<session, tokens, used, calls, pc>>
  BY <1>8 DEF Budgeted, Spends, Spent, OverspendsOneTurn
<1>9. ASSUME NEW p \in Requests, Age(p) PROVE Budgeted'
  BY <1>8, <1>9 DEF Age, sessionVars, turnVars
<1>10. CASE MarkExpired \/ EvictExpired \/ UNCHANGED vars
  BY <1>8, <1>10 DEF MarkExpired, EvictExpired, vars, sessionVars, turnVars
<1> QED
  BY <1>1, <1>2, <1>3, <1>4, <1>5, <1>6, <1>7, <1>9, <1>10 DEF Next, Handle

-----------------------------------------------------------------------------
(* The table. *)

Bounded == TableFinite /\ TableBounded

\* Making a session adds one ID where there was room; everything else adds none.
LEMMA BoundedStep ==
  ASSUME TypeOK, Bounded, [Next]_vars
  PROVE  Bounded'
<1>1. ASSUME Taken' \subseteq Taken PROVE Bounded'
  <2>1. IsFiniteSet(Taken') /\ Cardinality(Taken') <= Cardinality(Taken)
    BY <1>1, FS_Subset DEF Bounded, TableFinite
  <2>2. Cardinality(Taken) \in Nat /\ Cardinality(Taken') \in Nat
    BY <2>1, FS_CardinalityType DEF Bounded, TableFinite
  <2> QED
    BY <2>1, <2>2, LimitsAssumption DEF Bounded, TableFinite, TableBounded
<1>2. ASSUME NEW id \in Ids, NEW p \in Requests, HasRoom,
             table[id] = NoSession, table' = [table EXCEPT ![id] = p]
      PROVE  Bounded'
  <2>1. Taken' = Taken \cup {id} /\ id \notin Taken
    BY <1>2, NoSessionAssumption DEF Taken, TypeOK
  <2>2. /\ IsFiniteSet(Taken \cup {id})
        /\ Cardinality(Taken \cup {id}) = Cardinality(Taken) + 1
    BY <2>1, FS_AddElement DEF Bounded, TableFinite
  <2>3. Cardinality(Taken) \in Nat
    BY FS_CardinalityType DEF Bounded, TableFinite
  <2> QED
    BY <1>2, <2>1, <2>2, <2>3, LimitsAssumption DEF Bounded, TableFinite, TableBounded, HasRoom
<1>3. ASSUME NEW p \in Requests, GetOrCreate(p) PROVE Bounded'
  <2>1. CASE UNCHANGED table
    BY <1>1, <2>1 DEF Taken
  <2> QED
    BY <1>2, <1>3, <2>1 DEF GetOrCreate
<1>4. CASE EvictExpired
  BY <1>1, <1>4 DEF EvictExpired, Taken
<1>5. ASSUME NEW p \in Requests, Handle(p) \/ Age(p) PROVE Bounded'
  <2>1. UNCHANGED table
    BY <1>5 DEF Handle, Take, Open, Gate, Iterate, CallFails, CallReturns, Store, Leave, Age
  <2> QED
    BY <1>1, <2>1 DEF Taken
<1>6. CASE MarkExpired \/ UNCHANGED vars
  BY <1>1, <1>6 DEF MarkExpired, vars, Taken
<1> QED
  BY <1>3, <1>4, <1>5, <1>6 DEF Next

-----------------------------------------------------------------------------
(* The theorems. *)

\* The invariant holds at the start.
LEMMA InitIInv == Init => IInv
<1> SUFFICES ASSUME Init PROVE IInv
  OBVIOUS
<1> USE LimitsAssumption, NoSessionAssumption DEF Init
<1>1. TypeOK
  BY DEF TypeOK, Equipped, Places, Busy
<1>2. Exclusive /\ Covers
  BY DEF Exclusive, Covers, Busy, Working
<1>3. AcceptedInSession /\ NothingForgotten
  BY DEF AcceptedInSession, NothingForgotten
<1>4. Spends
  BY DEF Spends, Working
<1>5. OverspendsOneTurn
  <2>1. MaxIterations * MaxCost > 0
    BY LimitsAssumption
  <2> QED
    BY <2>1 DEF OverspendsOneTurn
<1>6. Taken = {}
  BY DEF Taken
<1>7. TableFinite /\ TableBounded
  BY <1>6, FS_EmptySet DEF TableFinite, TableBounded
<1> QED
  BY <1>1, <1>2, <1>3, <1>4, <1>5, <1>7 DEF IInv

\* Every handler and the cleanup keep the invariant.
LEMMA StepIInv == IInv /\ [Next]_vars => IInv'
<1> SUFFICES ASSUME IInv, [Next]_vars PROVE IInv'
  OBVIOUS
<1>1. TypeOK /\ Exclusive /\ Told /\ Budgeted /\ Bounded
  BY DEF IInv, Told, Budgeted, Bounded
<1>2. TypeOK' /\ Exclusive' /\ Told' /\ Budgeted' /\ Bounded'
  BY <1>1, TypeStep, ExclusiveStep, ToldStep, BudgetedStep, BoundedStep
<1> QED
  BY <1>2 DEF IInv, Told, Budgeted, Bounded

\* The inductive invariant of the chat sessions: the flag keeps one handler in a session,
\* whose copy of the history says what the session's does, and which spends what it may.
THEOREM Invariant == Spec => []IInv
<1> QED
  BY InitIInv, StepIInv, PTL DEF Spec

\* Sessions, handlers and histories have their types, and a provider call is one of the
\* turn's MaxIterations (the loop of RunTurn).
THEOREM TypeCorrect == Spec => []TypeOK
<1>1. IInv => TypeOK
  BY DEF IInv
<1> QED
  BY <1>1, Invariant, PTL

\* The text of every accepted message stays in its session's history, whatever requests,
\* failed turns, compactions and evictions interleave (handleChat's inFlight guard).
THEOREM NothingForgottenHolds == Spec => []NothingForgotten
<1>1. IInv => NothingForgotten
  BY DEF IInv
<1> QED
  BY <1>1, Invariant, PTL

\* A session overspends its token budget by less than one turn (handleChat checks it before
\* the turn and adds to it after).
THEOREM OverspendsOneTurnHolds == Spec => []OverspendsOneTurn
<1>1. IInv => OverspendsOneTurn
  BY DEF IInv
<1> QED
  BY <1>1, Invariant, PTL

\* There are never more sessions than --chat-max-sessions (getOrCreateChatSession).
THEOREM TableBoundedHolds == Spec => []TableBounded
<1>1. IInv => TableBounded
  BY DEF IInv
<1> QED
  BY <1>1, Invariant, PTL

\* The cleanup removes no session that was accessed after its first pass
\* (cleanupChatSessions looks again under the write lock).
THEOREM AccessedKeptHolds == Spec => AccessedKept
<1>1. TypeOK /\ [Next]_vars =>
        [\A id \in Ids : table[id] # NoSession /\ table[id] \notin idle => table'[id] = table[id]]_vars
  <2> SUFFICES ASSUME TypeOK, Next,
                      NEW id \in Ids, table[id] # NoSession, table[id] \notin idle
               PROVE  table'[id] = table[id]
    OBVIOUS
  <2>1. ASSUME NEW p \in Requests, GetOrCreate(p) PROVE table'[id] = table[id]
    BY <2>1 DEF GetOrCreate, TypeOK
  <2>2. ASSUME NEW p \in Requests, Handle(p) \/ Age(p) PROVE table'[id] = table[id]
    BY <2>2 DEF Handle, Take, Open, Gate, Iterate, CallFails, CallReturns, Store, Leave, Age
  <2>3. CASE MarkExpired
    BY <2>3 DEF MarkExpired
  <2>4. CASE EvictExpired
    BY <2>4 DEF EvictExpired, Evicts
  <2> QED
    BY <2>1, <2>2, <2>3, <2>4 DEF Next
<1> QED
  BY <1>1, TypeCorrect, PTL DEF Spec, AccessedKept
=============================================================================
