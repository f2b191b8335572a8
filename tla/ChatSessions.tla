---------------------------- MODULE ChatSessions ----------------------------
(***************************************************************************)
(* Chat sessions of the dashboard (internal/dashboard/handlers_chat.go)    *)
(* and the turns the agent takes in them (internal/ai/agent.go).           *)
(*                                                                         *)
(* A POST /api/chat finds or makes a session, takes its inFlight flag,     *)
(* appends the user's message and works on a copy of the history without   *)
(* holding a lock; at the end the copy replaces the history.  Meanwhile a  *)
(* goroutine evicts sessions that were not accessed for the TTL, in two    *)
(* passes.  What is done under one acquisition of chatMu or session.mu is  *)
(* one action.                                                             *)
(*                                                                         *)
(* A request makes at most one session, so a session is named by the       *)
(* request that made it.  Of a message the model keeps its role and which  *)
(* requests' texts it contains: one for a user's message, several for the  *)
(* summary that replaces the older part of a long history.                 *)
(***************************************************************************)
EXTENDS Integers, Sequences, FiniteSets

CONSTANTS
  Ids,            \* session IDs; a new uuid is one that is not in use
  Requests,       \* POST /api/chat requests
  NoSession,
  MaxSessions,    \* --chat-max-sessions
  TokenBudget,    \* --chat-token-budget, per session
  MaxIterations,  \* --chat-max-turns: provider calls in a turn
  MaxToolCalls,   \* bound on the tools one answer asks for
  MaxCost,        \* bound on the tokens a provider call uses
  Anthropic       \* whether the provider is Anthropic; else OpenAI

ASSUME NoSessionAssumption == NoSession \notin Requests
ASSUME LimitsAssumption ==
  /\ MaxSessions \in Nat /\ TokenBudget \in Nat
  /\ MaxIterations \in Nat \ {0} /\ MaxToolCalls \in Nat \ {0} /\ MaxCost \in Nat \ {0}
  /\ Anthropic \in BOOLEAN

VARIABLES
  table,      \* chatSessions: per ID the session
  messages, tokens, inFlight,  \* per session: Messages, TokensUsed, inFlight
  idle,       \* sessions not accessed for longer than the TTL
  expired,    \* what the first pass of the cleanup found, as pairs of ID and session
  pc,         \* per request where its handler is
  session,    \* per request its session
  history, used, calls, \* RunTurn: msgs, totalTokens, i
  accepted    \* requests whose message was appended (an observation)

sessionVars == <<messages, tokens, inFlight>>
turnVars == <<history, used, calls>>
vars == <<table, sessionVars, idle, expired, pc, session, turnVars, accepted>>

Message(role, says) == [role |-> role, says |-> says]

\* The requests whose text is in a history.
Said(msgs) == UNION {msgs[i].says : i \in DOMAIN msgs}

Init ==
  /\ table = [id \in Ids |-> NoSession]
  /\ messages = [s \in Requests |-> <<>>]
  /\ tokens = [s \in Requests |-> 0]
  /\ inFlight = [s \in Requests |-> FALSE]
  /\ idle = {} /\ expired = {}
  /\ pc = [p \in Requests |-> "start"]
  /\ session = [p \in Requests |-> NoSession]
  /\ history = [p \in Requests |-> <<>>]
  /\ used = [p \in Requests |-> 0]
  /\ calls = [p \in Requests |-> 0]
  /\ accepted = {}

Goto(p, to) == pc' = [pc EXCEPT ![p] = to]

-----------------------------------------------------------------------------
(* The session table. *)

Taken == {id \in Ids : table[id] # NoSession}
Listed == {table[id] : id \in Taken}

HasRoom == Cardinality(Taken) < MaxSessions

\* getOrCreateChatSession: an ID that is not listed is used for a new session.
GetOrCreate(p) ==
  /\ pc[p] = "start"
  /\ \E id \in Ids :
       \/ /\ table[id] # NoSession
          /\ session' = [session EXCEPT ![p] = table[id]]
          /\ Goto(p, "take")
          /\ UNCHANGED table
       \/ /\ table[id] = NoSession /\ HasRoom
          /\ session' = [session EXCEPT ![p] = p]
          /\ table' = [table EXCEPT ![id] = p]
          /\ Goto(p, "take")
       \/ /\ table[id] = NoSession /\ ~HasRoom
          /\ Goto(p, "done")
          /\ UNCHANGED <<table, session>>
  /\ UNCHANGED <<sessionVars, idle, expired, turnVars, accepted>>

\* Nobody has accessed a session for longer than the TTL.
Age(s) ==
  /\ s \in Listed \ idle
  /\ idle' = idle \cup {s}
  /\ UNCHANGED <<table, sessionVars, expired, pc, session, turnVars, accepted>>

\* cleanupChatSessions, first pass: under chatMu for reading.
MarkExpired ==
  /\ expired = {}
  /\ expired' = {<<id, table[id]>> : id \in {i \in Ids : table[i] \in idle}}
  /\ UNCHANGED <<table, sessionVars, idle, pc, session, turnVars, accepted>>

\* Mutation: what the first pass found is deleted.
EvictsMarked(id) == <<id, table[id]>> \in expired
\* The second pass looks again.
Evicts(id) == <<id, table[id]>> \in expired /\ table[id] \in idle

\* Second pass: under chatMu.
EvictExpired ==
  /\ expired # {}
  /\ table' = [id \in Ids |-> IF Evicts(id) THEN NoSession ELSE table[id]]
  /\ expired' = {}
  /\ UNCHANGED <<sessionVars, idle, pc, session, turnVars, accepted>>

-----------------------------------------------------------------------------
(* handleChat before and after the turn. *)

Takeable(s) == ~inFlight[s]

\* The inFlight guard.
Take(p) ==
  LET s == session[p] IN
  /\ pc[p] = "take"
  /\ \/ Takeable(s) /\ inFlight' = [inFlight EXCEPT ![s] = TRUE] /\ Goto(p, "open")
     \/ ~Takeable(s) /\ Goto(p, "done") /\ UNCHANGED inFlight
  /\ UNCHANGED <<table, messages, tokens, idle, expired, session, turnVars, accepted>>

\* Mutation: the budget is not asked once a session has a history.
SpentFirstOnly(s) == tokens[s] >= TokenBudget /\ messages[s] = <<>>
Spent(s) == tokens[s] >= TokenBudget

\* The session is accessed; within its budget the message is appended and copied.
Open(p) ==
  LET s == session[p]
      msgs == Append(messages[s], Message("user", {p}))
  IN
  /\ pc[p] = "open"
  /\ idle' = idle \ {s}
  /\ \/ Spent(s) /\ Goto(p, "leave") /\ UNCHANGED <<messages, history, accepted>>
     \/ /\ ~Spent(s)
        /\ messages' = [messages EXCEPT ![s] = msgs]
        /\ history' = [history EXCEPT ![p] = msgs]
        /\ accepted' = accepted \cup {p}
        /\ Goto(p, "gate")
  /\ UNCHANGED <<table, tokens, inFlight, expired, session, used, calls>>

\* The session_id event is written and the circuit breaker asked; either may fail.
Gate(p) ==
  /\ pc[p] = "gate"
  /\ Goto(p, "turn") \/ Goto(p, "leave")
  /\ UNCHANGED <<table, sessionVars, idle, expired, session, turnVars, accepted>>

\* The history and the tokens of the turn are stored.
Store(p) ==
  LET s == session[p] IN
  /\ pc[p] = "store"
  /\ messages' = [messages EXCEPT ![s] = history[p]]
  /\ tokens' = [tokens EXCEPT ![s] = @ + used[p]]
  /\ Goto(p, "leave")
  /\ UNCHANGED <<table, inFlight, idle, expired, session, turnVars, accepted>>

\* Mutation: a request that was refused by the budget leaves the flag behind.
ReleasesAfterTurn(p) == p \in accepted
\* The flag is cleared by a deferred function, on every path.
Releases(p) == TRUE

Leave(p) ==
  /\ pc[p] = "leave"
  /\ inFlight' = [inFlight EXCEPT ![session[p]] = @ /\ ~Releases(p)]
  /\ Goto(p, "done")
  /\ history' = [history EXCEPT ![p] = <<>>]
  /\ used' = [used EXCEPT ![p] = 0]
  /\ calls' = [calls EXCEPT ![p] = 0]
  /\ UNCHANGED <<table, messages, tokens, idle, expired, session, accepted>>

-----------------------------------------------------------------------------
(* RunTurn. *)

KeepTail == 3

\* Mutation: the older messages are dropped without a summary.
CompactedWithoutSummary(msgs) ==
  LET n == Len(msgs) - KeepTail IN
  <<Message("user", {})>> \o SubSeq(msgs, n + 1, Len(msgs))
\* All but the last three messages become one user message.
Compacted(msgs) ==
  LET n == Len(msgs) - KeepTail IN
  <<Message("user", Said(SubSeq(msgs, 1, n)))>> \o SubSeq(msgs, n + 1, Len(msgs))

MayCall(p) == calls[p] < MaxIterations

\* The head of the loop: cancelled, out of calls, over the manager's budget, or on to
\* the call with a history that is compacted when its text is long.
Iterate(p) ==
  /\ pc[p] = "turn"
  /\ \/ Goto(p, "store") /\ UNCHANGED history
     \/ /\ MayCall(p)
        /\ Goto(p, "call")
        /\ \/ UNCHANGED history
           \/ /\ Len(history[p]) > 4
              /\ history' = [history EXCEPT ![p] = Compacted(@)]
  /\ UNCHANGED <<table, sessionVars, idle, expired, session, used, calls, accepted>>

\* buildAnthropicMessages: a tool result is merged into the user message before it,
\* which must then be tool results as well.
Builds(msgs) == \A i \in 2 .. Len(msgs) : msgs[i].role = "tool" => msgs[i - 1].role # "user"

\* The provider call fails; it counts no tokens.
CallFails(p) ==
  /\ pc[p] = "call"
  /\ Goto(p, "store")
  /\ UNCHANGED <<table, sessionVars, idle, expired, session, turnVars, accepted>>

Answer == <<Message("assistant", {})>>
ToolCalls(n) == <<Message("calls", {})>> \o [i \in 1 .. n |-> Message("tool", {})]

\* The provider answers, or asks for tools, whose results are appended with the calls.
CallReturns(p) ==
  /\ pc[p] = "call"
  /\ Anthropic => Builds(history[p])
  /\ \E cost \in 0 .. MaxCost : used' = [used EXCEPT ![p] = @ + cost]
  /\ calls' = [calls EXCEPT ![p] = @ + 1]
  /\ \/ history' = [history EXCEPT ![p] = @ \o Answer] /\ Goto(p, "store")
     \/ /\ \E n \in 1 .. MaxToolCalls : history' = [history EXCEPT ![p] = @ \o ToolCalls(n)]
        /\ Goto(p, "turn")
  /\ UNCHANGED <<table, sessionVars, idle, expired, session, accepted>>

Handle(p) ==
  Take(p) \/ Open(p) \/ Gate(p) \/ Iterate(p) \/ CallFails(p) \/ CallReturns(p)
  \/ Store(p) \/ Leave(p)

-----------------------------------------------------------------------------
Next ==
  \/ \E p \in Requests : GetOrCreate(p) \/ Handle(p) \/ Age(p)
  \/ MarkExpired
  \/ EvictExpired

\* A handler runs and its calls return: the client's HTTP timeout is 90 s.
Fairness == \A p \in Requests : WF_vars(Handle(p))

Spec == Init /\ [][Next]_vars
FairSpec == Spec /\ Fairness

-----------------------------------------------------------------------------
Roles == {"user", "assistant", "calls", "tool"}
Messages == [role : Roles, says : SUBSET Requests]
Busy == {"open", "gate", "turn", "call", "store", "leave"}
Places == {"start", "take", "done"} \cup Busy

\* What a handler has where it is.
Equipped(p) ==
  /\ pc[p] \in {"take"} \cup Busy => session[p] # NoSession
  /\ pc[p] = "call" => calls[p] < MaxIterations

TypeOK ==
  /\ table \in [Ids -> Requests \cup {NoSession}]
  /\ messages \in [Requests -> Seq(Messages)]
  /\ tokens \in [Requests -> Nat]
  /\ inFlight \in [Requests -> BOOLEAN]
  /\ idle \subseteq Requests
  /\ expired \subseteq Ids \X Requests
  /\ pc \in [Requests -> Places]
  /\ session \in [Requests -> Requests \cup {NoSession}]
  /\ history \in [Requests -> Seq(Messages)]
  /\ used \in [Requests -> Nat]
  /\ calls \in [Requests -> 0 .. MaxIterations]
  /\ \A p \in Requests : Equipped(p)
  /\ accepted \subseteq Requests

\* No message is lost: the text of a request whose message was accepted is in its
\* session's history, itself or in a summary, whatever other requests, turns that fail
\* half way and compactions do (the inFlight guard; Messages = updatedMsgs in
\* handleChat).
NothingForgotten ==
  \A p \in accepted : p \in Said(messages[session[p]])

\* A session exceeds its token budget by less than one turn (handleChat's check before
\* the turn, the store after it).
OverspendsOneTurn ==
  \A s \in Requests : tokens[s] < TokenBudget + MaxIterations * MaxCost

\* No more sessions than allowed (getOrCreateChatSession).
TableBounded == Cardinality(Taken) <= MaxSessions

\* A session that was accessed since the first pass is not evicted by the second
\* (TestCleanupChatSessions_TOCTOU).
AccessedKept ==
  [][\A id \in Ids : table[id] # NoSession /\ table[id] \notin idle => table'[id] = table[id]]_vars

\* Every turn gives its session back (the deferred reset of inFlight).
TurnsEnd == \A s \in Requests : inFlight[s] ~> ~inFlight[s]

\* "Anthropic requires tool results to be content blocks inside an "assistant" message
\* followed by a "user" message with "tool_result" blocks" (agent.go): what is sent to
\* the provider can be built.
RequestBuilds == \A p \in Requests : Anthropic /\ pc[p] = "call" => Builds(history[p])
=============================================================================
