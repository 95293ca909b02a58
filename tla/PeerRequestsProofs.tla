-------------------------- MODULE PeerRequestsProofs --------------------------
(***************************************************************************)
(* Proofs about PeerRequests for every set of requests, every number of    *)
(* connections and processes and every queue size: its type invariant,     *)
(* that a call has one outcome, leaves nothing behind, does not wait on a  *)
(* closed connection, succeeds only if it was executed, and is refused     *)
(* only if it never is.                                                    *)
(***************************************************************************)
EXTENDS PeerRequests, SequenceTheorems, TLAPS

(* Taking the first message leaves the rest.                                 *)
LEMMA HeadTail ==
    ASSUME NEW S, NEW s \in Seq(S), s # <<>>
    PROVE  Head(s) \in S /\ Tail(s) \in Seq(S) /\ Len(Tail(s)) = Len(s) - 1 /\ Len(s) \in Nat
BY HeadTailProperties, EmptySeq

(* What a queue holds after a message is appended.                           *)
LEMMA RangeOfAppend ==
    ASSUME NEW S, NEW s \in Seq(S), NEW x \in S
    PROVE  /\ Range(Append(s, x)) = Range(s) \cup {x}
           /\ IsInjective(s) /\ x \notin Range(s) => IsInjective(Append(s, x))
<1> DEFINE t == Append(s, x)
<1>1. /\ t \in Seq(S) /\ Len(t) = Len(s) + 1 /\ Len(s) \in Nat /\ t[Len(s) + 1] = x
      /\ \A i \in 1 .. Len(s) : t[i] = s[i]
  OBVIOUS
<1>2. DOMAIN s = 1 .. Len(s) /\ DOMAIN t = 1 .. Len(s) + 1
  BY <1>1
<1> HIDE DEF t
<1>3. Range(t) = Range(s) \cup {x}
  <2>1. \A y : y \in Range(t) => y \in Range(s) \cup {x}
    BY <1>1, <1>2 DEF Range
  <2>2. \A y \in Range(s) : y \in Range(t)
    BY <1>1, <1>2 DEF Range
  <2>3. x \in Range(t)
    BY <1>1, <1>2 DEF Range
  <2>4. QED
    BY <2>1, <2>2, <2>3
<1>4. IsInjective(s) /\ x \notin Range(s) => IsInjective(t)
  BY <1>1, <1>2 DEF Range, IsInjective
<1>5. QED
  BY <1>3, <1>4 DEF t

(* And after the first one is taken.                                         *)
LEMMA RangeOfTail ==
    ASSUME NEW S, NEW s \in Seq(S), s # <<>>
    PROVE  /\ Range(s) = Range(Tail(s)) \cup {Head(s)}
           /\ IsInjective(s) => IsInjective(Tail(s)) /\ Head(s) \notin Range(Tail(s))
<1> DEFINE t == Tail(s)
<1>1. /\ Len(s) \in Nat \ {0} /\ Len(t) = Len(s) - 1 /\ t \in Seq(S) /\ Head(s) = s[1]
      /\ \A i \in 1 .. Len(t) : t[i] = s[i + 1]
  BY HeadTailProperties, EmptySeq
<1>2. DOMAIN s = 1 .. Len(s) /\ DOMAIN t = 1 .. Len(s) - 1
  BY <1>1
<1> HIDE DEF t
<1>3. ASSUME NEW y \in Range(s) PROVE y \in Range(t) \cup {s[1]}
  <2>1. PICK i \in 1 .. Len(s) : y = s[i]
    BY <1>2 DEF Range
  <2>2. CASE i # 1
    <3>1. i - 1 \in 1 .. Len(t) /\ t[i - 1] = s[i]
      BY <1>1, <2>2
    <3>2. QED
      BY <1>1, <1>2, <2>1, <3>1 DEF Range
  <2>3. QED
    BY <2>1, <2>2
<1>4. \A y \in Range(t) \cup {s[1]} : y \in Range(s)
  BY <1>1, <1>2 DEF Range
<1>5. ASSUME IsInjective(s) PROVE IsInjective(t) /\ s[1] \notin Range(t)
  <2>1. IsInjective(t)
    <3> SUFFICES ASSUME NEW i \in DOMAIN t, NEW j \in DOMAIN t, t[i] = t[j] PROVE i = j
      BY DEF IsInjective
    <3>1. s[i + 1] = s[j + 1] /\ i + 1 \in DOMAIN s /\ j + 1 \in DOMAIN s
      BY <1>1, <1>2
    <3>2. i + 1 = j + 1
      BY <1>5, <3>1 DEF IsInjective
    <3>3. QED
      BY <1>1, <1>2, <3>2
  <2>2. ASSUME s[1] \in Range(t) PROVE FALSE
    <3>1. PICK i \in 1 .. Len(t) : s[1] = s[i + 1]
      BY <1>1, <1>2, <2>2 DEF Range
    <3>2. 1 \in DOMAIN s /\ i + 1 \in DOMAIN s
      BY <1>1, <1>2
    <3>3. 1 = i + 1
      BY <1>5, <3>1, <3>2 DEF IsInjective
    <3>4. QED
      BY <3>3
  <2>3. QED
    BY <2>1, <2>2
<1>6. QED
  BY <1>1, <1>3, <1>4, <1>5 DEF t

(* And after a reply, of one message or two.                                 *)
LEMMA RangeOfConcat ==
    ASSUME NEW S, NEW s \in Seq(S), NEW t \in Seq(S)
    PROVE  Range(s \o t) \subseteq Range(s) \cup Range(t)
<1> DEFINE u == s \o t
<1>1. /\ u \in Seq(S) /\ Len(u) = Len(s) + Len(t) /\ Len(s) \in Nat /\ Len(t) \in Nat
      /\ \A i \in 1 .. Len(u) : u[i] = IF i <= Len(s) THEN s[i] ELSE t[i - Len(s)]
  OBVIOUS
<1>2. DOMAIN u = 1 .. Len(u) /\ DOMAIN s = 1 .. Len(s) /\ DOMAIN t = 1 .. Len(t)
  BY <1>1
<1> HIDE DEF u
<1>3. ASSUME NEW y \in Range(u) PROVE y \in Range(s) \cup Range(t)
  <2>1. PICK i \in 1 .. Len(u) : y = u[i]
    BY <1>2, <1>3 DEF Range
  <2>2. CASE i <= Len(s)
    BY <1>1, <1>2, <2>1, <2>2 DEF Range
  <2>3. CASE i > Len(s)
    <3>1. i - Len(s) \in 1 .. Len(t) /\ y = t[i - Len(s)]
      BY <1>1, <2>1, <2>3
    <3>2. QED
      BY <1>2, <3>1 DEF Range
  <2>4. QED
    BY <1>1, <2>2, <2>3
<1>4. QED
  BY <1>3 DEF u

(* A message is queued on an open connection with room for it.               *)
LEMMA SendOutcomesFact ==
    ASSUME TypeOK, NEW r \in Requests, NEW o \in SendOutcomes(r)
    PROVE  /\ o \in {"sent", "peer-offline", "queue-full"}
           /\ o = "sent" => ~ Closed(conn[r]) /\ Len(sendQueue[conn[r]]) < QueueSize
<1> DEFINE c == conn[r]
           off == IF expired[r] THEN {"peer-offline"} ELSE {}
           room == IF Len(sendQueue[c]) < QueueSize THEN {"sent"} ELSE {}
<1>1. CASE Closed(c)
  BY <1>1 DEF SendOutcomes
<1>2. CASE ~ Closed(c) /\ off \cup room = {}
  BY <1>2 DEF SendOutcomes
<1>3. CASE ~ Closed(c) /\ off \cup room # {}
  <2>1. o \in off \cup room
    BY <1>3 DEF SendOutcomes
  <2>2. QED
    BY <1>3, <2>1
<1>4. QED
  BY <1>1, <1>2, <1>3

-----------------------------------------------------------------------------
(* Type correctness.                                                         *)

(* The initial state is well typed.                                          *)
LEMMA InitTypeOK == Init => TypeOK
<1> SUFFICES ASSUME Init PROVE TypeOK
  OBVIOUS
<1>1. <<>> \in Seq(Requests) /\ <<>> \in Seq(Replies) /\ Len(<<>>) = 0
  OBVIOUS
<1>2. QED
  BY <1>1, PeerRequestsAssumption
     DEF Init, TypeOK, Conns, NoConn, CloseCodes, Outcomes, Errors

(* Some of the outcomes.                                                     *)
LEMMA OutcomesFact ==
    /\ CloseCodes \subseteq Outcomes /\ Refusals \subseteq Outcomes
    /\ {"peer-offline", "queue-full", "invalid-target", "timeout"} \subseteq Outcomes
BY DEF Outcomes, Errors, Refusals, CloseCodes

(* Completing a request keeps the types, whatever the connection.            *)
LEMMA CompleteType ==
    ASSUME TypeOK, NEW c, NEW r \in Requests, NEW o \in Outcomes, Complete(c, r, o)
    PROVE  pending' \in [Conns -> SUBSET Requests] /\ outcome' \in [Requests -> Outcomes \cup {"none"}]
<1>1. outcome' \in [Requests -> Outcomes \cup {"none"}]
  BY DEF TypeOK, Complete
<1>2. pending' \in [Conns -> SUBSET Requests]
  <2>1. CASE c \in Conns
    BY <2>1 DEF TypeOK, Complete
  <2>2. CASE c \notin Conns
    BY <2>2 DEF TypeOK, Complete
  <2>3. QED
    BY <2>1, <2>2
<1>3. QED
  BY <1>1, <1>2

(* So do the steps of a call.                                                *)
LEMMA CallTypeOK ==
    ASSUME TypeOK, NEW r \in Requests, Call(r) \/ Expire(r)
    PROVE  TypeOK'
<1> USE PeerRequestsAssumption
<1>1. CASE Route(r)
  <2>1. answer' \in [Requests -> Outcomes \cup {"none"}]
    <3>1. answer' = answer \/ answer' = [answer EXCEPT ![r] = "peer-offline"]
      BY <1>1 DEF Route
    <3>2. answer \in [Requests -> Outcomes \cup {"none"}]
      BY DEF TypeOK
    <3>3. QED
      BY <3>1, <3>2, OutcomesFact
  <2>2. conn' \in [Requests -> Conns \cup {NoConn}]
    BY <1>1 DEF TypeOK, Route
  <2>3. pc' \in [Requests -> {"idle", "routed", "registered", "waiting", "draining", "answered"}]
    <3>1. PICK v \in {"answered", "routed"} : pc' = [pc EXCEPT ![r] = v]
      BY <1>1 DEF Route
    <3>2. QED
      BY <3>1 DEF TypeOK
  <2>4. QED
    BY <1>1, <2>1, <2>2, <2>3 DEF TypeOK, Route, hubVars, registryVars, wireVars, agentVars
<1>2. CASE Register(r)
  <2>1. answer' \in [Requests -> Outcomes \cup {"none"}]
    <3>1. answer' = answer \/ answer' = [answer EXCEPT ![r] = "invalid-target"]
      BY <1>2 DEF Register
    <3>2. answer \in [Requests -> Outcomes \cup {"none"}]
      BY DEF TypeOK
    <3>3. QED
      BY <3>1, <3>2, OutcomesFact
  <2>2. pending' \in [Conns -> SUBSET Requests]
    <3>1. \/ pending' = pending
          \/ pending' = [pending EXCEPT ![conn[r]] = pending[conn[r]] \cup {r}]
      BY <1>2 DEF Register
    <3>2. CASE conn[r] \in Conns
      <4>1. pending \in [Conns -> SUBSET Requests] /\ pending[conn[r]] \cup {r} \in SUBSET Requests
        BY <3>2 DEF TypeOK
      <4>2. QED
        BY <3>1, <3>2, <4>1
    <3>3. CASE conn[r] \notin Conns
      BY <3>1, <3>3 DEF TypeOK
    <3>4. QED
      BY <3>2, <3>3
  <2>3. pc' \in [Requests -> {"idle", "routed", "registered", "waiting", "draining", "answered"}]
    <3>1. PICK v \in {"answered", "registered"} : pc' = [pc EXCEPT ![r] = v]
      BY <1>2 DEF Register
    <3>2. QED
      BY <3>1 DEF TypeOK
  <2>4. QED
    BY <1>2, <2>1, <2>2, <2>3 DEF TypeOK, Register, registryVars, wireVars, agentVars
<1>3. CASE Send(r)
  <2>1. PICK o \in SendOutcomes(r) :
             IF o = "sent"
             THEN /\ sendQueue' = [sendQueue EXCEPT ![conn[r]] = Append(@, r)]
                  /\ UNCHANGED <<pending, outcome>>
             ELSE /\ Complete(conn[r], r, o)
                  /\ UNCHANGED sendQueue
    BY <1>3 DEF Send
  <2>2. /\ o \in {"sent", "peer-offline", "queue-full"}
        /\ o = "sent" => Len(sendQueue[conn[r]]) < QueueSize
    BY SendOutcomesFact
  <2>3. /\ sendQueue' \in [Conns -> Seq(Requests)]
        /\ \A c \in Conns : Len(sendQueue'[c]) <= QueueSize
    <3>1. CASE o = "sent" /\ conn[r] \in Conns
      <4>1. /\ Append(sendQueue[conn[r]], r) \in Seq(Requests)
            /\ Len(Append(sendQueue[conn[r]], r)) <= QueueSize
        BY <2>2, <3>1 DEF TypeOK
      <4>2. sendQueue' = [sendQueue EXCEPT ![conn[r]] = Append(sendQueue[conn[r]], r)]
        BY <2>1, <3>1
      <4>3. QED
        BY <4>1, <4>2, <3>1 DEF TypeOK
    <3>0. CASE o = "sent" /\ conn[r] \notin Conns
      <4>1. sendQueue' = sendQueue
        BY <2>1, <3>0 DEF TypeOK
      <4>2. QED
        BY <4>1 DEF TypeOK
    <3>2. CASE o # "sent"
      BY <2>1, <3>2 DEF TypeOK
    <3>3. QED
      BY <3>0, <3>1, <3>2
  <2>4. pending' \in [Conns -> SUBSET Requests] /\ outcome' \in [Requests -> Outcomes \cup {"none"}]
    <3>1. CASE o = "sent"
      BY <2>1, <3>1 DEF TypeOK
    <3>2. CASE o # "sent"
      BY <2>1, <2>2, <3>2, CompleteType, OutcomesFact
    <3>3. QED
      BY <3>1, <3>2
  <2>5. QED
    BY <1>3, <2>3, <2>4 DEF TypeOK, Send, registryVars, wireVars, agentVars
<1>4. CASE Expire(r)
  BY <1>4 DEF TypeOK, Expire, hubVars, registryVars, wireVars, agentVars
<1>5. CASE Timeout(r)
  <2>1. pending' \in [Conns -> SUBSET Requests]
    <3>1. pending' = [pending EXCEPT ![conn[r]] = pending[conn[r]] \ {r}]
      BY <1>5 DEF Timeout
    <3>2. QED
      BY <3>1 DEF TypeOK
  <2>2. /\ pc' \in [Requests -> {"idle", "routed", "registered", "waiting", "draining", "answered"}]
        /\ answer' \in [Requests -> Outcomes \cup {"none"}]
    <3>1. PICK v \in {"answered", "draining"} : pc' = [pc EXCEPT ![r] = v]
      BY <1>5 DEF Timeout
    <3>2. answer' = answer \/ answer' = [answer EXCEPT ![r] = "timeout"]
      BY <1>5 DEF Timeout
    <3>3. answer \in [Requests -> Outcomes \cup {"none"}]
      BY DEF TypeOK
    <3>4. answer' \in [Requests -> Outcomes \cup {"none"}]
      BY <3>2, <3>3, OutcomesFact
    <3>5. QED
      BY <3>1, <3>4 DEF TypeOK
  <2>3. QED
    BY <1>5, <2>1, <2>2 DEF TypeOK, Timeout, registryVars, wireVars, agentVars
<1>6. CASE Return(r)
  BY <1>6 DEF TypeOK, Return, hubVars, registryVars, wireVars, agentVars
<1>7. QED
  BY <1>1, <1>2, <1>3, <1>4, <1>5, <1>6 DEF Call

(* CloseWith marks a connection with a code of its own.                      *)
LEMMA MarkType ==
    ASSUME TypeOK, NEW c \in Conns, NEW o \in CloseCodes, Mark(c, o)
    PROVE  /\ closing' \in [Conns -> {"open", "marked", "failing", "done"}]
           /\ code' \in [Conns -> CloseCodes]
BY DEF TypeOK, Mark

(* The writer of a connection keeps the types.                               *)
LEMMA WriterTypeOK ==
    ASSUME TypeOK, NEW c \in Conns, Writer(c)
    PROVE  TypeOK'
<1>1. CASE WriterSends(c) \/ WriterFails(c)
  <2>1. sendQueue[c] \in Seq(Requests) /\ sendQueue[c] # <<>>
    BY <1>1 DEF TypeOK, WriterSends, WriterFails
  <2>2. /\ Head(sendQueue[c]) \in Requests /\ Tail(sendQueue[c]) \in Seq(Requests)
        /\ Len(Tail(sendQueue[c])) <= QueueSize
    <3>1. Len(sendQueue[c]) <= QueueSize
      BY DEF TypeOK
    <3>2. QED
      BY <2>1, <3>1, HeadTail, PeerRequestsAssumption
  <2>3. sendQueue' = [sendQueue EXCEPT ![c] = Tail(sendQueue[c])]
    BY <1>1 DEF WriterSends, WriterFails
  <2>4. /\ sendQueue' \in [Conns -> Seq(Requests)]
        /\ \A d \in Conns : Len(sendQueue'[d]) <= QueueSize
    BY <2>2, <2>3 DEF TypeOK
  <2>5. CASE WriterSends(c)
    <3>1. Append(toAgent[c], Head(sendQueue[c])) \in Seq(Requests)
      BY <2>2 DEF TypeOK
    <3>2. toAgent' \in [Conns -> Seq(Requests)]
      BY <2>5, <3>1 DEF TypeOK, WriterSends
    <3>3. QED
      BY <2>4, <2>5, <3>2 DEF TypeOK, WriterSends, registryVars, callVars, agentVars
  <2>6. CASE WriterFails(c)
    <3>1. "peer-offline" \in CloseCodes
      BY DEF CloseCodes
    <3>2. /\ closing' \in [Conns -> {"open", "marked", "failing", "done"}]
          /\ code' \in [Conns -> CloseCodes]
      BY <2>6, <3>1, MarkType DEF WriterFails
    <3>3. QED
      BY <2>4, <2>6, <3>2 DEF TypeOK, WriterFails, registryVars, wireVars, callVars, agentVars
  <2>7. QED
    BY <1>1, <2>5, <2>6
<1>2. CASE WriterStops(c)
  BY <1>2 DEF TypeOK, WriterStops, registryVars, wireVars, callVars, agentVars
<1>3. QED
  BY <1>1, <1>2 DEF Writer

(* So does its closing.                                                      *)
LEMMA CloserTypeOK ==
    ASSUME TypeOK, NEW c \in Conns, Closer(c)
    PROVE  TypeOK'
<1>1. CASE FailAll(c)
  BY <1>1 DEF TypeOK, FailAll, registryVars, wireVars, callVars, agentVars
<1>2. CASE CloseSocket(c)
  BY <1>2 DEF TypeOK, CloseSocket, registryVars, callVars, agentVars
<1>3. ASSUME NEW r \in Requests, FailOne(c, r) PROVE TypeOK'
  <2>1. code[c] \in Outcomes
    BY DEF TypeOK, Outcomes, Errors
  <2>2. outcome' \in [Requests -> Outcomes \cup {"none"}]
    BY <1>3, <2>1 DEF TypeOK, FailOne
  <2>3. failing' \in [Conns -> SUBSET Requests]
    BY <1>3 DEF TypeOK, FailOne
  <2>4. QED
    BY <1>3, <2>2, <2>3 DEF TypeOK, FailOne, registryVars, wireVars, agentVars
<1>4. QED
  BY <1>1, <1>2, <1>3 DEF Closer

(* A reply the hub reads is one the agent can send.                          *)
LEMMA ReplyType ==
    ASSUME TypeOK, NEW c \in Conns, toHub[c] # <<>>
    PROVE  /\ Head(toHub[c]) \in Replies /\ Tail(toHub[c]) \in Seq(Replies)
           /\ Head(toHub[c]).request \in Requests
           /\ Head(toHub[c]).reply \in Outcomes \cup {"ack"}
<1>1. toHub[c] \in Seq(Replies)
  BY DEF TypeOK
<1>2. Head(toHub[c]) \in Replies /\ Tail(toHub[c]) \in Seq(Replies)
  BY <1>1, HeadTail
<1>3. QED
  BY <1>2 DEF Replies

(* So does its handler, and a revocation.                                    *)
LEMMA HandlerTypeOK ==
    ASSUME TypeOK, NEW c \in Conns, Handler(c) \/ CloseRevoked(c)
    PROVE  TypeOK'
<1>1. CASE Activate(c)
  BY <1>1 DEF TypeOK, Activate, wireVars, callVars, agentVars
<1>2. CASE Refuse(c)
  BY <1>2 DEF TypeOK, Refuse, callVars, agentVars
<1>3. CASE ClosePrevious(c)
  <2> DEFINE p == replaced[c]
             o == IF instance[p] # instance[c] THEN "execution-unknown" ELSE "peer-offline"
  <2>1. p \in Conns
    BY <1>3 DEF TypeOK, ClosePrevious
  <2>2. o \in CloseCodes
    BY DEF CloseCodes
  <2>3. Mark(p, o)
    BY <1>3 DEF ClosePrevious
  <2>4. /\ closing' \in [Conns -> {"open", "marked", "failing", "done"}]
        /\ code' \in [Conns -> CloseCodes]
    BY <2>1, <2>2, <2>3, MarkType
  <2>5. QED
    BY <1>3, <2>4 DEF TypeOK, ClosePrevious, wireVars, callVars, agentVars
<1>4. CASE Start(c)
  BY <1>4 DEF TypeOK, Start, wireVars, callVars, agentVars
<1>5. CASE Receive(c)
  <2> DEFINE m == Head(toHub[c])
  <2>1. toHub[c] # <<>>
    BY <1>5 DEF Receive
  <2>2. /\ m.request \in Requests /\ m.reply \in Outcomes \cup {"ack"}
        /\ Tail(toHub[c]) \in Seq(Replies)
    BY <2>1, ReplyType
  <2>3. toHub' \in [Conns -> Seq(Replies)]
    BY <1>5, <2>2 DEF TypeOK, Receive
  <2>4. \/ UNCHANGED <<pending, outcome>>
        \/ m.reply # "ack" /\ Complete(c, m.request, m.reply)
    BY <1>5 DEF Receive
  <2> HIDE DEF m
  <2>5. pending' \in [Conns -> SUBSET Requests] /\ outcome' \in [Requests -> Outcomes \cup {"none"}]
    <3>1. CASE UNCHANGED <<pending, outcome>>
      BY <3>1 DEF TypeOK
    <3>2. CASE m.reply # "ack" /\ Complete(c, m.request, m.reply)
      BY <2>2, <3>2, CompleteType
    <3>3. QED
      BY <2>4, <3>1, <3>2
  <2>6. QED
    BY <1>5, <2>3, <2>5 DEF TypeOK, Receive, registryVars, agentVars
<1>6. CASE Unregister(c)
  BY <1>6 DEF TypeOK, Unregister, wireVars, callVars, agentVars
<1>7. CASE Finish(c)
  <2>1. "peer-offline" \in CloseCodes
    BY DEF CloseCodes
  <2>2. /\ closing' \in [Conns -> {"open", "marked", "failing", "done"}]
        /\ code' \in [Conns -> CloseCodes]
    BY <1>7, <2>1, MarkType DEF Finish
  <2>3. QED
    BY <1>7, <2>2 DEF TypeOK, Finish, wireVars, callVars, agentVars
<1>8. CASE CloseRevoked(c)
  <2>1. "peer-revoked" \in CloseCodes
    BY DEF CloseCodes
  <2>2. /\ closing' \in [Conns -> {"open", "marked", "failing", "done"}]
        /\ code' \in [Conns -> CloseCodes]
    BY <1>8, <2>1, MarkType DEF CloseRevoked
  <2>3. QED
    BY <1>8, <2>2 DEF TypeOK, CloseRevoked, wireVars, callVars, agentVars
<1>9. QED
  BY <1>1, <1>2, <1>3, <1>4, <1>5, <1>6, <1>7, <1>8 DEF Handler

(* Messages written by the agent are replies.                                *)
LEMMA ReplyTypeOK ==
    ASSUME TypeOK, NEW c, NEW messages \in Seq(Replies), Reply(c, messages)
    PROVE  toHub' \in [Conns -> Seq(Replies)]
<1>1. CASE c \in Conns
  <2>1. toHub[c] \o messages \in Seq(Replies)
    BY <1>1 DEF TypeOK
  <2>2. QED
    BY <1>1, <2>1 DEF TypeOK, Reply
<1>2. CASE c \notin Conns
  <2>1. toHub' = toHub \/ toHub' = [toHub EXCEPT ![c] = toHub[c] \o messages]
    BY DEF Reply
  <2>2. toHub \in [Conns -> Seq(Replies)]
    BY DEF TypeOK
  <2>3. QED
    BY <1>2, <2>1, <2>2
<1>3. QED
  BY <1>1, <1>2

(* The steps of a task keep the types.                                       *)
LEMMA TaskTypeOK ==
    ASSUME TypeOK, NEW r \in Requests, Task(r)
    PROVE  TypeOK'
<1>1. CASE Reject(r)
  <2>1. PICK e \in {"invalid-target", "stale-generation"} :
             Reply(conn[r], <<[request |-> r, reply |-> e]>>)
    BY <1>1 DEF Reject
  <2>2. [request |-> r, reply |-> e] \in Replies
    BY <2>1 DEF Replies, Outcomes, Errors, Refusals
  <2>3. <<[request |-> r, reply |-> e]>> \in Seq(Replies)
    BY <2>2
  <2>4. toHub' \in [Conns -> Seq(Replies)]
    BY <2>1, <2>3, ReplyTypeOK
  <2>5. QED
    BY <1>1, <2>4 DEF TypeOK, Reject, hubVars, registryVars, callVars
<1>2. CASE Dispatch(r)
  BY <1>2 DEF TypeOK, Dispatch, hubVars, registryVars, wireVars, callVars
<1>3. CASE Execute(r)
  BY <1>3 DEF TypeOK, Execute, hubVars, registryVars, wireVars, callVars
<1>4. CASE Respond(r)
  <2> DEFINE o == IF effect[r] = "succeeded" THEN "result" ELSE "execution-failed"
             ack == [request |-> r, reply |-> "ack"]
             end == [request |-> r, reply |-> o]
  <2>1. ack \in Replies /\ end \in Replies
    BY DEF Replies, Outcomes, Errors
  <2>2. Reply(conn[r], <<ack, end>>)
    BY <1>4 DEF Respond
  <2> HIDE DEF ack, end
  <2>3. <<ack, end>> \in Seq(Replies)
    BY <2>1
  <2>4. toHub' \in [Conns -> Seq(Replies)]
    BY <2>2, <2>3, ReplyTypeOK
  <2>5. QED
    BY <1>4, <2>4 DEF TypeOK, Respond, hubVars, registryVars, callVars
<1>5. QED
  BY <1>1, <1>2, <1>3, <1>4 DEF Task

(* So do the rest of the agent and the network.                              *)
LEMMA AgentTypeOK ==
    ASSUME TypeOK, NEW c \in Conns, Take(c) \/ LoseNetwork(c) \/ Negotiate(c)
    PROVE  TypeOK'
<1>1. CASE Take(c)
  <2>1. toAgent[c] \in Seq(Requests) /\ toAgent[c] # <<>>
    BY <1>1 DEF TypeOK, Take
  <2>2. Head(toAgent[c]) \in Requests /\ Tail(toAgent[c]) \in Seq(Requests)
    BY <2>1, HeadTail
  <2>3. QED
    BY <1>1, <2>2 DEF TypeOK, Take, hubVars, registryVars, callVars
<1>2. CASE LoseNetwork(c)
  BY <1>2 DEF TypeOK, LoseNetwork, hubVars, registryVars, callVars, agentVars
<1>3. CASE Negotiate(c)
  <2>1. instance' \in [Conns -> 0 .. MaxInstance]
    BY <1>3, PeerRequestsAssumption DEF TypeOK, Negotiate
  <2>2. QED
    BY <1>3, <2>1 DEF TypeOK, Negotiate, callVars
<1>4. QED
  BY <1>1, <1>2, <1>3

(* A crash keeps them, and so does the removal of a peer.                    *)
LEMMA CrashTypeOK ==
    ASSUME TypeOK, Crash \/ Revoke
    PROVE  TypeOK'
<1>1. CASE Crash
  <2>1. process' \in 1 .. MaxInstance
    BY <1>1, PeerRequestsAssumption DEF TypeOK, Crash
  <2>2. task' \in [Requests -> {"none", "taken", "running", "executed", "done", "gone"}]
    BY <1>1 DEF TypeOK, Crash
  <2>3. QED
    BY <1>1, <2>1, <2>2 DEF TypeOK, Crash, hubVars, registryVars, callVars
<1>2. CASE Revoke
  BY <1>2 DEF TypeOK, Revoke, wireVars, callVars, agentVars
<1>3. QED
  BY <1>1, <1>2

(* Every step keeps the types.                                               *)
LEMMA NextTypeOK == TypeOK /\ [Next]_vars => TypeOK'
<1> SUFFICES ASSUME TypeOK, [Next]_vars PROVE TypeOK'
  OBVIOUS
<1>1. ASSUME NEW r \in Requests, Call(r) \/ Expire(r) PROVE TypeOK'
  BY <1>1, CallTypeOK
<1>2. ASSUME NEW r \in Requests, Task(r) PROVE TypeOK'
  BY <1>2, TaskTypeOK
<1>3. ASSUME NEW c \in Conns, Connection(c) PROVE TypeOK'
  BY <1>3, WriterTypeOK, CloserTypeOK, HandlerTypeOK DEF Connection
<1>4. ASSUME NEW c \in Conns, Take(c) \/ LoseNetwork(c) \/ Negotiate(c) PROVE TypeOK'
  BY <1>4, AgentTypeOK
<1>5. CASE Revoke \/ Crash
  BY <1>5, CrashTypeOK
<1>6. CASE UNCHANGED vars
  BY <1>6 DEF TypeOK, vars, hubVars, registryVars, wireVars, callVars, agentVars
<1>7. QED
  BY <1>1, <1>2, <1>3, <1>4, <1>5, <1>6 DEF Next

(* Every variable has its type in every reachable state: in particular no    *)
(* queue holds more than it may (connection.go:81-88).                       *)
THEOREM TypeCorrect == Spec => []TypeOK
<1>1. QED
  BY InitTypeOK, NextTypeOK, PTL DEF Spec

-----------------------------------------------------------------------------
(* One outcome for every call.                                               *)

(* The variables the outcome of a call depends on.                           *)
answering == <<pending, failing, closing, pc, conn, outcome>>

(* Steps that touch none of them change nothing.                             *)
LEMMA AnsweringUnchanged ==
    ASSUME Owed, Awaited, Emptied, UNCHANGED answering
    PROVE  Owed' /\ Awaited' /\ Emptied'
BY DEF answering, Owed, Awaited, Emptied, Awaiting

(* The beginning of a close touches only open connections.                   *)
LEMMA MarkKeeps ==
    ASSUME TypeOK, Owed, Awaited, Emptied, NEW c \in Conns, NEW o, Mark(c, o),
           UNCHANGED <<pending, failing, pc, conn, outcome>>
    PROVE  Owed' /\ Awaited' /\ Emptied'
<1>1. \A d \in Conns : closing'[d] = closing[d] \/ (closing[d] = "open" /\ closing'[d] = "marked")
  BY DEF TypeOK, Mark
<1>2. Owed'
  BY <1>1 DEF Owed, Awaiting
<1>3. Awaited'
  BY DEF Awaited, Awaiting
<1>4. Emptied'
  <2> SUFFICES ASSUME NEW r \in Requests, pc[r] \in {"waiting", "draining"},
                      closing'[conn[r]] \in {"failing", "done"}
               PROVE  r \notin pending[conn[r]]
    BY DEF Emptied
  <2>1. conn[r] \in Conns
    BY DEF Awaited, Awaiting
  <2>2. closing[conn[r]] \in {"failing", "done"}
    BY <1>1, <2>1
  <2>3. QED
    BY <2>2 DEF Emptied
<1>5. QED
  BY <1>2, <1>3, <1>4

(* Completing a request pays what is owed.                                   *)
LEMMA CompleteKeeps ==
    ASSUME TypeOK, Owed, Awaited, Emptied, NEW c \in Conns, NEW r \in Requests,
           NEW o \in Outcomes, Complete(c, r, o), UNCHANGED <<failing, closing, conn>>,
           \/ UNCHANGED pc
           \/ pc[r] = "registered" /\ conn[r] = c /\ pc' = [pc EXCEPT ![r] = "waiting"]
    PROVE  Owed' /\ Awaited' /\ Emptied'
<1>1. o # "none"
  BY DEF Outcomes, Errors, Refusals, CloseCodes
<1>2. \A d \in Conns : pending'[d] = IF d = c THEN pending[d] \ {r} ELSE pending[d]
  <2>1. pending' = [pending EXCEPT ![c] = pending[c] \ {r}]
    BY DEF Complete
  <2>2. pending \in [Conns -> SUBSET Requests]
    BY DEF TypeOK
  <2>3. QED
    BY <2>1, <2>2
<1>3. \A q \in Requests : outcome'[q] = IF q = r /\ r \in pending[c] THEN o ELSE outcome[q]
  <2>1. outcome' = IF r \in pending[c] THEN [outcome EXCEPT ![r] = o] ELSE outcome
    BY DEF Complete
  <2>2. outcome \in [Requests -> Outcomes \cup {"none"}]
    BY DEF TypeOK
  <2>3. QED
    BY <2>1, <2>2
<1>4. \A q \in Requests : 
         pc'[q] = pc[q] \/ (q = r /\ conn[r] = c /\ pc[r] = "registered" /\ pc'[r] = "waiting")
  BY DEF TypeOK
<1>5. Owed'
  <2> SUFFICES ASSUME NEW q \in Requests, NEW d \in Conns
               PROVE  /\ q \in pending'[d] =>
                           conn[q] = d /\ pc'[q] \in {"registered", "waiting"} /\ outcome'[q] = "none"
                      /\ q \in failing[d] =>
                           /\ conn[q] = d /\ pc'[q] \in Awaiting /\ outcome'[q] = "none"
                           /\ q \notin pending'[d] /\ closing[d] = "failing"
    BY DEF Owed, Awaiting
  <2>2. ASSUME q \in pending'[d]
        PROVE  conn[q] = d /\ pc'[q] \in {"registered", "waiting"} /\ outcome'[q] = "none"
    <3>1. q \in pending[d] /\ (d # c \/ q # r)
      BY <1>2, <2>2
    <3>2. ~ (q = r /\ r \in pending[c])
      BY <3>1 DEF Owed
    <3>3. QED
      BY <1>3, <1>4, <3>1, <3>2 DEF Owed
  <2>3. ASSUME q \in failing[d]
        PROVE  /\ conn[q] = d /\ pc'[q] \in Awaiting /\ outcome'[q] = "none"
               /\ q \notin pending'[d] /\ closing[d] = "failing"
    <3>1. ~ (q = r /\ r \in pending[c])
      BY <2>3 DEF Owed
    <3>2. /\ conn[q] = d /\ pc[q] \in Awaiting /\ outcome[q] = "none"
          /\ q \notin pending[d] /\ closing[d] = "failing"
      BY <2>3 DEF Owed
    <3>3. pc'[q] \in Awaiting
      BY <1>4, <3>2 DEF Awaiting
    <3>4. q \notin pending'[d]
      BY <1>2, <3>2
    <3>5. QED
      BY <1>3, <3>1, <3>2, <3>3, <3>4
  <2>4. QED
    BY <2>2, <2>3
<1>6. Awaited'
  <2> SUFFICES ASSUME NEW q \in Requests
               PROVE  /\ pc'[q] \in {"idle", "routed"} => outcome'[q] = "none"
                      /\ pc'[q] \in Awaiting \cup {"routed"} => conn[q] \in Conns
                      /\ pc'[q] \in Awaiting =>
                           q \in pending'[conn[q]] \cup failing[conn[q]] \/ outcome'[q] # "none"
    BY DEF Awaited, Awaiting
  <2>1. pc'[q] \in {"idle", "routed"} => outcome'[q] = "none"
    <3>1. r \in pending[c] => pc[r] \in {"registered", "waiting"}
      BY DEF Owed
    <3>2. QED
      BY <1>3, <1>4, <3>1 DEF Awaited
  <2>2. pc'[q] \in Awaiting \cup {"routed"} => conn[q] \in Conns
    BY <1>4 DEF Awaited, Awaiting
  <2>3. ASSUME pc'[q] \in Awaiting
        PROVE  q \in pending'[conn[q]] \cup failing[conn[q]] \/ outcome'[q] # "none"
    <3>1. pc[q] \in Awaiting
      BY <1>4, <2>3 DEF Awaiting
    <3>2. q \in pending[conn[q]] \cup failing[conn[q]] \/ outcome[q] # "none"
      BY <3>1 DEF Awaited
    <3>3. conn[q] \in Conns
      BY <3>1 DEF Awaited
    <3>4. QED
      BY <1>1, <1>2, <1>3, <3>2, <3>3
  <2>4. QED
    BY <2>1, <2>2, <2>3
<1>7. Emptied'
  <2> SUFFICES ASSUME NEW q \in Requests, pc'[q] \in {"waiting", "draining"},
                      closing[conn[q]] \in {"failing", "done"}
               PROVE  q \notin pending'[conn[q]]
    BY DEF Emptied
  <2>1. conn[q] \in Conns
    BY <1>4 DEF Awaited, Awaiting
  <2>2. CASE pc'[q] = pc[q]
    BY <1>2, <2>1, <2>2 DEF Emptied
  <2>3. CASE q = r /\ conn[r] = c
    BY <1>2, <2>1, <2>3
  <2>4. QED
    BY <1>4, <2>2, <2>3
<1>8. QED
  BY <1>5, <1>6, <1>7

(* The steps of a call.                                                      *)
LEMMA CallKeeps ==
    ASSUME IInv, NEW r \in Requests, Call(r) \/ Expire(r)
    PROVE  Owed' /\ Awaited' /\ Emptied'
<1> USE DEF IInv
<1>1. CASE Route(r)
  <2>1. UNCHANGED <<pending, failing, closing, outcome>>
    BY <1>1 DEF Route, hubVars
  <2>2. pc[r] = "idle" /\ r \in Requests
    BY <1>1 DEF Route
  <2>3. \/ UNCHANGED conn /\ pc' = [pc EXCEPT ![r] = "answered"]
        \/ current \in Conns /\ conn' = [conn EXCEPT ![r] = current] /\ pc' = [pc EXCEPT ![r] = "routed"]
    BY <1>1 DEF Route, TypeOK
  <2>4. \A q \in Requests : q # r => pc'[q] = pc[q] /\ conn'[q] = conn[q]
    BY <2>3 DEF TypeOK
  <2>5. pc'[r] = "answered" \/ (pc'[r] = "routed" /\ conn'[r] \in Conns)
    BY <2>3 DEF TypeOK
  <2>6. \A c \in Conns : r \notin pending[c] \cup failing[c]
    BY <2>2 DEF Owed, Awaiting
  <2>7. Owed'
    BY <2>1, <2>4, <2>6 DEF Owed, Awaiting
  <2>8. Awaited'
    BY <2>1, <2>2, <2>4, <2>5 DEF Awaited, Awaiting
  <2>9. Emptied'
    BY <2>1, <2>4, <2>5 DEF Emptied
  <2>10. QED
    BY <2>7, <2>8, <2>9
<1>2. CASE Register(r)
  <2> DEFINE c == conn[r]
  <2>1. UNCHANGED <<failing, closing, conn, outcome>> /\ pc[r] = "routed"
    BY <1>2 DEF Register
  <2>2. c \in Conns /\ outcome[r] = "none" /\ \A d \in Conns : r \notin pending[d] \cup failing[d]
    BY <2>1 DEF Awaited, Awaiting, Owed
  <2>3. \/ pc' = [pc EXCEPT ![r] = "registered"] /\ pending' = [pending EXCEPT ![c] = pending[c] \cup {r}]
        \/ pc' = [pc EXCEPT ![r] = "answered"] /\ UNCHANGED pending
    BY <1>2 DEF Register
  <2>4. \A q \in Requests : q # r =>
          pc'[q] = pc[q] /\ \A d \in Conns : q \in pending'[d] <=> q \in pending[d]
    <3>1. pc \in [Requests -> {"idle", "routed", "registered", "waiting", "draining", "answered"}] /\ pending \in [Conns -> SUBSET Requests]
      BY DEF TypeOK
    <3> HIDE DEF c, IInv
    <3>2. CASE pc' = [pc EXCEPT ![r] = "registered"] /\ pending' = [pending EXCEPT ![c] = pending[c] \cup {r}]
      BY <3>1, <3>2, <2>2
    <3>3. CASE pc' = [pc EXCEPT ![r] = "answered"] /\ UNCHANGED pending
      BY <3>1, <3>3
    <3>4. QED
      BY <2>3, <3>2, <3>3
  <2>5. \/ pc'[r] = "registered" /\ \A d \in Conns : r \in pending'[d] <=> d = c
        \/ pc'[r] = "answered" /\ \A d \in Conns : r \notin pending'[d]
    <3>1. pc \in [Requests -> {"idle", "routed", "registered", "waiting", "draining", "answered"}] /\ pending \in [Conns -> SUBSET Requests]
      BY DEF TypeOK
    <3> HIDE DEF c, IInv
    <3>2. CASE pc' = [pc EXCEPT ![r] = "registered"] /\ pending' = [pending EXCEPT ![c] = pending[c] \cup {r}]
      BY <3>1, <3>2, <2>2
    <3>3. CASE pc' = [pc EXCEPT ![r] = "answered"] /\ UNCHANGED pending
      BY <3>1, <3>3, <2>2
    <3>4. QED
      BY <2>3, <3>2, <3>3
  <2> HIDE DEF c
  <2>6. Owed'
    <3> SUFFICES ASSUME NEW q \in Requests, NEW d \in Conns
                 PROVE  /\ q \in pending'[d] =>
                             conn[q] = d /\ pc'[q] \in {"registered", "waiting"} /\ outcome[q] = "none"
                        /\ q \in failing[d] =>
                             /\ conn[q] = d /\ pc'[q] \in Awaiting /\ outcome[q] = "none"
                             /\ q \notin pending'[d] /\ closing[d] = "failing"
      BY <2>1 DEF Owed, Awaiting
    <3>1. CASE q = r
      BY <3>1, <2>2, <2>5 DEF c
    <3>2. CASE q # r
      BY <3>2, <2>4 DEF Owed
    <3>3. QED
      BY <3>1, <3>2
  <2>7. Awaited'
    <3> SUFFICES ASSUME NEW q \in Requests
                 PROVE  /\ pc'[q] \in {"idle", "routed"} => outcome[q] = "none"
                        /\ pc'[q] \in Awaiting \cup {"routed"} => conn[q] \in Conns
                        /\ pc'[q] \in Awaiting =>
                             q \in pending'[conn[q]] \cup failing[conn[q]] \/ outcome[q] # "none"
      BY <2>1 DEF Awaited, Awaiting
    <3>1. CASE q = r
      BY <3>1, <2>2, <2>5 DEF c, Awaiting
    <3>2. CASE q # r
      BY <3>2, <2>4 DEF Awaited
    <3>3. QED
      BY <3>1, <3>2
  <2>8. Emptied'
    <3> SUFFICES ASSUME NEW q \in Requests, pc'[q] \in {"waiting", "draining"},
                        closing[conn[q]] \in {"failing", "done"}
                 PROVE  q \notin pending'[conn[q]]
      BY <2>1 DEF Emptied
    <3>1. q # r
      BY <2>5
    <3>2. conn[q] \in Conns
      BY <3>1, <2>4 DEF Awaited, Awaiting
    <3>3. QED
      BY <3>1, <3>2, <2>4 DEF Emptied
  <2>9. QED
    BY <2>6, <2>7, <2>8
<1>3. CASE Send(r)
  <2> DEFINE c == conn[r]
  <2>1. /\ pc[r] = "registered" /\ pc' = [pc EXCEPT ![r] = "waiting"]
        /\ UNCHANGED <<failing, closing, conn>>
    BY <1>3 DEF Send
  <2>2. c \in Conns
    BY <2>1 DEF Awaited, Awaiting
  <2>3. PICK o \in SendOutcomes(r) :
             \/ o = "sent" /\ UNCHANGED <<pending, outcome>>
             \/ o # "sent" /\ Complete(c, r, o)
    BY <1>3 DEF Send
  <2>4. /\ o \in {"sent", "peer-offline", "queue-full"}
        /\ o = "sent" => ~ Closed(c)
    BY SendOutcomesFact
  <2>5. CASE o = "sent"
    <3>1. closing[c] = "open" /\ UNCHANGED <<pending, outcome>>
      BY <2>3, <2>4, <2>5 DEF Closed
    <3>2. \A q \in Requests : pc'[q] = IF q = r THEN "waiting" ELSE pc[q]
      BY <2>1 DEF TypeOK
    <3>3. Owed'
      BY <2>1, <3>1, <3>2 DEF Owed, Awaiting
    <3>4. Awaited'
      BY <2>1, <3>1, <3>2 DEF Awaited, Awaiting
    <3>5. Emptied'
      BY <2>1, <3>1, <3>2 DEF Emptied
    <3>6. QED
      BY <3>3, <3>4, <3>5
  <2>6. CASE o # "sent"
    <3>1. o \in Outcomes /\ Complete(c, r, o)
      BY <2>3, <2>4, <2>6, OutcomesFact
    <3>2. QED
      BY <2>1, <2>2, <3>1, CompleteKeeps
  <2>7. QED
    BY <2>5, <2>6
<1>4. CASE Expire(r)
  <2>1. UNCHANGED answering
    BY <1>4 DEF Expire, answering, hubVars
  <2>2. QED
    BY <2>1, AnsweringUnchanged
<1>5. CASE Timeout(r)
  <2> DEFINE c == conn[r]
  <2>1. UNCHANGED <<failing, closing, conn, outcome>> /\ pc[r] = "waiting"
    BY <1>5 DEF Timeout
  <2>2. c \in Conns
    BY <2>1 DEF Awaited, Awaiting
  <2>3. \A q \in Requests : pc'[q] = IF q # r THEN pc[q]
                                    ELSE IF r \in pending[c] THEN "answered" ELSE "draining"
    BY <1>5 DEF Timeout, TypeOK
  <2>4. \A q \in Requests, d \in Conns :
          q \in pending'[d] <=> q \in pending[d] /\ ~ (q = r /\ d = c)
    BY <1>5, <2>2 DEF Timeout, TypeOK
  <2> HIDE DEF c
  <2>5. \A d \in Conns : r \notin pending'[d]
    BY <2>4 DEF Owed, c
  <2>6. r \in pending[c] => \A d \in Conns : r \notin failing[d]
    BY <2>2 DEF Owed, c
  <2>7. Owed'
    <3> SUFFICES ASSUME NEW q \in Requests, NEW d \in Conns
                 PROVE  /\ q \in pending'[d] =>
                             conn[q] = d /\ pc'[q] \in {"registered", "waiting"} /\ outcome[q] = "none"
                        /\ q \in failing[d] =>
                             /\ conn[q] = d /\ pc'[q] \in Awaiting /\ outcome[q] = "none"
                             /\ q \notin pending'[d] /\ closing[d] = "failing"
      BY <2>1 DEF Owed, Awaiting
    <3>1. CASE q = r
      BY <3>1, <2>3, <2>5, <2>6 DEF Owed, Awaiting
    <3>2. CASE q # r
      BY <3>2, <2>3, <2>4 DEF Owed
    <3>3. QED
      BY <3>1, <3>2
  <2>8. Awaited'
    <3> SUFFICES ASSUME NEW q \in Requests
                 PROVE  /\ pc'[q] \in {"idle", "routed"} => outcome[q] = "none"
                        /\ pc'[q] \in Awaiting \cup {"routed"} => conn[q] \in Conns
                        /\ pc'[q] \in Awaiting =>
                             q \in pending'[conn[q]] \cup failing[conn[q]] \/ outcome[q] # "none"
      BY <2>1 DEF Awaited, Awaiting
    <3>1. CASE q = r
      BY <3>1, <2>1, <2>2, <2>3 DEF Awaited, Awaiting, c
    <3>2. CASE q # r
      BY <3>2, <2>3, <2>4 DEF Awaited
    <3>3. QED
      BY <3>1, <3>2
  <2>9. Emptied'
    <3> SUFFICES ASSUME NEW q \in Requests, pc'[q] \in {"waiting", "draining"},
                        closing[conn[q]] \in {"failing", "done"}
                 PROVE  q \notin pending'[conn[q]]
      BY <2>1 DEF Emptied
    <3>1. CASE q = r
      BY <3>1, <2>2, <2>5 DEF c
    <3>2. CASE q # r
      <4>1. pc[q] = pc'[q]
        BY <2>3, <3>2
      <4>2. conn[q] \in Conns
        BY <4>1 DEF Awaited, Awaiting
      <4>3. QED
        BY <4>1, <4>2, <2>4 DEF Emptied
    <3>3. QED
      BY <3>1, <3>2
  <2>10. QED
    BY <2>7, <2>8, <2>9
<1>6. CASE Return(r)
  <2>1. /\ UNCHANGED <<pending, failing, closing, conn, outcome>>
        /\ pc' = [pc EXCEPT ![r] = "answered"]
        /\ outcome[r] # "none"
    BY <1>6 DEF Return, hubVars
  <2>2. \A q \in Requests : pc'[q] = IF q = r THEN "answered" ELSE pc[q]
    BY <2>1 DEF TypeOK
  <2>3. Owed'
    BY <2>1, <2>2 DEF Owed, Awaiting
  <2>4. Awaited'
    BY <2>1, <2>2 DEF Awaited, Awaiting
  <2>5. Emptied'
    BY <2>1, <2>2 DEF Emptied
  <2>6. QED
    BY <2>3, <2>4, <2>5
<1>7. QED
  BY <1>1, <1>2, <1>3, <1>4, <1>5, <1>6 DEF Call

(* The steps of a close.                                                     *)
LEMMA CloserKeeps ==
    ASSUME IInv, NEW c \in Conns, Closer(c)
    PROVE  Owed' /\ Awaited' /\ Emptied'
<1> USE DEF IInv
<1>1. CASE FailAll(c)
  <2>1. UNCHANGED <<pc, conn, outcome>> /\ closing[c] = "marked"
    BY <1>1 DEF FailAll, callVars
  <2>2. \A d \in Conns : /\ pending'[d] = IF d = c THEN {} ELSE pending[d]
                         /\ failing'[d] = IF d = c THEN pending[c] ELSE failing[d]
                         /\ closing'[d] = IF d = c THEN "failing" ELSE closing[d]
    BY <1>1 DEF FailAll, TypeOK
  <2>3. failing[c] \cap Requests = {}
    BY <2>1 DEF Owed
  <2>4. Owed'
    BY <2>1, <2>2 DEF Owed, Awaiting
  <2>5. Awaited'
    BY <2>1, <2>2, <2>3 DEF Awaited, Awaiting
  <2>6. Emptied'
    <3> SUFFICES ASSUME NEW q \in Requests, pc[q] \in {"waiting", "draining"},
                        closing'[conn[q]] \in {"failing", "done"}
                 PROVE  q \notin pending'[conn[q]]
      BY <2>1 DEF Emptied
    <3>1. conn[q] \in Conns
      BY DEF Awaited, Awaiting
    <3>2. QED
      BY <2>2, <3>1 DEF Emptied
  <2>7. QED
    BY <2>4, <2>5, <2>6
<1>2. CASE CloseSocket(c)
  <2>1. UNCHANGED <<pending, failing, pc, conn, outcome>> /\ closing[c] = "failing" /\ failing[c] = {}
    BY <1>2 DEF CloseSocket, callVars
  <2>2. \A d \in Conns : closing'[d] = IF d = c THEN "done" ELSE closing[d]
    BY <1>2 DEF CloseSocket, TypeOK
  <2>3. Owed'
    BY <2>1, <2>2 DEF Owed, Awaiting
  <2>4. Awaited'
    BY <2>1 DEF Awaited, Awaiting
  <2>5. Emptied'
    <3> SUFFICES ASSUME NEW q \in Requests, pc[q] \in {"waiting", "draining"},
                        closing'[conn[q]] \in {"failing", "done"}
                 PROVE  q \notin pending[conn[q]]
      BY <2>1 DEF Emptied
    <3>1. conn[q] \in Conns
      BY DEF Awaited, Awaiting
    <3>2. QED
      BY <2>1, <2>2, <3>1 DEF Emptied
  <2>6. QED
    BY <2>3, <2>4, <2>5
<1>3. ASSUME NEW r \in Requests, FailOne(c, r) PROVE Owed' /\ Awaited' /\ Emptied'
  <2>1. UNCHANGED <<pending, closing, pc, conn>> /\ r \in failing[c]
    BY <1>3 DEF FailOne
  <2>2. code[c] # "none"
    BY DEF TypeOK, CloseCodes
  <2>3. /\ \A d \in Conns : failing'[d] = IF d = c THEN failing[d] \ {r} ELSE failing[d]
        /\ \A q \in Requests : outcome'[q] = IF q = r THEN code[c] ELSE outcome[q]
    BY <1>3 DEF FailOne, TypeOK
  <2>4. /\ conn[r] = c /\ pc[r] \in Awaiting
        /\ \A d \in Conns : r \notin pending[d] /\ r \notin failing'[d]
    <3>1. conn[r] = c /\ pc[r] \in Awaiting /\ r \notin pending[c]
      BY <2>1 DEF Owed
    <3>2. ASSUME NEW d \in Conns PROVE r \notin pending[d] /\ r \notin failing'[d]
      <4>1. CASE d = c
        BY <2>3, <3>1, <4>1
      <4>2. CASE d # c
        BY <2>3, <3>1, <4>2 DEF Owed
      <4>3. QED
        BY <4>1, <4>2
    <3>3. QED
      BY <3>1, <3>2
  <2>5. Owed'
    <3> SUFFICES ASSUME NEW q \in Requests, NEW d \in Conns
                 PROVE  /\ q \in pending[d] =>
                             conn[q] = d /\ pc[q] \in {"registered", "waiting"} /\ outcome'[q] = "none"
                        /\ q \in failing'[d] =>
                             /\ conn[q] = d /\ pc[q] \in Awaiting /\ outcome'[q] = "none"
                             /\ q \notin pending[d] /\ closing[d] = "failing"
      BY <2>1 DEF Owed, Awaiting
    <3>1. CASE q = r
      BY <3>1, <2>4
    <3>2. CASE q # r
      <4>1. outcome'[q] = outcome[q] /\ (q \in failing'[d] => q \in failing[d])
        BY <3>2, <2>3
      <4>2. QED
        BY <4>1 DEF Owed
    <3>3. QED
      BY <3>1, <3>2
  <2>6. Awaited'
    BY <2>1, <2>2, <2>3, <2>4 DEF Awaited, Awaiting
  <2>7. Emptied'
    BY <2>1 DEF Emptied
  <2>8. QED
    BY <2>5, <2>6, <2>7
<1>4. QED
  BY <1>1, <1>2, <1>3 DEF Closer

(* The other steps of a connection.                                          *)
LEMMA ConnectionKeeps ==
    ASSUME IInv, NEW c \in Conns, Writer(c) \/ Handler(c) \/ CloseRevoked(c)
    PROVE  Owed' /\ Awaited' /\ Emptied'
<1> USE DEF IInv
<1>1. CASE WriterSends(c) \/ WriterStops(c) \/ Activate(c) \/ Refuse(c) \/ Start(c) \/ Unregister(c)
  <2>1. UNCHANGED answering
    BY <1>1 DEF WriterSends, WriterStops, Activate, Refuse, Start, Unregister, answering, callVars
  <2>2. QED
    BY <2>1, AnsweringUnchanged
<1>2. CASE WriterFails(c) \/ Finish(c) \/ CloseRevoked(c)
  <2>1. UNCHANGED <<pending, failing, pc, conn, outcome>>
    BY <1>2 DEF WriterFails, Finish, CloseRevoked, callVars
  <2>2. Mark(c, "peer-offline") \/ Mark(c, "peer-revoked")
    BY <1>2 DEF WriterFails, Finish, CloseRevoked
  <2>3. QED
    BY <2>1, <2>2, MarkKeeps
<1>3. CASE ClosePrevious(c)
  <2>1. UNCHANGED <<pending, failing, pc, conn, outcome>> /\ replaced[c] \in Conns
    BY <1>3 DEF ClosePrevious, callVars, TypeOK
  <2>2. PICK o \in {"execution-unknown", "peer-offline"} : Mark(replaced[c], o)
    BY <1>3 DEF ClosePrevious
  <2>3. QED
    BY <2>1, <2>2, MarkKeeps
<1>4. CASE Receive(c)
  <2> DEFINE m == Head(toHub[c])
  <2>1. UNCHANGED <<failing, closing, pc, conn>> /\ toHub[c] # <<>>
    BY <1>4 DEF Receive
  <2>2. m.request \in Requests /\ m.reply \in Outcomes \cup {"ack"}
    BY <2>1, ReplyType
  <2>3. \/ UNCHANGED <<pending, outcome>>
        \/ m.reply # "ack" /\ Complete(c, m.request, m.reply)
    BY <1>4 DEF Receive
  <2> HIDE DEF m
  <2>4. CASE UNCHANGED <<pending, outcome>>
    BY <2>1, <2>4, AnsweringUnchanged DEF answering
  <2>5. CASE m.reply # "ack" /\ Complete(c, m.request, m.reply)
    BY <2>1, <2>2, <2>5, CompleteKeeps
  <2>6. QED
    BY <2>3, <2>4, <2>5
<1>5. QED
  BY <1>1, <1>2, <1>3, <1>4 DEF Writer, Handler

(* The agent and the network decide nothing at the hub.                      *)
LEMMA OutsideKeeps ==
    ASSUME IInv,
           \/ \E r \in Requests : Task(r)
           \/ \E c \in Conns : Take(c) \/ LoseNetwork(c) \/ Negotiate(c)
           \/ Revoke \/ Crash \/ UNCHANGED vars
    PROVE  Owed' /\ Awaited' /\ Emptied'
<1>1. UNCHANGED answering
  BY DEF Task, Reject, Dispatch, Execute, Respond, Take, LoseNetwork, Negotiate, Revoke, Crash,
         vars, hubVars, callVars, answering
<1>2. QED
  BY <1>1, AnsweringUnchanged DEF IInv

-----------------------------------------------------------------------------
(* What is answered is true of the agent.                                    *)

(* The variables the way of a request depends on, and the invariant on it.   *)
travelling == <<sendQueue, toAgent, toHub, pc, conn, outcome, answer, task, effect>>

Delivery == Travels /\ Works /\ Replied /\ Reported

(* Nothing is on its way at the start.                                       *)
LEMMA InitDelivery == Init => Delivery
<1> SUFFICES ASSUME Init PROVE Delivery
  OBVIOUS
<1>1. Range(<<>>) = {} /\ IsInjective(<<>>)
  BY DEF Range, IsInjective
<1>2. \A c \in Conns : sendQueue[c] = <<>> /\ toAgent[c] = <<>> /\ toHub[c] = <<>>
  BY DEF Init
<1>3. Travels /\ Replied
  BY <1>1, <1>2 DEF Travels, Replied, OnTheWay
<1>4. Works /\ Reported
  BY DEF Init, Works, Reported, Refusals
<1>5. QED
  BY <1>3, <1>4 DEF Delivery

(* Steps that touch none of these variables change nothing.                  *)
LEMMA TravellingUnchanged ==
    ASSUME Delivery, UNCHANGED travelling
    PROVE  Delivery'
<1>1. Travels'
  BY DEF Delivery, Travels, OnTheWay, travelling
<1>2. Works'
  BY DEF Delivery, Works, travelling
<1>3. Replied'
  BY DEF Delivery, Replied, travelling
<1>4. Reported'
  BY DEF Delivery, Reported, NeverExecuted, OnTheWay, travelling
<1>5. QED
  BY <1>1, <1>2, <1>3, <1>4 DEF Delivery

(* Steps that touch only what the hub has recorded keep the rest.            *)
LEMMA OnlyRecorded ==
    ASSUME TypeOK, Delivery, UNCHANGED <<sendQueue, toAgent, toHub, task, effect>>,
           NEW r \in Requests,
           \A q \in Requests : q # r =>
               pc'[q] = pc[q] /\ conn'[q] = conn[q] /\ outcome'[q] = outcome[q] /\ answer'[q] = answer[q],
           \/ pc[r] \in {"idle", "routed"} /\ pc'[r] \in {"routed", "registered", "answered"}
           \/ conn'[r] = conn[r] /\ pc'[r] = pc[r]
           \/ conn'[r] = conn[r] /\ pc'[r] \in {"waiting", "draining", "answered"},
           answer'[r] # "none" => pc'[r] = "answered",
           "result" \in {outcome'[r], answer'[r]} => effect[r] = "succeeded",
           {outcome'[r], answer'[r]} \cap Refusals # {} => NeverExecuted(r)'
    PROVE  Delivery'
<1>1. \A c \in Conns : OnTheWay(c)' = OnTheWay(c) /\ OnTheWay(c) \subseteq Requests
  <2>1. ASSUME NEW c \in Conns PROVE OnTheWay(c)' = OnTheWay(c) /\ OnTheWay(c) \subseteq Requests
    <3>1. sendQueue[c] \in Seq(Requests) /\ toAgent[c] \in Seq(Requests)
      BY DEF TypeOK
    <3>2. Range(sendQueue[c]) \subseteq Requests /\ Range(toAgent[c]) \subseteq Requests
      BY <3>1 DEF Range
    <3>3. QED
      BY <3>2 DEF OnTheWay
  <2>2. QED
    BY <2>1
<1>2. pc[r] \in {"idle", "routed"} => \A c \in Conns : r \notin OnTheWay(c)
  BY DEF Delivery, Travels
<1>3. Travels'
  <2> SUFFICES ASSUME NEW c \in Conns, NEW q \in OnTheWay(c)
               PROVE  conn'[q] = c /\ pc'[q] \notin {"idle", "routed", "registered"} /\ task[q] = "none"
    BY <1>1 DEF Delivery, Travels
  <2>1. q \in Requests /\ conn[q] = c /\ pc[q] \notin {"idle", "routed", "registered"} /\ task[q] = "none"
    BY <1>1 DEF Delivery, Travels
  <2>2. QED
    BY <1>2, <2>1
<1>4. Works'
  <2> SUFFICES ASSUME NEW q \in Requests, pc'[q] \in {"idle", "routed", "registered"}
               PROVE  task[q] = "none"
    BY DEF Delivery, Works
  <2>1. pc[q] \in {"idle", "routed", "registered"}
    BY DEF Delivery
  <2>2. QED
    BY <2>1 DEF Delivery, Works
<1>5. Replied'
  BY DEF Delivery, Replied
<1>6. Reported'
  <2> SUFFICES ASSUME NEW q \in Requests
               PROVE  /\ answer'[q] # "none" => pc'[q] = "answered"
                      /\ "result" \in {outcome'[q], answer'[q]} => effect[q] = "succeeded"
                      /\ {outcome'[q], answer'[q]} \cap Refusals # {} => NeverExecuted(q)'
    BY DEF Reported
  <2>1. CASE q = r
    BY <2>1
  <2>2. CASE q # r
    BY <2>2, <1>1 DEF Delivery, Reported, NeverExecuted
  <2>3. QED
    BY <2>1, <2>2
<1>7. QED
  BY <1>3, <1>4, <1>5, <1>6 DEF Delivery

(* The codes of a close, and a timeout, claim nothing.                       *)
LEMMA NoClaims ==
    /\ CloseCodes \cap Refusals = {} /\ "result" \notin CloseCodes
    /\ {"peer-offline", "timeout", "none"} \cap Refusals = {}
BY DEF CloseCodes, Refusals

(* The steps of a call.                                                      *)
LEMMA CallDelivers ==
    ASSUME IInv, NEW r \in Requests, Call(r) \/ Expire(r)
    PROVE  Delivery'
<1>0. TypeOK /\ Delivery
  BY DEF IInv, Delivery
<1>t. /\ pc \in [Requests -> {"idle", "routed", "registered", "waiting", "draining", "answered"}]
      /\ conn \in [Requests -> Conns \cup {NoConn}]
      /\ outcome \in [Requests -> Outcomes \cup {"none"}]
      /\ answer \in [Requests -> Outcomes \cup {"none"}]
      /\ sendQueue \in [Conns -> Seq(Requests)]
  BY <1>0 DEF TypeOK
<1>r. /\ answer[r] # "none" => pc[r] = "answered"
      /\ "result" \in {outcome[r], answer[r]} => effect[r] = "succeeded"
      /\ {outcome[r], answer[r]} \cap Refusals # {} => NeverExecuted(r)
      /\ pc[r] \in {"idle", "routed", "registered"} =>
           task[r] = "none" /\ effect[r] = "none" /\ \A c \in Conns : r \notin OnTheWay(c)
  BY <1>0 DEF Delivery, Reported, Works, Travels
<1>1. CASE Route(r)
  <2>1. /\ UNCHANGED <<sendQueue, toAgent, toHub, task, effect, outcome>>
        /\ pc[r] = "idle"
    BY <1>1 DEF Route, hubVars, wireVars, agentVars
  <2>2. \/ /\ UNCHANGED conn /\ pc' = [pc EXCEPT ![r] = "answered"]
           /\ answer' = [answer EXCEPT ![r] = "peer-offline"]
        \/ /\ UNCHANGED answer /\ pc' = [pc EXCEPT ![r] = "routed"]
           /\ conn' = [conn EXCEPT ![r] = current]
    BY <1>1 DEF Route
  <2>3. /\ \A q \in Requests : q # r =>
               pc'[q] = pc[q] /\ conn'[q] = conn[q] /\ outcome'[q] = outcome[q] /\ answer'[q] = answer[q]
        /\ \/ pc'[r] = "answered" /\ answer'[r] = "peer-offline"
           \/ pc'[r] = "routed" /\ answer'[r] = answer[r]
    BY <1>t, <2>1, <2>2
  <2>4. outcome[r] = "none" /\ answer[r] = "none"
    BY <2>1, <1>r DEF IInv, Awaited
  <2>5. QED
    BY <1>0, <2>1, <2>3, <2>4, OnlyRecorded, NoClaims
<1>2. CASE Register(r)
  <2>1. UNCHANGED <<sendQueue, toAgent, toHub, task, effect, conn, outcome>> /\ pc[r] = "routed"
    BY <1>2 DEF Register, wireVars, agentVars
  <2>2. \/ UNCHANGED answer /\ pc' = [pc EXCEPT ![r] = "registered"]
        \/ /\ pc' = [pc EXCEPT ![r] = "answered"]
           /\ answer' = [answer EXCEPT ![r] = "invalid-target"]
    BY <1>2 DEF Register
  <2>3. /\ \A q \in Requests : q # r =>
               pc'[q] = pc[q] /\ conn'[q] = conn[q] /\ outcome'[q] = outcome[q] /\ answer'[q] = answer[q]
        /\ \/ pc'[r] = "answered" /\ answer'[r] = "invalid-target"
           \/ pc'[r] = "registered" /\ answer'[r] = answer[r]
    BY <1>t, <2>1, <2>2
  <2>4. outcome[r] = "none" /\ answer[r] = "none"
    BY <2>1, <1>r DEF IInv, Awaited
  <2>5. pc'[r] = "answered" => NeverExecuted(r)'
    BY <2>1, <1>r DEF NeverExecuted, OnTheWay
  <2>6. QED
    BY <1>0, <2>1, <2>3, <2>4, <2>5, OnlyRecorded, NoClaims
<1>3. CASE Send(r)
  <2> DEFINE c == conn[r]
  <2>1. /\ pc[r] = "registered" /\ pc' = [pc EXCEPT ![r] = "waiting"]
        /\ UNCHANGED <<toAgent, toHub, task, effect, conn, answer>>
    BY <1>3 DEF Send, wireVars, agentVars
  <2>2. c \in Conns
    BY <2>1 DEF IInv, Awaited, Awaiting
  <2>3. PICK o \in SendOutcomes(r) :
             IF o = "sent"
             THEN /\ sendQueue' = [sendQueue EXCEPT ![c] = Append(@, r)]
                  /\ UNCHANGED <<pending, outcome>>
             ELSE /\ Complete(c, r, o)
                  /\ UNCHANGED sendQueue
    BY <1>3 DEF Send
  <2>4. o \in {"sent", "peer-offline", "queue-full"}
    BY <1>0, SendOutcomesFact
  <2>5. \A q \in Requests : pc'[q] = IF q = r THEN "waiting" ELSE pc[q]
    BY <2>1, <1>t
  <2>6. answer[r] = "none"
    BY <2>1, <1>r
  <2>7. CASE o = "sent"
    <3>1. outcome' = outcome /\ sendQueue' = [sendQueue EXCEPT ![c] = Append(sendQueue[c], r)]
      BY <2>3, <2>7
    <3>2. \A d \in Conns : sendQueue'[d] = IF d = c THEN Append(sendQueue[c], r) ELSE sendQueue[d]
      BY <3>1, <1>t
    <3> HIDE DEF c
    <3>3. /\ Range(Append(sendQueue[c], r)) = Range(sendQueue[c]) \cup {r}
          /\ IsInjective(sendQueue[c]) /\ r \notin Range(sendQueue[c]) => IsInjective(Append(sendQueue[c], r))
      <4>1. sendQueue[c] \in Seq(Requests)
        BY <1>t, <2>2
      <4>2. QED
        BY <4>1, RangeOfAppend
    <3>4. \A d \in Conns : r \notin Range(sendQueue[d]) /\ r \notin Range(toAgent[d])
      BY <2>1, <1>r DEF OnTheWay
    <3>5. /\ \A d \in Conns : OnTheWay(d)' = IF d = c THEN OnTheWay(c) \cup {r} ELSE OnTheWay(d)
          /\ \A q \in Requests : q # r =>
               \A d \in Conns : q \in OnTheWay(d)' => q \in OnTheWay(d)
      BY <2>1, <3>2, <3>3 DEF OnTheWay
    <3>6. Travels'
      <4> SUFFICES ASSUME NEW d \in Conns
                   PROVE  /\ IsInjective(sendQueue'[d]) /\ IsInjective(toAgent[d])
                          /\ Range(sendQueue'[d]) \cap Range(toAgent[d]) = {}
                          /\ \A q \in OnTheWay(d)' :
                               conn[q] = d /\ pc'[q] \notin {"idle", "routed", "registered"} /\ task[q] = "none"
        BY <2>1 DEF Travels
      <4>0. /\ IsInjective(sendQueue[d]) /\ IsInjective(toAgent[d])
            /\ Range(sendQueue[d]) \cap Range(toAgent[d]) = {}
            /\ \A q \in OnTheWay(d) :
                 conn[q] = d /\ pc[q] \notin {"idle", "routed", "registered"} /\ task[q] = "none"
        BY <1>0 DEF Delivery, Travels
      <4>1. IsInjective(sendQueue'[d]) /\ Range(sendQueue'[d]) \cap Range(toAgent[d]) = {}
        BY <4>0, <3>2, <3>3, <3>4
      <4>2. ASSUME NEW q \in OnTheWay(d)'
            PROVE  conn[q] = d /\ pc'[q] \notin {"idle", "routed", "registered"} /\ task[q] = "none"
        <5>1. CASE q = r
          <6>1. d = c
            BY <3>4, <3>5, <5>1 DEF OnTheWay
          <6>2. QED
            BY <2>1, <2>5, <1>r, <5>1, <6>1 DEF c
        <5>2. CASE q # r
          <6>1. q \in OnTheWay(d)
            BY <3>5, <5>2
          <6>2. q \in Requests
            <7>1. sendQueue[d] \in Seq(Requests) /\ toAgent[d] \in Seq(Requests)
              BY <1>0 DEF TypeOK
            <7>2. QED
              BY <7>1, <6>1 DEF OnTheWay, Range
          <6>3. QED
            BY <2>5, <4>0, <5>2, <6>1, <6>2
        <5>3. QED
          BY <5>1, <5>2
      <4>3. QED
        BY <4>0, <4>1, <4>2
    <3>7. Works'
      BY <1>0, <2>1, <2>5 DEF Delivery, Works
    <3>8. Replied'
      BY <1>0, <2>1 DEF Delivery, Replied
    <3>9. Reported'
      <4> SUFFICES ASSUME NEW q \in Requests
                   PROVE  /\ answer[q] # "none" => pc'[q] = "answered"
                          /\ "result" \in {outcome[q], answer[q]} => effect[q] = "succeeded"
                          /\ {outcome[q], answer[q]} \cap Refusals # {} => NeverExecuted(q)'
        BY <2>1, <3>1 DEF Reported
      <4>1. CASE q = r
        <5>1. ASSUME NeverExecuted(r) PROVE FALSE
          BY <5>1, <2>1, <1>r DEF NeverExecuted
        <5>2. QED
          BY <4>1, <5>1, <2>6, <1>r
      <4>2. CASE q # r
        BY <4>2, <1>0, <2>1, <2>5, <3>5 DEF Delivery, Reported, NeverExecuted
      <4>3. QED
        BY <4>1, <4>2
    <3>10. QED
      BY <3>6, <3>7, <3>8, <3>9 DEF Delivery
  <2>8. CASE o # "sent"
    <3>1. UNCHANGED sendQueue /\ Complete(c, r, o) /\ o \in {"peer-offline", "queue-full"}
      BY <2>3, <2>4, <2>8
    <3>2. \A q \in Requests : outcome'[q] = IF q = r /\ r \in pending[c] THEN o ELSE outcome[q]
      BY <3>1, <1>t DEF Complete
    <3>3. NeverExecuted(r)'
      BY <2>1, <2>5, <3>1, <1>r DEF NeverExecuted, OnTheWay
    <3>4. "result" \in {outcome'[r], answer'[r]} => effect[r] = "succeeded"
      BY <2>1, <2>6, <3>1, <3>2, <1>r
    <3>5. QED
      BY <1>0, <2>1, <2>5, <2>6, <3>1, <3>2, <3>3, <3>4, OnlyRecorded
  <2>9. QED
    BY <2>7, <2>8
<1>4. CASE Expire(r)
  <2>1. UNCHANGED travelling
    BY <1>4 DEF Expire, travelling, hubVars, wireVars, agentVars
  <2>2. QED
    BY <1>0, <2>1, TravellingUnchanged
<1>5. CASE Timeout(r)
  <2>1. /\ UNCHANGED <<sendQueue, toAgent, toHub, task, effect, conn, outcome>>
        /\ pc[r] = "waiting"
        /\ \/ pc' = [pc EXCEPT ![r] = "answered"] /\ answer' = [answer EXCEPT ![r] = "timeout"]
           \/ pc' = [pc EXCEPT ![r] = "draining"] /\ UNCHANGED answer
    BY <1>5 DEF Timeout, wireVars, agentVars
  <2>2. /\ \A q \in Requests : q # r =>
               pc'[q] = pc[q] /\ conn'[q] = conn[q] /\ outcome'[q] = outcome[q] /\ answer'[q] = answer[q]
        /\ \/ pc'[r] = "answered" /\ answer'[r] = "timeout"
           \/ pc'[r] = "draining" /\ answer'[r] = answer[r]
    BY <1>t, <2>1
  <2>3. NeverExecuted(r) => NeverExecuted(r)'
    BY <2>1, <2>2 DEF NeverExecuted, OnTheWay
  <2>4. answer[r] = "none"
    BY <2>1, <1>r
  <2>5. QED
    BY <1>0, <1>r, <2>1, <2>2, <2>3, <2>4, OnlyRecorded, NoClaims
<1>6. CASE Return(r)
  <2>1. /\ UNCHANGED <<sendQueue, toAgent, toHub, task, effect, conn, outcome>>
        /\ pc[r] \in {"waiting", "draining"}
        /\ pc' = [pc EXCEPT ![r] = "answered"] /\ answer' = [answer EXCEPT ![r] = outcome[r]]
    BY <1>6 DEF Return, hubVars, wireVars, agentVars
  <2>2. /\ \A q \in Requests : q # r =>
               pc'[q] = pc[q] /\ conn'[q] = conn[q] /\ outcome'[q] = outcome[q] /\ answer'[q] = answer[q]
        /\ pc'[r] = "answered" /\ answer'[r] = outcome[r]
    BY <1>t, <2>1
  <2>3. NeverExecuted(r) => NeverExecuted(r)'
    BY <2>1, <2>2 DEF NeverExecuted, OnTheWay
  <2>4. QED
    BY <1>0, <1>r, <2>1, <2>2, <2>3, OnlyRecorded
<1>7. QED
  BY <1>1, <1>2, <1>3, <1>4, <1>5, <1>6 DEF Call

(* Where a request is when it is nowhere else.                               *)
LEMMA OnTheWayType ==
    ASSUME TypeOK, NEW c \in Conns
    PROVE  OnTheWay(c) \subseteq Requests
<1>1. sendQueue[c] \in Seq(Requests) /\ toAgent[c] \in Seq(Requests)
  BY DEF TypeOK
<1>2. QED
  BY <1>1 DEF OnTheWay, Range

(* The steps of a connection at the hub.                                     *)
LEMMA ConnectionDelivers ==
    ASSUME IInv, NEW c \in Conns, Connection(c)
    PROVE  Delivery'
<1>0. TypeOK /\ Delivery
  BY DEF IInv, Delivery
<1>t. /\ sendQueue \in [Conns -> Seq(Requests)] /\ toAgent \in [Conns -> Seq(Requests)]
      /\ toHub \in [Conns -> Seq(Replies)]
      /\ outcome \in [Requests -> Outcomes \cup {"none"}]
      /\ code \in [Conns -> CloseCodes]
  BY <1>0 DEF TypeOK
<1>s. sendQueue[c] # <<>> =>
        /\ Range(sendQueue[c]) = Range(Tail(sendQueue[c])) \cup {Head(sendQueue[c])}
        /\ Head(sendQueue[c]) \in Requests
        /\ IsInjective(Tail(sendQueue[c])) /\ Head(sendQueue[c]) \notin Range(Tail(sendQueue[c]))
  <2>1. sendQueue[c] \in Seq(Requests) /\ IsInjective(sendQueue[c])
    BY <1>0, <1>t DEF Delivery, Travels
  <2>2. QED
    BY <2>1, RangeOfTail, HeadTail
<1>1. CASE WriterSends(c)
  <2> DEFINE m == Head(sendQueue[c])
  <2>1. /\ sendQueue[c] # <<>> /\ UNCHANGED <<toHub, pc, conn, outcome, answer, task, effect>>
        /\ toAgent' = [toAgent EXCEPT ![c] = Append(toAgent[c], m)]
        /\ sendQueue' = [sendQueue EXCEPT ![c] = Tail(sendQueue[c])]
    BY <1>1 DEF WriterSends, callVars, agentVars
  <2>2. \A d \in Conns : /\ sendQueue'[d] = IF d = c THEN Tail(sendQueue[c]) ELSE sendQueue[d]
                         /\ toAgent'[d] = IF d = c THEN Append(toAgent[c], m) ELSE toAgent[d]
    BY <2>1, <1>t
  <2>3. /\ m \in Range(sendQueue[c]) /\ m \in Requests
        /\ Range(sendQueue[c]) = Range(Tail(sendQueue[c])) \cup {m}
        /\ IsInjective(Tail(sendQueue[c])) /\ m \notin Range(Tail(sendQueue[c]))
    BY <2>1, <1>s
  <2>4. m \notin Range(toAgent[c])
    BY <2>3, <1>0 DEF Delivery, Travels
  <2> HIDE DEF m
  <2>5. Range(Append(toAgent[c], m)) = Range(toAgent[c]) \cup {m} /\ IsInjective(Append(toAgent[c], m))
    <3>1. toAgent[c] \in Seq(Requests) /\ IsInjective(toAgent[c])
      BY <1>0, <1>t DEF Delivery, Travels
    <3>2. QED
      BY <3>1, <2>3, <2>4, RangeOfAppend
  <2>6. \A d \in Conns : OnTheWay(d)' = OnTheWay(d)
    BY <2>2, <2>3, <2>5 DEF OnTheWay
  <2>7. Travels'
    <3> SUFFICES ASSUME NEW d \in Conns
                 PROVE  /\ IsInjective(sendQueue'[d]) /\ IsInjective(toAgent'[d])
                        /\ Range(sendQueue'[d]) \cap Range(toAgent'[d]) = {}
                        /\ \A q \in OnTheWay(d)' :
                             conn[q] = d /\ pc[q] \notin {"idle", "routed", "registered"} /\ task[q] = "none"
      BY <2>1 DEF Travels
    <3>1. \A q \in OnTheWay(d)' :
             conn[q] = d /\ pc[q] \notin {"idle", "routed", "registered"} /\ task[q] = "none"
      BY <2>6, <1>0 DEF Delivery, Travels
    <3>2. CASE d = c
      BY <3>1, <3>2, <2>2, <2>3, <2>5, <1>0 DEF Delivery, Travels
    <3>3. CASE d # c
      BY <3>1, <3>3, <2>2, <1>0 DEF Delivery, Travels
    <3>4. QED
      BY <3>2, <3>3
  <2>8. Works' /\ Replied'
    BY <1>0, <2>1 DEF Delivery, Works, Replied
  <2>9. Reported'
    BY <1>0, <2>1, <2>6 DEF Delivery, Reported, NeverExecuted
  <2>10. QED
    BY <2>7, <2>8, <2>9 DEF Delivery
<1>2. CASE WriterFails(c)
  <2>1. /\ sendQueue[c] # <<>> /\ UNCHANGED <<toAgent, toHub, pc, conn, outcome, answer, task, effect>>
        /\ sendQueue' = [sendQueue EXCEPT ![c] = Tail(sendQueue[c])]
    BY <1>2 DEF WriterFails, wireVars, callVars, agentVars
  <2>2. \A d \in Conns : sendQueue'[d] = IF d = c THEN Tail(sendQueue[c]) ELSE sendQueue[d]
    BY <2>1, <1>t
  <2>3. Range(Tail(sendQueue[c])) \subseteq Range(sendQueue[c]) /\ IsInjective(Tail(sendQueue[c]))
    BY <2>1, <1>s
  <2>4. \A d \in Conns : OnTheWay(d)' \subseteq OnTheWay(d)
    BY <2>1, <2>2, <2>3 DEF OnTheWay
  <2>5. Travels'
    <3> SUFFICES ASSUME NEW d \in Conns
                 PROVE  /\ IsInjective(sendQueue'[d]) /\ IsInjective(toAgent[d])
                        /\ Range(sendQueue'[d]) \cap Range(toAgent[d]) = {}
                        /\ \A q \in OnTheWay(d)' :
                             conn[q] = d /\ pc[q] \notin {"idle", "routed", "registered"} /\ task[q] = "none"
      BY <2>1 DEF Travels
    <3>1. \A q \in OnTheWay(d)' :
             conn[q] = d /\ pc[q] \notin {"idle", "routed", "registered"} /\ task[q] = "none"
      BY <2>4, <1>0 DEF Delivery, Travels
    <3>2. QED
      BY <3>1, <2>2, <2>3, <1>0 DEF Delivery, Travels
  <2>6. Works' /\ Replied'
    BY <1>0, <2>1 DEF Delivery, Works, Replied
  <2>7. Reported'
    BY <1>0, <2>1, <2>4 DEF Delivery, Reported, NeverExecuted
  <2>8. QED
    BY <2>5, <2>6, <2>7 DEF Delivery
<1>3. ASSUME NEW r \in Requests, FailOne(c, r) PROVE Delivery'
  <2>1. /\ UNCHANGED <<sendQueue, toAgent, toHub, task, effect, pc, conn, answer>>
        /\ outcome' = [outcome EXCEPT ![r] = code[c]]
        /\ r \in failing[c]
    BY <1>3 DEF FailOne, wireVars, agentVars
  <2>2. \A q \in Requests : outcome'[q] = IF q = r THEN code[c] ELSE outcome[q]
    BY <2>1, <1>t
  <2>3. answer[r] = "none" \/ pc[r] = "answered"
    BY <1>0 DEF Delivery, Reported
  <2>4. pc[r] \in Awaiting
    BY <2>1 DEF IInv, Owed
  <2>5. answer[r] = "none"
    BY <2>3, <2>4 DEF Awaiting
  <2>6. code[c] \in CloseCodes
    BY <1>t
  <2>7. QED
    BY <1>0, <2>1, <2>2, <2>5, <2>6, OnlyRecorded, NoClaims
<1>4. CASE Receive(c)
  <2> DEFINE m == Head(toHub[c])
  <2>1. /\ toHub[c] # <<>> /\ UNCHANGED <<sendQueue, toAgent, task, effect, pc, conn, answer>>
        /\ toHub' = [toHub EXCEPT ![c] = Tail(toHub[c])]
    BY <1>4 DEF Receive, agentVars
  <2>2. UNCHANGED outcome \/ Complete(c, m.request, m.reply)
    BY <1>4 DEF Receive
  <2>3. /\ m \in Range(toHub[c]) /\ Range(Tail(toHub[c])) \subseteq Range(toHub[c])
        /\ m.request \in Requests
    <3>1. toHub[c] \in Seq(Replies)
      BY <1>t
    <3>2. Range(toHub[c]) = Range(Tail(toHub[c])) \cup {Head(toHub[c])}
      BY <3>1, <2>1, RangeOfTail
    <3>3. QED
      BY <3>2, <2>1, <1>0, ReplyType
  <2>4. /\ m.reply = "result" => effect[m.request] = "succeeded"
        /\ m.reply \in Refusals => effect[m.request] = "none" /\ task[m.request] = "done"
    BY <2>3, <1>0 DEF Delivery, Replied
  <2> HIDE DEF m
  <2>5. \A q \in Requests : outcome'[q] = outcome[q] \/ (q = m.request /\ outcome'[q] = m.reply)
    BY <2>2, <1>t DEF Complete
  <2>6. Travels' /\ Works'
    BY <1>0, <2>1 DEF Delivery, Travels, Works, OnTheWay
  <2>7. Replied'
    <3>1. \A d \in Conns : Range(toHub'[d]) \subseteq Range(toHub[d])
      BY <2>1, <2>3, <1>t
    <3>2. QED
      BY <1>0, <2>1, <3>1 DEF Delivery, Replied
  <2>8. Reported'
    <3> SUFFICES ASSUME NEW q \in Requests
                 PROVE  /\ answer[q] # "none" => pc[q] = "answered"
                        /\ "result" \in {outcome'[q], answer[q]} => effect[q] = "succeeded"
                        /\ {outcome'[q], answer[q]} \cap Refusals # {} => NeverExecuted(q)'
      BY <2>1 DEF Reported
    <3>1. NeverExecuted(q)' <=> NeverExecuted(q)
      BY <2>1 DEF NeverExecuted, OnTheWay
    <3>2. /\ answer[q] # "none" => pc[q] = "answered"
          /\ "result" \in {outcome[q], answer[q]} => effect[q] = "succeeded"
          /\ {outcome[q], answer[q]} \cap Refusals # {} => NeverExecuted(q)
      BY <1>0 DEF Delivery, Reported
    <3>3. CASE outcome'[q] = outcome[q]
      BY <3>1, <3>2, <3>3
    <3>4. CASE q = m.request /\ outcome'[q] = m.reply
      <4>1. m.reply \in Refusals => NeverExecuted(q)
        BY <2>4, <3>4 DEF NeverExecuted
      <4>2. QED
        BY <2>4, <3>1, <3>2, <3>4, <4>1
    <3>5. QED
      BY <2>5, <3>3, <3>4
  <2>9. QED
    BY <2>6, <2>7, <2>8 DEF Delivery
<1>5. ASSUME \/ WriterStops(c) \/ FailAll(c) \/ CloseSocket(c) \/ CloseRevoked(c)
             \/ Activate(c) \/ Refuse(c) \/ ClosePrevious(c) \/ Start(c) \/ Unregister(c) \/ Finish(c)
      PROVE  Delivery'
  <2>1. UNCHANGED travelling
    BY <1>5 DEF WriterStops, FailAll, CloseSocket, CloseRevoked, Activate, Refuse, ClosePrevious,
                Start, Unregister, Finish, travelling, wireVars, callVars, agentVars
  <2>2. QED
    BY <1>0, <2>1, TravellingUnchanged
<1>6. QED
  BY <1>1, <1>2, <1>3, <1>4, <1>5 DEF Connection, Writer, Closer, Handler

(* What a task adds to the replies.                                          *)
LEMMA ReplyAdds ==
    ASSUME TypeOK, NEW c, NEW messages \in Seq(Replies), Reply(c, messages), NEW d \in Conns
    PROVE  Range(toHub'[d]) \subseteq Range(toHub[d]) \cup Range(messages)
<1>1. toHub \in [Conns -> Seq(Replies)]
  BY DEF TypeOK
<1>2. CASE d = c /\ toHub' = [toHub EXCEPT ![c] = toHub[c] \o messages]
  <2>1. toHub'[d] = toHub[d] \o messages
    BY <1>1, <1>2
  <2>2. QED
    BY <2>1, <1>1, RangeOfConcat
<1>3. CASE d # c \/ toHub' = toHub
  BY <1>1, <1>3 DEF Reply
<1>4. QED
  BY <1>2, <1>3 DEF Reply

(* The steps of a task.                                                      *)
LEMMA TaskDelivers ==
    ASSUME IInv, NEW r \in Requests, Task(r)
    PROVE  Delivery'
<1>0. TypeOK /\ Delivery
  BY DEF IInv, Delivery
<1>t. /\ task \in [Requests -> {"none", "taken", "running", "executed", "done", "gone"}]
      /\ effect \in [Requests -> {"none", "succeeded", "failed"}]
  BY <1>0 DEF TypeOK
<1>1. /\ UNCHANGED <<sendQueue, toAgent, pc, conn, outcome, answer>>
      /\ task[r] \in {"taken", "running", "executed"}
      /\ task'[r] \in {"running", "executed", "done"}
      /\ \A q \in Requests : q # r => task'[q] = task[q] /\ effect'[q] = effect[q]
      /\ effect'[r] = effect[r] \/ (task[r] = "running" /\ task'[r] = "executed")
      /\ task[r] = "taken" => effect[r] = "none"
      /\ task[r] = "running" => effect[r] = "none"
  BY <1>0, <1>t DEF Task, Reject, Dispatch, Execute, Respond, hubVars, wireVars, callVars, Delivery, Works
<1>2. Travels'
  <2>1. \A c \in Conns : r \notin OnTheWay(c)
    BY <1>0, <1>1 DEF Delivery, Travels
  <2>2. \A c \in Conns : OnTheWay(c)' = OnTheWay(c) /\ OnTheWay(c) \subseteq Requests
    BY <1>0, <1>1, OnTheWayType DEF OnTheWay
  <2>3. \A c \in Conns : \A q \in OnTheWay(c) : task'[q] = task[q]
    BY <1>1, <2>1, <2>2
  <2>4. QED
    BY <1>0, <1>1, <2>2, <2>3 DEF Delivery, Travels
<1>3. Works'
  <2> SUFFICES ASSUME NEW q \in Requests
               PROVE  /\ pc[q] \in {"idle", "routed", "registered"} => task'[q] = "none"
                      /\ task'[q] \in {"none", "taken", "running"} => effect'[q] = "none"
    BY <1>1 DEF Works
  <2>1. /\ pc[q] \in {"idle", "routed", "registered"} => task[q] = "none"
        /\ task[q] \in {"none", "taken", "running"} => effect[q] = "none"
    BY <1>0 DEF Delivery, Works
  <2>2. CASE q # r
    BY <2>1, <2>2, <1>1
  <2>3. CASE q = r
    <3>1. task'[r] = "running" => task[r] = "taken" /\ effect'[r] = effect[r]
      BY <1>1, <1>t DEF Task, Reject, Dispatch, Execute, Respond
    <3>2. QED
      BY <2>1, <2>3, <1>1, <3>1
  <2>4. QED
    BY <2>2, <2>3
<1>4. Replied'
  <2>0. \A c \in Conns : \A m \in Range(toHub[c]) :
          /\ m.reply = "result" => effect'[m.request] = "succeeded"
          /\ m.reply \in Refusals => effect'[m.request] = "none" /\ task'[m.request] = "done"
    <3> SUFFICES ASSUME NEW c \in Conns, NEW m \in Range(toHub[c])
                 PROVE  /\ m.reply = "result" => effect'[m.request] = "succeeded"
                        /\ m.reply \in Refusals => effect'[m.request] = "none" /\ task'[m.request] = "done"
      OBVIOUS
    <3>1. m.request \in Requests
      <4>1. toHub[c] \in Seq(Replies)
        BY <1>0 DEF TypeOK
      <4>2. m \in Replies
        BY <4>1 DEF Range
      <4>3. QED
        BY <4>2 DEF Replies
    <3>2. /\ m.reply = "result" => effect[m.request] = "succeeded"
          /\ m.reply \in Refusals => effect[m.request] = "none" /\ task[m.request] = "done"
      BY <1>0 DEF Delivery, Replied
    <3>3. QED
      BY <1>1, <3>1, <3>2
  <2>1. CASE Reject(r)
    <3>1. PICK e \in {"invalid-target", "stale-generation"} :
               Reply(conn[r], <<[request |-> r, reply |-> e]>>)
      BY <2>1 DEF Reject
    <3>2. [request |-> r, reply |-> e] \in Replies /\ effect' = effect /\ task[r] = "taken"
      BY <2>1, <3>1 DEF Reject, Replies, Outcomes, Errors, Refusals
    <3>3. /\ <<[request |-> r, reply |-> e]>> \in Seq(Replies)
          /\ Range(<<[request |-> r, reply |-> e]>>) = {[request |-> r, reply |-> e]}
      BY <3>2 DEF Range
    <3>4. \A c \in Conns : Range(toHub'[c]) \subseteq Range(toHub[c]) \cup {[request |-> r, reply |-> e]}
      BY <1>0, <3>1, <3>3, ReplyAdds
    <3>5. effect'[r] = "none" /\ task'[r] = "done"
      BY <2>1, <3>2, <1>1, <1>t DEF Reject
    <3>6. ASSUME NEW c \in Conns, NEW m \in Range(toHub'[c])
          PROVE  /\ m.reply = "result" => effect'[m.request] = "succeeded"
                 /\ m.reply \in Refusals => effect'[m.request] = "none" /\ task'[m.request] = "done"
      <4>1. CASE m \in Range(toHub[c])
        BY <2>0, <4>1
      <4>2. CASE m = [request |-> r, reply |-> e]
        BY <3>1, <3>5, <4>2
      <4>3. QED
        BY <3>4, <4>1, <4>2
    <3>7. QED
      BY <3>6 DEF Replied
  <2>2. CASE Respond(r)
    <3> DEFINE o == IF effect[r] = "succeeded" THEN "result" ELSE "execution-failed"
               ack == [request |-> r, reply |-> "ack"]
               end == [request |-> r, reply |-> o]
    <3>1. ack \in Replies /\ end \in Replies /\ effect' = effect
      BY <2>2 DEF Respond, Replies, Outcomes, Errors
    <3>2. Reply(conn[r], <<ack, end>>)
      BY <2>2 DEF Respond
    <3>3. /\ ack.request = r /\ ack.reply = "ack" /\ end.request = r
          /\ end.reply = "execution-failed" \/ (end.reply = "result" /\ effect[r] = "succeeded")
      OBVIOUS
    <3> HIDE DEF ack, end
    <3>4. <<ack, end>> \in Seq(Replies) /\ Range(<<ack, end>>) = {ack, end}
      BY <3>1 DEF Range
    <3>5. \A c \in Conns : Range(toHub'[c]) \subseteq Range(toHub[c]) \cup {ack, end}
      BY <1>0, <3>2, <3>4, ReplyAdds
    <3>6. "ack" \notin Refusals /\ "execution-failed" \notin Refusals /\ "result" \notin Refusals
      BY DEF Refusals
    <3>7. ASSUME NEW c \in Conns, NEW m \in Range(toHub'[c])
          PROVE  /\ m.reply = "result" => effect'[m.request] = "succeeded"
                 /\ m.reply \in Refusals => effect'[m.request] = "none" /\ task'[m.request] = "done"
      <4>1. CASE m \in Range(toHub[c])
        BY <2>0, <4>1
      <4>2. CASE m = ack \/ m = end
        BY <3>1, <3>3, <3>6, <4>2
      <4>3. QED
        BY <3>5, <4>1, <4>2
    <3>8. QED
      BY <3>7 DEF Replied
  <2>3. CASE Dispatch(r) \/ Execute(r)
    <3>1. toHub' = toHub
      BY <2>3 DEF Dispatch, Execute, wireVars
    <3>2. QED
      BY <2>0, <3>1 DEF Replied
  <2>4. QED
    BY <2>1, <2>2, <2>3 DEF Task
<1>5. Reported'
  <2> SUFFICES ASSUME NEW q \in Requests
               PROVE  /\ answer[q] # "none" => pc[q] = "answered"
                      /\ "result" \in {outcome[q], answer[q]} => effect'[q] = "succeeded"
                      /\ {outcome[q], answer[q]} \cap Refusals # {} => NeverExecuted(q)'
    BY <1>1 DEF Reported
  <2>1. /\ answer[q] # "none" => pc[q] = "answered"
        /\ "result" \in {outcome[q], answer[q]} => effect[q] = "succeeded"
        /\ {outcome[q], answer[q]} \cap Refusals # {} => NeverExecuted(q)
    BY <1>0 DEF Delivery, Reported
  <2>2. CASE q # r
    BY <2>1, <2>2, <1>1 DEF NeverExecuted, OnTheWay
  <2>3. CASE q = r
    BY <2>1, <2>3, <1>1 DEF NeverExecuted
  <2>4. QED
    BY <2>2, <2>3
<1>6. QED
  BY <1>2, <1>3, <1>4, <1>5 DEF Delivery

(* The rest of the agent, the network, and a revocation.                     *)
LEMMA AgentDelivers ==
    ASSUME IInv,
           \/ \E c \in Conns : Take(c) \/ LoseNetwork(c) \/ Negotiate(c)
           \/ Revoke \/ Crash \/ UNCHANGED vars
    PROVE  Delivery'
<1>0. TypeOK /\ Delivery
  BY DEF IInv, Delivery
<1>1. ASSUME NEW c \in Conns, Take(c) PROVE Delivery'
  <2> DEFINE r == Head(toAgent[c])
  <2>1. /\ toAgent[c] # <<>> /\ UNCHANGED <<sendQueue, toHub, pc, conn, outcome, answer, effect>>
        /\ toAgent' = [toAgent EXCEPT ![c] = Tail(toAgent[c])]
        /\ task' = [task EXCEPT ![r] = "taken"]
    BY <1>1 DEF Take, hubVars, callVars
  <2>2. /\ Range(toAgent[c]) = Range(Tail(toAgent[c])) \cup {r} /\ r \in Requests
        /\ IsInjective(Tail(toAgent[c])) /\ r \notin Range(Tail(toAgent[c]))
    <3>1. toAgent[c] \in Seq(Requests) /\ IsInjective(toAgent[c])
      BY <1>0 DEF TypeOK, Delivery, Travels
    <3>2. QED
      BY <2>1, <3>1, RangeOfTail, HeadTail
  <2> HIDE DEF r
  <2>3. /\ \A d \in Conns : toAgent'[d] = IF d = c THEN Tail(toAgent[c]) ELSE toAgent[d]
        /\ \A q \in Requests : task'[q] = IF q = r THEN "taken" ELSE task[q]
    BY <2>1, <1>0 DEF TypeOK
  <2>4. /\ r \in OnTheWay(c) /\ r \notin Range(sendQueue[c])
        /\ conn[r] = c /\ pc[r] \notin {"idle", "routed", "registered"} /\ task[r] = "none"
    BY <2>2, <1>0 DEF Delivery, Travels, OnTheWay
  <2>5. effect[r] = "none" /\ {outcome[r], answer[r]} \cap Refusals = {}
    BY <2>2, <2>4, <1>0 DEF Delivery, Works, Reported, NeverExecuted
  <2>6. /\ \A d \in Conns : OnTheWay(d)' = OnTheWay(d) \ {r}
        /\ \A d \in Conns : OnTheWay(d) \subseteq Requests
    <3>1. \A d \in Conns : d # c => r \notin OnTheWay(d)
      BY <2>4, <1>0 DEF Delivery, Travels
    <3>2. ASSUME NEW d \in Conns PROVE OnTheWay(d)' = OnTheWay(d) \ {r}
      <4>1. CASE d = c
        BY <4>1, <2>1, <2>2, <2>3, <2>4 DEF OnTheWay
      <4>2. CASE d # c
        BY <4>2, <2>1, <2>3, <3>1 DEF OnTheWay
      <4>3. QED
        BY <4>1, <4>2
    <3>3. QED
      BY <3>2, <1>0, OnTheWayType
  <2>7. Travels'
    <3> SUFFICES ASSUME NEW d \in Conns
                 PROVE  /\ IsInjective(sendQueue[d]) /\ IsInjective(toAgent'[d])
                        /\ Range(sendQueue[d]) \cap Range(toAgent'[d]) = {}
                        /\ \A q \in OnTheWay(d)' :
                             conn[q] = d /\ pc[q] \notin {"idle", "routed", "registered"} /\ task'[q] = "none"
      BY <2>1 DEF Travels
    <3>1. \A q \in OnTheWay(d)' :
             conn[q] = d /\ pc[q] \notin {"idle", "routed", "registered"} /\ task'[q] = "none"
      BY <2>3, <2>6, <1>0 DEF Delivery, Travels
    <3>2. QED
      BY <3>1, <2>2, <2>3, <1>0 DEF Delivery, Travels
  <2>8. Works'
    BY <1>0, <2>1, <2>3, <2>4, <2>5 DEF Delivery, Works
  <2>9. Replied'
    <3> SUFFICES ASSUME NEW d \in Conns, NEW m \in Range(toHub[d])
                 PROVE  /\ m.reply = "result" => effect[m.request] = "succeeded"
                        /\ m.reply \in Refusals => effect[m.request] = "none" /\ task'[m.request] = "done"
      BY <2>1 DEF Replied
    <3>1. m.request \in Requests
      <4>1. toHub[d] \in Seq(Replies)
        BY <1>0 DEF TypeOK
      <4>2. m \in Replies
        BY <4>1 DEF Range
      <4>3. QED
        BY <4>2 DEF Replies
    <3>2. QED
      BY <3>1, <2>3, <2>4, <1>0 DEF Delivery, Replied
  <2>10. Reported'
    <3> SUFFICES ASSUME NEW q \in Requests
                 PROVE  /\ answer[q] # "none" => pc[q] = "answered"
                        /\ "result" \in {outcome[q], answer[q]} => effect[q] = "succeeded"
                        /\ {outcome[q], answer[q]} \cap Refusals # {} => NeverExecuted(q)'
      BY <2>1 DEF Reported
    <3>1. CASE q = r
      BY <3>1, <2>5, <1>0 DEF Delivery, Reported
    <3>2. CASE q # r
      BY <3>2, <2>1, <2>3, <2>6, <1>0 DEF Delivery, Reported, NeverExecuted
    <3>3. QED
      BY <3>1, <3>2
  <2>11. QED
    BY <2>7, <2>8, <2>9, <2>10 DEF Delivery
<1>2. CASE Crash
  <2>1. UNCHANGED <<sendQueue, toAgent, toHub, pc, conn, outcome, answer, effect>>
    BY <1>2 DEF Crash, hubVars, callVars
  <2>2. \A q \in Requests : task'[q] = IF task[q] \in {"none", "done"} THEN task[q] ELSE "gone"
    BY <1>2 DEF Crash
  <2>3. \A d \in Conns : OnTheWay(d)' = OnTheWay(d) /\ OnTheWay(d) \subseteq Requests
    BY <2>1, <1>0, OnTheWayType DEF OnTheWay
  <2>4. Travels'
    BY <2>1, <2>2, <2>3, <1>0 DEF Delivery, Travels
  <2>5. Works'
    BY <2>1, <2>2, <1>0 DEF Delivery, Works
  <2>6. Replied'
    <3> SUFFICES ASSUME NEW d \in Conns, NEW m \in Range(toHub[d])
                 PROVE  /\ m.reply = "result" => effect[m.request] = "succeeded"
                        /\ m.reply \in Refusals => effect[m.request] = "none" /\ task'[m.request] = "done"
      BY <2>1 DEF Replied
    <3>1. m.request \in Requests
      <4>1. toHub[d] \in Seq(Replies)
        BY <1>0 DEF TypeOK
      <4>2. m \in Replies
        BY <4>1 DEF Range
      <4>3. QED
        BY <4>2 DEF Replies
    <3>2. QED
      BY <3>1, <2>2, <1>0 DEF Delivery, Replied
  <2>7. Reported'
    BY <2>1, <2>2, <2>3, <1>0 DEF Delivery, Reported, NeverExecuted
  <2>8. QED
    BY <2>4, <2>5, <2>6, <2>7 DEF Delivery
<1>3. CASE (\E c \in Conns : LoseNetwork(c) \/ Negotiate(c)) \/ Revoke \/ UNCHANGED vars
  <2>1. UNCHANGED travelling
    BY <1>3 DEF LoseNetwork, Negotiate, Revoke, vars, travelling, hubVars, wireVars, callVars, agentVars
  <2>2. QED
    BY <1>0, <2>1, TravellingUnchanged
<1>4. QED
  BY <1>1, <1>2, <1>3

(* The initial state has no call under way.                                  *)
LEMMA InitIInv == Init => IInv
<1> SUFFICES ASSUME Init PROVE IInv
  OBVIOUS
<1>1. TypeOK /\ Delivery
  BY InitTypeOK, InitDelivery
<1>2. Owed /\ Awaited /\ Emptied
  BY DEF Init, Owed, Awaited, Emptied, Awaiting
<1>3. QED
  BY <1>1, <1>2 DEF IInv, Delivery

(* The invariant is inductive.                                               *)
LEMMA NextIInv == IInv /\ [Next]_vars => IInv'
<1> SUFFICES ASSUME IInv, [Next]_vars PROVE IInv'
  OBVIOUS
<1>1. TypeOK'
  BY NextTypeOK DEF IInv
<1>2. Owed' /\ Awaited' /\ Emptied'
  <2>1. ASSUME NEW r \in Requests, Call(r) \/ Expire(r) PROVE Owed' /\ Awaited' /\ Emptied'
    BY <2>1, CallKeeps
  <2>2. ASSUME NEW c \in Conns, Connection(c) PROVE Owed' /\ Awaited' /\ Emptied'
    BY <2>2, CloserKeeps, ConnectionKeeps DEF Connection
  <2>3. QED
    BY <2>1, <2>2, OutsideKeeps DEF Next
<1>3. Delivery'
  BY CallDelivers, ConnectionDelivers, TaskDelivers, AgentDelivers DEF Next
<1>4. QED
  BY <1>1, <1>2, <1>3 DEF IInv, Delivery

(* It holds in every reachable state (request_tracker.go, connection.go).    *)
THEOREM Invariance == Spec => []IInv
<1>1. QED
  BY InitIInv, NextIInv, PTL DEF Spec

(* No call has a second outcome, whoever races to complete it                *)
(* (request_tracker.go:74, 93).                                              *)
THEOREM AnsweredOnce == Spec => []OneOutcome
<1>1. IInv => OneOutcome
  BY DEF IInv, OneOutcome, Owed
<1>2. QED
  BY <1>1, Invariance, PTL

(* A call that returned is forgotten by the tracker                          *)
(* (request_tracker.go:80, 144).                                             *)
THEOREM NothingLeft == Spec => []NothingLeftPending
<1>1. IInv => NothingLeftPending
  BY DEF IInv, NothingLeftPending, Owed, Awaiting
<1>2. QED
  BY <1>1, Invariance, PTL

(* Nobody waits on a connection that is closed, although requests may        *)
(* register while it is being closed (connection.go:77, 100-106).            *)
THEOREM NobodyWaitsOnClosed == Spec => []ClosedLeavesNobodyWaiting
<1>1. IInv => ClosedLeavesNobodyWaiting
  <2> SUFFICES ASSUME IInv, NEW r \in Requests, pc[r] \in {"waiting", "draining"},
                      closing[conn[r]] = "done"
               PROVE  outcome[r] # "none"
    BY DEF ClosedLeavesNobodyWaiting
  <2>1. conn[r] \in Conns
    BY DEF IInv, Awaited, Awaiting
  <2>2. r \notin pending[conn[r]]
    BY DEF IInv, Emptied
  <2>3. r \notin failing[conn[r]]
    BY <2>1 DEF IInv, Owed
  <2>4. QED
    BY <2>2, <2>3 DEF IInv, Awaited, Awaiting
<1>2. QED
  BY <1>1, Invariance, PTL

(* Success is reported only of what was executed (request_tracker.go:45,     *)
(* dispatcher.go:193).                                                       *)
THEOREM SuccessIsTrue == Spec => []SuccessMeansExecuted
<1>1. IInv => SuccessMeansExecuted
  BY DEF IInv, Reported, SuccessMeansExecuted
<1>2. QED
  BY <1>1, Invariance, PTL

(* A refusal is final: what the hub could not queue, and what the agent      *)
(* found stale or late, is never executed (connection.go:85,                 *)
(* dispatcher.go:176-181).                                                   *)
THEOREM RefusalIsFinal == Spec => []RefusedMeansNotExecuted
<1>1. IInv => RefusedMeansNotExecuted
  BY DEF IInv, Reported, NeverExecuted, RefusedMeansNotExecuted
<1>2. QED
  BY <1>1, Invariance, PTL
=============================================================================
