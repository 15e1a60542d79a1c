----------------------------- MODULE ServoBusProofs -----------------------------
(***************************************************************************)
(* ServoBus for every number of servos, retries, faults and overheating    *)
(* servos, and every rhythm of the telemetry.                              *)
(*                                                                         *)
(* The inductive invariant BusInv has three parts: the shape of a call and *)
(* of what it has parsed, whose the replies on the wire are, and a count   *)
(* of the wrong temperatures: each one is on the wire, parsed, or among    *)
(* those that _confirm_temperature has counted, and none is counted twice. *)
(***************************************************************************)
EXTENDS ServoBus, FiniteSetTheorems, TLAPS

USE BusAssumption

(***************************************************************************)
(* The inductive invariant.                                                *)
(***************************************************************************)

Asking == pc \in {"polling", "confirming"}
Confirming == pc \in {"confirm", "confirming"}

\* What the variables hold, and what the call asks for while somebody waits.
BusShape ==
  /\ cycle \in Nat
  /\ pc \in {"between", "reading", "poll", "polling", "confirm", "confirming"}
  /\ call \in Calls
  /\ {found, frames, buffer} \subseteq SUBSET Replies
  /\ wire \in [Replies -> Nat]
  /\ {rereads, hots, glitches} \subseteq Nat
  /\ temperatures \in [Servos -> {"unknown", "cool", "hot"}]
  /\ heat \subseteq Servos
  /\ pc = "reading" => call.reg = "position" /\ call.ids = Servos
  /\ Asking => call.reg = "health" /\ call.ids = {PolledServo(cycle)} /\ frames = {}

\* An attempt parses replies of the servos that the call asked, one of each.
OneOfEachIn(replies) ==
  /\ \A r \in replies : r.id \in call.ids
  /\ \A r, s \in replies : r.id = s.id => r = s

OneOfEach == OneOfEachIn(found) /\ OneOfEachIn(frames)

\* Replies that count as answers to the call have its register, and while a call that
\* found the wire quiet waits there are no others.
Owned ==
  /\ \A r \in Coming : r.own => r.reg = call.reg
  /\ ~call.exposed /\ Waiting => \A r \in Coming : r.own

\* The two hot replies of a servo that can be on the wire: in time, and late.
HotReply(i, own) == [id |-> i, reg |-> "health", own |-> own, hot |-> TRUE]

One(truth) == IF truth THEN 1 ELSE 0

OnWire(i) == wire[HotReply(i, TRUE)] + wire[HotReply(i, FALSE)]

Reported(i, replies) == One(\E r \in replies : r.id = i /\ r.hot)

InHand(i) == IF Asking THEN Reported(i, found) ELSE 0

Counted(i) == IF Confirming /\ PolledServo(cycle) = i THEN 1 + hots ELSE 0

\* Every hot reply of a servo that is not hot cost a glitch of its own.
GlitchesCount ==
  /\ \A r \in Coming : r.hot => r.reg = "health"
  /\ \A i \in Servos \ heat : OnWire(i) + InHand(i) + Counted(i) <= glitches

BusInv == BusShape /\ OneOfEach /\ Owned /\ AnswersAreOwn /\ GlitchesCount /\ GlitchesAreDiscarded

(***************************************************************************)
(* The turn of the telemetry, and sets of one reply.                       *)
(***************************************************************************)

LEMMA TurnIsAServo ==
  ASSUME NEW c \in Nat
  PROVE  PolledServo(c) \in Servos
<1>1. c \div Divisor \in Nat
  BY DEF BusAssumption
<1> DEFINE n == c \div Divisor
<1> HIDE DEF n
<1>2. n % NumServos \in 0 .. NumServos - 1
  BY <1>1 DEF BusAssumption, n
<1> QED BY <1>2 DEF PolledServo, Servos, BusAssumption, n

LEMMA CycleIsNatural ==
  ASSUME NEW c \in Nat
  PROVE  (c + 1) % (Period * Divisor * NumServos) \in Nat
<1>1. \A a, b \in Nat \ {0} : a * b \in Nat \ {0}
  OBVIOUS
<1> DEFINE p == Period * Divisor * NumServos
<1>2. p \in Nat \ {0}
  BY <1>1 DEF BusAssumption
<1> HIDE DEF p
<1>3. (c + 1) % p \in Nat
  BY <1>2
<1> QED BY <1>3 DEF p

LEMMA OneIsOne == ASSUME NEW truth PROVE One(truth) \in {0, 1}
BY DEF One

LEMMA OneFollows ==
  ASSUME NEW a, NEW b, a => b
  PROVE  One(a) <= One(b)
<1>1. CASE a
  BY <1>1 DEF One
<1>2. CASE ~a
  BY <1>2, OneIsOne DEF One
<1> QED BY <1>1, <1>2

\* What is there for one of two reasons is counted with one of them.
LEMMA OneOfTwo ==
  ASSUME NEW a, NEW b, NEW c, a => b \/ c
  PROVE  One(a) <= One(b) + One(c)
<1>1. CASE b
  BY <1>1, OneIsOne DEF One
<1>2. CASE c
  BY <1>2, OneIsOne DEF One
<1>3. CASE ~a
  BY <1>3, OneIsOne DEF One
<1> QED BY <1>1, <1>2, <1>3

\* _confirm_temperature counts the answer of the servo it asked once.
LEMMA OneHotReply ==
  ASSUME NEW replies, NEW j,
         \A r \in replies : r.id = j,
         \A r, s \in replies : r.id = s.id => r = s
  PROVE  Cardinality({r \in replies : r.hot}) = Reported(j, replies)
<1> DEFINE hot == {r \in replies : r.hot}
<1>1. CASE \E r \in replies : r.hot
  <2>1. PICK r \in replies : r.hot
    BY <1>1
  <2>2. hot = {r}
    BY <2>1
  <2>3. Cardinality(hot) = 1
    BY <2>2, FS_Singleton
  <2>4. \E t \in replies : t.id = j /\ t.hot
    BY <2>1
  <2> QED BY <2>3, <2>4 DEF Reported, One
<1>2. CASE ~\E r \in replies : r.hot
  <2>1. hot = {}
    BY <1>2
  <2>2. Cardinality(hot) = 0
    BY <2>1, FS_EmptySet
  <2>3. ~\E t \in replies : t.id = j /\ t.hot
    BY <1>2
  <2> QED BY <2>2, <2>3 DEF Reported, One
<1> QED BY <1>1, <1>2

\* A request for the temperature of one servo gets one wrong answer at most.
LEMMA OneGlitch ==
  ASSUME NEW wrong, NEW j, wrong \subseteq {j}
  PROVE  Cardinality(wrong) = One(j \in wrong)
<1>1. CASE j \in wrong
  <2>1. wrong = {j}
    BY <1>1
  <2> QED BY <1>1, <2>1, FS_Singleton DEF One
<1>2. CASE j \notin wrong
  <2>1. wrong = {}
    BY <1>2
  <2> QED BY <1>2, <2>1, FS_EmptySet DEF One
<1> QED BY <1>1, <1>2

(***************************************************************************)
(* A request.                                                              *)
(***************************************************************************)

\* What it leaves parsed and in the input, and what it asks for.
LEMMA RequestShape ==
  ASSUME BusShape, NEW reg \in {"position", "health"}, NEW ids \in SUBSET Servos,
         NEW attempt \in 0 .. Retries, Send(reg, ids, attempt)
  PROVE  /\ call' \in Calls
         /\ call'.reg = reg /\ call'.ids = ids
         /\ call'.exposed \in BOOLEAN
         /\ attempt > 0 /\ call.exposed => call'.exposed
         /\ found' = {} /\ buffer' = {}
         /\ frames' = IF attempt > 0 THEN Best ELSE {}
<1>1. PICK w : call' = [reg |-> reg, ids |-> ids, attempt |-> attempt,
                        exposed |-> \/ attempt > 0 /\ call.exposed
                                    \/ \E r \in Replies : w[r] > 0 /\ ~r.own]
  BY DEF Send
<1> DEFINE exposed == \/ attempt > 0 /\ call.exposed
                      \/ \E r \in Replies : w[r] > 0 /\ ~r.own
<1>2. exposed \in BOOLEAN /\ (attempt > 0 /\ call.exposed => exposed)
  OBVIOUS
<1> HIDE DEF exposed
<1>3. call' = [reg |-> reg, ids |-> ids, attempt |-> attempt, exposed |-> exposed]
  BY <1>1 DEF exposed
<1>4. call' \in Calls
  BY <1>2, <1>3 DEF Calls
<1>5. found' = {} /\ buffer' = {} /\ frames' = IF attempt > 0 THEN Best ELSE {}
  BY DEF Send, EchoParsed, InputAfterReset
<1> QED BY <1>2, <1>3, <1>4, <1>5

\* The hot replies of a servo, in time and late, are replies, and two different ones.
LEMMA HotReplies ==
  ASSUME NEW i \in Servos
  PROVE  /\ HotReply(i, TRUE) \in Replies /\ HotReply(i, FALSE) \in Replies
         /\ HotReply(i, TRUE).own = TRUE /\ HotReply(i, FALSE).own = FALSE
         /\ HotReply(i, TRUE) # HotReply(i, FALSE)
         /\ [HotReply(i, FALSE) EXCEPT !.own = TRUE] = HotReply(i, TRUE)
<1>1. HotReply(i, TRUE) \in Replies /\ HotReply(i, FALSE) \in Replies
  BY DEF HotReply, Replies
<1>2. HotReply(i, TRUE).own = TRUE /\ HotReply(i, FALSE).own = FALSE
  BY DEF HotReply
<1>3. HotReply(i, TRUE) # HotReply(i, FALSE)
  BY <1>2
<1>4. [HotReply(i, FALSE) EXCEPT !.own = TRUE] = HotReply(i, TRUE)
  <2> DEFINE r == [HotReply(i, FALSE) EXCEPT !.own = TRUE]
             s == HotReply(i, TRUE)
  <2>1. r.id = i /\ r.reg = "health" /\ r.own = TRUE /\ r.hot = TRUE /\ r \in Replies
    BY <1>1 DEF HotReply, Replies
  <2>2. s.id = i /\ s.reg = "health" /\ s.own = TRUE /\ s.hot = TRUE /\ s \in Replies
    BY <1>1 DEF HotReply
  <2> HIDE DEF r, s
  <2>3. r = s
    BY <2>1, <2>2 DEF Replies
  <2> QED BY <2>3 DEF r, s
<1> QED BY <1>1, <1>2, <1>3, <1>4

LEMMA OnWireIsNatural ==
  ASSUME wire \in [Replies -> Nat], NEW i \in Servos
  PROVE  OnWire(i) \in Nat
<1> DEFINE now == HotReply(i, TRUE)
           late == HotReply(i, FALSE)
<1>1. now \in Replies /\ late \in Replies
  BY HotReplies
<1>2. OnWire(i) = wire[now] + wire[late]
  BY DEF OnWire
<1> HIDE DEF now, late
<1>3. wire[now] \in Nat /\ wire[late] \in Nat
  BY <1>1
<1> QED BY <1>2, <1>3

\* When a call is over nothing that is on the wire answers it, nothing is lost and
\* nothing comes twice.
LEMMA OutlivedWire ==
  ASSUME wire \in [Replies -> Nat]
  PROVE  /\ Outlived \in [Replies -> Nat]
         /\ \A r \in Replies : Outlived[r] > 0 =>
              /\ ~r.own
              /\ \E s \in Coming : s.id = r.id /\ s.reg = r.reg /\ s.hot = r.hot
         /\ \A i \in Servos : /\ Outlived[HotReply(i, TRUE)] = 0
                              /\ Outlived[HotReply(i, FALSE)] = OnWire(i)
<1>1. ASSUME NEW r \in Replies
      PROVE  [r EXCEPT !.own = TRUE] \in Replies
  BY DEF Replies
<1>2. Outlived \in [Replies -> Nat]
  BY <1>1 DEF Outlived
<1>3. ASSUME NEW r \in Replies, Outlived[r] > 0
      PROVE  /\ ~r.own
             /\ \E s \in Coming : s.id = r.id /\ s.reg = r.reg /\ s.hot = r.hot
  <2> DEFINE t == [r EXCEPT !.own = TRUE]
  <2>1. t \in Replies /\ t.id = r.id /\ t.reg = r.reg /\ t.hot = r.hot
    BY DEF Replies
  <2>2. Outlived[r] = IF r.own THEN 0 ELSE wire[r] + wire[t]
    BY DEF Outlived
  <2> HIDE DEF t
  <2>3. ~r.own /\ wire[r] + wire[t] > 0
    BY <2>2, <1>3
  <2>4. wire[r] > 0 \/ wire[t] > 0
    BY <2>1, <2>3
  <2> QED BY <2>1, <2>3, <2>4 DEF Coming
<1>4. ASSUME NEW i \in Servos
      PROVE  /\ Outlived[HotReply(i, TRUE)] = 0
             /\ Outlived[HotReply(i, FALSE)] = OnWire(i)
  <2> DEFINE now == HotReply(i, TRUE)
             late == HotReply(i, FALSE)
  <2>1. now \in Replies /\ late \in Replies /\ now.own = TRUE /\ late.own = FALSE
    BY HotReplies
  <2>2. [late EXCEPT !.own = TRUE] = now
    BY HotReplies
  <2> HIDE DEF now, late
  <2>3. Outlived[now] = 0 /\ Outlived[late] = wire[late] + wire[now]
    BY <2>1, <2>2 DEF Outlived
  <2>4. wire[late] \in Nat /\ wire[now] \in Nat
    BY <2>1
  <2>5. OnWire(i) = wire[now] + wire[late]
    BY DEF OnWire, now, late
  <2>6. Outlived[now] = 0 /\ Outlived[late] = OnWire(i)
    BY <2>3, <2>4, <2>5
  <2> QED BY <2>6 DEF now, late
<1> QED BY <1>2, <1>3, <1>4

\* The answer of servo i, with a wrong temperature or the right one.
Answer(i, reg, wrong) ==
  [id |-> i, reg |-> reg, own |-> TRUE,
   hot |-> reg = "health" /\ (i \in heat <=> i \notin wrong)]

\* What is on the wire when a further request is written: it answers a second attempt
\* too, but no new call.
Pending(attempt) == IF attempt > 0 THEN wire ELSE Outlived

LEMMA AnswerIsReply ==
  ASSUME NEW i \in Servos, NEW reg \in {"position", "health"}, NEW wrong,
         NEW r, r = Answer(i, reg, wrong)
  PROVE  /\ r \in Replies
         /\ r.id = i /\ r.reg = reg /\ r.own
         /\ r.hot => reg = "health" /\ (i \notin heat => i \in wrong)
<1> DEFINE hot == reg = "health" /\ (i \in heat <=> i \notin wrong)
<1>1. hot \in BOOLEAN
  OBVIOUS
<1>2. r = [id |-> i, reg |-> reg, own |-> TRUE, hot |-> hot]
  BY DEF Answer
<1>3. hot => reg = "health" /\ (i \notin heat => i \in wrong)
  OBVIOUS
<1> HIDE DEF hot
<1> QED BY <1>1, <1>2, <1>3 DEF Replies

\* What was on the wire stays there, is one reply of its register each, and answers at
\* most a second attempt.
LEMMA PendingReplies ==
  ASSUME BusShape, NEW attempt \in Nat
  PROVE  /\ Pending(attempt) \in [Replies -> Nat]
         /\ \A r \in Replies : Pending(attempt)[r] > 0 =>
              /\ r.own => attempt > 0 /\ r \in Coming
              /\ \E s \in Coming : s.id = r.id /\ s.reg = r.reg /\ s.hot = r.hot
         /\ \A i \in Servos :
              Pending(attempt)[HotReply(i, TRUE)] + Pending(attempt)[HotReply(i, FALSE)]
                = OnWire(i)
<1>1. wire \in [Replies -> Nat]
  BY DEF BusShape
<1>2. CASE attempt > 0
  BY <1>1, <1>2 DEF Pending, Coming, OnWire
<1>3. CASE ~(attempt > 0)
  <2>1. Pending(attempt) = Outlived
    BY <1>3 DEF Pending
  <2>2. /\ Outlived \in [Replies -> Nat]
        /\ \A r \in Replies : Outlived[r] > 0 =>
             /\ ~r.own
             /\ \E s \in Coming : s.id = r.id /\ s.reg = r.reg /\ s.hot = r.hot
        /\ \A i \in Servos : /\ Outlived[HotReply(i, TRUE)] = 0
                             /\ Outlived[HotReply(i, FALSE)] = OnWire(i)
    BY <1>1, OutlivedWire, Zenon
  <2>3. ASSUME NEW i \in Servos
        PROVE  Outlived[HotReply(i, TRUE)] + Outlived[HotReply(i, FALSE)] = OnWire(i)
    <3>1. /\ Outlived[HotReply(i, TRUE)] = 0
          /\ Outlived[HotReply(i, FALSE)] = OnWire(i)
      BY <2>2, Zenon
    <3>2. OnWire(i) \in Nat
      BY <1>1, OnWireIsNatural
    <3> DEFINE now == Outlived[HotReply(i, TRUE)]
               late == Outlived[HotReply(i, FALSE)]
    <3>3. now = 0 /\ late = OnWire(i)
      BY <3>1
    <3> HIDE DEF now, late
    <3>4. now + late = OnWire(i)
      BY <3>2, <3>3
    <3> QED BY <3>4 DEF now, late
  <2>4. \A r \in Replies : Outlived[r] > 0 =>
          /\ r.own => attempt > 0 /\ r \in Coming
          /\ \E s \in Coming : s.id = r.id /\ s.reg = r.reg /\ s.hot = r.hot
    BY <2>2, Zenon
  <2> QED BY <2>1, <2>2, <2>3, <2>4, Zenon
<1> QED BY <1>2, <1>3

\* What is on the wire after it: what was there, and its own answers.
LEMMA RequestOnWire ==
  ASSUME BusShape, NEW reg, NEW ids, NEW attempt \in Nat, Send(reg, ids, attempt)
  PROVE  \E wrong \in SUBSET (IF reg = "health" THEN ids ELSE {}) :
           /\ glitches' = glitches + Cardinality(wrong)
           /\ wire' \in [Replies -> Nat]
           /\ \A r \in Replies :
                \/ wire'[r] = Pending(attempt)[r]
                \/ /\ wire'[r] = Pending(attempt)[r] + 1
                   /\ \E i \in ids : r = Answer(i, reg, wrong)
           /\ (\E r \in Replies : Pending(attempt)[r] > 0 /\ ~r.own) => call'.exposed
<1> DEFINE p == Pending(attempt)
<1>1. PICK lost \in SUBSET ids, wrong \in SUBSET (IF reg = "health" THEN ids ELSE {}) :
        /\ glitches' = glitches + Cardinality(wrong)
        /\ call' = [reg |-> reg, ids |-> ids, attempt |-> attempt,
                    exposed |-> \/ attempt > 0 /\ call.exposed
                                \/ \E r \in Replies : p[r] > 0 /\ ~r.own]
        /\ wire' = [r \in Replies |-> IF r \in {Answer(i, reg, wrong) : i \in ids \ lost}
                                        THEN p[r] + 1 ELSE p[r]]
  BY DEF Send, Pending, Answer
<1>2. p \in [Replies -> Nat]
  BY PendingReplies
<1> HIDE DEF p
<1>3. wire' \in [Replies -> Nat]
  BY <1>1, <1>2
<1>4. \A r \in Replies : \/ wire'[r] = p[r]
                         \/ wire'[r] = p[r] + 1 /\ \E i \in ids : r = Answer(i, reg, wrong)
  BY <1>1
<1>5. (\E r \in Replies : p[r] > 0 /\ ~r.own) => call'.exposed
  BY <1>1
<1> QED BY <1>1, <1>3, <1>4, <1>5 DEF p

\* It leaves whose the replies are in order: what is still to come from earlier calls
\* does not answer this one.
LEMMA RequestOwned ==
  ASSUME BusShape, Owned, NEW reg \in {"position", "health"}, NEW ids \in SUBSET Servos,
         NEW attempt \in 0 .. Retries, Send(reg, ids, attempt),
         attempt = 0 \/ reg = call.reg
  PROVE  wire' \in [Replies -> Nat] /\ Owned'
<1>1. attempt \in Nat
  BY DEF BusAssumption
<1>2. PICK wrong \in SUBSET (IF reg = "health" THEN ids ELSE {}) :
        /\ wire' \in [Replies -> Nat]
        /\ \A r \in Replies :
             \/ wire'[r] = Pending(attempt)[r]
             \/ wire'[r] = Pending(attempt)[r] + 1 /\ \E i \in ids : r = Answer(i, reg, wrong)
        /\ (\E r \in Replies : Pending(attempt)[r] > 0 /\ ~r.own) => call'.exposed
  BY <1>1, RequestOnWire
<1>3. call'.reg = reg
  BY RequestShape
<1>4. ASSUME NEW r \in Coming'
      PROVE  /\ r.own => r.reg = call'.reg
             /\ ~r.own => call'.exposed
  <2>1. r \in Replies /\ wire'[r] > 0
    BY DEF Coming
  <2>2. CASE \E i \in ids : r = Answer(i, reg, wrong)
    BY <2>2, <1>3, AnswerIsReply
  <2>3. CASE wire'[r] = Pending(attempt)[r]
    <3>1. Pending(attempt)[r] > 0
      BY <2>1, <2>3
    <3>2. r.own => attempt > 0 /\ r \in Coming
      BY <1>1, <2>1, <3>1, PendingReplies
    <3>3. r.own => r.reg = call'.reg
      BY <3>2, <1>3 DEF Owned
    <3> QED BY <1>2, <2>1, <3>1, <3>3
  <2> QED BY <1>2, <2>1, <2>2, <2>3
<1> QED BY <1>2, <1>4 DEF Owned

\* It puts no hot reply of a servo that is not hot on the wire without a glitch of
\* its own.
LEMMA RequestCounts ==
  ASSUME BusShape, GlitchesCount, NEW reg \in {"position", "health"}, NEW ids \in SUBSET Servos,
         NEW attempt \in 0 .. Retries, Send(reg, ids, attempt),
         NEW j \in Servos, reg = "health" => ids = {j} /\ attempt = 0
  PROVE  /\ glitches' \in Nat /\ glitches' >= glitches
         /\ \A r \in Coming' : r.hot => r.reg = "health"
         /\ \A i \in Servos \ heat : OnWire(i)' + glitches <= OnWire(i) + glitches'
<1>1. attempt \in Nat
  BY DEF BusAssumption
<1>2. PICK wrong \in SUBSET (IF reg = "health" THEN ids ELSE {}) :
        /\ glitches' = glitches + Cardinality(wrong)
        /\ wire' \in [Replies -> Nat]
        /\ \A r \in Replies :
             \/ wire'[r] = Pending(attempt)[r]
             \/ wire'[r] = Pending(attempt)[r] + 1 /\ \E i \in ids : r = Answer(i, reg, wrong)
  BY <1>1, RequestOnWire
<1>3. wrong \subseteq {j}
  BY <1>2
<1>4. glitches' = glitches + One(j \in wrong)
  BY <1>2, <1>3, OneGlitch, Zenon
<1>5. glitches' \in Nat /\ glitches' >= glitches
  BY <1>4, OneIsOne DEF BusShape
<1>6. ASSUME NEW r \in Coming', r.hot
      PROVE  r.reg = "health"
  <2>1. r \in Replies /\ wire'[r] > 0
    BY DEF Coming
  <2>2. CASE \E i \in ids : r = Answer(i, reg, wrong)
    <3>1. PICK i \in ids : r = Answer(i, reg, wrong)
      BY <2>2
    <3> QED BY <1>6, <3>1, AnswerIsReply
  <2>3. CASE wire'[r] = Pending(attempt)[r]
    <3>1. PICK s \in Coming : s.reg = r.reg /\ s.hot = r.hot
      BY <1>1, <2>1, <2>3, PendingReplies
    <3>2. s.hot
      BY <3>1, <1>6
    <3> QED BY <3>1, <3>2 DEF GlitchesCount
  <2> QED BY <1>2, <2>1, <2>2, <2>3
<1>7. ASSUME NEW i \in Servos \ heat
      PROVE  OnWire(i)' + glitches <= OnWire(i) + glitches'
  <2> DEFINE now == HotReply(i, TRUE)
             late == HotReply(i, FALSE)
             p == Pending(attempt)
             wrongNow == One(j \in wrong)
  <2>1. now \in Replies /\ late \in Replies /\ now.own = TRUE /\ late.own = FALSE
    BY HotReplies
  <2>2. now.id = i /\ now.hot = TRUE
    BY DEF HotReply
  <2>3. OnWire(i)' = wire'[now] + wire'[late] /\ p[now] + p[late] = OnWire(i)
    BY <1>1, PendingReplies DEF OnWire, HotReply
  <2>4. p \in [Replies -> Nat] /\ glitches \in Nat /\ wrongNow \in {0, 1}
    BY <1>1, PendingReplies, OneIsOne DEF BusShape
  <2>5. ASSUME NEW k \in ids
        PROVE  late # Answer(k, reg, wrong) /\ (now = Answer(k, reg, wrong) => wrongNow = 1)
    <3>0. k \in Servos
      OBVIOUS
    <3>1. late # Answer(k, reg, wrong)
      <4>1. Answer(k, reg, wrong).own
        BY <3>0, AnswerIsReply
      <4> QED BY <2>1, <4>1
    <3>2. ASSUME now = Answer(k, reg, wrong)
          PROVE  j \in wrong
      <4>1. now.id = k /\ (now.hot /\ k \notin heat => k \in wrong)
        <5> DEFINE r == now
        <5>1. r = Answer(k, reg, wrong)
          BY <3>2
        <5> HIDE DEF r
        <5>2. r.id = k /\ (r.hot => reg = "health" /\ (k \notin heat => k \in wrong))
          BY <3>0, <5>1, AnswerIsReply
        <5> QED BY <5>2 DEF r
      <4> QED BY <1>3, <2>2, <4>1
    <3> QED BY <3>1, <3>2 DEF One
  <2> HIDE DEF now, late, p, wrongNow
  <2>6. wire'[late] = p[late]
    BY <1>2, <2>1, <2>5 DEF p
  <2>7. wire'[now] <= p[now] + wrongNow
    <3>1. CASE wire'[now] = p[now]
      BY <2>1, <2>4, <3>1
    <3>2. CASE wire'[now] = p[now] + 1 /\ \E k \in ids : now = Answer(k, reg, wrong)
      BY <2>1, <2>4, <2>5, <3>2
    <3> QED BY <1>2, <2>1, <3>1, <3>2 DEF p
  <2>8. glitches' = glitches + wrongNow
    BY <1>4 DEF wrongNow
  <2>9. p[now] \in Nat /\ p[late] \in Nat /\ wire'[now] \in Nat /\ wire'[late] \in Nat
    BY <1>2, <2>1, <2>4
  <2> QED BY <2>3, <2>4, <2>6, <2>7, <2>8, <2>9
<1> QED BY <1>5, <1>6, <1>7

(***************************************************************************)
(* The return of a call, and a reply that it parses.                       *)
(***************************************************************************)

\* Nobody waits after a return.  It counts the hot reply of the servo it asked, and
\* believes in a hot servo after two repetitions that said so.
LEMMA ReturnCounts ==
  ASSUME BusShape, NEW replies, Returns(replies),
         \A r \in replies : r.id \in call.ids,
         \A r, s \in replies : r.id = s.id => r = s
  PROVE  /\ pc' \in {"between", "poll", "confirm"} /\ cycle' = cycle
         /\ {rereads', hots'} \subseteq Nat
         /\ temperatures' \in [Servos -> {"unknown", "cool", "hot"}]
         /\ \A i \in Servos :
              LET reported == IF Asking THEN Reported(i, replies) ELSE 0
              IN  /\ Counted(i)' <= Counted(i) + reported
                  /\ temperatures'[i] = "hot"
                       => temperatures[i] = "hot" \/ Counted(i) + reported >= 3
<1> DEFINE j == PolledServo(cycle)
           reported(i) == IF Asking THEN Reported(i, replies) ELSE 0
<1>1. j \in Servos
  BY TurnIsAServo DEF BusShape
<1>2. \A i \in Servos :
       Counted(i) \in Nat /\ Reported(i, replies) \in {0, 1} /\ reported(i) \in {0, 1}
  <2> SUFFICES ASSUME NEW i \in Servos
               PROVE  /\ Counted(i) \in Nat
                      /\ Reported(i, replies) \in {0, 1} /\ reported(i) \in {0, 1}
    OBVIOUS
  <2>1. Reported(i, replies) \in {0, 1}
    BY OneIsOne DEF Reported
  <2>2. Counted(i) \in {0, 1 + hots} /\ reported(i) \in {0, Reported(i, replies)}
    BY DEF Counted
  <2> QED BY <2>1, <2>2 DEF BusShape
<1>3. CASE ReadReturns
  BY <1>2, <1>3 DEF ReadReturns, node, Counted, Confirming, BusShape
<1>4. CASE HealthReturns(replies)
  <2>1. pc = "polling" /\ cycle' = cycle /\ rereads' = 0 /\ hots' = 0 /\ Asking
    BY <1>4 DEF HealthReturns, Asking
  <2>2. PICK hot \in BOOLEAN : hot = \E r \in replies : r.hot
    OBVIOUS
  <2>3. \A r \in replies : r.id = j
    BY <2>1 DEF BusShape
  <2>4. hot => Reported(j, replies) = 1
    BY <2>2, <2>3 DEF Reported, One
  <2>5. /\ pc' = (IF hot THEN "confirm" ELSE "between")
        /\ temperatures' \in [Servos -> {"unknown", "cool", "hot"}]
        /\ \A i \in Servos : temperatures'[i] = "hot" => temperatures[i] = "hot"
    BY <1>4, <2>2 DEF HealthReturns, BusShape
  <2>6. \A i \in Servos : Counted(i)' = IF hot /\ j = i THEN 1 ELSE 0
    BY <2>1, <2>5 DEF Counted, Confirming
  <2>7. \A i \in Servos : Counted(i)' <= Counted(i) + reported(i)
    BY <1>2, <2>1, <2>4, <2>6
  <2> QED BY <2>1, <2>5, <2>7
<1>5. CASE ConfirmReturns(replies)
  <2>1. pc = "confirming" /\ cycle' = cycle /\ Asking /\ Confirming
    BY <1>5 DEF ConfirmReturns, Asking, Confirming
  <2>2. \A r \in replies : r.id = j
    BY <2>1 DEF BusShape
  <2>3. Cardinality({r \in replies : r.hot}) = Reported(j, replies)
    BY <2>2, OneHotReply
  <2>4. /\ rereads' = rereads + 1 /\ hots' = hots + Reported(j, replies)
        /\ pc' \in {"confirm", "between"}
    BY <1>5, <2>3 DEF ConfirmReturns
  <2>5. /\ temperatures' \in [Servos -> {"unknown", "cool", "hot"}]
        /\ \A i \in Servos : temperatures'[i] = "hot" => temperatures[i] = "hot"
                                \/ (i = j /\ hots + Reported(j, replies) >= 2)
    <3> DEFINE n == hots + Cardinality({r \in replies : r.hot})
    <3>1. PICK believed \in BOOLEAN : believed = (rereads' = 3 /\ n >= 2)
      OBVIOUS
    <3>2. temperatures' = [i \in Servos |-> IF i = j /\ believed THEN "hot" ELSE temperatures[i]]
      BY <1>5, <3>1 DEF ConfirmReturns, Believed
    <3>3. believed => n >= 2
      BY <3>1
    <3>4. believed => hots + Reported(j, replies) >= 2
      BY <2>3, <3>3
    <3> HIDE DEF n, j
    <3>5. temperatures' \in [Servos -> {"unknown", "cool", "hot"}]
      BY <3>2 DEF BusShape
    <3>6. \A i \in Servos :
            temperatures'[i] = "hot" => temperatures[i] = "hot" \/ (i = j /\ believed)
      BY <3>2 DEF BusShape
    <3> QED BY <3>4, <3>5, <3>6, Zenon
  <2>6. Counted(j) = 1 + hots /\ reported(j) = Reported(j, replies)
    BY <2>1 DEF Counted
  <2>7. ASSUME NEW i \in Servos
        PROVE  /\ Counted(i)' <= Counted(i) + reported(i)
               /\ temperatures'[i] = "hot"
                    => temperatures[i] = "hot" \/ Counted(i) + reported(i) >= 3
    <3>1. CASE i = j
      <4>1. Counted(i)' \in {0, 1 + hots'}
        BY DEF Counted
      <4> QED BY <1>1, <1>2, <2>4, <2>5, <2>6, <3>1, <4>1 DEF BusShape
    <3>2. CASE i # j
      <4>1. Counted(i)' = 0
        BY <2>1, <3>2 DEF Counted
      <4> QED BY <1>2, <2>5, <3>2, <4>1
    <3> QED BY <3>1, <3>2
  <2>8. {rereads', hots'} \subseteq Nat
    BY <1>1, <1>2, <2>4 DEF BusShape
  <2> QED BY <2>1, <2>4, <2>5, <2>7, <2>8
<1> QED BY <1>3, <1>4, <1>5 DEF Returns

\* Fewer replies on the wire, fewer hot ones.
LEMMA FewerOnWire ==
  ASSUME wire \in [Replies -> Nat], wire' \in [Replies -> Nat],
         \A r \in Replies : wire'[r] <= wire[r]
  PROVE  /\ Coming' \subseteq Coming
         /\ \A i \in Servos : OnWire(i)' <= OnWire(i)
<1>1. ASSUME NEW i \in Servos
      PROVE  OnWire(i)' <= OnWire(i)
  <2> DEFINE now == HotReply(i, TRUE)
             late == HotReply(i, FALSE)
  <2>1. now \in Replies /\ late \in Replies
    BY HotReplies
  <2>2. OnWire(i) = wire[now] + wire[late] /\ OnWire(i)' = wire'[now] + wire'[late]
    BY DEF OnWire, HotReply
  <2> HIDE DEF now, late
  <2>3. wire'[now] <= wire[now] /\ wire'[late] <= wire[late]
    BY <2>1
  <2>4. {wire[now], wire[late], wire'[now], wire'[late]} \subseteq Nat
    BY <2>1
  <2> QED BY <2>2, <2>3, <2>4
<1>2. Coming' \subseteq Coming
  BY DEF Coming
<1> QED BY <1>1, <1>2

\* One reply leaves the wire.
LEMMA ReplyLeaves ==
  ASSUME BusShape, NEW r \in Coming, wire' = [wire EXCEPT ![r] = @ - 1]
  PROVE  /\ wire' \in [Replies -> Nat]
         /\ \A s \in Replies : wire'[s] <= wire[s]
         /\ wire'[r] = wire[r] - 1 /\ wire[r] \in Nat
<1>1. wire \in [Replies -> Nat] /\ r \in Replies /\ wire[r] > 0
  BY DEF BusShape, Coming
<1>2. wire[r] \in Nat /\ wire[r] - 1 \in Nat
  BY <1>1
<1>3. \A s \in Replies : wire'[s] = IF s = r THEN wire[r] - 1 ELSE wire[s]
  BY <1>1
<1>4. wire' \in [Replies -> Nat]
  BY <1>1, <1>2
<1> QED BY <1>1, <1>2, <1>3, <1>4

\* What a reply that arrives adds to what is parsed it takes from the wire.
LEMMA ParseCounts ==
  ASSUME BusShape, OneOfEach, GlitchesCount, NEW r \in Coming,
         wire' = [wire EXCEPT ![r] = @ - 1], found' = Parsed(r), call' = call, frames' = frames
  PROVE  /\ found' \in SUBSET Replies /\ OneOfEach'
         /\ \A s \in found' : s \in found \/ s = r
         /\ \A i \in Servos : OnWire(i)' + Reported(i, found') <= OnWire(i) + Reported(i, found)
<1>1. r \in Replies /\ (r.hot => r.reg = "health")
  BY DEF Coming, GlitchesCount
<1>2. \A s \in found' : s \in found \/ s = r
  BY DEF Parsed
<1>3. found' \in SUBSET Replies
  BY <1>1, <1>2 DEF BusShape
<1>4. OneOfEach'
  BY DEF OneOfEach, OneOfEachIn, Parsed
<1>5. /\ wire \in [Replies -> Nat] /\ wire' \in [Replies -> Nat]
      /\ \A s \in Replies : wire'[s] <= wire[s]
      /\ wire'[r] = wire[r] - 1 /\ wire[r] \in Nat
  BY ReplyLeaves DEF BusShape
<1>6. ASSUME NEW i \in Servos
      PROVE  OnWire(i)' + Reported(i, found') <= OnWire(i) + Reported(i, found)
  <2> DEFINE now == HotReply(i, TRUE)
             late == HotReply(i, FALSE)
             before == Reported(i, found)
             after == Reported(i, found')
  <2>1. now \in Replies /\ late \in Replies /\ now # late
    BY HotReplies
  <2>2. {before, after} \subseteq {0, 1}
    BY OneIsOne DEF Reported
  <2>3. OnWire(i) = wire[now] + wire[late] /\ OnWire(i)' = wire'[now] + wire'[late]
    BY DEF OnWire, HotReply
  <2>4. (r.id = i /\ r.hot) => r = now \/ r = late
    BY <1>1 DEF Replies, HotReply
  <2>5. ~(r.id = i /\ r.hot) => after <= before
    <3>1. SUFFICES ASSUME ~(r.id = i /\ r.hot)
                   PROVE  after <= before
      OBVIOUS
    <3>2. (\E s \in found' : s.id = i /\ s.hot) => \E s \in found : s.id = i /\ s.hot
      BY <1>2, <3>1
    <3> QED BY <3>2, OneFollows DEF Reported
  <2> HIDE DEF now, late, before, after
  <2>6. /\ wire'[now] <= wire[now] /\ wire'[late] <= wire[late]
        /\ {wire[now], wire[late], wire'[now], wire'[late]} \subseteq Nat
    BY <1>5, <2>1
  <2>7. CASE r = now
    BY <1>5, <2>2, <2>3, <2>6, <2>7 DEF before, after
  <2>8. CASE r = late
    BY <1>5, <2>2, <2>3, <2>6, <2>8 DEF before, after
  <2>9. CASE ~(r.id = i /\ r.hot)
    BY <2>2, <2>3, <2>5, <2>6, <2>9 DEF before, after
  <2> QED BY <2>4, <2>7, <2>8, <2>9
<1> QED BY <1>2, <1>3, <1>4, <1>6

\* When a call gives up, what is on the wire is as much as before.
LEMMA AllLate ==
  ASSUME BusShape, GlitchesCount, wire' = Outlived
  PROVE  /\ wire' \in [Replies -> Nat]
         /\ \A r \in Coming' : ~r.own /\ (r.hot => r.reg = "health")
         /\ \A i \in Servos : OnWire(i)' = OnWire(i)
<1>1. wire \in [Replies -> Nat]
  BY DEF BusShape
<1>2. wire' \in [Replies -> Nat]
  BY <1>1, OutlivedWire
<1>3. ASSUME NEW r \in Coming'
      PROVE  ~r.own /\ (r.hot => r.reg = "health")
  <2>1. r \in Replies /\ Outlived[r] > 0
    BY DEF Coming
  <2>2. ~r.own
    BY <1>1, <2>1, OutlivedWire
  <2>3. PICK s \in Coming : s.reg = r.reg /\ s.hot = r.hot
    BY <1>1, <2>1, OutlivedWire
  <2> QED BY <2>2, <2>3 DEF GlitchesCount
<1>4. ASSUME NEW i \in Servos
      PROVE  OnWire(i)' = OnWire(i)
  <2> DEFINE now == Outlived[HotReply(i, TRUE)]
             late == Outlived[HotReply(i, FALSE)]
  <2>1. OnWire(i)' = now + late
    BY DEF OnWire, HotReply
  <2>2. now = 0 /\ late = OnWire(i)
    BY <1>1, OutlivedWire
  <2>3. OnWire(i) \in Nat
    BY <1>1, OnWireIsNatural
  <2> HIDE DEF now, late
  <2> QED BY <2>1, <2>2, <2>3
<1> QED BY <1>2, <1>3, <1>4

(***************************************************************************)
(* The inductive invariant, action by action.                              *)
(***************************************************************************)

LEMMA BusStarts == Init => BusInv
<1> SUFFICES ASSUME Init
             PROVE  BusInv
  OBVIOUS
<1>1. BusShape
  BY DEF Init, BusShape, Calls, Asking, BusAssumption
<1>0. Coming = {}
  BY DEF Init, Coming
<1>2. OneOfEach /\ Owned /\ AnswersAreOwn
  BY <1>0 DEF Init, OneOfEach, OneOfEachIn, Owned, AnswersAreOwn
<1>3. ASSUME NEW i \in Servos \ heat
      PROVE  OnWire(i) + InHand(i) + Counted(i) <= glitches
  <2>1. OnWire(i) = 0 + 0
    BY HotReplies DEF Init, OnWire
  <2>2. InHand(i) = 0 /\ Counted(i) = 0
    BY DEF Init, InHand, Counted, Asking, Confirming
  <2> QED BY <2>1, <2>2 DEF Init
<1>4. GlitchesCount /\ GlitchesAreDiscarded
  BY <1>0, <1>3 DEF Init, GlitchesCount, GlitchesAreDiscarded
<1> QED BY <1>1, <1>2, <1>4 DEF BusInv

\* The counts are natural numbers.
LEMMA CountsAreNatural ==
  BusShape => \A i \in Servos : OnWire(i) \in Nat /\ InHand(i) \in {0, 1} /\ Counted(i) \in Nat
<1> SUFFICES ASSUME BusShape, NEW i \in Servos
             PROVE  OnWire(i) \in Nat /\ InHand(i) \in {0, 1} /\ Counted(i) \in Nat
  OBVIOUS
<1>1. OnWire(i) \in Nat
  BY OnWireIsNatural DEF BusShape
<1>2. Reported(i, found) \in {0, 1}
  BY OneIsOne DEF Reported
<1>3. InHand(i) \in {0, Reported(i, found)} /\ Counted(i) \in {0, 1 + hots}
  BY DEF InHand, Counted
<1> QED BY <1>1, <1>2, <1>3 DEF BusShape

\* Every request, whatever it is for.
LEMMA RequestKept ==
  ASSUME BusInv, NEW reg \in {"position", "health"}, NEW ids \in SUBSET Servos,
         NEW attempt \in 0 .. Retries, Send(reg, ids, attempt),
         attempt = 0 \/ (reg = call.reg /\ ids = call.ids),
         NEW j \in Servos, reg = "health" => ids = {j} /\ attempt = 0,
         UNCHANGED <<rereads, hots, temperatures, heat>>,
         cycle' \in Nat,
         pc' \in {"reading", "polling", "confirming"},
         pc' = "reading" => reg = "position" /\ ids = Servos,
         Asking' => reg = "health" /\ ids = {PolledServo(cycle')},
         \A i \in Servos : Counted(i)' = 0 \/ Counted(i)' = Counted(i)
  PROVE  BusInv'
<1>1. /\ BusShape /\ OneOfEach /\ Owned /\ GlitchesCount /\ GlitchesAreDiscarded
      /\ attempt = 0 \/ attempt > 0
  BY DEF BusInv
<1>2. /\ call' \in Calls /\ call'.reg = reg /\ call'.ids = ids
      /\ attempt > 0 /\ call.exposed => call'.exposed
      /\ found' = {} /\ buffer' = {}
      /\ frames' = IF attempt > 0 THEN Best ELSE {}
  BY <1>1, RequestShape
<1>3. wire' \in [Replies -> Nat] /\ Owned'
  BY <1>1, RequestOwned
<1>0. Best = found \/ Best = frames
  BY DEF Best
<1>4. /\ glitches' \in Nat /\ glitches' >= glitches
      /\ \A r \in Coming' : r.hot => r.reg = "health"
      /\ \A i \in Servos \ heat : OnWire(i)' + glitches <= OnWire(i) + glitches'
  BY <1>1, RequestCounts
<1>5. BusShape'
  <2>1. frames' \in SUBSET Replies
    BY <1>0, <1>1, <1>2 DEF BusShape
  <2>2. Asking' => frames' = {}
    BY <1>2
  <2> QED BY <1>1, <1>2, <1>3, <1>4, <2>1, <2>2 DEF BusShape
<1>6. OneOfEach' /\ AnswersAreOwn'
  <2>1. CASE attempt > 0
    <3>1. reg = call.reg /\ ids = call.ids /\ frames' = Best
      BY <1>2, <2>1
    <3>2. OneOfEach'
      BY <1>0, <1>1, <1>2, <3>1 DEF OneOfEach, OneOfEachIn
    <3>3. AnswersAreOwn
      BY DEF BusInv
    <3> QED BY <1>0, <1>2, <2>1, <3>1, <3>2, <3>3 DEF AnswersAreOwn
  <2>2. CASE ~(attempt > 0)
    BY <1>2, <2>2 DEF OneOfEach, OneOfEachIn, AnswersAreOwn
  <2> QED BY <2>1, <2>2
<1>10. (\A i \in Servos : OnWire(i) \in Nat /\ InHand(i) \in {0, 1} /\ Counted(i) \in Nat)'
  BY <1>5, CountsAreNatural, PTL
<1>7. ASSUME NEW i \in Servos \ heat'
      PROVE  OnWire(i)' + InHand(i)' + Counted(i)' <= glitches'
  <2>1. OnWire(i)' + glitches <= OnWire(i) + glitches'
    BY <1>4
  <2>2. OnWire(i) + InHand(i) + Counted(i) <= glitches
    BY <1>1 DEF GlitchesCount
  <2>3. OnWire(i) \in Nat /\ InHand(i) \in {0, 1} /\ Counted(i) \in Nat
    BY <1>1, CountsAreNatural
  <2>4. OnWire(i)' \in Nat
    BY <1>10
  <2>5. InHand(i)' = 0
    <3>1. Reported(i, found)' = 0
      BY <1>2 DEF Reported, One
    <3> QED BY <3>1 DEF InHand
  <2>6. Counted(i)' = 0 \/ Counted(i)' = Counted(i)
    OBVIOUS
  <2> QED BY <1>1, <1>4, <2>1, <2>2, <2>3, <2>4, <2>5, <2>6 DEF BusShape
<1>8. GlitchesCount'
  BY <1>4, <1>7 DEF GlitchesCount
<1>9. GlitchesAreDiscarded'
  BY <1>1, <1>4 DEF GlitchesAreDiscarded, BusShape
<1> QED BY <1>3, <1>5, <1>6, <1>8, <1>9 DEF BusInv

LEMMA StartCycleKept == BusInv /\ StartCycle => BusInv'
<1> SUFFICES ASSUME BusInv, StartCycle
             PROVE  BusInv'
  OBVIOUS
<1>1. BusShape
  BY DEF BusInv
<1>2. cycle' \in Nat
  BY <1>1, CycleIsNatural DEF StartCycle, BusShape
<1>3. /\ Send("position", Servos, 0) /\ pc' = "reading"
      /\ UNCHANGED <<rereads, hots, temperatures, heat>>
  BY DEF StartCycle
<1>4. \A i \in Servos : Counted(i)' = 0 \/ Counted(i)' = Counted(i)
  BY <1>3 DEF Counted, Confirming
<1>5. ~Asking'
  BY <1>3 DEF Asking
<1>6. 1 \in Servos /\ 0 \in 0 .. Retries
  BY DEF BusAssumption, Servos
<1> QED BY <1>2, <1>3, <1>4, <1>5, <1>6, RequestKept

LEMMA AskHealthKept == BusInv /\ AskHealth => BusInv'
<1> SUFFICES ASSUME BusInv, AskHealth
             PROVE  BusInv'
  OBVIOUS
<1>1. BusShape
  BY DEF BusInv
<1> DEFINE j == PolledServo(cycle)
<1>2. j \in Servos /\ {j} \in SUBSET Servos
  BY <1>1, TurnIsAServo DEF BusShape
<1>3. /\ Send("health", {j}, 0) /\ pc' \in {"polling", "confirming"} /\ cycle' = cycle
      /\ pc' = "confirming" => pc = "confirm"
      /\ UNCHANGED <<rereads, hots, temperatures, heat>>
  BY DEF AskHealth, node
<1>4. \A i \in Servos : Counted(i)' = 0 \/ Counted(i)' = Counted(i)
  BY <1>3 DEF Counted, Confirming
<1>5. cycle' \in Nat /\ {j} = {PolledServo(cycle')}
  BY <1>1, <1>3 DEF BusShape
<1>6. 0 \in 0 .. Retries
  BY DEF BusAssumption
<1> HIDE DEF j
<1> QED BY <1>2, <1>3, <1>4, <1>5, <1>6, RequestKept

\* The second attempt of a sync read.
LEMMA TriesAgainKept == BusInv /\ TriesAgain => BusInv'
<1> SUFFICES ASSUME BusInv, TriesAgain
             PROVE  BusInv'
  OBVIOUS
<1>1. BusShape
  BY DEF BusInv
<1>2. /\ Send("position", Servos, call.attempt + 1) /\ pc = "reading"
      /\ UNCHANGED <<pc, cycle, rereads, hots, temperatures, heat>>
  BY DEF TriesAgain, node
<1>3. call.attempt + 1 \in 0 .. Retries
  BY <1>1 DEF TriesAgain, BusShape, Calls, BusAssumption
<1>4. "position" = call.reg /\ Servos = call.ids
  BY <1>1, <1>2 DEF BusShape
<1>5. \A i \in Servos : Counted(i)' = 0 \/ Counted(i)' = Counted(i)
  BY <1>2 DEF Counted, Confirming
<1>6. ~Asking' /\ cycle' \in Nat
  BY <1>1, <1>2 DEF Asking, BusShape
<1>7. 1 \in Servos
  BY DEF BusAssumption, Servos
<1> QED BY <1>2, <1>3, <1>4, <1>5, <1>6, <1>7, RequestKept

\* Every return, with a reply that completes it or at the end of its window.
LEMMA ReturnKept ==
  ASSUME BusInv, Waiting, Returns(found'),
         found' \in SUBSET Replies, OneOfEach', wire' \in [Replies -> Nat],
         \A r \in Coming' : r.own => r.reg = call.reg,
         \A r \in Coming' : r.hot => r.reg = "health",
         AnswersAreOwn', buffer' \in SUBSET Replies,
         UNCHANGED <<call, frames, heat, glitches>>,
         \A i \in Servos :
           /\ OnWire(i)' + Reported(i, found') <= OnWire(i) + Reported(i, found)
           /\ OnWire(i)' <= OnWire(i)
  PROVE  BusInv'
<1>1. BusShape /\ GlitchesCount /\ GlitchesAreDiscarded
  BY DEF BusInv
<1>2. /\ \A r \in found' : r.id \in call.ids
      /\ \A r, s \in found' : r.id = s.id => r = s
  BY DEF OneOfEach, OneOfEachIn
<1>3. /\ pc' \in {"between", "poll", "confirm"} /\ cycle' = cycle
      /\ {rereads', hots'} \subseteq Nat
      /\ temperatures' \in [Servos -> {"unknown", "cool", "hot"}]
      /\ \A i \in Servos :
           LET reported == IF Asking THEN Reported(i, found') ELSE 0
           IN  /\ Counted(i)' <= Counted(i) + reported
               /\ temperatures'[i] = "hot"
                    => temperatures[i] = "hot" \/ Counted(i) + reported >= 3
  BY <1>1, <1>2, ReturnCounts
<1>4. BusShape'
  BY <1>1, <1>3 DEF BusShape, Asking
<1>5. Owned'
  BY <1>3 DEF Owned, Waiting
<1>6. (\A i \in Servos : OnWire(i) \in Nat /\ InHand(i) \in {0, 1} /\ Counted(i) \in Nat)'
  BY <1>4, CountsAreNatural, PTL
<1>7. ASSUME NEW i \in Servos \ heat
      PROVE  /\ OnWire(i)' + InHand(i)' + Counted(i)' <= glitches
             /\ temperatures'[i] = "hot" => temperatures[i] = "hot" \/ glitches >= 3
  <2> DEFINE reported == IF Asking THEN Reported(i, found') ELSE 0
  <2>1. OnWire(i) + InHand(i) + Counted(i) <= glitches
    BY <1>1 DEF GlitchesCount
  <2>2. OnWire(i) \in Nat /\ InHand(i) \in {0, 1} /\ Counted(i) \in Nat
    BY <1>1, CountsAreNatural
  <2>3. OnWire(i)' \in Nat /\ Counted(i)' \in Nat
    BY <1>6
  <2>4. InHand(i)' = 0
    BY <1>3 DEF InHand, Asking
  <2>5. OnWire(i)' + Reported(i, found') <= OnWire(i) + Reported(i, found)
    OBVIOUS
  <2>6. Reported(i, found') \in {0, 1} /\ Reported(i, found) \in {0, 1}
    BY OneIsOne DEF Reported
  <2>7. /\ Counted(i)' <= Counted(i) + reported
        /\ temperatures'[i] = "hot" => temperatures[i] = "hot" \/ Counted(i) + reported >= 3
    BY <1>3
  <2>8. CASE Asking
    <3>1. InHand(i) = Reported(i, found) /\ reported = Reported(i, found')
      BY <2>8 DEF InHand
    <3> HIDE DEF reported
    <3>2. glitches \in Nat
      BY <1>1 DEF BusShape
    <3>3. Counted(i) + reported <= glitches
      BY <2>1, <2>2, <2>3, <2>5, <2>6, <3>1, <3>2
    <3>4. OnWire(i)' + 0 + Counted(i)' <= glitches
      BY <2>1, <2>2, <2>3, <2>5, <2>6, <2>7, <3>1, <3>2
    <3> QED BY <2>2, <2>4, <2>6, <2>7, <3>1, <3>2, <3>3, <3>4
  <2>9. CASE ~Asking
    <3>1. InHand(i) = 0 /\ reported = 0
      BY <2>9 DEF InHand
    <3> HIDE DEF reported
    <3>2. glitches \in Nat
      BY <1>1 DEF BusShape
    <3>3. Counted(i) + reported <= glitches
      BY <2>1, <2>2, <3>1, <3>2
    <3>4. OnWire(i)' <= OnWire(i)
      OBVIOUS
    <3> QED BY <2>1, <2>2, <2>3, <2>4, <2>7, <3>1, <3>2, <3>3, <3>4
  <2> QED BY <2>8, <2>9
<1>8. GlitchesCount'
  BY <1>7 DEF GlitchesCount
<1>9. GlitchesAreDiscarded'
  BY <1>1, <1>7 DEF GlitchesAreDiscarded
<1> QED BY <1>4, <1>5, <1>8, <1>9 DEF BusInv

LEMMA ArrivesKept == BusInv /\ Arrives => BusInv'
<1> SUFFICES ASSUME BusInv, Arrives
             PROVE  BusInv'
  OBVIOUS
<1>1. /\ BusShape /\ OneOfEach /\ Owned /\ AnswersAreOwn
      /\ GlitchesCount /\ GlitchesAreDiscarded
  BY DEF BusInv
<1>2. PICK r \in Coming :
        /\ Waiting /\ wire' = [wire EXCEPT ![r] = @ - 1] /\ found' = Parsed(r)
        /\ IF Complete(found', call.ids) THEN Returns(found') ELSE UNCHANGED <<node, pc>>
        /\ UNCHANGED <<call, frames, buffer, heat, faults, glitches>>
  BY DEF Arrives
<1>3. /\ found' \in SUBSET Replies /\ OneOfEach'
      /\ \A s \in found' : s \in found \/ s = r
      /\ \A i \in Servos : OnWire(i)' + Reported(i, found') <= OnWire(i) + Reported(i, found)
  BY <1>1, <1>2, ParseCounts
<1>10. wire' \in [Replies -> Nat] /\ \A s \in Replies : wire'[s] <= wire[s]
  BY <1>1, <1>2, ReplyLeaves
<1>4. Coming' \subseteq Coming /\ \A i \in Servos : OnWire(i)' <= OnWire(i)
  BY <1>1, <1>10, FewerOnWire DEF BusShape
<1>5. /\ buffer' \in SUBSET Replies
      /\ \A s \in Coming' : s.own => s.reg = call.reg
  BY <1>1, <1>2, <1>4 DEF BusShape, Owned
<1>6. \A s \in Coming' : s.hot => s.reg = "health"
  BY <1>1, <1>4 DEF GlitchesCount
<1>7. AnswersAreOwn'
  <2>1. call.exposed \/ (r.own /\ r.reg = call.reg)
    BY <1>1, <1>2 DEF Owned
  <2> QED BY <1>1, <1>2, <1>3, <2>1 DEF AnswersAreOwn
<1>8. CASE Complete(found', call.ids)
  BY <1>2, <1>3, <1>4, <1>5, <1>6, <1>7, <1>8, <1>10, ReturnKept
<1>9. CASE ~Complete(found', call.ids)
  <2>1. UNCHANGED <<cycle, pc, rereads, hots, temperatures, call, frames, buffer, heat, glitches>>
    BY <1>2, <1>9 DEF node
  <2>2. BusShape'
    BY <1>1, <1>3, <1>5, <1>10, <2>1 DEF BusShape, Asking
  <2>3. Owned'
    BY <1>1, <1>4, <2>1 DEF Owned, Waiting
  <2>4. (\A i \in Servos : OnWire(i) \in Nat /\ InHand(i) \in {0, 1} /\ Counted(i) \in Nat)'
    BY <2>2, CountsAreNatural, PTL
  <2>5. ASSUME NEW i \in Servos \ heat
        PROVE  OnWire(i)' + InHand(i)' + Counted(i)' <= glitches
    <3>1. OnWire(i) + InHand(i) + Counted(i) <= glitches
      BY <1>1 DEF GlitchesCount
    <3>2. OnWire(i) \in Nat /\ InHand(i) \in {0, 1} /\ Counted(i) \in Nat
      BY <1>1, CountsAreNatural
    <3>3. OnWire(i)' \in Nat /\ Counted(i)' = Counted(i)
      BY <2>1, <2>4 DEF Counted, Confirming
    <3>4. OnWire(i)' <= OnWire(i)
      BY <1>4
    <3>5. OnWire(i)' + Reported(i, found') <= OnWire(i) + Reported(i, found)
      BY <1>3
    <3>6. Reported(i, found') \in {0, 1} /\ Reported(i, found) \in {0, 1}
      BY OneIsOne DEF Reported
    <3>7. glitches \in Nat
      BY <1>1 DEF BusShape
    <3>8. CASE Asking
      <4>1. InHand(i) = Reported(i, found)
        BY <3>8 DEF InHand
      <4>2. InHand(i)' = Reported(i, found')
        BY <2>1, <3>8 DEF InHand, Asking, Reported
      <4> QED BY <3>1, <3>2, <3>3, <3>5, <3>6, <3>7, <4>1, <4>2
    <3>9. CASE ~Asking
      <4>1. InHand(i) = 0 /\ InHand(i)' = 0
        BY <2>1, <3>9 DEF InHand, Asking
      <4> QED BY <3>1, <3>2, <3>3, <3>4, <3>7, <4>1
    <3> QED BY <3>8, <3>9
  <2>6. GlitchesCount'
    BY <1>6, <2>1, <2>5 DEF GlitchesCount
  <2>7. GlitchesAreDiscarded'
    BY <1>1, <2>1 DEF GlitchesAreDiscarded
  <2> QED BY <1>3, <1>7, <2>2, <2>3, <2>6, <2>7 DEF BusInv
<1> QED BY <1>8, <1>9

LEMMA GivesUpKept == BusInv /\ GivesUp => BusInv'
<1> SUFFICES ASSUME BusInv, GivesUp
             PROVE  BusInv'
  OBVIOUS
<1>1. /\ BusShape /\ OneOfEach /\ Owned /\ AnswersAreOwn
      /\ GlitchesCount /\ GlitchesAreDiscarded
  BY DEF BusInv
<1>2. /\ Waiting /\ wire' = Outlived /\ found' = Best /\ Returns(found')
      /\ UNCHANGED <<call, frames, buffer, heat, glitches>>
  BY DEF GivesUp
<1>3. /\ wire' \in [Replies -> Nat]
      /\ \A r \in Coming' : ~r.own /\ (r.hot => r.reg = "health")
      /\ \A i \in Servos : OnWire(i)' = OnWire(i)
  BY <1>1, <1>2, AllLate
<1>4. found' = found \/ found' = frames
  BY <1>2 DEF Best
<1>5. OneOfEach' /\ AnswersAreOwn'
  BY <1>1, <1>2, <1>4 DEF OneOfEach, OneOfEachIn, AnswersAreOwn
<1>6. found' \in SUBSET Replies /\ buffer' \in SUBSET Replies
  BY <1>1, <1>2, <1>4 DEF BusShape
<1>7. CASE pc = "reading"
  <2>1. UNCHANGED <<cycle, rereads, hots, temperatures>> /\ pc' \in {"between", "poll"}
    BY <1>2, <1>7 DEF Returns, ReadReturns, HealthReturns, ConfirmReturns, node
  <2>2. BusShape'
    BY <1>1, <1>2, <1>3, <1>6, <2>1 DEF BusShape, Asking
  <2>3. Owned'
    BY <1>3, <2>1 DEF Owned, Waiting
  <2>4. ASSUME NEW i \in Servos \ heat'
        PROVE  OnWire(i)' + InHand(i)' + Counted(i)' <= glitches'
    <3>1. OnWire(i) + InHand(i) + Counted(i) <= glitches
      BY <1>1, <1>2 DEF GlitchesCount
    <3>2. OnWire(i)' = OnWire(i)
      BY <1>3
    <3>3. InHand(i) = 0 /\ Counted(i) = 0 /\ InHand(i)' = 0 /\ Counted(i)' = 0
      BY <1>7, <2>1 DEF InHand, Counted, Asking, Confirming
    <3> QED BY <1>2, <3>1, <3>2, <3>3
  <2>5. GlitchesCount' /\ GlitchesAreDiscarded'
    BY <1>1, <1>2, <1>3, <2>1, <2>4 DEF GlitchesCount, GlitchesAreDiscarded
  <2> QED BY <1>5, <2>2, <2>3, <2>5 DEF BusInv
<1>8. CASE pc # "reading"
  <2>1. Asking /\ frames = {}
    BY <1>1, <1>2, <1>8 DEF Waiting, Asking, BusShape
  <2>2. ASSUME NEW i \in Servos
        PROVE  /\ OnWire(i)' + Reported(i, found') <= OnWire(i) + Reported(i, found)
               /\ OnWire(i)' <= OnWire(i)
    <3>1. OnWire(i) \in Nat /\ OnWire(i)' = OnWire(i)
      BY <1>1, <1>3, CountsAreNatural
    <3>2. Reported(i, found') <= Reported(i, found)
      BY <1>4, <2>1, OneFollows DEF Reported
    <3>3. Reported(i, found') \in {0, 1} /\ Reported(i, found) \in {0, 1}
      BY OneIsOne DEF Reported
    <3> QED BY <3>1, <3>2, <3>3
  <2> QED BY <1>2, <1>3, <1>5, <1>6, <2>2, ReturnKept
<1> QED BY <1>7, <1>8

\* What happens on the line while nobody reads, and at the servos.
LEMMA LineKept == BusInv /\ (ArrivesLate \/ WriteBroadcast \/ HeatsUp \/ UNCHANGED vars) => BusInv'
<1> SUFFICES ASSUME BusInv, ArrivesLate \/ WriteBroadcast \/ HeatsUp \/ UNCHANGED vars
             PROVE  BusInv'
  OBVIOUS
<1>1. /\ BusShape /\ OneOfEach /\ Owned /\ AnswersAreOwn
      /\ GlitchesCount /\ GlitchesAreDiscarded
  BY DEF BusInv
<1>2. /\ UNCHANGED <<cycle, rereads, hots, temperatures, pc, call, found, frames, glitches>>
      /\ buffer' \in SUBSET Replies
      /\ heat \subseteq heat' /\ heat' \subseteq Servos
  BY <1>1 DEF ArrivesLate, WriteBroadcast, HeatsUp, vars, node, BusShape, Coming
<1>10. wire' \in [Replies -> Nat] /\ \A s \in Replies : wire'[s] <= wire[s]
  <2>1. CASE ArrivesLate
    BY <1>1, <2>1, ReplyLeaves DEF ArrivesLate
  <2>2. CASE WriteBroadcast \/ HeatsUp \/ UNCHANGED vars
    BY <1>1, <2>2 DEF WriteBroadcast, HeatsUp, vars, BusShape
  <2> QED BY <2>1, <2>2
<1>11. Coming' \subseteq Coming /\ \A i \in Servos : OnWire(i)' <= OnWire(i)
  BY <1>1, <1>10, FewerOnWire DEF BusShape
<1>3. BusShape' /\ OneOfEach' /\ AnswersAreOwn'
  <2>1. BusShape'
    BY <1>1, <1>2, <1>10 DEF BusShape, Asking
  <2>2. OneOfEach' /\ AnswersAreOwn'
    BY <1>1, <1>2 DEF OneOfEach, OneOfEachIn, AnswersAreOwn
  <2> QED BY <2>1, <2>2
<1>4. Owned'
  BY <1>1, <1>2, <1>11 DEF Owned, Waiting
<1>5. (\A i \in Servos : OnWire(i) \in Nat /\ InHand(i) \in {0, 1} /\ Counted(i) \in Nat)'
  BY <1>3, CountsAreNatural, PTL
<1>6. ASSUME NEW i \in Servos \ heat'
      PROVE  OnWire(i)' + InHand(i)' + Counted(i)' <= glitches'
  <2>1. OnWire(i) + InHand(i) + Counted(i) <= glitches
    BY <1>1, <1>2 DEF GlitchesCount
  <2>2. OnWire(i) \in Nat /\ InHand(i) \in {0, 1} /\ Counted(i) \in Nat
    BY <1>1, CountsAreNatural
  <2>3. OnWire(i)' \in Nat /\ OnWire(i)' <= OnWire(i)
    BY <1>2, <1>5, <1>11
  <2>4. Counted(i)' = Counted(i)
    BY <1>2 DEF Counted, Confirming
  <2>5. InHand(i)' = InHand(i)
    BY <1>2 DEF InHand, Asking, Reported
  <2> QED BY <1>1, <1>2, <2>1, <2>2, <2>3, <2>4, <2>5 DEF BusShape
<1>7. \A r \in Coming' : r.hot => r.reg = "health"
  BY <1>1, <1>11 DEF GlitchesCount
<1>8. GlitchesCount'
  BY <1>6, <1>7 DEF GlitchesCount
<1>9. GlitchesAreDiscarded'
  BY <1>1, <1>2 DEF GlitchesAreDiscarded
<1> QED BY <1>3, <1>4, <1>8, <1>9 DEF BusInv

LEMMA BusKept == BusInv /\ [Next]_vars => BusInv'
BY StartCycleKept, AskHealthKept, ArrivesKept, TriesAgainKept, GivesUpKept, LineKept
   DEF Next, BusStep

(***************************************************************************)
(* Theorems.                                                               *)
(***************************************************************************)

\* The shape of a call, whose the replies are and the count of the glitches hold
\* throughout, whatever is lost, late or wrong on the wire.
THEOREM BusInvariant == Spec => []BusInv
BY BusStarts, BusKept, PTL DEF Spec

\* A call that found the wire quiet parses answers of its own only: it never takes the
\* position of a servo for its health, nor an old reply for a new one.
THEOREM ParsedAnswersAreOwn == Spec => []AnswersAreOwn
BY BusInvariant, PTL DEF BusInv

\* A servo that is not hot is never recorded as hot on fewer than three wrong
\* temperatures, however they are spread over calls and however late they come.
THEOREM TwoGlitchesAreNoHeat == Spec => []GlitchesAreDiscarded
BY BusInvariant, PTL DEF BusInv

=============================================================================
