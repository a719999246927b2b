--------------------------- MODULE EventBusProofs ---------------------------
(***************************************************************************)
(* Proofs about EventBus: for any topics, groups, subscriptions, drainers, *)
(* budget of attempts and number of events.                                *)
(***************************************************************************)
EXTENDS EventBus, SequenceTheorems, FiniteSetTheorems, TLAPS

-----------------------------------------------------------------------------
(* The inductive invariant.                                                *)

\* What a group's entry stands for, and who has one.
RegistryInv ==
    /\ \A t \in Topic, g \in Group : groups[<<t, g>>] # None => topicOf[groups[<<t, g>>]] = t
    /\ \A s \in Subscription :
          topicOf[s] # None /\ ~ cancelled[s] => s \in RegisteredTo(topicOf[s])

\* Where a consumer stands, and what it has in its hands there.
PlaceInv(s) ==
    /\ consumer[s] = "unborn" <=> topicOf[s] = None
    /\ busy = s => cancelled[s] /\ consumer[s] \in {"handling", "waiting", "ended"}
    /\ topicOf[s] = None => /\ ~ cancelled[s]
                            /\ queue[s] = <<>> /\ settled[s] = <<>>
    /\ consumer[s] \in {"handling", "backoff"} <=> held[s] # <<>>
    /\ Len(held[s]) <= 1
    /\ topicOf[s] # None => start[s] <= Len(log[topicOf[s]])

\* What waits has not been handled, and waits once; what is in delivery has been
\* handled as often as the attempts say.
WaitingInv(s) ==
    /\ \A i \in 1 .. Len(queue[s]) :
          /\ queue[s][i] <= published
          /\ ~ Gone(s) => calls[s][queue[s][i]] = 0
    /\ \A i, j \in 1 .. Len(queue[s]) : i # j => queue[s][i] # queue[s][j]
    /\ held[s] # <<>> => calls[s][held[s][1]] = attempt[s] /\ attempt[s] > 0
    /\ \A e \in Event : e > published => calls[s][e] = 0

\* Concatenation by name: the provers take to it better than to the symbol.
Joined(a, b) == a \o b
Stretch(l, n) == SubSeq(l, n + 1, Len(l))

View(s) == Joined(Joined(settled[s], held[s]), queue[s])

\* What a subscription has of the log begins it; what it lacks was published
\* after its group had left, while its own handler went on.
Covers(s, rest) ==
    /\ Joined(View(s), rest) = Stretch(log[topicOf[s]], start[s])
    /\ s \in RegisteredTo(topicOf[s]) => rest = <<>>

ViewInv(s) ==
    topicOf[s] # None /\ ~ Gone(s) => \E rest \in Seq(Event) : Covers(s, rest)

BooksInv(s) ==
    \A e \in Event :
        /\ calls[s][e] <= MaxRetries
        /\ <<s, e>> \in deadLetter => calls[s][e] = MaxRetries
        /\ (\E i \in DOMAIN settled[s] : settled[s][i] = e) => calls[s][e] > 0

SubInv(s) == PlaceInv(s) /\ WaitingInv(s) /\ ViewInv(s) /\ BooksInv(s)

Delivering == {s \in Subscription : held[s] # <<>>}

CountInv == inflight = Cardinality(Delivering)

MarkInv == \A d \in Drainer, t \in Topic : mark[d][t] <= Len(log[t])

IInv == /\ TypeOK
        /\ RegistryInv
        /\ \A s \in Subscription : SubInv(s)
        /\ CountInv
        /\ MarkInv

\* What the invariant says of a subscription stays true while nothing of it, and
\* nothing of the logs, changes.
LEMMA SubFrame ==
    ASSUME NEW s \in Subscription, SubInv(s), published' = published, log' = log,
           topicOf'[s] = topicOf[s], queue'[s] = queue[s], consumer'[s] = consumer[s],
           cancelled'[s] = cancelled[s], held'[s] = held[s], attempt'[s] = attempt[s],
           start'[s] = start[s], settled'[s] = settled[s], calls'[s] = calls[s],
           busy' = s <=> busy = s,
           s \in RegisteredTo(topicOf[s])' => s \in RegisteredTo(topicOf[s]),
           \A e \in Event : <<s, e>> \in deadLetter' => <<s, e>> \in deadLetter
    PROVE  SubInv(s)'
  <1>1. PlaceInv(s)'
    BY DEF SubInv, PlaceInv
  <1>2. WaitingInv(s)'
    BY DEF SubInv, WaitingInv, Gone
  <1>3. ViewInv(s)'
    <2> SUFFICES ASSUME topicOf'[s] # None, ~ Gone(s)'
                 PROVE  \E rest \in Seq(Event) : Covers(s, rest)'
      BY DEF ViewInv
    <2>1. PICK rest \in Seq(Event) : Covers(s, rest)
      BY DEF SubInv, ViewInv, Gone
    <2>2. Covers(s, rest)'
      BY <2>1 DEF Covers, View
    <2> QED  BY <2>2
  <1>4. BooksInv(s)'
    BY DEF SubInv, BooksInv
  <1> QED  BY <1>1, <1>2, <1>3, <1>4 DEF SubInv

\* The deliveries under way, when a subscription takes an event or lets go of one.
LEMMA CountChange ==
    ASSUME CountInv, NEW s \in Subscription,
           \A r \in Subscription \ {s} : held'[r] = held[r]
    PROVE  /\ held[s] = <<>> /\ held'[s] # <<>> /\ inflight' = inflight + 1 => CountInv'
           /\ held[s] # <<>> /\ held'[s] = <<>> /\ inflight' = inflight - 1 => CountInv'
           /\ (held[s] = <<>> <=> held'[s] = <<>>) /\ inflight' = inflight => CountInv'
  <1>1. IsFiniteSet(Delivering)
    BY SubscriptionAssumption, FS_Subset DEF Delivering
  <1>2. Cardinality(Delivering) \in Nat
    BY <1>1, FS_CardinalityType
  <1>3. ASSUME held[s] = <<>>, held'[s] # <<>>, inflight' = inflight + 1 PROVE CountInv'
    <2>1. Delivering' = Delivering \cup {s} /\ s \notin Delivering
      BY <1>3 DEF Delivering
    <2> QED  BY <1>1, <1>3, <2>1, FS_AddElement DEF CountInv
  <1>4. ASSUME held[s] # <<>>, held'[s] = <<>>, inflight' = inflight - 1 PROVE CountInv'
    <2>1. Delivering' = Delivering \ {s} /\ s \in Delivering
      BY <1>4 DEF Delivering
    <2> QED  BY <1>1, <1>4, <2>1, FS_RemoveElement DEF CountInv
  <1>5. ASSUME held[s] = <<>> <=> held'[s] = <<>>, inflight' = inflight PROVE CountInv'
    <2>1. Delivering' = Delivering
      BY <1>5 DEF Delivering
    <2> QED  BY <1>5, <2>1 DEF CountInv
  <1> QED  BY <1>3, <1>4, <1>5

-----------------------------------------------------------------------------
(* Types.                                                                  *)

LEMMA SeqFacts ==
    ASSUME NEW S, NEW q \in Seq(S)
    PROVE  /\ \A e \in S : Append(q, e) \in Seq(S) /\ <<e>> \in Seq(S)
           /\ q # <<>> => Tail(q) \in Seq(S) /\ Head(q) \in S /\ Head(q) = q[1]
           /\ <<>> \in Seq(S)
           /\ \A r \in Seq(S) : q \o r \in Seq(S)
  BY AppendProperties, HeadTailProperties, ConcatProperties

\* The types a subscription's handling of its events keeps.
LEMMA CallType ==
    ASSUME TypeOK, NEW s \in Subscription, NEW e \in Event, NEW n \in 0 .. MaxRetries,
           Call(s, e, n)
    PROVE  /\ consumer' \in [Subscription -> Consumer]
           /\ attempt' \in [Subscription -> 0 .. MaxRetries]
           /\ calls' \in [Subscription -> [Event -> Nat]]
  <1>1. consumer' \in [Subscription -> Consumer] /\ attempt' \in [Subscription -> 0 .. MaxRetries]
    BY DEF TypeOK, Call, Consumer
  <1>2. calls[s] \in [Event -> Nat] /\ calls[s][e] + 1 \in Nat
    BY DEF TypeOK
  <1>3. [calls[s] EXCEPT ![e] = calls[s][e] + 1] \in [Event -> Nat]
    BY <1>2
  <1>4. calls' = [calls EXCEPT ![s] = [calls[s] EXCEPT ![e] = calls[s][e] + 1]]
    BY DEF Call
  <1>5. calls' \in [Subscription -> [Event -> Nat]]
    BY <1>3, <1>4 DEF TypeOK
  <1> QED  BY <1>1, <1>5

LEMMA SettleType ==
    ASSUME TypeOK, NEW s \in Subscription, Settle(s)
    PROVE  /\ settled' \in [Subscription -> Seq(Event)] /\ held' \in [Subscription -> Seq(Event)]
           /\ attempt' \in [Subscription -> 0 .. MaxRetries] /\ inflight' \in Int
           /\ consumer' \in [Subscription -> Consumer]
  <1>1. settled[s] \o held[s] \in Seq(Event) /\ <<>> \in Seq(Event)
    BY SeqFacts DEF TypeOK
  <1>2. LoopTest \in Consumer /\ 0 \in 0 .. MaxRetries
    BY MaxRetriesAssumption DEF LoopTest, Consumer
  <1> QED  BY <1>1, <1>2 DEF TypeOK, Settle

LEMMA TypeStep == IInv /\ [Next]_vars => TypeOK'
  <1> SUFFICES ASSUME IInv, [Next]_vars PROVE TypeOK'
    OBVIOUS
  <1>h. TypeOK /\ \A s \in Subscription : consumer[s] = "backoff" => held[s] # <<>>
    BY DEF IInv, SubInv, PlaceInv
  <1>1. ASSUME NEW t \in Topic, Publish(t) PROVE TypeOK'
    <2>1. published + 1 \in Event /\ published' \in 0 .. MaxEvents
      BY <1>h, <1>1, MaxEventsAssumption DEF Publish, TypeOK, Event
    <2>2. Append(log[t], published + 1) \in Seq(Event)
      BY <1>h, <2>1, SeqFacts DEF TypeOK
    <2>3. log' \in [Topic -> Seq(Event)]
      BY <1>h, <1>1, <2>2 DEF Publish, TypeOK
    <2>4. \A s \in Subscription : Append(queue[s], published + 1) \in Seq(Event)
      BY <1>h, <2>1, SeqFacts DEF TypeOK
    <2>5. queue' \in [Subscription -> Seq(Event)]
      BY <1>h, <1>1, <2>4 DEF Publish, TypeOK
    <2> QED  BY <1>h, <1>1, <2>1, <2>3, <2>5 DEF Publish, TypeOK, delivery, draining
  <1>2. ASSUME NEW t \in Topic, NEW g \in Group, NEW s \in Subscription, Subscribe(t, g, s)
        PROVE  TypeOK'
    <2>1. Len(log[t]) \in Nat /\ "created" \in Consumer
      BY <1>h, LenProperties DEF TypeOK, Consumer
    <2>2. /\ groups' \in [Topic \X Group -> Subscription \cup {None}]
          /\ topicOf' \in [Subscription -> Topic \cup {None}]
          /\ consumer' \in [Subscription -> Consumer] /\ start' \in [Subscription -> Nat]
      BY <1>h, <1>2, <2>1 DEF Subscribe, TypeOK
    <2> QED  BY <1>h, <1>2, <2>2 DEF Subscribe, TypeOK, delivery, draining
  <1>3. ASSUME NEW t \in Topic, NEW g \in Group, Unsubscribe(t, g) PROVE TypeOK'
    <2>1. /\ groups' \in [Topic \X Group -> Subscription \cup {None}]
          /\ cancelled' \in [Subscription -> BOOLEAN] /\ busy' \in Subscription \cup {None}
      BY <1>h, <1>3 DEF Unsubscribe, CalledBy, TypeOK
    <2> QED  BY <1>h, <1>3, <2>1 DEF Unsubscribe, TypeOK, delivery, draining, history
  <1>4. CASE Shutdown
    <2>1. cancelled' \in [Subscription -> BOOLEAN] /\ running' \in BOOLEAN
      BY <1>h, <1>4 DEF Shutdown, TypeOK
    <2>2. Registered \subseteq Subscription
      BY <1>h DEF Registered, TypeOK
    <2>3. busy' \in Subscription \cup {None}
      BY <1>h, <1>4, <2>2 DEF Shutdown, CalledBy, TypeOK
    <2> QED  BY <1>h, <1>4, <2>1, <2>3 DEF Shutdown, TypeOK, delivery, draining, history
  <1>5. ASSUME NEW s \in Subscription, Begin(s) PROVE TypeOK'
    <2>1. consumer' \in [Subscription -> Consumer]
      BY <1>h, <1>5 DEF Begin, LoopTest, TypeOK, Consumer
    <2> QED  BY <1>h, <1>5, <2>1 DEF Begin, TypeOK, delivery, draining, history
  <1>6. ASSUME NEW s \in Subscription, Take(s) PROVE TypeOK'
    <2>1. /\ queue[s] \in Seq(Event) /\ queue[s] # <<>> /\ 1 \in 0 .. MaxRetries
      BY <1>h, <1>6, MaxRetriesAssumption DEF Take, TypeOK
    <2>2. /\ Head(queue[s]) \in Event /\ Tail(queue[s]) \in Seq(Event)
          /\ <<Head(queue[s])>> \in Seq(Event)
      BY <2>1, SeqFacts
    <2>3. /\ consumer' \in [Subscription -> Consumer]
          /\ attempt' \in [Subscription -> 0 .. MaxRetries]
          /\ calls' \in [Subscription -> [Event -> Nat]]
      BY <1>h, <1>6, <2>1, <2>2, CallType DEF Take
    <2>4. /\ queue' \in [Subscription -> Seq(Event)] /\ held' \in [Subscription -> Seq(Event)]
          /\ inflight' \in Int
      BY <1>h, <1>6, <2>2 DEF Take, TypeOK
    <2> QED  BY <1>h, <1>6, <2>3, <2>4 DEF Take, TypeOK, draining
  <1>7. ASSUME NEW s \in Subscription, HandlerReturns(s) PROVE TypeOK'
    BY <1>h, <1>7, SettleType DEF HandlerReturns, Settle, TypeOK, draining
  <1>8. ASSUME NEW s \in Subscription, HandlerRaises(s) PROVE TypeOK'
    <2>1. consumer' \in [Subscription -> Consumer]
      BY <1>h, <1>8 DEF HandlerRaises, TypeOK, Consumer
    <2> QED  BY <1>h, <1>8, <2>1 DEF HandlerRaises, TypeOK, delivery, draining, history
  <1>9. ASSUME NEW s \in Subscription, TryAgain(s) PROVE TypeOK'
    <2>1. held[s][1] \in Event
      BY <1>9, <1>h, ElementOfSeq, EmptySeq DEF TryAgain, TypeOK
    <2>2. attempt[s] + 1 \in 0 .. MaxRetries
      <3>1. attempt[s] \in 0 .. MaxRetries /\ attempt[s] # MaxRetries /\ MaxRetries \in Nat
        BY <1>h, <1>9, MaxRetriesAssumption DEF TryAgain, LastAttempt, TypeOK
      <3> QED  BY <3>1
    <2>3. /\ consumer' \in [Subscription -> Consumer]
          /\ attempt' \in [Subscription -> 0 .. MaxRetries]
          /\ calls' \in [Subscription -> [Event -> Nat]]
      BY <1>h, <1>9, <2>1, <2>2, CallType DEF TryAgain
    <2> QED  BY <1>h, <1>9, <2>3 DEF TryAgain, TypeOK, draining
  <1>10. ASSUME NEW s \in Subscription, DeadLetter(s) PROVE TypeOK'
    <2>1. held[s][1] \in Event
      BY <1>10, <1>h, ElementOfSeq, EmptySeq DEF DeadLetter, TypeOK
    <2>2. deadLetter' \in SUBSET (Subscription \X Event)
      BY <1>h, <1>10, <2>1 DEF DeadLetter, TypeOK
    <2> QED  BY <1>h, <1>10, <2>2, SettleType DEF DeadLetter, Settle, TypeOK, draining
  <1>11. ASSUME NEW s \in Subscription, CancelLands(s) PROVE TypeOK'
    <2>1. Len(held[s]) \in Nat /\ <<>> \in Seq(Event) /\ 0 \in 0 .. MaxRetries
      BY <1>h, LenProperties, EmptySeq, MaxRetriesAssumption DEF TypeOK
    <2>2. /\ consumer' \in [Subscription -> Consumer] /\ held' \in [Subscription -> Seq(Event)]
          /\ attempt' \in [Subscription -> 0 .. MaxRetries] /\ inflight' \in Int
      BY <1>h, <1>11, <2>1 DEF CancelLands, TypeOK, Consumer
    <2> QED  BY <1>h, <1>11, <2>2 DEF CancelLands, TypeOK, draining, history
  <1>12. ASSUME NEW d \in Drainer, StartDrain(d) PROVE TypeOK'
    <2>1. [t \in Topic |-> Len(log[t])] \in [Topic -> Nat]
      BY <1>h, LenProperties DEF TypeOK
    <2>2. drain' \in [Drainer -> {"none", "polling", "idle", "timeout"}]
          /\ mark' \in [Drainer -> [Topic -> Nat]]
      BY <1>h, <1>12, <2>1 DEF StartDrain, TypeOK
    <2> QED  BY <1>h, <1>12, <2>2 DEF StartDrain, TypeOK, core, delivery, history
  <1>13. ASSUME NEW d \in Drainer, DrainIdle(d) \/ DrainTimeout(d) PROVE TypeOK'
    <2>0. [t \in Topic |-> 0] \in [Topic -> Nat]
      OBVIOUS
    <2>1. /\ drain' \in [Drainer -> {"none", "polling", "idle", "timeout"}]
          /\ mark' \in [Drainer -> [Topic -> Nat]]
      BY <1>h, <1>13, <2>0 DEF DrainIdle, DrainTimeout, Forget, TypeOK
    <2> QED  BY <1>h, <1>13, <2>1 DEF DrainIdle, DrainTimeout, TypeOK, core, delivery, history
  <1>14. ASSUME NEW s \in Subscription, Suspends(s) PROVE TypeOK'
    BY <1>h, <1>14 DEF Suspends, TypeOK, delivery, draining, history
  <1>15. CASE UNCHANGED vars
    BY <1>h, <1>15 DEF vars, TypeOK
  <1> QED  BY <1>1, <1>2, <1>3, <1>4, <1>5, <1>6, <1>7, <1>8, <1>9, <1>10, <1>11, <1>12, <1>13,
              <1>14, <1>15 DEF Next, Consume

-----------------------------------------------------------------------------
(* Sequences: what a subscription has settled, holds and has waiting, as a *)
(* stretch of the log of its topic.                                        *)

\* An event appended to a log is appended to what is read of it.
LEMMA AppendStretch ==
    ASSUME NEW S, NEW v \in Seq(S), NEW l \in Seq(S), NEW n \in 0 .. Len(l), NEW e \in S,
           v = Stretch(l, n)
    PROVE  Append(v, e) = Stretch(Append(l, e), n)
  <1>1. <<e>> \in Seq(S) /\ Len(l) \in Nat /\ n \in Nat
    BY SeqFacts, LenProperties
  <1>2. Append(v, e) = v \o <<e>>
    BY AppendIsConcat
  <1> DEFINE m == Append(l, e)
  <1>3. /\ m \in Seq(S) /\ Len(m) = Len(l) + 1 /\ m[Len(l) + 1] = e
        /\ m = l \o <<e>>
    BY AppendProperties, AppendIsConcat
  <1> HIDE DEF m
  <1>4. SubSeq(m, n + 1, Len(m)) = SubSeq(m, n + 1, Len(l)) \o <<e>>
    <2>1. n + 1 \in 1 .. Len(m) /\ Len(m) \in n + 1 .. Len(m) /\ Len(m) - 1 = Len(l)
      BY <1>1, <1>3
    <2> QED  BY <1>3, <2>1, SubSeqRecursiveSecond
  <1>5. SubSeq(m, n + 1, Len(l)) = SubSeq(l, n + 1, Len(l))
    <2>1. CASE n < Len(l)
      <3>1. n + 1 \in 1 .. Len(l) /\ Len(l) \in 1 .. Len(l)
        BY <1>1, <2>1
      <3> QED  BY <1>1, <1>3, <3>1, SubSeqOfConcat1
    <2>2. CASE ~ (n < Len(l))
      <3>1. n + 1 \in Int /\ Len(l) \in Int /\ Len(l) < n + 1
        BY <1>1, <2>2
      <3> QED  BY <3>1, SubSeqEmpty
    <2> QED  BY <2>1, <2>2
  <1> QED  BY <1>2, <1>4, <1>5 DEF m, Stretch

LEMMA JoinedFacts ==
    ASSUME NEW S, NEW a \in Seq(S), NEW b \in Seq(S)
    PROVE  /\ Joined(a, b) \in Seq(S)
           /\ Joined(a, <<>>) = a /\ Joined(<<>>, a) = a
           /\ b # <<>> => b = Joined(<<Head(b)>>, Tail(b))
  <1>1. Joined(a, b) \in Seq(S)
    BY ConcatProperties DEF Joined
  <1>2. Joined(a, <<>>) = a /\ Joined(<<>>, a) = a
    BY ConcatEmptySeq DEF Joined
  <1>3. ASSUME b # <<>> PROVE b = Joined(<<Head(b)>>, Tail(b))
    <2>1. Len(b) \in Nat \ {0} /\ Head(b) = b[1]
      BY <1>3, EmptySeq, SeqFacts
    <2>2. b = SubSeq(b, 1, Len(b)) /\ Tail(b) = SubSeq(b, 2, Len(b))
      BY <1>3, SubSeqFull, TailIsSubSeq
    <2>3. SubSeq(b, 1, Len(b)) = <<b[1]>> \o SubSeq(b, 1 + 1, Len(b))
      BY <2>1, SubSeqRecursiveFirst
    <2> QED  BY <2>1, <2>2, <2>3 DEF Joined
  <1> QED  BY <1>1, <1>2, <1>3

LEMMA JoinedAssociative ==
    ASSUME NEW S, NEW a \in Seq(S), NEW b \in Seq(S), NEW c \in Seq(S)
    PROVE  Joined(Joined(a, b), c) = Joined(a, Joined(b, c))
  BY ConcatAssociative DEF Joined

LEMMA AppendJoined ==
    ASSUME NEW S, NEW a \in Seq(S), NEW b \in Seq(S), NEW e \in S
    PROVE  Append(Joined(a, b), e) = Joined(a, Append(b, e))
  <1>1. <<e>> \in Seq(S) /\ a \o b \in Seq(S)
    BY SeqFacts
  <1>2. (a \o b) \o <<e>> = a \o (b \o <<e>>)
    BY <1>1, ConcatAssociative
  <1>3. Append(a \o b, e) = (a \o b) \o <<e>> /\ Append(b, e) = b \o <<e>>
    BY <1>1, AppendIsConcat
  <1> QED  BY <1>2, <1>3 DEF Joined

\* An event published to a log is appended to what is read of it, or to the rest.
LEMMA AppendCovers ==
    ASSUME NEW S, NEW v \in Seq(S), NEW q \in Seq(S), NEW rest \in Seq(S), NEW l \in Seq(S),
           NEW n \in 0 .. Len(l), NEW e \in S,
           Joined(Joined(v, q), rest) = Stretch(l, n)
    PROVE  /\ Joined(Joined(v, q), Append(rest, e)) = Stretch(Append(l, e), n)
           /\ rest = <<>> =>
                 Joined(Joined(v, Append(q, e)), <<>>) = Stretch(Append(l, e), n)
  <1> DEFINE a == Joined(v, q)
             b == Append(q, e)
             all == Joined(a, rest)
  <1>1. a \in Seq(S)
    BY JoinedFacts
  <1>2. b \in Seq(S)
    BY AppendProperties
  <1>3. all = Stretch(l, n)
    OBVIOUS
  <1>4. Append(a, e) = Joined(v, b)
    BY AppendJoined
  <1>5. Joined(v, b) \in Seq(S)
    BY <1>2, JoinedFacts
  <1> HIDE DEF a, b
  <1>6. all \in Seq(S) /\ Append(all, e) = Joined(a, Append(rest, e))
    <2>1. all \in Seq(S)
      BY <1>1, JoinedFacts
    <2>2. Append(all, e) = Joined(a, Append(rest, e))
      BY <1>1, AppendJoined
    <2> QED  BY <2>1, <2>2
  <1> HIDE DEF all
  <1>7. Append(all, e) = Stretch(Append(l, e), n)
    BY <1>3, <1>6, AppendStretch
  <1>8. ASSUME rest = <<>> PROVE Joined(Joined(v, b), <<>>) = Stretch(Append(l, e), n)
    <2>1. all = a
      BY <1>1, <1>8, JoinedFacts DEF all
    <2> DEFINE c == Joined(v, b)
    <2>2. c \in Seq(S) /\ c = Stretch(Append(l, e), n)
      BY <1>4, <1>5, <1>7, <2>1
    <2> HIDE DEF c
    <2>3. Joined(c, <<>>) = c
      BY <2>2, JoinedFacts
    <2> QED  BY <2>2, <2>3 DEF c
  <1> QED  BY <1>6, <1>7, <1>8 DEF a, b

-----------------------------------------------------------------------------
(* publish, subscribe, unsubscribe, shutdown and drain.                    *)

LEMMA Types ==
    ASSUME TypeOK, NEW s \in Subscription
    PROVE  /\ queue[s] \in Seq(Event) /\ held[s] \in Seq(Event) /\ settled[s] \in Seq(Event)
           /\ Len(queue[s]) \in Nat /\ Len(held[s]) \in Nat /\ Len(settled[s]) \in Nat
           /\ attempt[s] \in 0 .. MaxRetries /\ start[s] \in Nat
           /\ calls[s] \in [Event -> Nat] /\ published \in Nat
           /\ topicOf[s] # None => /\ topicOf[s] \in Topic
                                   /\ log[topicOf[s]] \in Seq(Event)
                                   /\ Len(log[topicOf[s]]) \in Nat
  BY LenProperties, MaxEventsAssumption DEF TypeOK

LEMMA PublishStep ==
    ASSUME IInv, NEW t \in Topic, Publish(t)
    PROVE  /\ RegistryInv' /\ CountInv' /\ MarkInv'
           /\ \A s \in Subscription : SubInv(s)'
  <1> DEFINE e == published + 1
  <1>1. /\ TypeOK /\ published \in Nat /\ e \in Event /\ published' = e
        /\ UNCHANGED <<groups, topicOf, consumer, cancelled, busy, held, attempt, inflight,
                       deadLetter, start, settled, calls, mark>>
    <2>1. TypeOK /\ published \in Nat /\ published < MaxEvents /\ published' = e
      BY MaxEventsAssumption DEF IInv, TypeOK, Publish
    <2>2. e \in Event
      BY <2>1, MaxEventsAssumption DEF Event
    <2>3. UNCHANGED <<groups, topicOf, consumer, cancelled, busy, held, attempt, inflight,
                      deadLetter, start, settled, calls, mark>>
      BY DEF Publish, delivery, draining
    <2> QED  BY <2>1, <2>2, <2>3
  <1>2. /\ log' = [log EXCEPT ![t] = Append(log[t], e)]
        /\ log[t] \in Seq(Event) /\ Append(log[t], e) \in Seq(Event)
        /\ Len(Append(log[t], e)) = Len(log[t]) + 1 /\ Len(log[t]) \in Nat
    BY <1>1, AppendProperties, LenProperties DEF Publish, TypeOK
  <1>3. /\ log'[t] = Append(log[t], e)
        /\ \A u \in Topic \ {t} : log'[u] = log[u]
    BY <1>1, <1>2 DEF TypeOK
  <1>4. \A u \in Topic : Len(log'[u]) \in Nat /\ Len(log[u]) \in Nat /\ Len(log[u]) <= Len(log'[u])
    BY <1>1, <1>2, <1>3, LenProperties DEF TypeOK
  <1>5. RegistryInv' /\ CountInv'
    BY <1>1 DEF IInv, RegistryInv, RegisteredTo, CountInv, Delivering
  <1>6. MarkInv'
    <2>1. \A d \in Drainer, u \in Topic : mark[d][u] \in Nat /\ mark[d][u] <= Len(log[u])
      BY <1>1 DEF IInv, MarkInv, TypeOK
    <2> QED  BY <1>1, <1>4, <2>1 DEF MarkInv
  <1>7. ASSUME NEW s \in Subscription PROVE SubInv(s)'
    <2> DEFINE joined == s \in RegisteredTo(t)
    <2>1. queue'[s] = IF joined THEN Append(queue[s], e) ELSE queue[s]
      BY DEF Publish
    <2>2. SubInv(s) /\ PlaceInv(s) /\ WaitingInv(s) /\ ViewInv(s) /\ BooksInv(s)
      BY DEF IInv, SubInv
    <2>3. joined => topicOf[s] = t
      BY DEF RegisteredTo, IInv, RegistryInv
    <2>4. None \notin Topic /\ t # None
      BY NoneAssumption
    <2>5. /\ joined => /\ Len(queue'[s]) = Len(queue[s]) + 1
                       /\ \A i \in 1 .. Len(queue[s]) : queue'[s][i] = queue[s][i]
                       /\ queue'[s][Len(queue[s]) + 1] = e
          /\ ~ joined => queue'[s] = queue[s]
      <3>1. queue[s] \in Seq(Event) /\ e \in Event
        BY <1>1 DEF TypeOK
      <3> HIDE DEF e, joined
      <3> QED  BY <2>1, <3>1, AppendProperties
    <2>n. /\ Len(queue[s]) \in Nat
          /\ \A i \in 1 .. Len(queue[s]) : queue[s][i] \in Nat
      <3>1. queue[s] \in Seq(Event) /\ Event \subseteq Nat
        BY <1>1 DEF TypeOK, Event
      <3> QED  BY <3>1, LenProperties, ElementOfSeq
    <2> HIDE DEF joined, e
    <2>6. PlaceInv(s)'
      <3>1. topicOf[s] # None => start[s] <= Len(log'[topicOf[s]])
        BY <1>1, <1>4, <2>2, Types DEF PlaceInv
      <3>2. topicOf[s] = None => queue'[s] = <<>>
        BY <2>2, <2>3, <2>4, <2>5 DEF PlaceInv
      <3> QED  BY <1>1, <2>2, <3>1, <3>2 DEF PlaceInv
    <2>7. WaitingInv(s)'
      <3>1. published < e /\ e \in Nat
        BY <1>1 DEF e
      <3>2. \A x \in Event : x > e => calls[s][x] = 0
        BY <1>1, <2>2, <3>1 DEF WaitingInv, Event
      <3>3. calls[s][e] = 0
        BY <1>1, <2>2, <3>1 DEF WaitingInv
      <3>4. ASSUME joined PROVE WaitingInv(s)'
        <4>1. \A i \in 1 .. Len(queue'[s]) :
                 \/ i \in 1 .. Len(queue[s]) /\ queue'[s][i] = queue[s][i]
                 \/ i = Len(queue[s]) + 1 /\ queue'[s][i] = e
          BY <2>5, <2>n, <3>4
        <4>2. \A i \in 1 .. Len(queue[s]) : queue[s][i] \in Nat /\ queue[s][i] <= published
          BY <2>2, <2>n DEF WaitingInv
        <4>3. \A i \in 1 .. Len(queue'[s]) :
                 /\ queue'[s][i] <= e
                 /\ ~ Gone(s) => calls[s][queue'[s][i]] = 0
          <5>1. \A i \in 1 .. Len(queue[s]) : ~ Gone(s) => calls[s][queue[s][i]] = 0
            BY <2>2 DEF WaitingInv
          <5>2. \A i \in 1 .. Len(queue[s]) : queue[s][i] <= e
            BY <1>1, <3>1, <4>2
          <5>3. e <= e
            BY <3>1
          <5> QED  BY <3>3, <4>1, <5>1, <5>2, <5>3
        <4>4. \A i, j \in 1 .. Len(queue'[s]) : i # j => queue'[s][i] # queue'[s][j]
          <5>1. \A i, j \in 1 .. Len(queue[s]) : i # j => queue[s][i] # queue[s][j]
            BY <2>2 DEF WaitingInv
          <5>2. \A i \in 1 .. Len(queue[s]) : queue[s][i] # e
            BY <1>1, <3>1, <4>2
          <5> QED  BY <4>1, <5>1, <5>2
        <4>5. held[s] # <<>> => calls[s][held[s][1]] = attempt[s] /\ attempt[s] > 0
          BY <2>2 DEF WaitingInv
        <4>6. /\ published' = e /\ calls'[s] = calls[s] /\ held'[s] = held[s]
              /\ attempt'[s] = attempt[s] /\ Gone(s)' = Gone(s)
          BY <1>1 DEF Gone
        <4>7. held'[s] # <<>> => calls'[s][held'[s][1]] = attempt'[s] /\ attempt'[s] > 0
          BY <4>5, <4>6
        <4>8. \A x \in Event : x > published' => calls'[s][x] = 0
          BY <3>2, <4>6
        <4>9. \A i \in 1 .. Len(queue'[s]) :
                 /\ queue'[s][i] <= published'
                 /\ ~ Gone(s)' => calls'[s][queue'[s][i]] = 0
          BY <4>3, <4>6
        <4> QED  BY <4>4, <4>7, <4>8, <4>9 DEF WaitingInv
      <3>5. ASSUME ~ joined PROVE WaitingInv(s)'
        <4>1. \A i \in 1 .. Len(queue[s]) : queue[s][i] <= e
          BY <1>1, <2>2, <2>n, <3>1 DEF WaitingInv
        <4> QED  BY <1>1, <2>2, <2>5, <3>2, <3>5, <4>1 DEF WaitingInv, Gone
      <3> QED  BY <3>4, <3>5
    <2>8. ViewInv(s)'
      <3> SUFFICES ASSUME topicOf[s] # None, ~ Gone(s)
                   PROVE  \E rest \in Seq(Event) : Covers(s, rest)'
        BY <1>1 DEF ViewInv, Gone
      <3> DEFINE v == Joined(settled[s], held[s])
                 q == queue[s]
                 l == log[t]
                 n == start[s]
      <3>1. PICK rest \in Seq(Event) : Covers(s, rest)
        BY <2>2 DEF ViewInv
      <3>2. v \in Seq(Event) /\ q \in Seq(Event) /\ e \in Event
        BY <1>1, JoinedFacts DEF TypeOK
      <3>3. CASE topicOf[s] = t
        <4>1. n \in 0 .. Len(l) /\ l \in Seq(Event)
          BY <1>1, <1>2, <2>2, <3>3, Types DEF PlaceInv
        <4>2. Joined(Joined(v, q), rest) = Stretch(l, n)
          BY <3>1, <3>3 DEF Covers, View
        <4>3. View(s)' = Joined(v, queue'[s])
          BY <1>1 DEF View
        <4>4. /\ start'[s] = n /\ log'[topicOf'[s]] = Append(l, e)
              /\ s \in RegisteredTo(topicOf[s])' <=> joined
          BY <1>1, <1>3, <3>3 DEF joined, RegisteredTo
        <4>5. joined => rest = <<>>
          BY <3>1, <3>3 DEF Covers, joined
        <4> HIDE DEF v, q, l, n
        <4>6. /\ Joined(Joined(v, q), Append(rest, e)) = Stretch(Append(l, e), n)
              /\ rest = <<>> =>
                    Joined(Joined(v, Append(q, e)), <<>>) = Stretch(Append(l, e), n)
          BY <3>2, <4>1, <4>2, AppendCovers
        <4>7. CASE joined
          <5>1. queue'[s] = Append(q, e)
            BY <2>1, <4>7 DEF q
          <5>2. Covers(s, <<>>)'
            BY <4>3, <4>4, <4>5, <4>6, <4>7, <5>1 DEF Covers
          <5> QED  BY <5>2, EmptySeq
        <4>8. CASE ~ joined
          <5>1. queue'[s] = q
            BY <2>1, <4>8 DEF q
          <5>2. Append(rest, e) \in Seq(Event)
            BY <3>2, AppendProperties
          <5>3. PICK more \in Seq(Event) : more = Append(rest, e)
            BY <5>2
          <5>4. Covers(s, more)'
            BY <4>3, <4>4, <4>6, <4>8, <5>1, <5>3 DEF Covers
          <5> QED  BY <5>4
        <4> QED  BY <4>7, <4>8
      <3>4. CASE topicOf[s] # t
        <4>1. ~ joined /\ topicOf[s] \in Topic
          BY <1>1, <2>3, <3>4, Types
        <4>2. View(s)' = View(s)
          BY <1>1, <2>5, <4>1 DEF View
        <4>3. Covers(s, rest)'
          BY <1>1, <1>3, <3>1, <3>4, <4>1, <4>2 DEF Covers, RegisteredTo
        <4> QED  BY <4>3
      <3> QED  BY <3>3, <3>4
    <2>9. BooksInv(s)'
      BY <1>1, <2>2 DEF BooksInv
    <2> QED  BY <2>6, <2>7, <2>8, <2>9 DEF SubInv
  <1> QED  BY <1>5, <1>6, <1>7

LEMMA SubscribeStep ==
    ASSUME IInv, NEW t \in Topic, NEW g \in Group, NEW s \in Subscription, Subscribe(t, g, s)
    PROVE  /\ RegistryInv' /\ CountInv' /\ MarkInv'
           /\ \A r \in Subscription : SubInv(r)'
  <1>1. /\ TypeOK /\ groups[<<t, g>>] = None /\ consumer[s] = "unborn"
        /\ UNCHANGED <<queue, cancelled, busy, held, attempt, inflight, deadLetter, published,
                       log, settled, calls, mark>>
    BY DEF IInv, Subscribe, delivery, draining
  <1>2. /\ groups' = [groups EXCEPT ![<<t, g>>] = s] /\ groups'[<<t, g>>] = s
        /\ \A p \in Topic \X Group : p # <<t, g>> => groups'[p] = groups[p]
    BY DEF Subscribe, IInv, TypeOK
  <1>3. /\ topicOf'[s] = t /\ consumer'[s] = "created" /\ start'[s] = Len(log[t])
        /\ \A r \in Subscription \ {s} : /\ topicOf'[r] = topicOf[r] /\ consumer'[r] = consumer[r]
                                         /\ start'[r] = start[r]
    BY DEF Subscribe, IInv, TypeOK
  <1>4. None \notin Topic /\ t # None /\ None \notin Subscription /\ s # None
    BY NoneAssumption
  <1>5. SubInv(s) /\ PlaceInv(s) /\ WaitingInv(s) /\ BooksInv(s)
    BY DEF IInv, SubInv
  <1>6. /\ topicOf[s] = None /\ ~ cancelled[s]
        /\ queue[s] = <<>> /\ settled[s] = <<>> /\ held[s] = <<>>
    BY <1>1, <1>5 DEF PlaceInv
  <1>7. RegistryInv'
    <2>1. \A u \in Topic, h \in Group :
             groups'[<<u, h>>] # None => topicOf'[groups'[<<u, h>>]] = u
      <3> SUFFICES ASSUME NEW u \in Topic, NEW h \in Group, groups'[<<u, h>>] # None
                   PROVE  topicOf'[groups'[<<u, h>>]] = u
        OBVIOUS
      <3>1. CASE <<u, h>> = <<t, g>>
        BY <1>2, <1>3, <3>1
      <3>2. CASE <<u, h>> # <<t, g>>
        <4>1. groups[<<u, h>>] # None /\ groups'[<<u, h>>] = groups[<<u, h>>]
          BY <1>2, <3>2
        <4>2. topicOf[groups[<<u, h>>]] = u /\ groups[<<u, h>>] \in Subscription
          BY <1>1, <4>1 DEF IInv, RegistryInv, TypeOK
        <4>3. groups[<<u, h>>] # s
          BY <1>4, <1>6, <4>2
        <4> QED  BY <1>3, <4>1, <4>2, <4>3
      <3> QED  BY <3>1, <3>2
    <2>2. ASSUME NEW r \in Subscription, topicOf'[r] # None, ~ cancelled'[r]
          PROVE  r \in RegisteredTo(topicOf[r])'
      <3>1. CASE r = s
        BY <1>2, <1>3, <1>4, <3>1 DEF RegisteredTo
      <3>2. CASE r # s
        <4>1. r \in RegisteredTo(topicOf[r]) /\ topicOf'[r] = topicOf[r]
              /\ topicOf[r] \in Topic
          BY <1>1, <1>3, <2>2, <3>2 DEF IInv, RegistryInv, TypeOK
        <4>2. PICK h \in Group : groups[<<topicOf[r], h>>] = r /\ r # None
          BY <4>1 DEF RegisteredTo
        <4>3. <<topicOf[r], h>> # <<t, g>>
          BY <1>1, <4>2
        <4>4. groups'[<<topicOf[r], h>>] = r
          BY <1>2, <4>1, <4>2, <4>3
        <4> QED  BY <4>1, <4>2, <4>4 DEF RegisteredTo
      <3> QED  BY <3>1, <3>2
    <2> QED  BY <2>1, <2>2 DEF RegistryInv
  <1>8. CountInv' /\ MarkInv'
    BY <1>1 DEF IInv, CountInv, Delivering, MarkInv
  <1>9. ASSUME NEW r \in Subscription, r # s PROVE SubInv(r)'
    <2>1. r \in RegisteredTo(topicOf[r])' => r \in RegisteredTo(topicOf[r])
      <3> SUFFICES ASSUME NEW h \in Group, groups'[<<topicOf'[r], h>>] = r, r # None
                   PROVE  groups[<<topicOf[r], h>>] = r
        BY DEF RegisteredTo
      <3>1. groups' = [groups EXCEPT ![<<t, g>>] = s] /\ topicOf'[r] = topicOf[r]
        BY <1>2, <1>3, <1>9
      <3> QED  BY <1>9, <3>1
    <2>2. SubInv(r)
      BY DEF IInv
    <2> QED  BY <1>1, <1>3, <1>9, <2>1, <2>2, SubFrame
  <1>10. SubInv(s)'
    <2>1. log[t] \in Seq(Event) /\ Len(log[t]) \in Nat
      BY <1>1, LenProperties DEF TypeOK
    <2>2. PlaceInv(s)'
      BY <1>1, <1>3, <1>4, <1>5, <1>6, <2>1 DEF PlaceInv
    <2>3. WaitingInv(s)' /\ BooksInv(s)'
      BY <1>1, <1>5 DEF WaitingInv, BooksInv, Gone
    <2>4. ViewInv(s)'
      <3>1. <<>> \in Seq(Event)
        BY EmptySeq
      <3>2. Joined(Joined(<<>>, <<>>), <<>>) = <<>>
        BY <3>1, JoinedFacts
      <3>3. Stretch(log[t], Len(log[t])) = <<>>
        BY <2>1, SubSeqEmpty DEF Stretch
      <3>4. View(s)' = Joined(Joined(<<>>, <<>>), <<>>)
        BY <1>1, <1>6 DEF View
      <3>5. Joined(View(s)', <<>>) = Stretch(log[t], Len(log[t]))
        BY <3>1, <3>2, <3>3, <3>4, JoinedFacts
      <3>6. Covers(s, <<>>)'
        BY <1>1, <1>3, <3>5 DEF Covers
      <3> QED  BY <3>1, <3>6 DEF ViewInv
    <2> QED  BY <2>2, <2>3, <2>4 DEF SubInv
  <1> QED  BY <1>7, <1>8, <1>9, <1>10

\* A request to cancel, which only takes what was promised away.
LEMMA CancelFrame ==
    ASSUME IInv, NEW r \in Subscription,
           UNCHANGED <<topicOf, queue, consumer, held, attempt, deadLetter, published, log,
                       start, settled, calls>>,
           Gone(r) => Gone(r)',
           cancelled'[r] => cancelled[r] \/ topicOf[r] # None,
           busy' = r => /\ cancelled'[r]
                        /\ consumer[r] \in {"handling", "waiting", "ended"},
           r \in RegisteredTo(topicOf[r])' => r \in RegisteredTo(topicOf[r])
    PROVE  SubInv(r)'
  <1>1. PlaceInv(r)'
    BY DEF IInv, SubInv, PlaceInv
  <1>2. WaitingInv(r)'
    BY DEF IInv, SubInv, WaitingInv
  <1>3. ViewInv(r)'
    <2> SUFFICES ASSUME topicOf[r] # None, ~ Gone(r)
                 PROVE  \E rest \in Seq(Event) : Covers(r, rest)'
      BY DEF ViewInv
    <2>1. PICK rest \in Seq(Event) : Covers(r, rest)
      BY DEF IInv, SubInv, ViewInv
    <2>2. Covers(r, rest)'
      BY <2>1 DEF Covers, View
    <2> QED  BY <2>2
  <1>4. BooksInv(r)'
    BY DEF IInv, SubInv, BooksInv
  <1> QED  BY <1>1, <1>2, <1>3, <1>4 DEF SubInv

LEMMA UnsubscribeStep ==
    ASSUME IInv, NEW t \in Topic, NEW g \in Group, Unsubscribe(t, g)
    PROVE  /\ RegistryInv' /\ CountInv' /\ MarkInv'
           /\ \A r \in Subscription : SubInv(r)'
  <1> DEFINE s == groups[<<t, g>>]
  <1>1. /\ TypeOK /\ s # None /\ s \in Subscription /\ topicOf[s] = t /\ t # None
        /\ UNCHANGED <<topicOf, queue, consumer, held, attempt, inflight, deadLetter, published,
                       log, start, settled, calls, mark>>
    <2>1. TypeOK /\ s # None
      BY DEF IInv, Unsubscribe
    <2>2. s \in Subscription /\ topicOf[s] = t /\ t # None
      BY <2>1, NoneAssumption DEF IInv, RegistryInv, TypeOK
    <2> QED  BY <2>1, <2>2 DEF Unsubscribe, delivery, draining, history
  <1>2. /\ groups'[<<t, g>>] = None
        /\ \A p \in Topic \X Group : p # <<t, g>> => groups'[p] = groups[p]
    BY DEF Unsubscribe, IInv, TypeOK
  <1>3. cancelled'[s] /\ \A r \in Subscription \ {s} : cancelled'[r] = cancelled[r]
    BY <1>1 DEF Unsubscribe, TypeOK
  <1>4. ASSUME NEW r \in Subscription
        PROVE  /\ Gone(r) => Gone(r)'
               /\ cancelled'[r] => cancelled[r] \/ topicOf[r] # None
               /\ busy' = r => /\ cancelled'[r]
                               /\ consumer[r] \in {"handling", "waiting", "ended"}
               /\ r \in RegisteredTo(topicOf[r])' => r \in RegisteredTo(topicOf[r])
    <2>1. /\ PlaceInv(r)
          /\ busy' = busy \/ (busy' = s /\ consumer[s] = "handling" /\ ~ cancelled[s])
      BY DEF IInv, SubInv, Unsubscribe, CalledBy, s
    <2>2. r \in RegisteredTo(topicOf[r])' => r \in RegisteredTo(topicOf[r])
      <3> SUFFICES ASSUME NEW h \in Group, groups'[<<topicOf'[r], h>>] = r, r # None
                   PROVE  groups[<<topicOf[r], h>>] = r
        BY DEF RegisteredTo
      <3>1. groups' = [groups EXCEPT ![<<t, g>>] = None] /\ topicOf' = topicOf
        BY <1>1 DEF Unsubscribe
      <3> QED  BY <3>1
    <2>3. Gone(r) => Gone(r)'
      BY <1>3, <2>1 DEF Gone
    <2>4. cancelled'[r] => cancelled[r] \/ topicOf[r] # None
      BY <1>1, <1>3
    <2>5. busy' = r => cancelled'[r] /\ consumer[r] \in {"handling", "waiting", "ended"}
      BY <1>3, <2>1 DEF PlaceInv
    <2> QED  BY <2>2, <2>3, <2>4, <2>5
  <1> HIDE DEF s
  <1>5. RegistryInv'
    <2>1. \A u \in Topic, h \in Group :
             groups'[<<u, h>>] # None => topicOf'[groups'[<<u, h>>]] = u
      BY <1>1, <1>2 DEF IInv, RegistryInv
    <2>2. ASSUME NEW r \in Subscription, topicOf'[r] # None, ~ cancelled'[r]
          PROVE  r \in RegisteredTo(topicOf[r])'
      <3>1. r # s /\ ~ cancelled[r]
        BY <1>1, <1>3, <2>2
      <3>2. r \in RegisteredTo(topicOf[r]) /\ topicOf'[r] = topicOf[r] /\ topicOf[r] \in Topic
        BY <1>1, <2>2, <3>1 DEF IInv, RegistryInv, TypeOK
      <3>3. PICK h \in Group : groups[<<topicOf[r], h>>] = r /\ r # None
        BY <3>2 DEF RegisteredTo
      <3>4. <<topicOf[r], h>> # <<t, g>>
        BY <3>1, <3>3 DEF s
      <3>5. groups'[<<topicOf[r], h>>] = r
        BY <1>2, <3>2, <3>3, <3>4
      <3> QED  BY <3>2, <3>3, <3>5 DEF RegisteredTo
    <2> QED  BY <2>1, <2>2 DEF RegistryInv
  <1>6. CountInv' /\ MarkInv'
    BY <1>1 DEF IInv, CountInv, Delivering, MarkInv
  <1>7. \A r \in Subscription : SubInv(r)'
    BY <1>1, <1>4, CancelFrame
  <1> QED  BY <1>5, <1>6, <1>7

LEMMA ShutdownStep ==
    ASSUME IInv, Shutdown
    PROVE  /\ RegistryInv' /\ CountInv' /\ MarkInv'
           /\ \A r \in Subscription : SubInv(r)'
  <1>1. /\ TypeOK
        /\ UNCHANGED <<groups, topicOf, queue, consumer, held, attempt, inflight, deadLetter,
                       published, log, start, settled, calls, mark>>
    BY DEF IInv, Shutdown, delivery, draining, history
  <1>2. \A r \in Subscription : cancelled'[r] <=> cancelled[r] \/ r \in Registered
    BY DEF Shutdown
  <1>3. \A r \in Registered : topicOf[r] # None
    BY NoneAssumption DEF Registered, IInv, RegistryInv
  <1>4. ASSUME NEW r \in Subscription PROVE SubInv(r)'
    <2>1. PlaceInv(r) /\ (busy' = busy \/ \E s \in Registered : CalledBy(s))
      BY DEF IInv, SubInv, Shutdown
    <2>2. ASSUME busy' = r, busy # r
          PROVE  cancelled'[r] /\ ~ cancelled[r] /\ consumer[r] = "handling"
      <3>1. PICK s \in Registered : CalledBy(s)
        BY <2>1, <2>2
      <3>2. busy' = s /\ ~ cancelled[s] /\ consumer[s] = "handling"
        BY <2>2, <3>1 DEF CalledBy
      <3> QED  BY <1>2, <2>2, <3>2
    <2>3. Gone(r) => Gone(r)'
      BY <1>2, <2>2 DEF Gone
    <2>4. cancelled'[r] => cancelled[r] \/ topicOf[r] # None
      BY <1>2, <1>3
    <2>5. busy' = r => cancelled'[r] /\ consumer[r] \in {"handling", "waiting", "ended"}
      BY <1>2, <2>1, <2>2 DEF PlaceInv
    <2>6. r \in RegisteredTo(topicOf[r])' => r \in RegisteredTo(topicOf[r])
      BY <1>1 DEF RegisteredTo
    <2> QED  BY <1>1, <2>3, <2>4, <2>5, <2>6, CancelFrame
  <1>5. RegistryInv' /\ CountInv' /\ MarkInv'
    BY <1>1, <1>2 DEF IInv, RegistryInv, RegisteredTo, CountInv, Delivering, MarkInv
  <1> QED  BY <1>4, <1>5

LEMMA DrainStep ==
    ASSUME IInv, NEW d \in Drainer, StartDrain(d) \/ DrainIdle(d) \/ DrainTimeout(d)
    PROVE  /\ RegistryInv' /\ CountInv' /\ MarkInv'
           /\ \A r \in Subscription : SubInv(r)'
  <1>1. UNCHANGED <<groups, topicOf, queue, consumer, cancelled, busy, held, attempt,
                    inflight, deadLetter, published, log, start, settled, calls>>
    BY DEF StartDrain, DrainIdle, DrainTimeout, core, delivery, history
  <1>2. \A r \in Subscription : SubInv(r)'
    BY <1>1, SubFrame DEF IInv, RegisteredTo
  <1>3. RegistryInv' /\ CountInv'
    BY <1>1 DEF IInv, RegistryInv, RegisteredTo, CountInv, Delivering
  <1>4. MarkInv'
    <2>1. CASE DrainIdle(d) \/ DrainTimeout(d)
      <3>1. \A t \in Topic : Len(log[t]) \in Nat
        BY LenProperties DEF IInv, TypeOK
      <3>0. mark' = [mark EXCEPT ![d] = [t \in Topic |-> 0]] /\ mark \in [Drainer -> [Topic -> Nat]]
        BY <2>1 DEF DrainIdle, DrainTimeout, Forget, IInv, TypeOK
      <3>2. ASSUME NEW c \in Drainer, NEW t \in Topic
            PROVE  mark'[c][t] = mark[c][t] \/ mark'[c][t] = 0
        BY <3>0
      <3> QED  BY <1>1, <3>1, <3>2 DEF IInv, MarkInv
    <2>2. CASE StartDrain(d)
      <3>1. \A t \in Topic : Len(log[t]) \in Nat
        BY LenProperties DEF IInv, TypeOK
      <3>2. \A c \in Drainer, t \in Topic : mark'[c][t] = mark[c][t] \/ mark'[c][t] = Len(log[t])
        BY <2>2 DEF StartDrain, IInv, TypeOK
      <3> QED  BY <1>1, <3>1, <3>2 DEF IInv, MarkInv
    <2> QED  BY <2>1, <2>2
  <1> QED  BY <1>2, <1>3, <1>4

-----------------------------------------------------------------------------
(* The consumer.                                                           *)

LEMMA AtMostOne == \A n \in Nat \ {0} : n <= 1 => n = 1
  OBVIOUS

\* What a subscription's own step leaves alone.
Elsewhere(s) ==
    /\ UNCHANGED <<groups, topicOf, cancelled, published, log, start, mark>>
    /\ \A r \in Subscription \ {s} :
          /\ queue'[r] = queue[r] /\ consumer'[r] = consumer[r] /\ held'[r] = held[r]
          /\ attempt'[r] = attempt[r] /\ settled'[r] = settled[r] /\ calls'[r] = calls[r]
          /\ busy' = r <=> busy = r
          /\ \A e \in Event : <<r, e>> \in deadLetter' => <<r, e>> \in deadLetter

LEMMA OwnStep ==
    ASSUME IInv, NEW s \in Subscription, Elsewhere(s), SubInv(s)', CountInv'
    PROVE  /\ RegistryInv' /\ CountInv' /\ MarkInv'
           /\ \A r \in Subscription : SubInv(r)'
  <1>1. RegistryInv' /\ MarkInv'
    BY DEF IInv, Elsewhere, RegistryInv, RegisteredTo, MarkInv
  <1>2. ASSUME NEW r \in Subscription, r # s PROVE SubInv(r)'
    BY <1>2, SubFrame DEF IInv, Elsewhere, RegisteredTo
  <1> QED  BY <1>1, <1>2

\* A step that moves a consumer on without touching what it has of the log.
LEMMA SameView ==
    ASSUME NEW s \in Subscription, ViewInv(s), Gone(s) => Gone(s)',
           UNCHANGED <<groups, topicOf, log, start>>, View(s)' = View(s)
    PROVE  ViewInv(s)'
  <1> SUFFICES ASSUME topicOf[s] # None, ~ Gone(s)
               PROVE  \E rest \in Seq(Event) : Covers(s, rest)'
    BY DEF ViewInv
  <1>1. PICK rest \in Seq(Event) : Covers(s, rest)
    BY DEF ViewInv
  <1>2. Covers(s, rest)'
    BY <1>1 DEF Covers, RegisteredTo
  <1> QED  BY <1>2

LEMMA BeginStep ==
    ASSUME IInv, NEW s \in Subscription, Begin(s)
    PROVE  Elsewhere(s) /\ SubInv(s)' /\ CountInv'
  <1>1. /\ UNCHANGED <<groups, topicOf, cancelled, busy, published, log, start, mark, queue,
                       held, attempt, inflight, deadLetter, settled, calls>>
        /\ consumer[s] = "created" /\ consumer'[s] \in {"waiting", "ended"}
        /\ \A r \in Subscription \ {s} : consumer'[r] = consumer[r]
    BY DEF IInv, TypeOK, Begin, LoopTest, delivery, draining, history
  <1>2. PlaceInv(s) /\ WaitingInv(s) /\ ViewInv(s) /\ BooksInv(s)
    BY DEF IInv, SubInv
  <1>3. PlaceInv(s)'
    BY <1>1, <1>2 DEF PlaceInv
  <1>4. ViewInv(s)'
    BY <1>1, <1>2, SameView DEF View, Gone
  <1>5. WaitingInv(s)' /\ BooksInv(s)'
    BY <1>1, <1>2 DEF WaitingInv, BooksInv, Gone
  <1> QED  BY <1>1, <1>3, <1>4, <1>5 DEF SubInv, Elsewhere, IInv, CountInv, Delivering

\* A consumer that suspends: its handler raised, or its busy stretch is over.
LEMMA SuspendStep ==
    ASSUME IInv, NEW s \in Subscription, HandlerRaises(s) \/ Suspends(s)
    PROVE  Elsewhere(s) /\ SubInv(s)' /\ CountInv'
  <1>1. /\ UNCHANGED <<groups, topicOf, cancelled, published, log, start, mark, queue, held,
                       attempt, inflight, deadLetter, settled, calls>>
        /\ \/ consumer'[s] = consumer[s]
           \/ consumer[s] = "handling" /\ consumer'[s] = "backoff"
        /\ \A r \in Subscription \ {s} : consumer'[r] = consumer[r]
        /\ busy \in {s, None} /\ busy' = None
    BY DEF IInv, TypeOK, HandlerRaises, Suspends, Resumable, delivery, draining, history
  <1>2. None \notin Subscription
    BY NoneAssumption
  <1>3. PlaceInv(s) /\ WaitingInv(s) /\ ViewInv(s) /\ BooksInv(s)
    BY DEF IInv, SubInv
  <1>4. PlaceInv(s)'
    BY <1>1, <1>2, <1>3 DEF PlaceInv
  <1>5. Gone(s) => Gone(s)'
    BY <1>1, <1>2 DEF Gone
  <1>6. ViewInv(s)'
    BY <1>1, <1>3, <1>5, SameView DEF View
  <1>7. WaitingInv(s)' /\ BooksInv(s)'
    BY <1>1, <1>3, <1>5 DEF WaitingInv, BooksInv
  <1>8. Elsewhere(s)
    BY <1>1, <1>2 DEF Elsewhere
  <1> QED  BY <1>1, <1>4, <1>6, <1>7, <1>8 DEF SubInv, IInv, CountInv, Delivering

LEMMA TakeStep ==
    ASSUME IInv, NEW s \in Subscription, Take(s)
    PROVE  Elsewhere(s) /\ SubInv(s)' /\ CountInv'
  <1> DEFINE q == queue[s]
             e == Head(queue[s])
  <1>1. /\ TypeOK /\ q \in Seq(Event) /\ q # <<>> /\ MaxRetries \in Nat \ {0}
        /\ published \in Nat /\ calls[s] \in [Event -> Nat]
    BY MaxRetriesAssumption, Types DEF IInv, TypeOK, Take
  <1>2. PlaceInv(s) /\ WaitingInv(s) /\ ViewInv(s) /\ BooksInv(s)
    BY DEF IInv, SubInv
  <1>3. /\ e \in Event /\ e = q[1] /\ Tail(q) \in Seq(Event) /\ Len(q) \in Nat \ {0}
        /\ Len(Tail(q)) = Len(q) - 1
        /\ \A i \in 1 .. Len(Tail(q)) : Tail(q)[i] = q[i + 1]
    BY <1>1, HeadTailProperties, EmptySeq
  <1>4. /\ UNCHANGED <<groups, topicOf, cancelled, busy, published, log, start, mark,
                       deadLetter, settled>>
        /\ ~ Gone(s) /\ ~ Gone(s)' /\ consumer[s] = "waiting" /\ inflight' = inflight + 1
    BY DEF Take, Resumable, Gone, draining
  <1>5. /\ queue'[s] = Tail(q) /\ held'[s] = <<e>> /\ consumer'[s] = "handling" /\ attempt'[s] = 1
        /\ calls'[s] = [calls[s] EXCEPT ![e] = calls[s][e] + 1]
    BY <1>1 DEF Take, Call, TypeOK
  <1>6. Elsewhere(s)
    BY <1>1, <1>4 DEF Take, Call, TypeOK, Elsewhere
  <1> HIDE DEF q, e
  <1>7. held[s] = <<>> /\ topicOf[s] # None
    BY <1>2, <1>4 DEF PlaceInv
  <1>8. held'[s] # <<>> /\ Len(held'[s]) = 1 /\ held'[s][1] = e
    BY <1>5
  <1>9. PlaceInv(s)'
    BY <1>2, <1>4, <1>5, <1>7, <1>8 DEF PlaceInv
  <1>10. /\ calls[s][e] = 0 /\ e <= published /\ calls'[s][e] = 1
         /\ \A x \in Event \ {e} : calls'[s][x] = calls[s][x]
    <2>1. 1 \in 1 .. Len(q)
      BY <1>3
    <2>2. calls[s][e] = 0 /\ e <= published
      BY <1>2, <1>3, <1>4, <2>1 DEF WaitingInv, q
    <2> QED  BY <1>1, <1>3, <1>5, <2>2
  <1>11. WaitingInv(s)'
    <2>1. \A i \in 1 .. Len(queue'[s]) :
             /\ i + 1 \in 1 .. Len(q) /\ queue'[s][i] = q[i + 1] /\ q[i + 1] \in Event /\ i + 1 # 1
      BY <1>1, <1>3, <1>5, ElementOfSeq
    <2>2. \A i \in 1 .. Len(q) : q[i] <= published /\ calls[s][q[i]] = 0
      BY <1>2, <1>4 DEF WaitingInv, q
    <2>3. \A i, j \in 1 .. Len(q) : i # j => q[i] # q[j]
      BY <1>2 DEF WaitingInv, q
    <2>4. 1 \in 1 .. Len(q)
      BY <1>3
    <2>5. \A i \in 1 .. Len(queue'[s]) : queue'[s][i] <= published /\ calls'[s][queue'[s][i]] = 0
      BY <1>3, <1>10, <2>1, <2>2, <2>3, <2>4
    <2>6. \A i, j \in 1 .. Len(queue'[s]) : i # j => queue'[s][i] # queue'[s][j]
      <3>1. \A i, j \in 1 .. Len(queue'[s]) : i # j => i + 1 # j + 1
        OBVIOUS
      <3> QED  BY <2>1, <2>3, <3>1
    <2>7. held'[s] # <<>> => calls'[s][held'[s][1]] = attempt'[s] /\ attempt'[s] > 0
      BY <1>5, <1>8, <1>10
    <2>8. \A x \in Event : x > published => calls'[s][x] = 0
      <3>1. \A x \in Event : x > published => x # e
        BY <1>1, <1>3, <1>10 DEF Event
      <3> QED  BY <1>2, <1>10, <3>1 DEF WaitingInv
    <2> QED  BY <1>4, <2>5, <2>6, <2>7, <2>8 DEF WaitingInv
  <1>12. ViewInv(s)'
    <2> DEFINE a == settled[s]
    <2>1. a \in Seq(Event) /\ <<>> \in Seq(Event) /\ <<e>> \in Seq(Event)
      BY <1>1, <1>3, SeqFacts DEF TypeOK
    <2> HIDE DEF a
    <2>2. Joined(Joined(a, <<>>), q) = Joined(a, q)
      BY <2>1, JoinedFacts
    <2>3. q = Joined(<<e>>, Tail(q))
      BY <1>1, JoinedFacts DEF e, q
    <2>4. Joined(Joined(a, <<e>>), Tail(q)) = Joined(a, Joined(<<e>>, Tail(q)))
      <3> DEFINE rest == Tail(q)
                 one == <<e>>
      <3>1. rest \in Seq(Event) /\ one \in Seq(Event)
        BY <1>3, <2>1
      <3> HIDE DEF rest, one
      <3>2. Joined(Joined(a, one), rest) = Joined(a, Joined(one, rest))
        BY <2>1, <3>1, JoinedAssociative
      <3> QED  BY <3>2 DEF rest, one
    <2>5. View(s)' = View(s)
      BY <1>4, <1>5, <1>7, <2>2, <2>3, <2>4 DEF View, a, q
    <2> QED  BY <1>2, <1>4, <2>5, SameView
  <1>13. BooksInv(s)'
    <2> SUFFICES ASSUME NEW x \in Event
                 PROVE  /\ calls'[s][x] <= MaxRetries
                        /\ <<s, x>> \in deadLetter => calls'[s][x] = MaxRetries
                        /\ (\E i \in DOMAIN settled[s] : settled[s][i] = x) => calls'[s][x] > 0
      BY <1>4 DEF BooksInv
    <2>1. CASE x = e
      BY <1>1, <1>2, <1>10, <2>1 DEF BooksInv
    <2>2. CASE x # e
      BY <1>2, <1>10, <2>2 DEF BooksInv
    <2> QED  BY <2>1, <2>2
  <1>14. CountInv'
    <2>1. \A r \in Subscription \ {s} : held'[r] = held[r]
      BY <1>6 DEF Elsewhere
    <2> QED  BY <1>4, <1>7, <1>8, <2>1, CountChange DEF IInv
  <1> QED  BY <1>6, <1>9, <1>11, <1>12, <1>13, <1>14 DEF SubInv

\* A consumer that is done with an event has its hands free, and has settled it.
LEMMA SettleStep ==
    ASSUME IInv, NEW s \in Subscription, ~ Gone(s), consumer[s] \in {"handling", "backoff"},
           Settle(s), busy = s => consumer[s] = "handling",
           \/ deadLetter' = deadLetter
           \/ LastAttempt(s) /\ deadLetter' = deadLetter \cup {<<s, held[s][1]>>}
    PROVE  /\ Elsewhere(s) /\ SubInv(s)' /\ CountInv'
           /\ held[s] = <<held[s][1]>> /\ held[s][1] \in Event
           /\ settled'[s] = Append(settled[s], held[s][1])
           /\ View(s) = Joined(Append(settled[s], held[s][1]), queue[s])
  <1> DEFINE e == held[s][1]
  <1>1. /\ TypeOK /\ published \in Nat /\ calls[s] \in [Event -> Nat]
        /\ held[s] \in Seq(Event) /\ queue[s] \in Seq(Event) /\ settled[s] \in Seq(Event)
    BY Types DEF IInv, TypeOK
  <1>2. PlaceInv(s) /\ WaitingInv(s) /\ ViewInv(s) /\ BooksInv(s)
    BY DEF IInv, SubInv
  <1>3. held[s] # <<>> /\ topicOf[s] # None
    BY <1>2 DEF PlaceInv
  <1>4. Len(held[s]) = 1 /\ held[s] = <<e>> /\ e \in Event
    <2>1. Len(held[s]) \in Nat \ {0} /\ Len(held[s]) <= 1
      BY <1>1, <1>2, <1>3, EmptySeq DEF PlaceInv
    <2>2. Len(held[s]) = 1
      BY <2>1, AtMostOne
    <2>3. e \in Event
      BY <1>1, <2>2, ElementOfSeq
    <2> QED  BY <1>1, <2>2, <2>3
  <1>5. /\ UNCHANGED <<groups, topicOf, queue, cancelled, busy, published, log, start, mark, calls>>
        /\ inflight' = inflight - 1
        /\ settled'[s] = settled[s] \o held[s] /\ held'[s] = <<>> /\ attempt'[s] = 0
        /\ consumer'[s] \in {"waiting", "ended"}
    BY <1>1 DEF Settle, LoopTest, TypeOK, draining
  <1>6. Elsewhere(s)
    <2>1. \A r \in Subscription \ {s}, x \in Event :
             <<r, x>> \in deadLetter' => <<r, x>> \in deadLetter
      OBVIOUS
    <2> QED  BY <1>1, <1>5, <2>1 DEF Settle, TypeOK, Elsewhere
  <1> HIDE DEF e
  <1>7. settled'[s] = Joined(settled[s], held[s]) /\ settled'[s] = Append(settled[s], e)
    <2>1. Append(settled[s], e) = settled[s] \o <<e>>
      BY <1>1, <1>4, AppendIsConcat
    <2> QED  BY <1>4, <1>5, <2>1 DEF Joined
  <1>8. View(s) = Joined(settled'[s], queue[s])
    BY <1>7 DEF View
  <1>9. PlaceInv(s)'
    <2>1. Len(<<>>) <= 1
      BY EmptySeq
    <2> QED  BY <1>2, <1>3, <1>5, <2>1 DEF PlaceInv
  <1>10. WaitingInv(s)'
    BY <1>2, <1>5 DEF WaitingInv, Gone
  <1>11. ViewInv(s)'
    <2>1. settled'[s] \in Seq(Event)
      <3>1. Append(settled[s], e) \in Seq(Event)
        BY <1>1, <1>4, AppendProperties
      <3> QED  BY <1>7, <3>1
    <2>2. Joined(settled'[s], <<>>) = settled'[s]
      BY <2>1, JoinedFacts
    <2>3. View(s)' = View(s)
      BY <1>5, <1>8, <2>2 DEF View
    <2> QED  BY <1>2, <1>5, <2>3, SameView DEF Gone
  <1>12. BooksInv(s)'
    <2> SUFFICES ASSUME NEW x \in Event
                 PROVE  /\ calls[s][x] <= MaxRetries
                        /\ <<s, x>> \in deadLetter' => calls[s][x] = MaxRetries
                        /\ (\E i \in DOMAIN settled'[s] : settled'[s][i] = x) => calls[s][x] > 0
      BY <1>5 DEF BooksInv
    <2>1. calls[s][e] = attempt[s] /\ attempt[s] > 0
      BY <1>2, <1>3 DEF WaitingInv, e
    <2>2. calls[s][x] <= MaxRetries
      BY <1>2 DEF BooksInv
    <2>3. <<s, x>> \in deadLetter' => calls[s][x] = MaxRetries
      <3>1. CASE <<s, x>> \in deadLetter
        BY <1>2, <3>1 DEF BooksInv
      <3>2. ASSUME <<s, x>> \in deadLetter', <<s, x>> \notin deadLetter
            PROVE  calls[s][x] = MaxRetries
        <4>1. x = e /\ LastAttempt(s)
          BY <3>2 DEF e
        <4> QED  BY <2>1, <4>1 DEF LastAttempt
      <3> QED  BY <3>1, <3>2
    <2>4. ASSUME NEW i \in DOMAIN settled'[s], settled'[s][i] = x PROVE calls[s][x] > 0
      <3>1. Len(settled[s]) \in Nat /\ DOMAIN settled[s] = 1 .. Len(settled[s])
        BY <1>1, LenProperties
      <3>2. /\ DOMAIN settled'[s] = 1 .. Len(settled[s]) + 1
            /\ settled'[s][Len(settled[s]) + 1] = e
            /\ \A j \in 1 .. Len(settled[s]) : settled'[s][j] = settled[s][j]
        <4> DEFINE z == Append(settled[s], e)
        <4>1. /\ z \in Seq(Event) /\ Len(z) = Len(settled[s]) + 1
              /\ z[Len(settled[s]) + 1] = e
              /\ \A j \in 1 .. Len(settled[s]) : z[j] = settled[s][j]
          BY <1>1, <1>4, AppendProperties
        <4> HIDE DEF z
        <4>2. DOMAIN z = 1 .. Len(settled[s]) + 1
          BY <4>1, LenProperties
        <4>3. settled'[s] = z
          BY <1>7 DEF z
        <4> QED  BY <4>1, <4>2, <4>3
      <3>3. CASE i = Len(settled[s]) + 1
        BY <2>1, <2>4, <3>2, <3>3
      <3>4. CASE i # Len(settled[s]) + 1
        <4>1. i \in DOMAIN settled[s] /\ settled[s][i] = x
          BY <2>4, <3>1, <3>2, <3>4
        <4> QED  BY <1>2, <4>1 DEF BooksInv
      <3> QED  BY <3>3, <3>4
    <2> QED  BY <2>2, <2>3, <2>4
  <1>13. CountInv'
    <2>1. \A r \in Subscription \ {s} : held'[r] = held[r]
      BY <1>6 DEF Elsewhere
    <2> QED  BY <1>3, <1>5, <2>1, CountChange DEF IInv
  <1> QED  BY <1>4, <1>6, <1>7, <1>8, <1>9, <1>10, <1>11, <1>12, <1>13 DEF SubInv, e

LEMMA TryAgainStep ==
    ASSUME IInv, NEW s \in Subscription, TryAgain(s)
    PROVE  Elsewhere(s) /\ SubInv(s)' /\ CountInv'
  <1> DEFINE e == held[s][1]
  <1>1. /\ TypeOK /\ published \in Nat /\ calls[s] \in [Event -> Nat]
        /\ held[s] \in Seq(Event) /\ queue[s] \in Seq(Event) /\ attempt[s] \in 0 .. MaxRetries
        /\ MaxRetries \in Nat
    BY Types, MaxRetriesAssumption DEF IInv, TypeOK
  <1>2. PlaceInv(s) /\ WaitingInv(s) /\ ViewInv(s) /\ BooksInv(s)
    BY DEF IInv, SubInv
  <1>3. /\ UNCHANGED <<groups, topicOf, queue, cancelled, busy, published, log, start, mark,
                       held, inflight, deadLetter, settled>>
        /\ ~ Gone(s) /\ ~ Gone(s)' /\ consumer[s] = "backoff" /\ attempt[s] # MaxRetries
    BY DEF TryAgain, Resumable, Gone, LastAttempt, draining
  <1>4. held[s] # <<>> /\ topicOf[s] # None /\ e \in Event
    BY <1>1, <1>2, <1>3, EmptySeq, ElementOfSeq DEF PlaceInv
  <1>5. /\ consumer'[s] = "handling" /\ attempt'[s] = attempt[s] + 1
        /\ calls'[s] = [calls[s] EXCEPT ![e] = calls[s][e] + 1]
    BY <1>1 DEF TryAgain, Call, TypeOK
  <1>6. Elsewhere(s)
    BY <1>1, <1>3 DEF TryAgain, Call, TypeOK, Elsewhere
  <1> HIDE DEF e
  <1>7. /\ calls[s][e] = attempt[s] /\ attempt[s] > 0 /\ calls'[s][e] = attempt[s] + 1
        /\ attempt[s] < MaxRetries
        /\ \A x \in Event \ {e} : calls'[s][x] = calls[s][x]
    <2>1. calls[s][e] = attempt[s] /\ attempt[s] > 0
      BY <1>2, <1>4 DEF WaitingInv, e
    <2>2. attempt[s] < MaxRetries
      BY <1>1, <1>3
    <2> QED  BY <1>1, <1>4, <1>5, <2>1, <2>2
  <1>8. PlaceInv(s)' /\ ViewInv(s)'
    <2>1. PlaceInv(s)'
      BY <1>2, <1>3, <1>4, <1>5 DEF PlaceInv
    <2> QED  BY <1>2, <1>3, <2>1, SameView DEF View
  <1>9. WaitingInv(s)'
    <2>1. \A i \in 1 .. Len(queue[s]) : queue[s][i] \in Event /\ calls[s][queue[s][i]] = 0
      BY <1>1, <1>2, <1>3, ElementOfSeq DEF WaitingInv
    <2>2. \A i \in 1 .. Len(queue[s]) : calls'[s][queue[s][i]] = 0
      <3>1. calls[s][e] # 0
        BY <1>1, <1>7
      <3> QED  BY <1>7, <2>1, <3>1
    <2>3. \A x \in Event : x > published => calls'[s][x] = 0
      <3>1. \A x \in Event : x > published => calls[s][x] = 0
        BY <1>2 DEF WaitingInv
      <3>2. calls[s][e] # 0
        BY <1>1, <1>7
      <3> QED  BY <1>7, <3>1, <3>2
    <2>4. held'[s] # <<>> => calls'[s][held'[s][1]] = attempt'[s] /\ attempt'[s] > 0
      BY <1>1, <1>3, <1>5, <1>7 DEF e
    <2> QED  BY <1>2, <1>3, <2>2, <2>3, <2>4 DEF WaitingInv
  <1>10. BooksInv(s)'
    <2> SUFFICES ASSUME NEW x \in Event
                 PROVE  /\ calls'[s][x] <= MaxRetries
                        /\ <<s, x>> \in deadLetter => calls'[s][x] = MaxRetries
                        /\ (\E i \in DOMAIN settled[s] : settled[s][i] = x) => calls'[s][x] > 0
      BY <1>3 DEF BooksInv
    <2>1. CASE x = e
      <3>1. <<s, e>> \notin deadLetter
        BY <1>1, <1>2, <1>4, <1>7 DEF BooksInv
      <3> QED  BY <1>1, <1>7, <2>1, <3>1
    <2>2. CASE x # e
      BY <1>2, <1>7, <2>2 DEF BooksInv
    <2> QED  BY <2>1, <2>2
  <1>11. CountInv'
    BY <1>3 DEF IInv, CountInv, Delivering
  <1> QED  BY <1>6, <1>8, <1>9, <1>10, <1>11 DEF SubInv

LEMMA CancelLandsStep ==
    ASSUME IInv, NEW s \in Subscription, CancelLands(s)
    PROVE  Elsewhere(s) /\ SubInv(s)' /\ CountInv'
  <1>1. /\ TypeOK /\ inflight \in Int /\ held[s] \in Seq(Event)
    BY DEF IInv, TypeOK
  <1>2. PlaceInv(s) /\ WaitingInv(s) /\ BooksInv(s)
    BY DEF IInv, SubInv
  <1>3. /\ UNCHANGED <<groups, topicOf, queue, cancelled, busy, published, log, start, mark,
                       deadLetter, settled, calls>>
        /\ Gone(s)' /\ inflight' = inflight - Len(held[s])
    BY NoneAssumption DEF CancelLands, Gone, draining, history
  <1>4. /\ consumer'[s] = "ended" /\ held'[s] = <<>> /\ attempt'[s] = 0
    BY <1>1 DEF CancelLands, TypeOK
  <1>5. Elsewhere(s)
    BY <1>1, <1>3 DEF CancelLands, TypeOK, Elsewhere
  <1>6. PlaceInv(s)'
    <2>1. Len(<<>>) <= 1
      BY EmptySeq
    <2>2. topicOf[s] # None /\ busy' # s
      BY <1>2, <1>3, NoneAssumption DEF PlaceInv, CancelLands
    <2> QED  BY <1>2, <1>3, <1>4, <2>1, <2>2 DEF PlaceInv
  <1>7. WaitingInv(s)' /\ ViewInv(s)' /\ BooksInv(s)'
    BY <1>2, <1>3, <1>4 DEF WaitingInv, ViewInv, BooksInv
  <1>8. CountInv'
    <2>1. \A r \in Subscription \ {s} : held'[r] = held[r]
      BY <1>5 DEF Elsewhere
    <2>2. CASE held[s] = <<>>
      <3>1. Len(held[s]) = 0
        BY <2>2, EmptySeq
      <3>2. inflight' = inflight
        BY <1>1, <1>3, <3>1
      <3> QED  BY <1>4, <2>1, <2>2, <3>2, CountChange DEF IInv
    <2>3. CASE held[s] # <<>>
      <3>1. Len(held[s]) = 1
        <4>1. Len(held[s]) \in Nat \ {0} /\ Len(held[s]) <= 1
          BY <1>1, <1>2, <2>3, EmptySeq DEF PlaceInv
        <4> QED  BY <4>1, AtMostOne
      <3> QED  BY <1>3, <1>4, <2>1, <2>3, <3>1, CountChange DEF IInv
    <2> QED  BY <2>2, <2>3
  <1> QED  BY <1>5, <1>6, <1>7, <1>8 DEF SubInv

LEMMA ConsumeStep ==
    ASSUME IInv, NEW s \in Subscription, Consume(s)
    PROVE  Elsewhere(s) /\ SubInv(s)' /\ CountInv'
  <1>1. CASE HandlerReturns(s)
    BY <1>1, SettleStep DEF HandlerReturns, Resumable, Gone
  <1>2. CASE DeadLetter(s)
    <2>1. busy # s
      BY <1>2 DEF DeadLetter, IInv, SubInv, PlaceInv
    <2> QED  BY <1>2, <2>1, SettleStep DEF DeadLetter, Resumable, Gone
  <1> QED  BY <1>1, <1>2, BeginStep, TakeStep, SuspendStep, TryAgainStep, CancelLandsStep
           DEF Consume

-----------------------------------------------------------------------------
(* The invariant.                                                          *)

LEMMA InitInv == Init => IInv
  <1> SUFFICES ASSUME Init PROVE IInv
    OBVIOUS
  <1>1. TypeOK
    <2>1. <<>> \in Seq(Event)
      BY EmptySeq
    <2> QED  BY <2>1, MaxRetriesAssumption, MaxEventsAssumption DEF Init, TypeOK, Consumer
  <1>2. RegistryInv
    BY DEF Init, RegistryInv
  <1>3. CountInv
    BY FS_EmptySet DEF Init, CountInv, Delivering
  <1>4. MarkInv
    BY EmptySeq DEF Init, MarkInv
  <1>5. ASSUME NEW s \in Subscription PROVE SubInv(s)
    <2>1. /\ topicOf[s] = None /\ queue[s] = <<>> /\ held[s] = <<>> /\ settled[s] = <<>>
          /\ consumer[s] = "unborn" /\ ~ cancelled[s] /\ deadLetter = {} /\ busy # s
          /\ \A e \in Event : calls[s][e] = 0
      BY NoneAssumption DEF Init
    <2>2. Len(<<>>) = 0 /\ DOMAIN <<>> = {}
      BY EmptySeq
    <2>3. PlaceInv(s) /\ ViewInv(s)
      BY <2>1, <2>2 DEF PlaceInv, ViewInv
    <2>4. WaitingInv(s)
      BY <2>1, <2>2 DEF WaitingInv
    <2>5. BooksInv(s)
      BY <2>1, <2>2, MaxRetriesAssumption DEF BooksInv
    <2> QED  BY <2>3, <2>4, <2>5 DEF SubInv
  <1> QED  BY <1>1, <1>2, <1>3, <1>4, <1>5 DEF IInv

LEMMA InvStep == IInv /\ [Next]_vars => IInv'
  <1> SUFFICES ASSUME IInv, [Next]_vars
               PROVE  /\ RegistryInv' /\ CountInv' /\ MarkInv'
                      /\ \A s \in Subscription : SubInv(s)'
    BY TypeStep DEF IInv
  <1>1. ASSUME NEW t \in Topic, NEW g \in Group, NEW s \in Subscription, Subscribe(t, g, s)
        PROVE  /\ RegistryInv' /\ CountInv' /\ MarkInv'
               /\ \A r \in Subscription : SubInv(r)'
    BY <1>1, SubscribeStep
  <1>2. CASE UNCHANGED vars
    <2>1. \A s \in Subscription : SubInv(s)'
      BY <1>2, SubFrame DEF vars, IInv, RegisteredTo
    <2> QED  BY <1>2, <2>1 DEF vars, IInv, RegistryInv, RegisteredTo, CountInv, Delivering, MarkInv
  <1>3. ASSUME NEW s \in Subscription, Consume(s)
        PROVE  /\ RegistryInv' /\ CountInv' /\ MarkInv'
               /\ \A r \in Subscription : SubInv(r)'
    BY <1>3, ConsumeStep, OwnStep
  <1> QED  BY <1>1, <1>2, <1>3, PublishStep, UnsubscribeStep, ShutdownStep, DrainStep DEF Next

-----------------------------------------------------------------------------
(* What follows from it.                                                   *)

\* The state of the bus is well formed (EventBus and its groups).
THEOREM TypeCorrect == Spec => []TypeOK
  BY InitInv, InvStep, PTL DEF Spec, IInv

\* A subscription that is not cancelled has all of the log since it joined.
LEMMA WholeView ==
    ASSUME IInv, NEW s \in Subscription, topicOf[s] # None, ~ cancelled[s]
    PROVE  View(s) = Stretch(log[topicOf[s]], start[s])
  <1>1. TypeOK /\ ViewInv(s) /\ s \in RegisteredTo(topicOf[s])
    BY DEF IInv, SubInv, RegistryInv
  <1>2. Covers(s, <<>>)
    BY <1>1 DEF ViewInv, Gone, Covers
  <1>3. View(s) \in Seq(Event)
    <2>1. settled[s] \in Seq(Event) /\ held[s] \in Seq(Event) /\ queue[s] \in Seq(Event)
      BY <1>1, Types
    <2>2. Joined(settled[s], held[s]) \in Seq(Event)
      BY <2>1, JoinedFacts
    <2> QED  BY <2>1, <2>2, JoinedFacts DEF View
  <1>4. Joined(View(s), <<>>) = View(s)
    BY <1>3, JoinedFacts
  <1> QED  BY <1>2, <1>4 DEF Covers

\* Whatever the number of groups, events, failures and cancellations: nothing
\* published since a group joined a topic is lost, repeated or overtaken while it
\* is subscribed (publish, _consume and _deliver).
THEOREM NothingLostHolds == Spec => []NothingLostWhileSubscribed
  <1>1. IInv => NothingLostWhileSubscribed
    BY WholeView DEF View, Joined, Stretch, NothingLostWhileSubscribed
  <1> QED  BY <1>1, InitInv, InvStep, PTL DEF Spec

\* Whatever the budget of attempts: _inflight is the number of deliveries under
\* way, no event is handed to a handler more often than the budget says, and a
\* dead letter was handed to it exactly that often.
THEOREM DeliveriesAccountedHolds == Spec => []DeliveriesAccounted
  <1>1. IInv => DeliveriesAccounted
    <2> SUFFICES ASSUME IInv PROVE DeliveriesAccounted
      OBVIOUS
    <2>1. inflight = Cardinality({s \in Subscription : held[s] # <<>>})
      BY DEF IInv, CountInv, Delivering
    <2>2. \A s \in Subscription : BooksInv(s)
      BY DEF IInv, SubInv
    <2> QED  BY <2>1, <2>2 DEF BooksInv, DeliveriesAccounted
  <1> QED  BY <1>1, InitInv, InvStep, PTL DEF Spec

LEMMA StretchFacts ==
    ASSUME NEW S, NEW l \in Seq(S), NEW n \in 0 .. Len(l)
    PROVE  /\ Stretch(l, n) \in Seq(S) /\ Len(Stretch(l, n)) = Len(l) - n
           /\ \A i \in 1 .. Len(l) - n : Stretch(l, n)[i] = l[n + i]
  <1>1. Len(l) \in Nat /\ n \in Nat /\ n <= Len(l)
    BY LenProperties
  <1>2. \A i \in n + 1 .. Len(l) : l[i] \in S
    <2>1. \A i \in n + 1 .. Len(l) : i \in 1 .. Len(l)
      BY <1>1
    <2> QED  BY <2>1, ElementOfSeq
  <1>3. n + 1 \in Int /\ Len(l) \in Int
    BY <1>1
  <1> DEFINE m == n + 1
             z == SubSeq(l, m, Len(l))
  <1>4. /\ z \in Seq(S)
        /\ Len(z) = (IF m <= Len(l) THEN Len(l) - m + 1 ELSE 0)
        /\ \A i \in 1 .. Len(l) - m + 1 : z[i] = l[m + i - 1]
    <2> HIDE DEF m
    <2>1. m \in Int /\ \A i \in m .. Len(l) : l[i] \in S
      BY <1>2, <1>3 DEF m
    <2> QED  BY <1>3, <2>1, SubSeqProperties
  <1>5. Len(z) = Len(l) - n
    BY <1>1, <1>4
  <1>6. \A i \in 1 .. Len(l) - n : z[i] = l[n + i]
    <2>1. \A i \in 1 .. Len(l) - n : i \in 1 .. Len(l) - m + 1 /\ m + i - 1 = n + i
      BY <1>1
    <2> HIDE DEF z, m
    <2> QED  BY <1>4, <2>1
  <1> QED  BY <1>4, <1>5, <1>6 DEF Stretch

\* A drain that finds the bus idle has waited for every event published before it
\* began, to every group still subscribed, however many groups and drains.
THEOREM DrainWaitsForAllHolds == Spec => DrainWaitsForAll
  <1> DEFINE A == \A d \in Drainer : (drain[d] = "polling" /\ drain'[d] = "idle") =>
                     \A s \in Registered :
                        cancelled[s] \/ start[s] + Len(settled[s]) >= mark[d][topicOf[s]]
  <1>1. IInv /\ [Next]_vars => [A]_vars
    <2> SUFFICES ASSUME IInv, Next, NEW d \in Drainer, drain[d] = "polling", drain'[d] = "idle",
                        NEW s \in Registered, ~ cancelled[s]
                 PROVE  start[s] + Len(settled[s]) >= mark[d][topicOf[s]]
      OBVIOUS
    <2>1. Idle
      <3>1. CASE \E c \in Drainer : DrainIdle(c)
        BY <3>1 DEF DrainIdle
      <3>2. CASE \E c \in Drainer : StartDrain(c) \/ DrainTimeout(c)
        BY <3>2 DEF StartDrain, DrainTimeout, IInv, TypeOK
      <3>3. CASE drain' = drain
        BY <3>3
      <3> QED  BY <3>1, <3>2, <3>3 DEF Next, Publish, Subscribe, Unsubscribe, Shutdown, Consume,
                  Begin, Take, HandlerReturns, HandlerRaises, TryAgain, DeadLetter, Suspends,
                  CancelLands, Settle, draining
    <2>2. /\ TypeOK /\ s \in Subscription /\ topicOf[s] \in Topic /\ topicOf[s] # None
          /\ queue[s] = <<>>
      <3>1. s \in Subscription /\ topicOf[s] \in Topic /\ TypeOK
        <4>1. PICK u \in Topic, g \in Group : s = groups[<<u, g>>] /\ s # None
          BY DEF Registered
        <4>2. groups[<<u, g>>] \in Subscription \cup {None} /\ TypeOK
          BY DEF IInv, TypeOK
        <4> QED  BY <4>1, <4>2 DEF IInv, RegistryInv
      <3> QED  BY <2>1, <3>1, NoneAssumption DEF Idle
    <2>3. held[s] = <<>>
      <3>1. IsFiniteSet(Delivering)
        BY SubscriptionAssumption, FS_Subset DEF Delivering
      <3>2. Delivering = {}
        BY <2>1, <3>1, FS_EmptySet DEF Idle, IInv, CountInv
      <3> QED  BY <2>2, <3>2 DEF Delivering
    <2> DEFINE t == topicOf[s]
    <2>4. /\ settled[s] \in Seq(Event) /\ log[t] \in Seq(Event) /\ start[s] \in Nat
          /\ Len(log[t]) \in Nat /\ start[s] <= Len(log[t])
          /\ mark[d][t] \in Nat /\ mark[d][t] <= Len(log[t])
      BY <2>2, Types DEF IInv, SubInv, PlaceInv, MarkInv, TypeOK
    <2>5. Joined(Joined(settled[s], <<>>), <<>>) = Stretch(log[t], start[s])
      BY <2>2, <2>3, WholeView DEF View
    <2>6. Joined(Joined(settled[s], <<>>), <<>>) = settled[s]
      BY <2>4, JoinedFacts
    <2>7. start[s] \in 0 .. Len(log[t])
      BY <2>4
    <2>8. Len(settled[s]) = Len(log[t]) - start[s]
      <3>1. Len(Stretch(log[t], start[s])) = Len(log[t]) - start[s]
        <4> HIDE DEF t
        <4> QED  BY <2>4, <2>7, StretchFacts
      <3> QED  BY <2>5, <2>6, <3>1
    <2> HIDE DEF t
    <2>9. start[s] + Len(settled[s]) >= mark[d][t]
      BY <2>4, <2>8
    <2> QED  BY <2>9 DEF t
  <1> QED  BY <1>1, InitInv, InvStep, PTL DEF Spec, DrainWaitsForAll

-----------------------------------------------------------------------------
(* The order of the log.                                                   *)

LEMMA ReadsNext ==
    ASSUME NEW S, NEW a \in Seq(S), NEW e \in S, NEW q \in Seq(S), NEW l \in Seq(S),
           NEW n \in 0 .. Len(l),
           Joined(Append(a, e), q) = Stretch(l, n)
    PROVE  n + Len(a) + 1 <= Len(l) /\ l[n + Len(a) + 1] = e
  <1> DEFINE b == Append(a, e)
             k == Len(a) + 1
  <1>1. /\ b \in Seq(S) /\ Len(b) = k /\ b[k] = e /\ Len(a) \in Nat /\ Len(q) \in Nat
        /\ Len(l) \in Nat /\ n \in Nat
    BY AppendProperties, LenProperties
  <1> HIDE DEF b
  <1>2. /\ Len(b \o q) = Len(b) + Len(q)
        /\ \A i \in 1 .. Len(b) + Len(q) : (b \o q)[i] = IF i <= Len(b) THEN b[i] ELSE q[i - Len(b)]
    BY <1>1, ConcatProperties
  <1>3. k \in 1 .. Len(b) + Len(q) /\ k <= Len(b)
    BY <1>1
  <1>4. Joined(b, q)[k] = e /\ Len(Joined(b, q)) = k + Len(q)
    BY <1>1, <1>2, <1>3 DEF Joined
  <1>5. /\ Len(Stretch(l, n)) = Len(l) - n
        /\ \A i \in 1 .. Len(l) - n : Stretch(l, n)[i] = l[n + i]
    BY StretchFacts
  <1>6. k + Len(q) = Len(l) - n
    BY <1>4, <1>5 DEF b
  <1>7. k \in 1 .. Len(l) - n /\ n + k = n + Len(a) + 1
    BY <1>1, <1>6
  <1>8. l[n + k] = e
    BY <1>4, <1>5, <1>7 DEF b
  <1> QED  BY <1>1, <1>6, <1>7, <1>8

\* The event a subscription has in hand, or takes next, is the next of its log.
LEMMA NextIsNext ==
    ASSUME IInv, NEW s \in Subscription, topicOf[s] # None, ~ Gone(s),
           NEW e \in Event, NEW q \in Seq(Event),
           View(s) = Joined(Append(settled[s], e), q)
    PROVE  /\ start[s] + Len(settled[s]) + 1 <= Len(log[topicOf[s]])
           /\ log[topicOf[s]][start[s] + Len(settled[s]) + 1] = e
  <1> DEFINE a == settled[s]
             b == Append(a, e)
             l == log[topicOf[s]]
             n == start[s]
  <1>1. PICK rest \in Seq(Event) : Covers(s, rest)
    BY DEF IInv, SubInv, ViewInv
  <1>2. /\ a \in Seq(Event) /\ l \in Seq(Event) /\ n \in 0 .. Len(l)
    BY Types DEF IInv, SubInv, PlaceInv
  <1>3. Joined(Joined(b, q), rest) = Stretch(l, n)
    BY <1>1 DEF Covers
  <1> HIDE DEF a, l, n
  <1>4. b \in Seq(Event)
    BY <1>2, AppendProperties
  <1> HIDE DEF b
  <1>5. Joined(b, Joined(q, rest)) = Stretch(l, n) /\ Joined(q, rest) \in Seq(Event)
    <2>1. Joined(Joined(b, q), rest) = Joined(b, Joined(q, rest))
      BY <1>4, JoinedAssociative
    <2>2. Joined(q, rest) \in Seq(Event)
      BY JoinedFacts
    <2> QED  BY <1>3, <2>1, <2>2
  <1>6. Joined(Append(a, e), Joined(q, rest)) = Stretch(l, n)
    BY <1>5 DEF b
  <1> DEFINE z == Joined(q, rest)
  <1> HIDE DEF z
  <1>7. z \in Seq(Event) /\ Joined(Append(a, e), z) = Stretch(l, n)
    BY <1>5, <1>6 DEF z
  <1>8. n + Len(a) + 1 <= Len(l) /\ l[n + Len(a) + 1] = e
    BY <1>2, <1>7, ReadsNext
  <1> QED  BY <1>8 DEF a, l, n

\* What a consumer with free hands takes is the next of its log, and new to it.
LEMMA TakeIsNext ==
    ASSUME IInv, NEW s \in Subscription, Take(s)
    PROVE  LET e == log[topicOf[s]][start[s] + Len(settled[s]) + 1]
           IN  calls[s][e] = 0 /\ calls'[s] = [calls[s] EXCEPT ![e] = 1]
  <1> DEFINE q == queue[s]
             e == Head(q)
             a == settled[s]
  <1>1. /\ TypeOK /\ PlaceInv(s) /\ WaitingInv(s) /\ ~ Gone(s)
        /\ consumer[s] = "waiting" /\ q # <<>>
        /\ a \in Seq(Event) /\ q \in Seq(Event) /\ calls[s] \in [Event -> Nat]
    BY Types DEF IInv, SubInv, Take, Resumable, Gone
  <1>2. /\ held[s] = <<>> /\ topicOf[s] # None
    BY <1>1 DEF PlaceInv
  <1>3. e \in Event /\ e = q[1] /\ Tail(q) \in Seq(Event) /\ Len(q) \in Nat \ {0}
    BY <1>1, HeadTailProperties, EmptySeq
  <1>4. calls[s][e] = 0
    <2>1. 1 \in 1 .. Len(q)
      BY <1>3
    <2> QED  BY <1>1, <1>3, <2>1 DEF WaitingInv
  <1>5. calls'[s] = [calls[s] EXCEPT ![e] = 1]
    <2>1. calls'[s] = [calls[s] EXCEPT ![e] = calls[s][e] + 1]
      BY <1>1, <1>3 DEF Take, Call, TypeOK
    <2>2. calls[s][e] + 1 = 1
      BY <1>4
    <2> QED  BY <2>1, <2>2
  <1>6. View(s) = Joined(Joined(a, <<>>), q)
    BY <1>2 DEF View
  <1> DEFINE one == <<e>>
             rest == Tail(q)
  <1>7. q = Joined(one, rest) /\ one \in Seq(Event) /\ rest \in Seq(Event)
    BY <1>1, <1>3, JoinedFacts, SeqFacts
  <1>8. Append(a, e) = Joined(a, one)
    BY <1>1, <1>3, AppendIsConcat DEF Joined
  <1> HIDE DEF q, e, a, one, rest
  <1>9. Joined(Joined(a, <<>>), q) = Joined(a, q)
    BY <1>1, JoinedFacts
  <1>10. Joined(Joined(a, one), rest) = Joined(a, Joined(one, rest))
    BY <1>1, <1>7, JoinedAssociative
  <1>11. View(s) = Joined(Append(a, e), rest)
    BY <1>6, <1>7, <1>8, <1>9, <1>10
  <1>12. log[topicOf[s]][start[s] + Len(settled[s]) + 1] = e
    BY <1>1, <1>2, <1>3, <1>7, <1>11, NextIsNext DEF a
  <1> QED  BY <1>4, <1>5, <1>12

\* Whoever has unsubscribed is not called again, unless by its own consumer in
\* the stretch in which its own handler unsubscribed it, and then only for the
\* events it had coming, in order and once each (unsubscribe and _consume), for
\* any number of groups, events and attempts.
THEOREM NoCallAfterUnsubscribeHolds == Spec => NoCallAfterUnsubscribe
  <1> DEFINE Fresh(s) == LET e == log[topicOf[s]][start[s] + Len(settled[s]) + 1]
                         IN  /\ busy = s
                             /\ calls[s][e] = 0
                             /\ calls'[s] = [calls[s] EXCEPT ![e] = 1]
             A == \A s \in Subscription :
                     (topicOf[s] # None /\ s \notin Registered /\ calls'[s] # calls[s])
                        => Fresh(s)
  <1>1. IInv /\ [Next]_vars => [A]_vars
    <2> SUFFICES ASSUME IInv, Next, NEW s \in Subscription, topicOf[s] # None,
                        s \notin Registered, calls'[s] # calls[s]
                 PROVE  Fresh(s)
      OBVIOUS
    <2>1. cancelled[s]
      <3> SUFFICES ASSUME ~ cancelled[s] PROVE FALSE
        OBVIOUS
      <3>1. s \in RegisteredTo(topicOf[s]) /\ topicOf[s] \in Topic
        BY DEF IInv, RegistryInv, TypeOK
      <3> QED  BY <3>1 DEF RegisteredTo, Registered
    <2>2. PICK r \in Subscription : Consume(r)
      BY DEF Next, Publish, Subscribe, Unsubscribe, Shutdown, StartDrain, DrainIdle,
             DrainTimeout, history
    <2>3. r = s
      BY <2>2, ConsumeStep DEF Elsewhere
    <2>4. Take(s) \/ TryAgain(s)
      BY <2>2, <2>3 DEF Consume, Begin, HandlerReturns, HandlerRaises, DeadLetter, Settle,
         Suspends, CancelLands, history
    <2>5. busy = s
      BY <2>1, <2>4 DEF Take, TryAgain, Resumable
    <2>6. consumer[s] # "backoff"
      BY <2>5 DEF IInv, SubInv, PlaceInv
    <2>7. Take(s)
      BY <2>4, <2>6 DEF TryAgain
    <2> QED  BY <2>5, <2>7, TakeIsNext
  <1> QED  BY <1>1, InitInv, InvStep, PTL DEF Spec, NoCallAfterUnsubscribe

-----------------------------------------------------------------------------
(* The bus implements the log.                                             *)

LEMMA SettleIsSee ==
    ASSUME IInv, NEW s \in Subscription, HandlerReturns(s) \/ DeadLetter(s)
    PROVE  Log!See(s)
  <1> DEFINE e == held[s][1]
  <1>1. /\ ~ Gone(s) /\ consumer[s] \in {"handling", "backoff"} /\ Settle(s)
        /\ consumer[s] = "backoff" => DeadLetter(s)
        /\ \/ deadLetter' = deadLetter
           \/ LastAttempt(s) /\ deadLetter' = deadLetter \cup {<<s, held[s][1]>>}
    BY DEF HandlerReturns, DeadLetter, Resumable, Gone
  <1>2. TypeOK /\ PlaceInv(s)
    BY DEF IInv, SubInv
  <1>3. busy = s => consumer[s] = "handling"
    BY <1>1, <1>2 DEF PlaceInv
  <1>4. /\ e \in Event /\ settled'[s] = Append(settled[s], e)
        /\ View(s) = Joined(Append(settled[s], e), queue[s])
    BY <1>1, <1>3, SettleStep
  <1>5. topicOf[s] # None /\ queue[s] \in Seq(Event)
    BY <1>1, <1>2, Types DEF PlaceInv
  <1> HIDE DEF e
  <1>6. /\ start[s] + Len(settled[s]) + 1 <= Len(log[topicOf[s]])
        /\ log[topicOf[s]][start[s] + Len(settled[s]) + 1] = e
    BY <1>1, <1>4, <1>5, NextIsNext
  <1>7. settled' = [settled EXCEPT ![s] = Append(settled[s], e)]
    <2>1. settled' = [settled EXCEPT ![s] = settled[s] \o held[s]]
      BY <1>1 DEF Settle
    <2>2. settled[s] \o held[s] = Append(settled[s], e)
      BY <1>2, <1>4, <2>1 DEF TypeOK
    <2> QED  BY <2>1, <2>2
  <1>8. UNCHANGED <<log, topicOf, start, cancelled, busy>>
    BY <1>1 DEF Settle
  <1>9. \A r \in Subscription : Gone(r)' = Gone(r)
    BY <1>8 DEF Gone
  <1> QED  BY <1>1, <1>5, <1>6, <1>7, <1>8, <1>9 DEF Log!See, Log!NextOf

\* Nobody comes back.
LEMMA LeftGrows ==
    ASSUME UNCHANGED <<log, topicOf, start, settled>>,
           \A s \in Subscription : Gone(s) => Gone(s)'
    PROVE  Log!Leave
  <1> DEFINE L == {s \in Subscription : Gone(s)'}
  <1>1. \A s \in Subscription : Gone(s)' <=> Gone(s) \/ s \in L
    OBVIOUS
  <1>2. L \in SUBSET Subscription
    OBVIOUS
  <1> HIDE DEF L
  <1>3. \A s \in Subscription : Gone(s)' \in BOOLEAN /\ (Gone(s) \/ s \in L) \in BOOLEAN
    BY DEF Gone
  <1>4. [s \in Subscription |-> Gone(s)]' = [s \in Subscription |-> [r \in Subscription |-> Gone(r)][s] \/ s \in L]
    BY <1>1, <1>3
  <1> QED  BY <1>2, <1>4 DEF Log!Leave

\* Every step of the bus is a step of the log, or none.
LEMMA StepIsLogStep == IInv /\ [Next]_vars => [Log!Next]_(Log!vars)
  <1> SUFFICES ASSUME IInv, [Next]_vars PROVE [Log!Next]_(Log!vars)
    OBVIOUS
  <1>1. ASSUME NEW t \in Topic, Publish(t) PROVE Log!Record
    <2>1. published + 1 \in Event
      BY <1>1, MaxEventsAssumption DEF Publish, IInv, TypeOK, Event
    <2>2. log' = [log EXCEPT ![t] = Append(@, published + 1)]
      BY <1>1 DEF Publish
    <2>3. \E u \in Topic, e \in Event : log' = [log EXCEPT ![u] = Append(@, e)]
      BY <2>1, <2>2
    <2> QED  BY <1>1, <2>3 DEF Publish, Log!Record, Gone
  <1>2. ASSUME NEW t \in Topic, NEW g \in Group, NEW s \in Subscription, Subscribe(t, g, s)
        PROVE  Log!Join(s)
    <2>1. topicOf[s] = None
      BY <1>2 DEF Subscribe, IInv, SubInv, PlaceInv
    <2> QED  BY <1>2, <2>1 DEF Subscribe, Log!Join, Gone
  <1>3. ASSUME NEW t \in Topic, NEW g \in Group, Unsubscribe(t, g) PROVE Log!Leave
    <2> DEFINE s == groups[<<t, g>>]
    <2>1. /\ cancelled \in [Subscription -> BOOLEAN]
          /\ cancelled' = [cancelled EXCEPT ![s] = TRUE]
          /\ busy' = busy \/ (busy' = s /\ ~ cancelled[s])
      BY <1>3 DEF Unsubscribe, CalledBy, IInv, TypeOK
    <2>2. UNCHANGED <<log, topicOf, start, settled>>
      BY <1>3 DEF Unsubscribe, history
    <2> HIDE DEF s
    <2>3. \A r \in Subscription : Gone(r) => Gone(r)'
      BY <2>1 DEF Gone
    <2> QED  BY <2>2, <2>3, LeftGrows
  <1>4. CASE Shutdown
    <2>1. busy' = busy \/ ~ cancelled[busy']
      BY <1>4 DEF Shutdown, CalledBy
    <2>2. \A r \in Subscription : cancelled[r] => cancelled'[r]
      BY <1>4 DEF Shutdown
    <2>3. \A r \in Subscription : Gone(r) => Gone(r)'
      BY <2>1, <2>2 DEF Gone
    <2>4. UNCHANGED <<log, topicOf, start, settled>>
      BY <1>4 DEF Shutdown, history
    <2> QED  BY <2>3, <2>4, LeftGrows DEF Log!Next
  <1>5. ASSUME NEW s \in Subscription, Consume(s)
        PROVE  Log!See(s) \/ Log!Leave \/ UNCHANGED Log!vars
    <2>1. CASE HandlerReturns(s) \/ DeadLetter(s)
      BY <2>1, SettleIsSee
    <2>2. CASE Begin(s) \/ Take(s) \/ TryAgain(s) \/ CancelLands(s)
      BY <2>2 DEF Begin, Take, TryAgain, CancelLands, Gone, history, Log!vars
    <2>3. CASE HandlerRaises(s) \/ Suspends(s)
      <3>1. busy' = None /\ UNCHANGED <<cancelled, log, topicOf, start, settled>>
        BY <2>3 DEF HandlerRaises, Suspends, history
      <3>2. \A r \in Subscription : Gone(r) => Gone(r)'
        BY <3>1, NoneAssumption DEF Gone
      <3> QED  BY <3>1, <3>2, LeftGrows
    <2> QED  BY <1>5, <2>1, <2>2, <2>3 DEF Consume
  <1>6. ASSUME NEW d \in Drainer, StartDrain(d) \/ DrainIdle(d) \/ DrainTimeout(d)
        PROVE  UNCHANGED Log!vars
    BY <1>6 DEF StartDrain, DrainIdle, DrainTimeout, core, history, Gone, Log!vars
  <1>7. CASE UNCHANGED vars
    BY <1>7 DEF vars, Gone, Log!vars
  <1> QED  BY <1>1, <1>2, <1>3, <1>4, <1>5, <1>6, <1>7 DEF Next, Log!Next

\* The bus implements the log of every topic: each subscription sees the log from
\* the point where it joined, in order, one event at a time, until it leaves
\* (EventLog), for any topics, groups and number of events.
THEOREM LogSpecHolds == Spec => LogSpec
  <1>1. Init => Log!Init
    BY DEF Init, Log!Init, Gone
  <1> QED  BY <1>1, InitInv, InvStep, StepIsLogStep, PTL DEF Spec, LogSpec, Log!Spec
=============================================================================
