-------------------------- MODULE NmConnection_proofs --------------------------
(* That the followers of the coordinator agree with it, and that an accepted   *)
(* message is held or was sent once, for any messages, slots, queue and number *)
(* of sessions, requests and overlaps.                                         *)
EXTENDS NmConnection, WellFoundedInduction, FiniteSetTheorems, TLAPS

-------------------------------------------------------------------------------
(* The steps there are, and where they are found.                              *)

Coordinating ==
    {<<"decide">>, <<"notify">>} \cup ({"select"} \X ConnectionType)
    \cup ({"conclude"} \X ConnectionType \X BOOLEAN)
    \cup ({"take", "clear"} \X Slots) \cup ({"send"} \X Slots \X Messages)
    \cup ({"look"} \X Transports) \cup ({"tell"} \X Transports \X ConnectivityState)

Switching ==
    {<<"begin">>, <<"connecting">>, <<"endClient">>, <<"stopWorker">>, <<"drain">>, <<"endMqtt">>}

Step ==
    Coordinating \cup Switching
    \cup ({"settle"} \X {"SEARCHING", "STOPPED"}) \cup ({"prefer"} \X ConnectionType)
    \cup ({"hold"} \X Messages)

\* A step of these kinds follows at once from the one before it, or begins.
Immediate == {"select", "conclude", "notify", "send", "clear", "hold", "tell"}

\* A step of these kinds changes the state of ESP-NOW.
Changing == {"begin", "connecting", "settle"}

\* What follows a step, later in its task: a change is decided upon and reported,
\* and the worker stops after its client.
After(kind) ==
    IF kind \in Changing THEN {<<"decide">>, <<"look", "ESP_NOW">>}
    ELSE IF kind = "endClient" THEN {<<"stopWorker">>} ELSE {}

\* What a task may have left to do.
StepsOK(task, q) ==
    /\ q \in Seq(Step)
    /\ \A k \in 2 .. Len(q) : q[k][1] \notin Immediate
    /\ \A k \in 1 .. Len(q) : q[k][1] = "settle" => task = "espnow"
    /\ \A k \in 1 .. Len(q) : \A s \in After(q[k][1]) : \E j \in k + 1 .. Len(q) : q[j] = s

TodoOK ==
    /\ todo \in [Tasks -> Seq(Step)]
    /\ \A task \in Tasks : StepsOK(task, todo[task])

\* The first of the steps is replaced by one,
LEMMA ReplacedFirst ==
    ASSUME NEW task, NEW q, StepsOK(task, q), q # <<>>, NEW x \in Step,
           x[1] = "settle" => task = "espnow",
           After(x[1]) \subseteq After(Head(q)[1])
    PROVE  LET r == <<x>> \o Tail(q)
           IN  /\ StepsOK(task, r) /\ Len(r) = Len(q) /\ r[1] = x
               /\ \A k \in 2 .. Len(q) : r[k] = q[k]
  <1> DEFINE r == <<x>> \o Tail(q)
  <1>1. q \in Seq(Step) /\ Len(q) \in Nat \ {0}
    BY DEF StepsOK
  <1>2. Tail(q) \in Seq(Step) /\ Len(Tail(q)) = Len(q) - 1
        /\ \A k \in 1 .. Len(q) - 1 : Tail(q)[k] = q[k + 1]
    BY <1>1
  <1>3. r \in Seq(Step) /\ Len(r) = Len(q) /\ r[1] = x
        /\ \A k \in 2 .. Len(q) : r[k] = q[k]
    BY <1>1, <1>2
  <1> HIDE DEF r
  <1>4. Head(q) = q[1]
    BY <1>1
  <1>5. \A k \in 2 .. Len(r) : r[k][1] \notin Immediate
    BY <1>3 DEF StepsOK
  <1>6. \A k \in 1 .. Len(r) : r[k][1] = "settle" => task = "espnow"
    BY <1>1, <1>3 DEF StepsOK
  <1>7. ASSUME NEW k \in 1 .. Len(r), NEW s \in After(r[k][1])
        PROVE  \E j \in k + 1 .. Len(r) : r[j] = s
    <2>1. s \in After(q[k][1])
      <3>1. CASE k = 1
        BY <3>1, <1>3, <1>4, <1>7
      <3>2. CASE k # 1
        BY <3>2, <1>3, <1>7
      <3>3. QED  BY <3>1, <3>2
    <2>2. k \in 1 .. Len(q)
      BY <1>3
    <2>3. PICK j \in k + 1 .. Len(q) : q[j] = s
      BY <2>1, <2>2 DEF StepsOK
    <2>4. r[j] = q[j]
      BY <1>1, <1>3
    <2>5. QED  BY <2>3, <2>4, <1>3
  <1>8. StepsOK(task, r)
    BY <1>3, <1>5, <1>6, <1>7 DEF StepsOK
  <1>9. QED  BY <1>3, <1>8 DEF r

\* or goes.
LEMMA WithoutFirst ==
    ASSUME NEW task, NEW q, StepsOK(task, q), q # <<>>
    PROVE  LET r == <<>> \o Tail(q)
           IN  /\ StepsOK(task, r) /\ Len(r) = Len(q) - 1
               /\ \A k \in 1 .. Len(r) : r[k] = q[k + 1]
  <1> DEFINE r == <<>> \o Tail(q)
  <1>1. q \in Seq(Step) /\ Len(q) \in Nat \ {0}
    BY DEF StepsOK
  <1>2. r \in Seq(Step) /\ Len(r) = Len(q) - 1 /\ \A k \in 1 .. Len(r) : r[k] = q[k + 1]
    BY <1>1
  <1> HIDE DEF r
  <1>3. \A k \in 2 .. Len(r) : r[k][1] \notin Immediate
    BY <1>1, <1>2 DEF StepsOK
  <1>4. \A k \in 1 .. Len(r) : r[k][1] = "settle" => task = "espnow"
    BY <1>1, <1>2 DEF StepsOK
  <1>5. ASSUME NEW k \in 1 .. Len(r), NEW s \in After(r[k][1])
        PROVE  \E j \in k + 1 .. Len(r) : r[j] = s
    <2>1. k + 1 \in 1 .. Len(q) /\ s \in After(q[k + 1][1])
      BY <1>1, <1>2, <1>5
    <2>2. PICK j \in k + 1 + 1 .. Len(q) : q[j] = s
      BY <2>1 DEF StepsOK
    <2>3. j - 1 \in k + 1 .. Len(r) /\ r[j - 1] = q[j]
      BY <1>1, <1>2
    <2>4. QED  BY <2>2, <2>3
  <1>6. StepsOK(task, r)
    BY <1>2, <1>3, <1>4, <1>5 DEF StepsOK
  <1>7. QED  BY <1>2, <1>6 DEF r

-------------------------------------------------------------------------------
(* While the tasks keep out of each other's way one of them at most is inside, *)
(* and what it has left changes in one of three ways.                          *)

OneInside == \A a, b \in Tasks : a = b \/ Idle(a) \/ Idle(b)

Waits(task, s) == \E k \in 1 .. Len(todo[task]) : todo[task][k] = s
Pending(s) == \E task \in Tasks : Waits(task, s)
Starting(s) == \E task \in Tasks : ~Idle(task) /\ Head(todo[task]) = s

\* Its first step h is replaced by x,
Swaps(h, x) ==
    /\ OneInside'
    /\ \A s : Starting(s) <=> s = h
    /\ \A s : Starting(s)' <=> s = x
    /\ \A s : Pending(s)' => s = x \/ Pending(s)
    /\ \A s : Pending(s) => s = h \/ Pending(s)'

\* or is done,
Drops(h) ==
    /\ OneInside'
    /\ \A s : Starting(s) <=> s = h
    /\ \A s : Starting(s)' => s[1] \notin Immediate
    /\ \A s : Pending(s)' => Pending(s)
    /\ \A s : Pending(s) => s = h \/ Pending(s)'

\* or a task comes in with these steps.
Comes(steps) ==
    /\ OneInside'
    /\ \A s : ~Pending(s) /\ ~Starting(s)
    /\ \A s : Pending(s)' <=> \E k \in 1 .. Len(steps) : steps[k] = s
    /\ \A s : Starting(s)' <=> steps # <<>> /\ s = steps[1]

LEMMA ThenOneTodo ==
    ASSUME TodoOK, NEW task \in Tasks, ~Idle(task), NEW x \in Step, Then(task, <<x>>),
           x[1] = "settle" => task = "espnow",
           After(x[1]) \subseteq After(Head(todo[task])[1])
    PROVE  /\ TodoOK'
           /\ Len(todo'[task]) = Len(todo[task]) /\ todo'[task][1] = x
           /\ \A k \in 2 .. Len(todo[task]) : todo'[task][k] = todo[task][k]
           /\ \A other \in Tasks \ {task} : todo'[other] = todo[other]
  <1>1. StepsOK(task, todo[task]) /\ todo[task] # <<>>
    BY DEF TodoOK, Idle
  <1>2. todo' = [todo EXCEPT ![task] = <<x>> \o Tail(@)]
    BY DEF Then
  <1>3. todo'[task] = <<x>> \o Tail(todo[task])
        /\ \A other \in Tasks \ {task} : todo'[other] = todo[other]
    BY <1>2 DEF TodoOK
  <1>4. /\ StepsOK(task, todo'[task]) /\ Len(todo'[task]) = Len(todo[task]) /\ todo'[task][1] = x
        /\ \A k \in 2 .. Len(todo[task]) : todo'[task][k] = todo[task][k]
    BY <1>1, <1>3, ReplacedFirst
  <1>5. todo' \in [Tasks -> Seq(Step)]
    BY <1>2, <1>3, <1>4 DEF TodoOK, StepsOK
  <1>6. \A other \in Tasks : StepsOK(other, todo'[other])
    BY <1>3, <1>4 DEF TodoOK
  <1>7. TodoOK'
    BY <1>5, <1>6 DEF TodoOK
  <1>8. QED  BY <1>3, <1>4, <1>7

LEMMA ThenNoneTodo ==
    ASSUME TodoOK, NEW task \in Tasks, ~Idle(task), Then(task, <<>>)
    PROVE  /\ TodoOK'
           /\ Len(todo'[task]) = Len(todo[task]) - 1
           /\ \A k \in 1 .. Len(todo'[task]) : todo'[task][k] = todo[task][k + 1]
           /\ \A other \in Tasks \ {task} : todo'[other] = todo[other]
  <1>1. StepsOK(task, todo[task]) /\ todo[task] # <<>>
    BY DEF TodoOK, Idle
  <1>2. todo' = [todo EXCEPT ![task] = <<>> \o Tail(@)]
    BY DEF Then
  <1>3. todo'[task] = <<>> \o Tail(todo[task])
        /\ \A other \in Tasks \ {task} : todo'[other] = todo[other]
    BY <1>2 DEF TodoOK
  <1>4. /\ StepsOK(task, todo'[task]) /\ Len(todo'[task]) = Len(todo[task]) - 1
        /\ \A k \in 1 .. Len(todo'[task]) : todo'[task][k] = todo[task][k + 1]
    BY <1>1, <1>3, WithoutFirst
  <1>5. todo' \in [Tasks -> Seq(Step)]
    BY <1>2, <1>3, <1>4 DEF TodoOK, StepsOK
  <1>6. \A other \in Tasks : StepsOK(other, todo'[other])
    BY <1>3, <1>4 DEF TodoOK
  <1>7. TodoOK'
    BY <1>5, <1>6 DEF TodoOK
  <1>8. QED  BY <1>3, <1>4, <1>7

LEMMA ThenOneSwaps ==
    ASSUME TodoOK, OneInside, NEW task \in Tasks, ~Idle(task), NEW x \in Step, Then(task, <<x>>),
           x[1] = "settle" => task = "espnow",
           After(x[1]) \subseteq After(Head(todo[task])[1])
    PROVE  Swaps(Head(todo[task]), x)
  <1>1. /\ Len(todo'[task]) = Len(todo[task]) /\ todo'[task][1] = x
        /\ \A k \in 2 .. Len(todo[task]) : todo'[task][k] = todo[task][k]
        /\ \A other \in Tasks \ {task} : todo'[other] = todo[other]
        /\ TodoOK'
    BY ThenOneTodo
  <1>2. todo[task] \in Seq(Step) /\ todo'[task] \in Seq(Step) /\ Len(todo[task]) \in Nat \ {0}
    BY <1>1 DEF TodoOK, Idle
  <1>3. Head(todo[task]) = todo[task][1] /\ Head(todo'[task]) = x /\ ~Idle(task)'
    BY <1>1, <1>2 DEF Idle
  <1>4. \A other \in Tasks \ {task} : Idle(other) /\ Idle(other)'
    BY <1>1 DEF OneInside, Idle
  <1>5. \A other \in Tasks \ {task} : Len(todo[other]) = 0 /\ Len(todo'[other]) = 0
    BY <1>4 DEF Idle
  <1>6. OneInside'
    BY <1>4 DEF OneInside
  <1>7. \A s : Starting(s) <=> s = Head(todo[task])
    BY <1>4 DEF Starting
  <1>8. \A s : Starting(s)' <=> s = x
    BY <1>3, <1>4 DEF Starting
  <1>9. ASSUME NEW s, Pending(s)'  PROVE s = x \/ Pending(s)
    <2>1. PICK k \in 1 .. Len(todo'[task]) : todo'[task][k] = s
      BY <1>5, <1>9 DEF Pending, Waits
    <2>2. CASE k = 1
      BY <2>1, <2>2, <1>1
    <2>3. CASE k # 1
      BY <2>1, <2>3, <1>1, <1>2 DEF Pending, Waits
    <2>4. QED  BY <2>2, <2>3
  <1>10. ASSUME NEW s, Pending(s)  PROVE s = Head(todo[task]) \/ Pending(s)'
    <2>1. PICK k \in 1 .. Len(todo[task]) : todo[task][k] = s
      BY <1>5, <1>10 DEF Pending, Waits
    <2>2. CASE k = 1
      BY <2>1, <2>2, <1>3
    <2>3. CASE k # 1
      BY <2>1, <2>3, <1>1, <1>2 DEF Pending, Waits
    <2>4. QED  BY <2>2, <2>3
  <1>11. QED  BY <1>6, <1>7, <1>8, <1>9, <1>10 DEF Swaps

LEMMA ThenNoneDrops ==
    ASSUME TodoOK, OneInside, NEW task \in Tasks, ~Idle(task), Then(task, <<>>)
    PROVE  Drops(Head(todo[task]))
  <1>1. /\ Len(todo'[task]) = Len(todo[task]) - 1
        /\ \A k \in 1 .. Len(todo'[task]) : todo'[task][k] = todo[task][k + 1]
        /\ \A other \in Tasks \ {task} : todo'[other] = todo[other]
        /\ TodoOK'
    BY ThenNoneTodo
  <1>2. todo[task] \in Seq(Step) /\ todo'[task] \in Seq(Step) /\ Len(todo[task]) \in Nat \ {0}
    BY <1>1 DEF TodoOK, Idle
  <1>3. Head(todo[task]) = todo[task][1]
    BY <1>2
  <1>4. \A other \in Tasks \ {task} : Idle(other) /\ Idle(other)'
    BY <1>1 DEF OneInside, Idle
  <1>5. \A other \in Tasks \ {task} : Len(todo[other]) = 0 /\ Len(todo'[other]) = 0
    BY <1>4 DEF Idle
  <1>6. OneInside'
    BY <1>4 DEF OneInside
  <1>7. \A s : Starting(s) <=> s = Head(todo[task])
    BY <1>4 DEF Starting
  <1>8. ASSUME NEW s, Starting(s)'  PROVE s[1] \notin Immediate
    <2>1. todo'[task] # <<>> /\ Head(todo'[task]) = s
      BY <1>4, <1>8 DEF Starting, Idle
    <2>2. Len(todo'[task]) >= 1 /\ s = todo'[task][1]
      BY <2>1, <1>2
    <2>3. 2 \in 2 .. Len(todo[task]) /\ s = todo[task][2]
      BY <2>2, <1>1, <1>2
    <2>4. QED  BY <2>3 DEF TodoOK, StepsOK
  <1>9. ASSUME NEW s, Pending(s)'  PROVE Pending(s)
    <2>1. PICK k \in 1 .. Len(todo'[task]) : todo'[task][k] = s
      BY <1>5, <1>9 DEF Pending, Waits
    <2>2. k + 1 \in 1 .. Len(todo[task]) /\ todo[task][k + 1] = s
      BY <2>1, <1>1, <1>2
    <2>3. QED  BY <2>2 DEF Pending, Waits
  <1>10. ASSUME NEW s, Pending(s)  PROVE s = Head(todo[task]) \/ Pending(s)'
    <2>1. PICK k \in 1 .. Len(todo[task]) : todo[task][k] = s
      BY <1>5, <1>10 DEF Pending, Waits
    <2>2. CASE k = 1
      BY <2>1, <2>2, <1>3
    <2>3. CASE k # 1
      <3>1. k - 1 \in 1 .. Len(todo'[task]) /\ todo'[task][k - 1] = s
        BY <2>1, <2>3, <1>1, <1>2
      <3>2. QED  BY <3>1 DEF Pending, Waits
    <2>4. QED  BY <2>2, <2>3
  <1>11. QED  BY <1>6, <1>7, <1>8, <1>9, <1>10 DEF Drops

\* What follows the step that was the first is there afterwards.
LEMMA IsFollowed ==
    ASSUME TodoOK, NEW task \in Tasks, ~Idle(task), NEW s \in After(Head(todo[task])[1]),
           \/ Then(task, <<>>)
           \/ \E x \in Step : /\ Then(task, <<x>>) /\ x[1] # "settle"
                             /\ After(x[1]) \subseteq After(Head(todo[task])[1])
    PROVE  Pending(s)'
  <1>1. todo[task] \in Seq(Step) /\ Len(todo[task]) \in Nat \ {0} /\ Head(todo[task]) = todo[task][1]
    BY DEF TodoOK, Idle
  <1>2. 1 \in 1 .. Len(todo[task])
    BY <1>1
  <1> DEFINE q == todo[task]
  <1>a. StepsOK(task, q)
    BY DEF TodoOK
  <1>b. \A k \in 1 .. Len(q) : \A f \in After(q[k][1]) : \E j \in k + 1 .. Len(q) : q[j] = f
    BY ONLY <1>a DEF StepsOK
  <1>c. s \in After(q[1][1])
    BY <1>1
  <1>d. \E j \in 1 + 1 .. Len(q) : q[j] = s
    BY ONLY <1>b, <1>c, <1>2
  <1>3. PICK i \in 1 + 1 .. Len(q) : q[i] = s
    BY <1>d
  <1>4. CASE Then(task, <<>>)
    <2>1. /\ Len(todo'[task]) = Len(todo[task]) - 1
          /\ \A k \in 1 .. Len(todo'[task]) : todo'[task][k] = todo[task][k + 1]
      BY <1>4, ThenNoneTodo
    <2>2. i - 1 \in 1 .. Len(todo'[task]) /\ todo'[task][i - 1] = s
      BY <2>1, <1>1, <1>3
    <2>3. QED  BY <2>2 DEF Pending, Waits
  <1>5. ASSUME NEW x \in Step, Then(task, <<x>>), x[1] # "settle",
               After(x[1]) \subseteq After(Head(todo[task])[1])
        PROVE  Pending(s)'
    <2>1. /\ Len(todo'[task]) = Len(todo[task])
          /\ \A k \in 2 .. Len(todo[task]) : todo'[task][k] = todo[task][k]
      BY <1>5, ThenOneTodo
    <2>2. i \in 1 .. Len(todo'[task]) /\ todo'[task][i] = s
      BY <2>1, <1>1, <1>3
    <2>3. QED  BY <2>2 DEF Pending, Waits
  <1>6. QED  BY <1>4, <1>5

LEMMA BeginsTodo ==
    ASSUME TodoOK, NEW task \in Tasks, NEW steps, StepsOK(task, steps), Begins(task, steps)
    PROVE  /\ TodoOK' /\ Idle(task) /\ todo'[task] = steps
           /\ \A other \in Tasks \ {task} : todo'[other] = todo[other]
  <1>1. Idle(task) /\ todo' = [todo EXCEPT ![task] = steps]
    BY DEF Begins
  <1>2. todo'[task] = steps /\ \A other \in Tasks \ {task} : todo'[other] = todo[other]
    BY <1>1 DEF TodoOK
  <1>3. \A other \in Tasks : StepsOK(other, todo'[other])
    BY <1>2 DEF TodoOK
  <1>4. steps \in Seq(Step)
    BY DEF StepsOK
  <1>5. todo' \in [Tasks -> Seq(Step)]
    BY <1>1, <1>4 DEF TodoOK
  <1>6. TodoOK'
    BY <1>3, <1>5 DEF TodoOK
  <1>7. QED  BY <1>1, <1>2, <1>6

LEMMA BeginsComes ==
    ASSUME TodoOK, NEW task \in Tasks, NEW steps, StepsOK(task, steps), Begins(task, steps),
           overlaps \in Nat, overlaps' = 0
    PROVE  overlaps = 0 /\ Comes(steps)
  <1>1. /\ Idle(task) /\ todo'[task] = steps
        /\ \A other \in Tasks \ {task} : todo'[other] = todo[other]
    BY BeginsTodo
  <1>2. overlaps = 0 /\ Alone(task)
    BY DEF Begins
  <1>3. \A other \in Tasks : Idle(other)
    BY <1>1, <1>2 DEF Alone
  <1>4. \A other \in Tasks \ {task} : Idle(other)'
    BY <1>1, <1>2 DEF Alone, Idle
  <1>5. \A other \in Tasks : Len(todo[other]) = 0
    BY <1>3 DEF Idle
  <1>6. \A other \in Tasks \ {task} : Len(todo'[other]) = 0
    BY <1>4 DEF Idle
  <1>7. OneInside'
    BY <1>4 DEF OneInside
  <1>8. \A s : ~Pending(s) /\ ~Starting(s)
    BY <1>3, <1>5 DEF Pending, Waits, Starting
  <1>9. \A s : Pending(s)' <=> \E k \in 1 .. Len(steps) : steps[k] = s
    BY <1>1, <1>6 DEF Pending, Waits
  <1>10. steps # <<>> => Head(steps) = steps[1]
    BY DEF StepsOK
  <1>11. \A s : Starting(s)' <=> steps # <<>> /\ s = steps[1]
    BY <1>1, <1>4, <1>10 DEF Starting, Idle
  <1>12. QED  BY <1>2, <1>7, <1>8, <1>9, <1>11 DEF Comes

-------------------------------------------------------------------------------
(* The lists of steps that tasks begin with.                                   *)

Has(q, s) == \E k \in 1 .. Len(q) : q[k] = s

LEMMA JoinedHas ==
    ASSUME NEW p \in Seq(Step), NEW q \in Seq(Step), NEW s
    PROVE  Has(p \o q, s) <=> Has(p, s) \/ Has(q, s)
  <1>1. /\ Len(p) \in Nat /\ Len(q) \in Nat /\ Len(p \o q) = Len(p) + Len(q)
        /\ \A k \in 1 .. Len(p) : (p \o q)[k] = p[k]
        /\ \A k \in Len(p) + 1 .. Len(p) + Len(q) : (p \o q)[k] = q[k - Len(p)]
    OBVIOUS
  <1>2. ASSUME Has(p \o q, s)  PROVE Has(p, s) \/ Has(q, s)
    <2>1. PICK k \in 1 .. Len(p \o q) : (p \o q)[k] = s
      BY <1>2 DEF Has
    <2>2. CASE k <= Len(p)
      BY <2>1, <2>2, <1>1 DEF Has
    <2>3. CASE k > Len(p)
      <3>1. k - Len(p) \in 1 .. Len(q) /\ q[k - Len(p)] = s
        BY <2>1, <2>3, <1>1
      <3>2. QED  BY <3>1 DEF Has
    <2>4. QED  BY <2>2, <2>3, <2>1, <1>1
  <1>3. ASSUME Has(p, s)  PROVE Has(p \o q, s)
    <2>1. PICK k \in 1 .. Len(p) : p[k] = s
      BY <1>3 DEF Has
    <2>2. k \in 1 .. Len(p \o q) /\ (p \o q)[k] = s
      BY <2>1, <1>1
    <2>3. QED  BY <2>2 DEF Has
  <1>4. ASSUME Has(q, s)  PROVE Has(p \o q, s)
    <2>1. PICK k \in 1 .. Len(q) : q[k] = s
      BY <1>4 DEF Has
    <2>2. k + Len(p) \in 1 .. Len(p \o q) /\ k + Len(p) \in Len(p) + 1 .. Len(p) + Len(q)
          /\ k + Len(p) - Len(p) = k
      BY <2>1, <1>1
    <2>3. (p \o q)[k + Len(p)] = s
      BY <2>1, <2>2, <1>1
    <2>4. QED  BY <2>2, <2>3 DEF Has
  <1>5. QED  BY <1>2, <1>3, <1>4

\* Steps that begin with none of Immediate may follow others.
Open(task, q) == StepsOK(task, q) /\ q # <<>> /\ q[1][1] \notin Immediate

LEMMA JoinedSteps ==
    ASSUME NEW task \in Tasks, NEW p, NEW q, Open(task, p), Open(task, q)
    PROVE  Open(task, p \o q) /\ (p \o q)[1] = p[1]
  <1> DEFINE r == p \o q
  <1>1. /\ p \in Seq(Step) /\ q \in Seq(Step) /\ Len(p) \in Nat \ {0} /\ Len(q) \in Nat \ {0}
        /\ r \in Seq(Step) /\ Len(r) = Len(p) + Len(q)
        /\ \A k \in 1 .. Len(p) : r[k] = p[k]
        /\ \A k \in Len(p) + 1 .. Len(p) + Len(q) : r[k] = q[k - Len(p)]
    BY DEF StepsOK, Open
  <1> HIDE DEF r
  <1>2. r # <<>> /\ r[1] = p[1]
    BY <1>1
  <1>3. ASSUME NEW k \in 1 .. Len(r), k > Len(p)
        PROVE  k - Len(p) \in 1 .. Len(q) /\ r[k] = q[k - Len(p)]
    BY <1>1, <1>3
  <1>4. ASSUME NEW k \in 2 .. Len(r)  PROVE r[k][1] \notin Immediate
    <2>1. CASE k <= Len(p)
      BY <2>1, <1>1 DEF StepsOK, Open
    <2>2. CASE k = Len(p) + 1
      <3>1. k - Len(p) = 1 /\ r[k] = q[k - Len(p)]
        BY <2>2, <1>1
      <3>2. QED  BY <3>1 DEF Open
    <2>3. CASE k > Len(p) + 1
      <3>1. k - Len(p) \in 2 .. Len(q) /\ r[k] = q[k - Len(p)]
        BY <2>3, <1>1
      <3>2. QED  BY <3>1 DEF StepsOK, Open
    <2>4. QED  BY <2>1, <2>2, <2>3, <1>1
  <1>5. ASSUME NEW k \in 1 .. Len(r), r[k][1] = "settle"  PROVE task = "espnow"
    <2>1. CASE k <= Len(p)
      BY <2>1, <1>1, <1>5 DEF StepsOK, Open
    <2>2. CASE k > Len(p)
      BY <2>2, <1>3, <1>5 DEF StepsOK, Open
    <2>3. QED  BY <2>1, <2>2, <1>1
  <1>6. ASSUME NEW k \in 1 .. Len(r), NEW s \in After(r[k][1])
        PROVE  \E j \in k + 1 .. Len(r) : r[j] = s
    <2>1. CASE k <= Len(p)
      <3>1. k \in 1 .. Len(p) /\ s \in After(p[k][1])
        BY <2>1, <1>1, <1>6
      <3>2. PICK j \in k + 1 .. Len(p) : p[j] = s
        BY <3>1 DEF StepsOK, Open
      <3>3. j \in k + 1 .. Len(r) /\ r[j] = p[j]
        BY <1>1
      <3>4. QED  BY <3>2, <3>3
    <2>2. CASE k > Len(p)
      <3>1. k - Len(p) \in 1 .. Len(q) /\ s \in After(q[k - Len(p)][1])
        BY <2>2, <1>3, <1>6
      <3>2. PICK j \in k - Len(p) + 1 .. Len(q) : q[j] = s
        BY <3>1 DEF StepsOK, Open
      <3>3. j + Len(p) \in k + 1 .. Len(r) /\ j + Len(p) \in Len(p) + 1 .. Len(p) + Len(q)
            /\ j + Len(p) - Len(p) = j
        BY <2>2, <1>1
      <3>4. r[j + Len(p)] = q[j]
        <4>1. PICK n \in Len(p) + 1 .. Len(p) + Len(q) : n = j + Len(p) /\ n - Len(p) = j
          BY <3>3
        <4>2. r[n] = q[n - Len(p)]
          BY <1>1
        <4>3. QED  BY <4>1, <4>2
      <3>5. QED  BY <3>2, <3>3, <3>4
    <2>3. k <= Len(p) \/ k > Len(p)
      BY <1>1
    <2>4. QED  BY <2>1, <2>2, <2>3
  <1>7. Open(task, r)
    BY <1>1, <1>2, <1>4, <1>5, <1>6 DEF Open, StepsOK
  <1>8. QED  BY <1>2, <1>7 DEF r

\* A change of the state of ESP-NOW and what follows it.
LEMMA ChangeBefore ==
    ASSUME NEW task \in Tasks, NEW x \in Step, x[1] \in Changing,
           x[1] = "settle" => task = "espnow",
           NEW q, Open(task, q), Has(q, <<"decide">>), Has(q, <<"look", "ESP_NOW">>)
    PROVE  Open(task, <<x>> \o q) /\ (<<x>> \o q)[1] = x
  <1> DEFINE r == <<x>> \o q
  <1>1. /\ q \in Seq(Step) /\ Len(q) \in Nat \ {0}
        /\ r \in Seq(Step) /\ Len(r) = Len(q) + 1 /\ r[1] = x
        /\ \A k \in 2 .. Len(r) : k - 1 \in 1 .. Len(q) /\ r[k] = q[k - 1]
        /\ \A k \in 1 .. Len(q) : k + 1 \in 2 .. Len(r) /\ r[k + 1] = q[k]
    BY DEF StepsOK, Open
  <1> HIDE DEF r
  <1>2. r # <<>> /\ x[1] \notin Immediate
    BY <1>1 DEF Changing, Immediate
  <1>3. ASSUME NEW k \in 2 .. Len(r)  PROVE r[k][1] \notin Immediate
    <2>1. CASE k = 2
      BY <2>1, <1>1 DEF Open
    <2>2. CASE k > 2
      <3>1. k - 1 \in 2 .. Len(q) /\ r[k] = q[k - 1]
        BY <2>2, <1>1
      <3>2. QED  BY <3>1 DEF StepsOK, Open
    <2>3. QED  BY <2>1, <2>2
  <1>4. ASSUME NEW k \in 1 .. Len(r), r[k][1] = "settle"  PROVE task = "espnow"
    <2>1. CASE k = 1
      BY <2>1, <1>1, <1>4
    <2>2. CASE k > 1
      <3>1. k - 1 \in 1 .. Len(q) /\ q[k - 1][1] = "settle"
        BY <2>2, <1>1, <1>4
      <3>2. QED  BY <3>1 DEF StepsOK, Open
    <2>3. QED  BY <2>1, <2>2
  <1>5. ASSUME NEW k \in 1 .. Len(r), NEW s \in After(r[k][1])
        PROVE  \E j \in k + 1 .. Len(r) : r[j] = s
    <2>1. CASE k = 1
      <3>1. s \in {<<"decide">>, <<"look", "ESP_NOW">>}
        BY <2>1, <1>1, <1>5 DEF After
      <3>2. PICK j \in 1 .. Len(q) : q[j] = s
        BY <3>1 DEF Has
      <3>3. j + 1 \in k + 1 .. Len(r)
        BY <2>1, <1>1
      <3>4. QED  BY <3>2, <3>3, <1>1
    <2>2. CASE k > 1
      <3>1. k - 1 \in 1 .. Len(q) /\ s \in After(q[k - 1][1])
        BY <2>2, <1>1, <1>5
      <3>2. PICK j \in k - 1 + 1 .. Len(q) : q[j] = s
        BY <3>1 DEF StepsOK, Open
      <3>3. j + 1 \in k + 1 .. Len(r)
        BY <1>1
      <3>4. r[j + 1] = q[j]
        BY <1>1
      <3>5. QED  BY <3>2, <3>3, <3>4
    <2>3. QED  BY <2>1, <2>2
  <1>6. Open(task, r)
    BY <1>1, <1>2, <1>3, <1>4, <1>5 DEF Open, StepsOK
  <1>7. QED  BY <1>1, <1>6 DEF r

LEMMA BasicLists ==
    ASSUME NEW task \in Tasks
    PROVE  /\ Open(task, Reevaluate) /\ Open(task, Report) /\ Open(task, EndWorker)
           /\ Open(task, << <<"endMqtt">> >>)
           /\ Reevaluate[1] = <<"decide">>
           /\ \A s : Has(Reevaluate, s) <=> s = <<"decide">>
           /\ \A s : Has(Report, s) <=> \E t \in Transports : s = <<"look", t>>
           /\ \A s : Has(EndWorker, s) <=> s \in {<<"endClient">>, <<"stopWorker">>, <<"drain">>}
           /\ \A s : Has(<< <<"endMqtt">> >>, s) <=> s = <<"endMqtt">>
  <1>1. {<<"decide">>, <<"look", "MQTT">>, <<"look", "ESP_NOW">>, <<"endMqtt">>,
         <<"endClient">>, <<"stopWorker">>, <<"drain">>} \subseteq Step
    BY DEF Step, Coordinating, Switching, Transports
  <1>2. Open(task, Reevaluate) /\ Reevaluate[1] = <<"decide">>
    BY <1>1 DEF Reevaluate, Open, StepsOK, Immediate, Changing, After
  <1>3. Open(task, Report)
    BY <1>1 DEF Report, Open, StepsOK, Immediate, Changing, After
  <1>4. Open(task, EndWorker)
    BY <1>1 DEF EndWorker, Open, StepsOK, Immediate, Changing, After
  <1>5. Open(task, << <<"endMqtt">> >>)
    BY <1>1 DEF Open, StepsOK, Immediate, Changing, After
  <1>6. \A s : Has(Reevaluate, s) <=> s = <<"decide">>
    BY DEF Has, Reevaluate
  <1>7. \A s : Has(Report, s) <=> \E t \in Transports : s = <<"look", t>>
    BY DEF Has, Report, Transports
  <1>8. \A s : Has(EndWorker, s) <=> s \in {<<"endClient">>, <<"stopWorker">>, <<"drain">>}
    BY DEF Has, EndWorker
  <1>9. \A s : Has(<< <<"endMqtt">> >>, s) <=> s = <<"endMqtt">>
    BY DEF Has
  <1>10. QED  BY <1>2, <1>3, <1>4, <1>5, <1>6, <1>7, <1>8, <1>9

\* The steps of Changed.
Notices(s) == s = <<"decide">> \/ \E t \in Transports : s = <<"look", t>>

\* A list that begins with first, does what follows a change, and the steps extra.
Bundle(task, q, first, extra) ==
    /\ Open(task, q) /\ q[1] = first
    /\ \A s : Has(q, s) <=> Notices(s) \/ s \in extra

LEMMA ChangedList ==
    ASSUME NEW task \in Tasks
    PROVE  Bundle(task, Changed, <<"decide">>, {})
  <1>1. Open(task, Changed) /\ Changed[1] = <<"decide">>
    BY BasicLists, JoinedSteps DEF Changed
  <1>2. Reevaluate \in Seq(Step) /\ Report \in Seq(Step)
    BY BasicLists DEF Open, StepsOK
  <1>3. \A s : Has(Changed, s) <=> Notices(s) \/ s \in {}
    BY <1>2, BasicLists, JoinedHas DEF Changed, Notices
  <1>4. QED  BY <1>1, <1>3 DEF Bundle

LEMMA AfterReevaluate ==
    ASSUME NEW task \in Tasks, NEW q, NEW first, NEW extra, Bundle(task, q, first, extra)
    PROVE  Bundle(task, Reevaluate \o q, <<"decide">>, extra)
  <1>1. Open(task, Reevaluate \o q) /\ (Reevaluate \o q)[1] = <<"decide">>
    BY BasicLists, JoinedSteps DEF Bundle
  <1>2. Reevaluate \in Seq(Step) /\ q \in Seq(Step)
    BY BasicLists DEF Open, StepsOK, Bundle
  <1>3. \A s : Has(Reevaluate \o q, s) <=> Notices(s) \/ s \in extra
    BY <1>2, BasicLists, JoinedHas DEF Bundle, Notices
  <1>4. QED  BY <1>1, <1>3 DEF Bundle

LEMMA ThenMore ==
    ASSUME NEW task \in Tasks, NEW q, NEW first, Bundle(task, q, first, {}),
           NEW more, NEW extra, Open(task, more), \A s : Has(more, s) <=> s \in extra
    PROVE  Bundle(task, q \o more, first, extra)
  <1>1. Open(task, q \o more) /\ (q \o more)[1] = first
    <2>1. Open(task, q) /\ q[1] = first
      BY DEF Bundle
    <2>2. Open(task, q \o more)
      BY <2>1, JoinedSteps
    <2>3. (q \o more)[1] = q[1]
      BY <2>1 DEF Open, StepsOK
    <2>4. QED  BY <2>1, <2>2, <2>3
  <1>2. more \in Seq(Step) /\ q \in Seq(Step)
    BY DEF Open, StepsOK, Bundle
  <1>3. \A s : Has(q \o more, s) <=> Notices(s) \/ s \in extra
    BY <1>2, JoinedHas DEF Bundle
  <1>4. QED  BY <1>1, <1>3 DEF Bundle

LEMMA ChangeFirst ==
    ASSUME NEW task \in Tasks, NEW x \in Step, x[1] \in Changing, x[1] = "settle" => task = "espnow"
    PROVE  Bundle(task, <<x>> \o Changed, x, {x})
  <1>1. Open(task, Changed) /\ Has(Changed, <<"decide">>) /\ Has(Changed, <<"look", "ESP_NOW">>)
    BY ChangedList DEF Bundle, Notices, Transports
  <1>2. Open(task, <<x>> \o Changed) /\ (<<x>> \o Changed)[1] = x
    BY <1>1, ChangeBefore
  <1>3. <<x>> \in Seq(Step) /\ Changed \in Seq(Step) /\ \A s : Has(<<x>>, s) <=> s = x
    BY <1>1 DEF Open, StepsOK, Has
  <1>4. \A s : Has(<<x>> \o Changed, s) <=> Notices(s) \/ s \in {x}
    BY <1>3, ChangedList, JoinedHas DEF Bundle
  <1>5. QED  BY <1>2, <1>4 DEF Bundle

Ends == {<<"endClient">>, <<"stopWorker">>, <<"drain">>}

LEMMA ListsOfSteps ==
    ASSUME NEW task \in Tasks
    PROVE  /\ Bundle(task, Changed, <<"decide">>, {})
           /\ Bundle(task, Reevaluate \o Changed, <<"decide">>, {})
           /\ Bundle(task, Reevaluate \o Changed \o << <<"endMqtt">> >>, <<"decide">>, {<<"endMqtt">>})
           /\ Bundle(task, << <<"begin">> >> \o Changed, <<"begin">>, {<<"begin">>})
           /\ Bundle(task, Changed \o EndWorker, <<"decide">>, Ends)
           /\ Bundle(task, Reevaluate \o Changed \o EndWorker, <<"decide">>, Ends)
  <1>1. Bundle(task, Changed, <<"decide">>, {})
    BY ChangedList
  <1>2. Bundle(task, Reevaluate \o Changed, <<"decide">>, {})
    BY <1>1, AfterReevaluate
  <1>3. Bundle(task, Reevaluate \o Changed \o << <<"endMqtt">> >>, <<"decide">>, {<<"endMqtt">>})
    BY <1>2, ThenMore, BasicLists
  <1>4. <<"begin">> \in Step /\ <<"begin">>[1] \in Changing /\ <<"begin">>[1] # "settle"
    BY DEF Step, Switching, Changing
  <1>5. Bundle(task, << <<"begin">> >> \o Changed, <<"begin">>, {<<"begin">>})
    BY <1>4, ChangeFirst
  <1>6. Open(task, EndWorker) /\ \A s : Has(EndWorker, s) <=> s \in Ends
    BY BasicLists DEF Ends
  <1>7. Bundle(task, Changed \o EndWorker, <<"decide">>, Ends)
    BY <1>1, <1>6, ThenMore
  <1>8. Bundle(task, Reevaluate \o Changed \o EndWorker, <<"decide">>, Ends)
    BY <1>2, <1>6, ThenMore
  <1>9. QED  BY <1>1, <1>2, <1>3, <1>5, <1>7, <1>8

LEMMA SettlingList ==
    ASSUME NEW e \in {"SEARCHING", "STOPPED"}, NEW reported \in BOOLEAN
    PROVE  LET q == (IF reported THEN Reevaluate ELSE <<>>) \o << <<"settle", e>> >> \o Changed
           IN  Bundle("espnow", q, IF reported THEN <<"decide">> ELSE <<"settle", e>>, {<<"settle", e>>})
  <1> DEFINE x == <<"settle", e>>
  <1>1. x \in Step /\ x[1] \in Changing /\ "espnow" \in Tasks
    BY DEF Step, Changing, Tasks
  <1>2. Bundle("espnow", <<x>> \o Changed, x, {x})
    BY <1>1, ChangeFirst
  <1>3. Bundle("espnow", Reevaluate \o (<<x>> \o Changed), <<"decide">>, {x})
    BY <1>1, <1>2, AfterReevaluate
  <1>4. Reevaluate \in Seq(Step) /\ <<x>> \in Seq(Step) /\ Changed \in Seq(Step)
        /\ <<x>> \o Changed \in Seq(Step)
    BY <1>1, <1>2, BasicLists, ChangedList DEF Bundle, Open, StepsOK
  <1>5. Reevaluate \o <<x>> \o Changed = Reevaluate \o (<<x>> \o Changed)
        /\ <<>> \o <<x>> \o Changed = <<x>> \o Changed
    BY <1>4
  <1>6. QED  BY <1>2, <1>3, <1>5

LEMMA OtherLists ==
    /\ \A task \in Tasks : StepsOK(task, <<>>) /\ StepsOK(task, Reevaluate)
    /\ \A m \in Messages : StepsOK("loop", << <<"hold", m>> >>)
    /\ \A t \in ConnectionType, p \in ConnectionType :
           StepsOK("loop", << <<"select", t>>, <<"prefer", p>> >>)
  <1>1. ASSUME NEW task \in Tasks  PROVE StepsOK(task, <<>>) /\ StepsOK(task, Reevaluate)
    <2>1. StepsOK(task, <<>>)
      BY DEF StepsOK
    <2>2. StepsOK(task, Reevaluate)
      BY BasicLists DEF Open
    <2>3. QED  BY <2>1, <2>2
  <1>2. ASSUME NEW m \in Messages  PROVE StepsOK("loop", << <<"hold", m>> >>)
    <2>1. <<"hold", m>> \in Step
      BY DEF Step
    <2>2. QED  BY <2>1 DEF StepsOK, Immediate, Changing, After
  <1>3. ASSUME NEW t \in ConnectionType, NEW p \in ConnectionType
        PROVE  StepsOK("loop", << <<"select", t>>, <<"prefer", p>> >>)
    <2>1. <<"select", t>> \in Step /\ <<"prefer", p>> \in Step
      BY DEF Step, Coordinating
    <2>2. QED  BY <2>1 DEF StepsOK, Immediate, Changing, After
  <1>4. QED  BY <1>1, <1>2, <1>3

-------------------------------------------------------------------------------
(* Types, and what each action does to what the tasks have left.               *)

Events == {"CONNECTED", "SEARCHING", "STOPPED"}

DataOK ==
    /\ NmConnectionTypeOK
    /\ worker \in [suspended : BOOLEAN, running : BOOLEAN, client : BOOLEAN,
                   reported : BOOLEAN, events : Seq(Events)]
    /\ sent \in [Messages -> Nat] /\ accepted \subseteq Messages
    /\ overlaps \in Nat /\ lost \in BOOLEAN

TypeInv == DataOK /\ TodoOK

Moved(h, x) == TodoOK' /\ UNCHANGED <<overlaps, lost>> /\ (OneInside => Swaps(h, x))
Ended(h) == TodoOK' /\ UNCHANGED <<overlaps, lost>> /\ (OneInside => Drops(h))
Came(steps) == TodoOK' /\ overlaps' \in Nat /\ UNCHANGED lost
               /\ (overlaps' = 0 => overlaps = 0 /\ Comes(steps))

LEMMA StepKinds ==
    ASSUME NEW s \in Step
    PROVE  /\ s[1] = "decide" => s = <<"decide">>
           /\ s[1] = "notify" => s = <<"notify">>
           /\ s[1] = "select" => s[2] \in ConnectionType /\ s = <<"select", s[2]>>
           /\ s[1] = "conclude" =>
                 s[2] \in ConnectionType /\ s[3] \in BOOLEAN /\ s = <<"conclude", s[2], s[3]>>
           /\ s[1] = "take" => s[2] \in Slots /\ s = <<"take", s[2]>>
           /\ s[1] = "clear" => s[2] \in Slots /\ s = <<"clear", s[2]>>
           /\ s[1] = "send" => s[2] \in Slots /\ s[3] \in Messages /\ s = <<"send", s[2], s[3]>>
           /\ s[1] = "look" => s[2] \in Transports /\ s = <<"look", s[2]>>
           /\ s[1] = "tell" =>
                 s[2] \in Transports /\ s[3] \in ConnectivityState /\ s = <<"tell", s[2], s[3]>>
           /\ s[1] = "settle" => s[2] \in {"SEARCHING", "STOPPED"} /\ s = <<"settle", s[2]>>
           /\ s[1] = "prefer" => s[2] \in ConnectionType /\ s = <<"prefer", s[2]>>
           /\ s[1] = "hold" => s[2] \in Messages /\ s = <<"hold", s[2]>>
           /\ \A x \in {"begin", "connecting", "endClient", "stopWorker", "drain", "endMqtt"} :
                 s[1] = x => s = <<x>>
  BY DEF Step, Coordinating, Switching

LEMMA DoesHas ==
    ASSUME TodoOK, NEW task \in Tasks, NEW kind, Does(task, kind)
    PROVE  ~Idle(task) /\ Head(todo[task]) \in Step /\ Head(todo[task])[1] = kind
  BY DEF Does, TodoOK, Idle

LEMMA MovesOn ==
    ASSUME TodoOK, NEW task \in Tasks, ~Idle(task), NEW x \in Step, Then(task, <<x>>),
           x[1] \notin {"begin", "settle", "endClient"},
           x[1] = "connecting" => Head(todo[task])[1] = "begin"
    PROVE  Moved(Head(todo[task]), x)
  <1>1. (x[1] = "settle" => task = "espnow")
        /\ After(x[1]) \subseteq After(Head(todo[task])[1])
    BY DEF Changing, After
  <1>2. TodoOK' /\ (OneInside => Swaps(Head(todo[task]), x))
    BY <1>1, ThenOneTodo, ThenOneSwaps
  <1>3. UNCHANGED <<overlaps, lost>>
    BY DEF Then
  <1>4. QED  BY <1>2, <1>3 DEF Moved

LEMMA MovesOff ==
    ASSUME TodoOK, NEW task \in Tasks, ~Idle(task), Then(task, <<>>)
    PROVE  Ended(Head(todo[task]))
  <1>1. TodoOK' /\ (OneInside => Drops(Head(todo[task])))
    BY ThenNoneTodo, ThenNoneDrops
  <1>2. UNCHANGED <<overlaps, lost>>
    BY DEF Then
  <1>3. QED  BY <1>1, <1>2 DEF Ended

LEMMA ComesIn ==
    ASSUME TypeInv, NEW task \in Tasks, NEW steps, StepsOK(task, steps), Begins(task, steps)
    PROVE  Came(steps)
  <1>1. TodoOK /\ overlaps \in Nat
    BY DEF TypeInv, DataOK
  <1>2. TodoOK'
    BY <1>1, BeginsTodo
  <1>3. overlaps' \in Nat /\ UNCHANGED lost
    BY <1>1 DEF Begins
  <1>4. overlaps' = 0 => overlaps = 0 /\ Comes(steps)
    BY <1>1, BeginsComes
  <1>5. QED  BY <1>2, <1>3, <1>4 DEF Came

LEMMA RouteIsAConnection ==
    ASSUME NEW preferred \in ConnectionType, NEW current
    PROVE  /\ ResolveNetworkRoute(preferred, current) \in ConnectionType
           /\ ResolveNetworkRoute(preferred, current) \in Transports =>
                  TransportUsable(ResolveNetworkRoute(preferred, current))
  <1> DEFINE others == {t \in Transports \ {preferred} : RouteEligible(t)}
             u == ResolveNetworkRoute(preferred, current)
  <1>1. CASE RouteEligible(preferred)
    BY <1>1 DEF ResolveNetworkRoute, RouteEligible
  <1>2. CASE ~RouteEligible(preferred) /\ TransportUsable(current)
    BY <1>2 DEF ResolveNetworkRoute, TransportUsable, ConnectionType
  <1>3. CASE ~RouteEligible(preferred) /\ ~TransportUsable(current)
    <2>1. u = IF others = {} THEN "AUTO" ELSE IF "ESP_NOW" \in others THEN "ESP_NOW" ELSE "MQTT"
      BY <1>3 DEF ResolveNetworkRoute
    <2>2. others # {} /\ "ESP_NOW" \notin others => "MQTT" \in others
      BY DEF Transports
    <2>3. u \in Transports => u \in others
      BY <2>1, <2>2 DEF Transports
    <2>4. u \in ConnectionType
      BY <2>1 DEF ConnectionType, Transports
    <2>5. QED  BY <2>3, <2>4 DEF RouteEligible
  <1>4. QED  BY <1>1, <1>2, <1>3

\* What the steps of the coordinator leave to do.
LEMMA DecideTodo ==
    ASSUME TypeInv, NEW task \in Tasks, Decide(task)
    PROVE  Moved(<<"decide">>, <<"select", ResolveNetworkRoute(route.preferred, route.selected)>>)
  <1>1. Does(task, "decide") /\ TodoOK /\ route.preferred \in ConnectionType
    BY DEF Decide, TypeInv, DataOK, NmConnectionTypeOK
  <1>2. Then(task, << <<"select", ResolveNetworkRoute(route.preferred, route.selected)>> >>)
    BY DEF Decide
  <1>3. <<"select", ResolveNetworkRoute(route.preferred, route.selected)>> \in Step
    BY <1>1, RouteIsAConnection DEF Step, Coordinating
  <1>4. ~Idle(task) /\ Head(todo[task]) = <<"decide">>
    BY <1>1, DoesHas, StepKinds
  <1>5. QED  BY <1>1, <1>2, <1>3, <1>4, MovesOn

LEMMA SelectTodo ==
    ASSUME TypeInv, NEW task \in Tasks, Select(task)
    PROVE  \E u \in ConnectionType :
              /\ route' = [route EXCEPT !.selected = u]
              /\ Moved(<<"select", u>>,
                       <<"conclude", u, u = route.selected /\ route.state = "CONNECTED">>)
  <1> DEFINE u == Head(todo[task])[2]
             x == <<"conclude", u, u = route.selected /\ route.state = "CONNECTED">>
  <1>1. Does(task, "select") /\ TodoOK
    BY DEF Select, TypeInv
  <1>2. Then(task, <<x>>) /\ route' = [route EXCEPT !.selected = u]
    BY DEF Select
  <1>3. ~Idle(task) /\ u \in ConnectionType /\ Head(todo[task]) = <<"select", u>>
    BY <1>1, DoesHas, StepKinds
  <1>4. x \in Step
    BY <1>3 DEF Step, Coordinating
  <1>5. Moved(Head(todo[task]), x)
    BY <1>1, <1>2, <1>3, <1>4, MovesOn
  <1>6. QED  BY <1>2, <1>3, <1>5

LEMMA ConcludeTodo ==
    ASSUME TypeInv, NEW task \in Tasks, Conclude(task)
    PROVE  \E u \in ConnectionType, b \in BOOLEAN :
              /\ route' = [route EXCEPT !.state = IF u # "AUTO" THEN "CONNECTED" ELSE "STOPPED"]
              /\ u # "AUTO" /\ ~b => Moved(<<"conclude", u, b>>, <<"notify">>)
              /\ ~(u # "AUTO" /\ ~b) => Ended(<<"conclude", u, b>>)
  <1> DEFINE u == Head(todo[task])[2]
             b == Head(todo[task])[3]
  <1>1. Does(task, "conclude") /\ TodoOK
    BY DEF Conclude, TypeInv
  <1>2. /\ Then(task, IF u # "AUTO" /\ ~b THEN << <<"notify">> >> ELSE <<>>)
        /\ route' = [route EXCEPT !.state = IF u # "AUTO" THEN "CONNECTED" ELSE "STOPPED"]
    BY DEF Conclude
  <1>3. ~Idle(task) /\ u \in ConnectionType /\ b \in BOOLEAN
        /\ Head(todo[task]) = <<"conclude", u, b>>
    BY <1>1, DoesHas, StepKinds
  <1>4. <<"notify">> \in Step
    BY DEF Step, Coordinating
  <1>5. ASSUME u # "AUTO" /\ ~b  PROVE Moved(Head(todo[task]), <<"notify">>)
    <2>1. Then(task, << <<"notify">> >>)
      BY <1>2, <1>5
    <2>2. QED  BY <2>1, <1>1, <1>3, <1>4, MovesOn
  <1>6. ASSUME ~(u # "AUTO" /\ ~b)  PROVE Ended(Head(todo[task]))
    <2>1. Then(task, <<>>)
      BY <1>2, <1>6
    <2>2. QED  BY <2>1, <1>1, <1>3, MovesOff
  <1>7. QED  BY <1>2, <1>3, <1>5, <1>6

LEMMA NotifyTodo ==
    ASSUME TypeInv, NEW task \in Tasks, Notify(task)
    PROVE  Moved(<<"notify">>, <<"take", 1>>)
  <1>1. Does(task, "notify") /\ TodoOK /\ Then(task, << <<"take", 1>> >>)
    BY DEF Notify, Flush, TypeInv
  <1>2. 1 \in Slots
    BY NmConnectionAssumption DEF Slots
  <1>3. <<"take", 1>> \in Step
    BY <1>2 DEF Step, Coordinating
  <1>4. ~Idle(task) /\ Head(todo[task]) = <<"notify">>
    BY <1>1, DoesHas, StepKinds
  <1>5. QED  BY <1>1, <1>3, <1>4, MovesOn

\* The slot after i, if there is one.
Goes(h, i) ==
    /\ i < DeferredCapacity => Moved(h, <<"take", i + 1>>)
    /\ ~(i < DeferredCapacity) => Ended(h)

LEMMA FlushNextTodo ==
    ASSUME TodoOK, NEW task \in Tasks, ~Idle(task), NEW i \in Slots, Then(task, FlushNext(i))
    PROVE  Goes(Head(todo[task]), i)
  <1>1. ASSUME i < DeferredCapacity  PROVE Moved(Head(todo[task]), <<"take", i + 1>>)
    <2>1. i + 1 \in Slots
      BY <1>1, NmConnectionAssumption DEF Slots
    <2>2. <<"take", i + 1>> \in Step
      BY <2>1 DEF Step, Coordinating
    <2>3. Then(task, << <<"take", i + 1>> >>)
      BY <1>1 DEF FlushNext
    <2>4. QED  BY <2>2, <2>3, MovesOn
  <1>2. ASSUME ~(i < DeferredCapacity)  PROVE Ended(Head(todo[task]))
    <2>1. Then(task, <<>>)
      BY <1>2 DEF FlushNext
    <2>2. QED  BY <2>1, MovesOff
  <1>3. QED  BY <1>1, <1>2 DEF Goes

LEMMA FlushTakeTodo ==
    ASSUME TypeInv, NEW task \in Tasks, FlushTake(task)
    PROVE  \E i \in Slots :
              /\ deferred[i] = NoMessage => Goes(<<"take", i>>, i)
              /\ deferred[i] # NoMessage =>
                    deferred[i] \in Messages /\ Moved(<<"take", i>>, <<"send", i, deferred[i]>>)
  <1> DEFINE i == Head(todo[task])[2]
  <1>1. Does(task, "take") /\ TodoOK
    BY DEF FlushTake, TypeInv
  <1>2. Then(task, IF deferred[i] = NoMessage THEN FlushNext(i)
                                              ELSE << <<"send", i, deferred[i]>> >>)
    BY DEF FlushTake
  <1>3. ~Idle(task) /\ i \in Slots /\ Head(todo[task]) = <<"take", i>>
    BY <1>1, DoesHas, StepKinds
  <1>4. ASSUME deferred[i] = NoMessage  PROVE Goes(Head(todo[task]), i)
    BY <1>1, <1>2, <1>3, <1>4, FlushNextTodo
  <1>5. ASSUME deferred[i] # NoMessage
        PROVE  deferred[i] \in Messages /\ Moved(Head(todo[task]), <<"send", i, deferred[i]>>)
    <2>1. deferred[i] \in Messages
      BY <1>3, <1>5 DEF TypeInv, DataOK, NmConnectionTypeOK
    <2>2. <<"send", i, deferred[i]>> \in Step
      BY <2>1, <1>3 DEF Step, Coordinating
    <2>3. Then(task, << <<"send", i, deferred[i]>> >>)
      BY <1>2, <1>5
    <2>4. QED  BY <2>1, <2>2, <2>3, <1>1, <1>3, MovesOn
  <1>6. QED  BY <1>3, <1>4, <1>5

LEMMA FlushSendTodo ==
    ASSUME TypeInv, NEW task \in Tasks, FlushSend(task)
    PROVE  \E i \in Slots, m \in Messages :
              /\ Carries => /\ Moved(<<"send", i, m>>, <<"clear", i>>)
                            /\ sent' = [sent EXCEPT ![m] = @ + 1]
              /\ ~Carries => Ended(<<"send", i, m>>) /\ UNCHANGED sent
  <1> DEFINE i == Head(todo[task])[2]
             m == Head(todo[task])[3]
  <1>1. Does(task, "send") /\ TodoOK
    BY DEF FlushSend, TypeInv
  <1>2. ~Idle(task) /\ i \in Slots /\ m \in Messages /\ Head(todo[task]) = <<"send", i, m>>
    BY <1>1, DoesHas, StepKinds
  <1>3. ASSUME Carries
        PROVE  Moved(Head(todo[task]), <<"clear", i>>) /\ sent' = [sent EXCEPT ![m] = @ + 1]
    <2>1. Then(task, << <<"clear", i>> >>) /\ sent' = [sent EXCEPT ![m] = @ + 1]
      BY <1>3 DEF FlushSend
    <2>2. <<"clear", i>> \in Step
      BY <1>2 DEF Step, Coordinating
    <2>3. QED  BY <2>1, <2>2, <1>1, <1>2, MovesOn
  <1>4. ASSUME ~Carries  PROVE Ended(Head(todo[task])) /\ UNCHANGED sent
    <2>1. Then(task, <<>>) /\ UNCHANGED sent
      BY <1>4 DEF FlushSend
    <2>2. QED  BY <2>1, <1>1, <1>2, MovesOff
  <1>5. QED  BY <1>2, <1>3, <1>4

LEMMA FlushClearTodo ==
    ASSUME TypeInv, NEW task \in Tasks, FlushClear(task)
    PROVE  \E i \in Slots :
              deferred' = [deferred EXCEPT ![i] = NoMessage] /\ Goes(<<"clear", i>>, i)
  <1> DEFINE i == Head(todo[task])[2]
  <1>1. Does(task, "clear") /\ TodoOK
    BY DEF FlushClear, TypeInv
  <1>2. Then(task, FlushNext(i)) /\ deferred' = [deferred EXCEPT ![i] = NoMessage]
    BY DEF FlushClear
  <1>3. ~Idle(task) /\ i \in Slots /\ Head(todo[task]) = <<"clear", i>>
    BY <1>1, DoesHas, StepKinds
  <1>4. Goes(Head(todo[task]), i)
    BY <1>1, <1>2, <1>3, FlushNextTodo
  <1>5. QED  BY <1>2, <1>3, <1>4

LEMMA LookTodo ==
    ASSUME TypeInv, NEW task \in Tasks, Look(task)
    PROVE  \E t \in Transports : Moved(<<"look", t>>, <<"tell", t, service[t].state>>)
  <1> DEFINE t == Head(todo[task])[2]
  <1>1. Does(task, "look") /\ TodoOK /\ Then(task, << <<"tell", t, service[t].state>> >>)
    BY DEF Look, TypeInv
  <1>2. ~Idle(task) /\ t \in Transports /\ Head(todo[task]) = <<"look", t>>
    BY <1>1, DoesHas, StepKinds
  <1>3. service[t].state \in ConnectivityState
    BY <1>2 DEF TypeInv, DataOK, NmConnectionTypeOK
  <1>4. <<"tell", t, service[t].state>> \in Step
    BY <1>2, <1>3 DEF Step, Coordinating
  <1>5. Moved(Head(todo[task]), <<"tell", t, service[t].state>>)
    BY <1>1, <1>2, <1>4, MovesOn
  <1>6. QED  BY <1>2, <1>5

LEMMA TellTodo ==
    ASSUME TypeInv, NEW task \in Tasks, Tell(task)
    PROVE  \E t \in Transports, s \in ConnectivityState :
              /\ Ended(<<"tell", t, s>>)
              /\ status' = [status EXCEPT ![t] =
                               [last |-> s, told |-> IF s # @.last THEN s ELSE @.told]]
  <1> DEFINE t == Head(todo[task])[2]
             s == Head(todo[task])[3]
  <1>1. Does(task, "tell") /\ TodoOK /\ Then(task, <<>>)
    BY DEF Tell, TypeInv
  <1>2. status' = [status EXCEPT ![t] = [last |-> s, told |-> IF s # @.last THEN s ELSE @.told]]
    BY DEF Tell
  <1>3. ~Idle(task) /\ t \in Transports /\ s \in ConnectivityState
        /\ Head(todo[task]) = <<"tell", t, s>>
    BY <1>1, DoesHas, StepKinds
  <1>4. Ended(Head(todo[task]))
    BY <1>1, <1>3, MovesOff
  <1>5. QED  BY <1>2, <1>3, <1>4

\* What the services and the application begin.
Arrives(first, extra) ==
    /\ TodoOK' /\ overlaps' \in Nat /\ UNCHANGED lost
    /\ overlaps' = 0 =>
          /\ overlaps = 0 /\ OneInside'
          /\ \A s : ~Pending(s) /\ ~Starting(s)
          /\ \A s : Pending(s)' <=> Notices(s) \/ s \in extra
          /\ \A s : Starting(s)' <=> s = first

LEMMA ArrivesBy ==
    ASSUME TypeInv, NEW task \in Tasks, NEW q, NEW first, NEW extra, Bundle(task, q, first, extra),
           Begins(task, q)
    PROVE  Arrives(first, extra)
  <1>1. StepsOK(task, q) /\ q # <<>> /\ q[1] = first /\ \A s : Has(q, s) <=> Notices(s) \/ s \in extra
    BY DEF Bundle, Open
  <1>2. Came(q)
    BY <1>1, ComesIn
  <1>3. ASSUME overlaps' = 0
        PROVE  /\ overlaps = 0 /\ OneInside'
               /\ \A s : ~Pending(s) /\ ~Starting(s)
               /\ \A s : Pending(s)' <=> Notices(s) \/ s \in extra
               /\ \A s : Starting(s)' <=> s = first
    <2>1. overlaps = 0 /\ Comes(q)
      BY <1>2, <1>3 DEF Came
    <2>2. OneInside' /\ \A s : ~Pending(s) /\ ~Starting(s)
      BY <2>1 DEF Comes
    <2>3. \A s : Pending(s)' <=> Has(q, s)
      BY <2>1 DEF Comes, Has
    <2>4. \A s : Starting(s)' <=> s = first
      BY <2>1, <1>1 DEF Comes
    <2>5. QED  BY <2>1, <2>2, <2>3, <2>4, <1>1
  <1>4. QED  BY <1>2, <1>3 DEF Came, Arrives

LEMMA ServiceTodo ==
    ASSUME TypeInv
    PROVE  /\ MqttConnected \/ MqttDisconnected =>
                 IF service["MQTT"].enabled THEN Arrives(<<"decide">>, {})
                                            ELSE UNCHANGED <<todo, overlaps, lost>>
           /\ MqttError \/ HandleConnected \/ MqttEnable \/ GatewayCandidate => Arrives(<<"decide">>, {})
           /\ MqttDisable => Arrives(<<"decide">>, {<<"endMqtt">>})
           /\ EspNowEnable \/ EspNowResume => Arrives(<<"begin">>, {<<"begin">>})
           /\ EspNowDisable \/ EspNowSuspend => Arrives(<<"decide">>, Ends)
  <1>1. "mqtt" \in Tasks /\ "espnow" \in Tasks /\ "loop" \in Tasks
    BY DEF Tasks
  <1>2. MqttConnected \/ MqttDisconnected =>
                 IF service["MQTT"].enabled THEN Arrives(<<"decide">>, {})
                                            ELSE UNCHANGED <<todo, overlaps, lost>>
    BY <1>1, ArrivesBy, ListsOfSteps DEF MqttConnected, MqttDisconnected
  <1>3. MqttError \/ GatewayCandidate => Arrives(<<"decide">>, {})
    BY <1>1, ArrivesBy, ListsOfSteps DEF MqttError, GatewayCandidate
  <1>4. HandleConnected \/ MqttEnable => Arrives(<<"decide">>, {})
    BY <1>1, ArrivesBy, ListsOfSteps DEF HandleConnected, MqttEnable
  <1>5. MqttDisable => Arrives(<<"decide">>, {<<"endMqtt">>})
    BY <1>1, ArrivesBy, ListsOfSteps DEF MqttDisable
  <1>6. EspNowEnable \/ EspNowResume => Arrives(<<"begin">>, {<<"begin">>})
    BY <1>1, ArrivesBy, ListsOfSteps DEF EspNowEnable, EspNowResume
  <1>7. EspNowDisable \/ EspNowSuspend => Arrives(<<"decide">>, Ends)
    BY <1>1, ArrivesBy, ListsOfSteps DEF EspNowDisable, EspNowSuspend
  <1>8. QED  BY <1>2, <1>3, <1>4, <1>5, <1>6, <1>7

LEMMA HandleOtherTodo ==
    ASSUME TypeInv, HandleOther
    PROVE  /\ Head(worker.events) \in {"SEARCHING", "STOPPED"}
           /\ Arrives(IF worker.reported THEN <<"decide">> ELSE <<"settle", Head(worker.events)>>,
                      {<<"settle", Head(worker.events)>>})
  <1> DEFINE e == Head(worker.events)
  <1>1. worker.events \in Seq(Events) /\ worker.reported \in BOOLEAN
    BY DEF TypeInv, DataOK
  <1>2. e \in {"SEARCHING", "STOPPED"}
    BY <1>1 DEF HandleOther, Events
  <1>3. Begins("espnow", (IF worker.reported THEN Reevaluate ELSE <<>>)
                         \o << <<"settle", e>> >> \o Changed)
    BY DEF HandleOther
  <1> HIDE DEF e
  <1>4. Bundle("espnow", (IF worker.reported THEN Reevaluate ELSE <<>>) \o << <<"settle", e>> >> \o Changed,
               IF worker.reported THEN <<"decide">> ELSE <<"settle", e>>, {<<"settle", e>>})
    BY <1>1, <1>2, SettlingList
  <1>5. Arrives(IF worker.reported THEN <<"decide">> ELSE <<"settle", e>>, {<<"settle", e>>})
    BY <1>3, <1>4, ArrivesBy DEF Tasks
  <1>6. QED  BY <1>2, <1>5 DEF e

LEMMA LoopTodo ==
    ASSUME TypeInv
    PROVE  /\ ConnectionTick => Came(Reevaluate)
           /\ Prefer => \E wanted \in ConnectionType :
                 Came(<< <<"select", ResolveNetworkRoute(wanted, route.selected)>>, <<"prefer", wanted>> >>)
           /\ PublishWhenConnected => \E m \in Messages \ accepted :
                 /\ Carries => /\ Came(<<>>) /\ sent' = [sent EXCEPT ![m] = @ + 1]
                               /\ accepted' = accepted \cup {m}
                 /\ ~Carries => Came(<< <<"hold", m>> >>) /\ UNCHANGED history
  <1>1. "loop" \in Tasks
    BY DEF Tasks
  <1>2. ConnectionTick => Came(Reevaluate)
    BY <1>1, OtherLists, ComesIn DEF ConnectionTick
  <1>3. ASSUME Prefer
        PROVE  \E wanted \in ConnectionType :
                 Came(<< <<"select", ResolveNetworkRoute(wanted, route.selected)>>, <<"prefer", wanted>> >>)
    <2>1. PICK wanted \in Preferences :
             Begins("loop", << <<"select", ResolveNetworkRoute(wanted, route.selected)>>,
                               <<"prefer", wanted>> >>)
      BY <1>3 DEF Prefer
    <2>2. wanted \in ConnectionType
      BY NmConnectionAssumption DEF ConnectionType, Transports
    <2>3. ResolveNetworkRoute(wanted, route.selected) \in ConnectionType
      BY <2>2, RouteIsAConnection
    <2>4. QED  BY <1>1, <2>1, <2>2, <2>3, OtherLists, ComesIn
  <1>4. ASSUME PublishWhenConnected
        PROVE  \E m \in Messages \ accepted :
                 /\ Carries => /\ Came(<<>>) /\ sent' = [sent EXCEPT ![m] = @ + 1]
                               /\ accepted' = accepted \cup {m}
                 /\ ~Carries => Came(<< <<"hold", m>> >>) /\ UNCHANGED history
    <2>1. PICK m \in Messages \ accepted :
             IF Carries
             THEN /\ sent' = [sent EXCEPT ![m] = @ + 1]
                  /\ accepted' = accepted \cup {m}
                  /\ Begins("loop", <<>>)
             ELSE Begins("loop", << <<"hold", m>> >>) /\ UNCHANGED history
      BY <1>4 DEF PublishWhenConnected
    <2>2. Carries => Came(<<>>)
      BY <1>1, <2>1, OtherLists, ComesIn
    <2>3. ~Carries => Came(<< <<"hold", m>> >>)
      BY <1>1, <2>1, OtherLists, ComesIn
    <2>4. QED  BY <2>1, <2>2, <2>3
  <1>5. QED  BY <1>2, <1>3, <1>4

\* What the other steps of the loop and of the worker leave to do.
LEMMA SwitchTodo ==
    ASSUME TypeInv
    PROVE  /\ EndMqtt => Ended(<<"endMqtt">>)
           /\ BeginWorker => Moved(<<"begin">>, <<"connecting">>)
           /\ Connecting => Ended(<<"connecting">>)
           /\ EndClient => Ended(<<"endClient">>)
           /\ StopWorker => Ended(<<"stopWorker">>)
           /\ Drain => Ended(<<"drain">>)
           /\ BeginWorker \/ Connecting =>
                 Pending(<<"decide">>)' /\ Pending(<<"look", "ESP_NOW">>)'
           /\ EndClient => Pending(<<"stopWorker">>)'
  <1> DEFINE h == Head(todo["loop"])
  <1>1. "loop" \in Tasks /\ TodoOK
    BY DEF Tasks, TypeInv
  <1>2. ASSUME NEW x \in {"begin", "connecting", "endClient", "stopWorker", "drain", "endMqtt"},
               Does("loop", x)
        PROVE  ~Idle("loop") /\ h = <<x>>
    <2>1. ~Idle("loop") /\ h \in Step /\ h[1] = x
      BY <1>1, <1>2, DoesHas
    <2>2. QED  BY <2>1, StepKinds
  <1>3. ASSUME NEW x \in {"begin", "connecting", "endClient", "stopWorker", "drain", "endMqtt"},
               Does("loop", x), Then("loop", <<>>)
        PROVE  Ended(<<x>>)
    BY <1>1, <1>2, <1>3, MovesOff
  <1>4. EndMqtt => Ended(<<"endMqtt">>)
    BY <1>3 DEF EndMqtt
  <1>5. Connecting => Ended(<<"connecting">>)
    BY <1>3 DEF Connecting
  <1>6. EndClient => Ended(<<"endClient">>)
    BY <1>3 DEF EndClient
  <1>7. StopWorker => Ended(<<"stopWorker">>)
    BY <1>3 DEF StopWorker
  <1>8. Drain => Ended(<<"drain">>)
    BY <1>3 DEF Drain
  <1>9. <<"connecting">> \in Step
    BY DEF Step, Switching
  <1>10. ASSUME BeginWorker  PROVE Moved(<<"begin">>, <<"connecting">>)
    <2>1. Does("loop", "begin") /\ Then("loop", << <<"connecting">> >>)
      BY <1>10 DEF BeginWorker
    <2>2. ~Idle("loop") /\ h = <<"begin">>
      BY <1>2, <2>1
    <2>3. QED  BY <2>1, <2>2, <1>1, <1>9, MovesOn
  <1>11. ASSUME BeginWorker  PROVE Pending(<<"decide">>)' /\ Pending(<<"look", "ESP_NOW">>)'
    <2>1. Does("loop", "begin") /\ Then("loop", << <<"connecting">> >>)
      BY <1>11 DEF BeginWorker
    <2>2. ~Idle("loop") /\ h = <<"begin">>
      BY <1>2, <2>1
    <2>3. <<"connecting">>[1] # "settle" /\ After(<<"connecting">>[1]) \subseteq After(h[1])
          /\ <<"decide">> \in After(h[1]) /\ <<"look", "ESP_NOW">> \in After(h[1])
      BY <2>2 DEF After, Changing
    <2>4. QED  BY <2>1, <2>2, <2>3, <1>1, <1>9, IsFollowed
  <1>12. ASSUME Connecting  PROVE Pending(<<"decide">>)' /\ Pending(<<"look", "ESP_NOW">>)'
    <2>1. Does("loop", "connecting") /\ Then("loop", <<>>)
      BY <1>12 DEF Connecting
    <2>2. ~Idle("loop") /\ h = <<"connecting">>
      BY <1>2, <2>1
    <2>3. <<"decide">> \in After(h[1]) /\ <<"look", "ESP_NOW">> \in After(h[1])
      BY <2>2 DEF After, Changing
    <2>4. QED  BY <2>1, <2>2, <2>3, <1>1, IsFollowed
  <1>13. ASSUME EndClient  PROVE Pending(<<"stopWorker">>)'
    <2>1. Does("loop", "endClient") /\ Then("loop", <<>>)
      BY <1>13 DEF EndClient
    <2>2. ~Idle("loop") /\ h = <<"endClient">>
      BY <1>2, <2>1
    <2>3. <<"stopWorker">> \in After(h[1])
      BY <2>2 DEF After, Changing
    <2>4. QED  BY <2>1, <2>2, <2>3, <1>1, IsFollowed
  <1>14. QED  BY <1>4, <1>5, <1>6, <1>7, <1>8, <1>10, <1>11, <1>12, <1>13

LEMMA SettleTodo ==
    ASSUME TypeInv, Settle
    PROVE  \E e \in {"SEARCHING", "STOPPED"} :
              /\ Ended(<<"settle", e>>)
              /\ Pending(<<"decide">>)' /\ Pending(<<"look", "ESP_NOW">>)'
              /\ IF service["ESP_NOW"].enabled /\ ~worker.suspended
                 THEN Enters("ESP_NOW", IF e = "STOPPED" THEN "ERROR" ELSE "CONNECTING")
                 ELSE UNCHANGED service
  <1> DEFINE e == Head(todo["espnow"])[2]
  <1>1. "espnow" \in Tasks /\ TodoOK /\ Does("espnow", "settle") /\ Then("espnow", <<>>)
    BY DEF Tasks, TypeInv, Settle
  <1>2. ~Idle("espnow") /\ e \in {"SEARCHING", "STOPPED"} /\ Head(todo["espnow"]) = <<"settle", e>>
    BY <1>1, DoesHas, StepKinds
  <1>3. Ended(Head(todo["espnow"]))
    BY <1>1, <1>2, MovesOff
  <1>4. <<"decide">> \in After(Head(todo["espnow"])[1])
        /\ <<"look", "ESP_NOW">> \in After(Head(todo["espnow"])[1])
    BY <1>2 DEF After, Changing
  <1>5. Pending(<<"decide">>)' /\ Pending(<<"look", "ESP_NOW">>)'
    BY <1>1, <1>2, <1>4, IsFollowed
  <1>6. IF service["ESP_NOW"].enabled /\ ~worker.suspended
        THEN Enters("ESP_NOW", IF e = "STOPPED" THEN "ERROR" ELSE "CONNECTING")
        ELSE UNCHANGED service
    BY DEF Settle
  <1>7. QED  BY <1>2, <1>3, <1>5, <1>6

LEMMA PreferredTodo ==
    ASSUME TypeInv, Preferred
    PROVE  \E p \in ConnectionType :
              Ended(<<"prefer", p>>) /\ route' = [route EXCEPT !.preferred = p]
  <1> DEFINE p == Head(todo["loop"])[2]
  <1>1. "loop" \in Tasks /\ TodoOK /\ Does("loop", "prefer") /\ Then("loop", <<>>)
        /\ route' = [route EXCEPT !.preferred = p]
    BY DEF Tasks, TypeInv, Preferred
  <1>2. ~Idle("loop") /\ p \in ConnectionType /\ Head(todo["loop"]) = <<"prefer", p>>
    BY <1>1, DoesHas, StepKinds
  <1>3. Ended(Head(todo["loop"]))
    BY <1>1, <1>2, MovesOff
  <1>4. QED  BY <1>1, <1>2, <1>3

LEMMA LeastNumber ==
    ASSUME NEW T, T \subseteq Nat, T # {}
    PROVE  \E x \in T : \A y \in T : x <= y
<1>1. IsWellFoundedOn(OpToRel(<, Nat), Nat)
  BY NatLessThanWellFounded
<1>2. PICK x \in T : \A y \in T : ~(<<y, x>> \in OpToRel(<, Nat))
  BY <1>1, WFMin
<1>3. \A y \in T : ~(y < x)
  BY <1>2 DEF OpToRel
<1> QED
  BY <1>3

LEMMA HoldTodo ==
    ASSUME TypeInv, Hold
    PROVE  \E m \in Messages :
              /\ Ended(<<"hold", m>>)
              /\ \/ UNCHANGED <<deferred, accepted>>
                 \/ \E i \in Slots : /\ deferred[i] = NoMessage
                                     /\ deferred' = [deferred EXCEPT ![i] = m]
                                     /\ accepted' = accepted \cup {m}
  <1> DEFINE m == Head(todo["loop"])[2]
             free == {i \in Slots : deferred[i] = NoMessage}
             first == CHOOSE i \in free : \A j \in free : i <= j
  <1>1. "loop" \in Tasks /\ TodoOK /\ Does("loop", "hold") /\ Then("loop", <<>>)
    BY DEF Tasks, TypeInv, Hold
  <1>2. ~Idle("loop") /\ m \in Messages /\ Head(todo["loop"]) = <<"hold", m>>
    BY <1>1, DoesHas, StepKinds
  <1>3. Ended(Head(todo["loop"]))
    BY <1>1, <1>2, MovesOff
  <1>4. IF free = {} THEN UNCHANGED <<deferred, accepted>>
        ELSE deferred' = [deferred EXCEPT ![first] = m] /\ accepted' = accepted \cup {m}
    BY DEF Hold
  <1>5. CASE free = {}
    BY <1>2, <1>3, <1>4, <1>5
  <1>6. CASE free # {}
    <2>1. free \subseteq Nat
      BY DEF Slots
    <2>2. \E i \in free : \A j \in free : i <= j
      BY <2>1, <1>6, LeastNumber
    <2>3. first \in free
      BY <2>2
    <2>4. first \in Slots /\ deferred[first] = NoMessage
      BY <2>3
    <2>5. deferred' = [deferred EXCEPT ![first] = m] /\ accepted' = accepted \cup {m}
      BY <1>4, <1>6
    <2> HIDE DEF first
    <2>6. QED  BY <2>4, <2>5, <1>2, <1>3
  <1>7. QED  BY <1>5, <1>6

-------------------------------------------------------------------------------
(* Types.                                                                      *)

ServiceOK(s) == s \in [Transports -> [enabled : BOOLEAN, state : ConnectivityState]]
WorkerOK(w) ==
    /\ w \in [suspended : BOOLEAN, running : BOOLEAN, client : BOOLEAN,
              reported : BOOLEAN, events : Seq(Events)]
    /\ Len(w.events) <= QueueDepth
DriverOK(d) == d \in [Transports -> {"down", "up", "subscribed"}]
RouteOK(r) == r \in [preferred : ConnectionType, selected : ConnectionType,
                     state : {"STOPPED", "CONNECTED"}, eligible : BOOLEAN]
StatusOK(s) == s \in [Transports -> [last : ConnectivityState, told : ConnectivityState]]
MessagesOK(d, s, a) ==
    /\ d \in [Slots -> Messages \cup {NoMessage}]
    /\ s \in [Messages -> Nat] /\ a \subseteq Messages

LEMMA DataIs ==
    DataOK <=> /\ ServiceOK(service) /\ WorkerOK(worker) /\ DriverOK(driver) /\ RouteOK(route)
               /\ StatusOK(status) /\ MessagesOK(deferred, sent, accepted)
               /\ overlaps \in Nat /\ lost \in BOOLEAN
  BY DEF DataOK, NmConnectionTypeOK, ServiceOK, WorkerOK, DriverOK, RouteOK, StatusOK, MessagesOK,
         Events

LEMMA DataBecomes ==
    ASSUME ServiceOK(service'), WorkerOK(worker'), DriverOK(driver'), RouteOK(route'),
           StatusOK(status'), MessagesOK(deferred', sent', accepted'),
           overlaps' \in Nat, lost' \in BOOLEAN
    PROVE  DataOK'
  BY DEF DataOK, NmConnectionTypeOK, ServiceOK, WorkerOK, DriverOK, RouteOK, StatusOK, MessagesOK,
         Events

LEMMA SwitchedOK ==
    ASSUME ServiceOK(service), NEW t \in Transports, NEW b \in BOOLEAN, NEW state \in ConnectivityState
    PROVE  ServiceOK([service EXCEPT ![t] = [enabled |-> b, state |-> state]])
  BY DEF ServiceOK

LEMMA EntersOK ==
    ASSUME ServiceOK(service), NEW t \in Transports, NEW state \in ConnectivityState, Enters(t, state)
    PROVE  ServiceOK(service')
  BY DEF ServiceOK, Enters

LEMMA PostedOK ==
    ASSUME WorkerOK(worker), NEW e \in Events
    PROVE  WorkerOK(Posted(e))
  <1>1. worker.events \in Seq(Events) /\ Len(worker.events) \in Nat
    BY DEF WorkerOK
  <1>2. CASE Room
    <2>1. Posted(e) = [worker EXCEPT !.events = Append(worker.events, e)]
      BY <1>2 DEF Posted
    <2>2. Append(worker.events, e) \in Seq(Events)
          /\ Len(Append(worker.events, e)) = Len(worker.events) + 1
      BY <1>1
    <2>3. Len(worker.events) + 1 <= QueueDepth
      BY <1>1, <1>2, NmConnectionAssumption DEF Room
    <2>4. Posted(e).events = Append(worker.events, e)
      BY <2>1 DEF WorkerOK
    <2>5. QED  BY <2>1, <2>2, <2>3, <2>4 DEF WorkerOK
  <1>3. CASE ~Room
    BY <1>3 DEF Posted
  <1>4. QED  BY <1>2, <1>3

LEMMA EventsOK ==
    ASSUME WorkerOK(worker), NEW q \in Seq(Events), Len(q) <= QueueDepth
    PROVE  \A b \in BOOLEAN : WorkerOK([worker EXCEPT !.events = q, !.reported = b])
  BY DEF WorkerOK

LEMMA TailOK ==
    ASSUME WorkerOK(worker), worker.events # <<>>
    PROVE  Tail(worker.events) \in Seq(Events) /\ Len(Tail(worker.events)) <= QueueDepth
  BY NmConnectionAssumption DEF WorkerOK

LEMMA FlagsOK ==
    ASSUME WorkerOK(worker)
    PROVE  /\ \A b \in BOOLEAN : WorkerOK([worker EXCEPT !.suspended = b])
           /\ WorkerOK([worker EXCEPT !.running = FALSE])
           /\ WorkerOK([worker EXCEPT !.events = <<>>])
           /\ WorkerOK([worker EXCEPT !.running = TRUE, !.client = TRUE, !.reported = FALSE, !.events = <<>>])
  <1>1. <<>> \in Seq(Events) /\ Len(<<>>) = 0 /\ 0 <= QueueDepth
    BY NmConnectionAssumption
  <1>2. QED  BY <1>1 DEF WorkerOK

LEMMA CoordinatorTypes ==
    ASSUME TypeInv, NEW task \in Tasks, CoordinatorStep(task)
    PROVE  TypeInv'
  <1>1. /\ ServiceOK(service) /\ WorkerOK(worker) /\ DriverOK(driver) /\ RouteOK(route)
        /\ StatusOK(status) /\ MessagesOK(deferred, sent, accepted)
        /\ overlaps \in Nat /\ lost \in BOOLEAN
    BY DataIs DEF TypeInv
  <1> DEFINE Same == UNCHANGED <<overlaps, lost>>
  <1>2. ASSUME TodoOK', Same, UNCHANGED <<service, worker>>, DriverOK(driver'), RouteOK(route'),
               StatusOK(status'), MessagesOK(deferred', sent', accepted')
        PROVE  TypeInv'
    <2>1. DataOK'
      BY <1>1, <1>2, DataBecomes DEF Same
    <2>2. QED  BY <1>2, <2>1 DEF TypeInv
  <1> HIDE DEF Same
  <1>3. CASE Decide(task)
    <2>1. TodoOK' /\ Same
      BY <1>3, DecideTodo DEF Moved, Same
    <2>2. QED  BY <1>1, <1>2, <1>3, <2>1 DEF Decide, history
  <1>4. CASE Select(task)
    <2>1. PICK u \in ConnectionType :
             /\ route' = [route EXCEPT !.selected = u]
             /\ Moved(<<"select", u>>,
                      <<"conclude", u, u = route.selected /\ route.state = "CONNECTED">>)
      BY <1>4, SelectTodo
    <2>2. TodoOK' /\ Same
      BY <2>1 DEF Moved, Same
    <2>3. RouteOK(route')
      BY <1>1, <2>1 DEF RouteOK
    <2>4. QED  BY <1>1, <1>2, <1>4, <2>2, <2>3 DEF Select, history
  <1>5. CASE Conclude(task)
    <2>1. PICK u \in ConnectionType, b \in BOOLEAN :
              /\ route' = [route EXCEPT !.state = IF u # "AUTO" THEN "CONNECTED" ELSE "STOPPED"]
              /\ u # "AUTO" /\ ~b => Moved(<<"conclude", u, b>>, <<"notify">>)
              /\ ~(u # "AUTO" /\ ~b) => Ended(<<"conclude", u, b>>)
      BY <1>5, ConcludeTodo
    <2>2. TodoOK' /\ Same
      BY <2>1 DEF Moved, Ended, Same
    <2>3. RouteOK(route')
      BY <1>1, <2>1 DEF RouteOK
    <2>4. QED  BY <1>1, <1>2, <1>5, <2>2, <2>3 DEF Conclude, history
  <1>6. CASE Notify(task)
    <2>1. TodoOK' /\ Same
      BY <1>6, NotifyTodo DEF Moved, Same
    <2>2. DriverOK(driver')
      BY <1>1, <1>6 DEF Notify, DriverOK
    <2>3. QED  BY <1>1, <1>2, <1>6, <2>1, <2>2 DEF Notify, history
  <1>7. CASE FlushTake(task)
    <2>1. TodoOK' /\ Same
      BY <1>7, FlushTakeTodo DEF Moved, Ended, Goes, Same
    <2>2. QED  BY <1>1, <1>2, <1>7, <2>1 DEF FlushTake, history
  <1>8. CASE FlushSend(task)
    <2>1. PICK i \in Slots, m \in Messages :
              /\ Carries => /\ Moved(<<"send", i, m>>, <<"clear", i>>)
                            /\ sent' = [sent EXCEPT ![m] = @ + 1]
              /\ ~Carries => Ended(<<"send", i, m>>) /\ UNCHANGED sent
      BY <1>8, FlushSendTodo
    <2>2. TodoOK' /\ Same
      BY <2>1 DEF Moved, Ended, Same
    <2>3. UNCHANGED <<service, worker, driver, route, status, deferred, accepted>>
      BY <1>8 DEF FlushSend
    <2>4. MessagesOK(deferred', sent', accepted')
      BY <1>1, <2>1, <2>3 DEF MessagesOK
    <2>5. QED  BY <1>1, <1>2, <2>2, <2>3, <2>4
  <1>9. CASE FlushClear(task)
    <2>1. PICK i \in Slots :
              deferred' = [deferred EXCEPT ![i] = NoMessage] /\ Goes(<<"clear", i>>, i)
      BY <1>9, FlushClearTodo
    <2>2. TodoOK' /\ Same
      BY <2>1 DEF Moved, Ended, Goes, Same
    <2>3. UNCHANGED <<service, worker, driver, route, status, sent, accepted>>
      BY <1>9 DEF FlushClear, history
    <2>4. MessagesOK(deferred', sent', accepted')
      BY <1>1, <2>1, <2>3 DEF MessagesOK
    <2>5. QED  BY <1>1, <1>2, <2>2, <2>3, <2>4
  <1>10. CASE Look(task)
    <2>1. TodoOK' /\ Same
      BY <1>10, LookTodo DEF Moved, Same
    <2>2. QED  BY <1>1, <1>2, <1>10, <2>1 DEF Look, history
  <1>11. CASE Tell(task)
    <2>1. PICK t \in Transports, s \in ConnectivityState :
              /\ Ended(<<"tell", t, s>>)
              /\ status' = [status EXCEPT ![t] =
                               [last |-> s, told |-> IF s # @.last THEN s ELSE @.told]]
      BY <1>11, TellTodo
    <2>2. TodoOK' /\ Same
      BY <2>1 DEF Ended, Same
    <2>3. StatusOK(status')
      BY <1>1, <2>1 DEF StatusOK
    <2>4. QED  BY <1>1, <1>2, <1>11, <2>2, <2>3 DEF Tell, history
  <1>12. QED
    BY <1>3, <1>4, <1>5, <1>6, <1>7, <1>8, <1>9, <1>10, <1>11 DEF CoordinatorStep

LEMMA SessionTypes ==
    ASSUME TypeInv, Drivers \/ HandleConnected \/ HandleOther
    PROVE  TypeInv'
  <1>1. /\ ServiceOK(service) /\ WorkerOK(worker) /\ DriverOK(driver) /\ RouteOK(route)
        /\ StatusOK(status) /\ MessagesOK(deferred, sent, accepted)
        /\ overlaps \in Nat /\ lost \in BOOLEAN
    BY DataIs DEF TypeInv
  <1>2. ASSUME TodoOK', overlaps' \in Nat, lost' \in BOOLEAN, ServiceOK(service'), WorkerOK(worker'),
               DriverOK(driver'), UNCHANGED <<route, status, deferred, history>>
        PROVE  TypeInv'
    <2>1. UNCHANGED <<sent, accepted>>
      BY <1>2 DEF history
    <2>2. DataOK'
      BY <1>1, <1>2, <2>1, DataBecomes
    <2>3. QED  BY <1>2, <2>2 DEF TypeInv
  <1>3. {"CONNECTED", "CONNECTING", "ERROR"} \subseteq ConnectivityState
        /\ "MQTT" \in Transports /\ "ESP_NOW" \in Transports
    BY DEF ConnectivityState, Transports
  <1>4. UNCHANGED todo => TodoOK'
    BY DEF TypeInv, TodoOK
  <1>5. CASE MqttConnected \/ MqttDisconnected
    <2>1. /\ service["MQTT"].enabled => Arrives(<<"decide">>, {}) /\ ServiceOK(service')
          /\ ~service["MQTT"].enabled => UNCHANGED <<service, todo, overlaps, lost>>
      BY <1>1, <1>3, <1>5, ServiceTodo, EntersOK DEF MqttConnected, MqttDisconnected
    <2>2. TodoOK' /\ overlaps' \in Nat /\ lost' \in BOOLEAN /\ ServiceOK(service')
      BY <1>1, <1>4, <2>1 DEF Arrives
    <2>3. DriverOK(driver')
      BY <1>1, <1>5 DEF MqttConnected, MqttDisconnected, DriverOK
    <2>4. UNCHANGED <<worker, route, status, deferred, history>>
      BY <1>5 DEF MqttConnected, MqttDisconnected
    <2>5. QED  BY <1>1, <1>2, <2>2, <2>3, <2>4
  <1>6. CASE MqttError
    <2>1. Arrives(<<"decide">>, {}) /\ ServiceOK(service')
      BY <1>1, <1>3, <1>6, ServiceTodo, EntersOK DEF MqttError
    <2>2. UNCHANGED <<worker, driver, route, status, deferred, history>>
      BY <1>6 DEF MqttError
    <2>3. QED  BY <1>1, <1>2, <2>1, <2>2 DEF Arrives
  <1>7. CASE ClientConnected \/ ClientLost
    <2>1. {"CONNECTED", "SEARCHING"} \subseteq Events
      BY DEF Events
    <2>2. WorkerOK(worker')
      BY <1>1, <1>7, <2>1, PostedOK DEF ClientConnected, ClientLost
    <2>3. DriverOK(driver')
      BY <1>1, <1>7 DEF ClientConnected, ClientLost, DriverOK
    <2>4. lost' \in BOOLEAN /\ UNCHANGED <<overlaps, todo, service, route, status, deferred, history>>
      BY <1>1, <1>7 DEF ClientConnected, ClientLost
    <2>5. QED  BY <1>1, <1>2, <1>4, <2>2, <2>3, <2>4
  <1>8. CASE HandleConnected
    <2>1. Arrives(<<"decide">>, {}) /\ ServiceOK(service')
      BY <1>1, <1>3, <1>8, ServiceTodo, EntersOK DEF HandleConnected
    <2>2. WorkerOK(worker')
      BY <1>1, <1>8, EventsOK, TailOK DEF HandleConnected
    <2>3. UNCHANGED <<driver, route, status, deferred, history>>
      BY <1>8 DEF HandleConnected
    <2>4. QED  BY <1>1, <1>2, <2>1, <2>2, <2>3 DEF Arrives
  <1>9. CASE HandleOther
    <2>1. TodoOK' /\ overlaps' \in Nat /\ UNCHANGED lost
      BY <1>9, HandleOtherTodo DEF Arrives
    <2>2. WorkerOK(worker')
      BY <1>1, <1>9, EventsOK, TailOK DEF HandleOther
    <2>3. UNCHANGED <<service, driver, route, status, deferred, history>>
      BY <1>9 DEF HandleOther
    <2>4. QED  BY <1>1, <1>2, <2>1, <2>2, <2>3
  <1>10. QED  BY <1>5, <1>6, <1>7, <1>8, <1>9 DEF Drivers

LEMMA RequestTypes ==
    ASSUME TypeInv, Application \/ ConnectionTick
    PROVE  TypeInv'
  <1>1. /\ ServiceOK(service) /\ WorkerOK(worker) /\ DriverOK(driver) /\ RouteOK(route)
        /\ StatusOK(status) /\ MessagesOK(deferred, sent, accepted)
        /\ overlaps \in Nat /\ lost \in BOOLEAN
    BY DataIs DEF TypeInv
  <1>2. ASSUME TodoOK', overlaps' \in Nat, UNCHANGED lost, ServiceOK(service'), WorkerOK(worker'),
               UNCHANGED driver, RouteOK(route'), UNCHANGED <<status, deferred>>,
               MessagesOK(deferred, sent', accepted')
        PROVE  TypeInv'
    <2>1. DataOK'
      BY <1>1, <1>2, DataBecomes
    <2>2. QED  BY <1>2, <2>1 DEF TypeInv
  <1>3. {"STOPPED", "STARTING", "CONNECTING", "SUSPENDED"} \subseteq ConnectivityState
        /\ "MQTT" \in Transports /\ "ESP_NOW" \in Transports
    BY DEF ConnectivityState, Transports
  <1>4. CASE MqttEnable \/ MqttDisable
    <2>1. TodoOK' /\ overlaps' \in Nat /\ UNCHANGED lost
      BY <1>4, ServiceTodo DEF Arrives
    <2>2. ServiceOK(service')
      BY <1>1, <1>3, <1>4, SwitchedOK DEF MqttEnable, MqttDisable
    <2>3. QED  BY <1>1, <1>2, <1>4, <2>1, <2>2 DEF MqttEnable, MqttDisable, history
  <1>5. CASE EspNowEnable \/ EspNowDisable
    <2>1. TodoOK' /\ overlaps' \in Nat /\ UNCHANGED lost
      BY <1>5, ServiceTodo DEF Arrives
    <2>2. ServiceOK(service')
      BY <1>1, <1>3, <1>5, SwitchedOK DEF EspNowEnable, EspNowDisable
    <2>3. WorkerOK(worker')
      BY <1>1, <1>5, FlagsOK DEF EspNowEnable, EspNowDisable
    <2>4. QED  BY <1>1, <1>2, <1>5, <2>1, <2>2, <2>3 DEF EspNowEnable, EspNowDisable, history
  <1>6. CASE EspNowSuspend \/ EspNowResume
    <2>1. TodoOK' /\ overlaps' \in Nat /\ UNCHANGED lost
      BY <1>6, ServiceTodo DEF Arrives
    <2>2. ServiceOK(service')
      BY <1>1, <1>3, <1>6, EntersOK DEF EspNowSuspend, EspNowResume
    <2>3. WorkerOK(worker')
      BY <1>1, <1>6, FlagsOK DEF EspNowSuspend, EspNowResume
    <2>4. QED  BY <1>1, <1>2, <1>6, <2>1, <2>2, <2>3 DEF EspNowSuspend, EspNowResume, history
  <1>7. CASE Prefer
    <2>1. TodoOK' /\ overlaps' \in Nat /\ UNCHANGED lost
      BY <1>7, LoopTodo DEF Came
    <2>2. UNCHANGED <<service, worker, driver, route, status, deferred, sent, accepted>>
      BY <1>7 DEF Prefer, history
    <2>3. QED  BY <1>1, <1>2, <2>1, <2>2
  <1>8. CASE GatewayCandidate
    <2>1. TodoOK' /\ overlaps' \in Nat /\ UNCHANGED lost
      BY <1>8, ServiceTodo DEF Arrives
    <2>2. RouteOK(route')
      BY <1>1, <1>8 DEF GatewayCandidate, RouteOK
    <2>3. QED  BY <1>1, <1>2, <1>8, <2>1, <2>2 DEF GatewayCandidate, history
  <1>9. CASE PublishWhenConnected
    <2>1. PICK m \in Messages \ accepted :
                 /\ Carries => /\ Came(<<>>) /\ sent' = [sent EXCEPT ![m] = @ + 1]
                               /\ accepted' = accepted \cup {m}
                 /\ ~Carries => Came(<< <<"hold", m>> >>) /\ UNCHANGED history
      BY <1>9, LoopTodo
    <2>2. TodoOK' /\ overlaps' \in Nat /\ UNCHANGED lost
      BY <2>1 DEF Came
    <2>3. MessagesOK(deferred, sent', accepted')
      BY <1>1, <2>1 DEF MessagesOK, history
    <2>4. UNCHANGED <<service, worker, driver, route, status, deferred>>
      BY <1>9 DEF PublishWhenConnected
    <2>5. QED  BY <1>1, <1>2, <2>2, <2>3, <2>4
  <1>10. CASE ConnectionTick
    <2>1. TodoOK' /\ overlaps' \in Nat /\ UNCHANGED lost
      BY <1>10, LoopTodo DEF Came
    <2>2. QED  BY <1>1, <1>2, <1>10, <2>1 DEF ConnectionTick, history
  <1>11. QED  BY <1>4, <1>5, <1>6, <1>7, <1>8, <1>9, <1>10 DEF Application

LEMMA LoopTypes ==
    ASSUME TypeInv, \/ EndMqtt \/ BeginWorker \/ Connecting \/ EndClient \/ StopWorker
                    \/ Drain \/ Preferred \/ Hold \/ Settle
    PROVE  TypeInv'
  <1>1. /\ ServiceOK(service) /\ WorkerOK(worker) /\ DriverOK(driver) /\ RouteOK(route)
        /\ StatusOK(status) /\ MessagesOK(deferred, sent, accepted)
        /\ overlaps \in Nat /\ lost \in BOOLEAN
    BY DataIs DEF TypeInv
  <1>2. ASSUME TodoOK', UNCHANGED <<overlaps, lost>>, ServiceOK(service'), WorkerOK(worker'),
               DriverOK(driver'), RouteOK(route'), UNCHANGED <<status, sent>>,
               MessagesOK(deferred', sent, accepted')
        PROVE  TypeInv'
    <2>1. DataOK'
      BY <1>1, <1>2, DataBecomes
    <2>2. QED  BY <1>2, <2>1 DEF TypeInv
  <1>3. {"CONNECTING", "ERROR"} \subseteq ConnectivityState /\ "ESP_NOW" \in Transports
    BY DEF ConnectivityState, Transports
  <1>4. CASE EndMqtt \/ EndClient
    <2>1. TodoOK' /\ UNCHANGED <<overlaps, lost>>
      BY <1>4, SwitchTodo DEF Ended
    <2>2. DriverOK(driver')
      BY <1>1, <1>4 DEF EndMqtt, EndClient, DriverOK
    <2>3. ASSUME EndClient  PROVE WorkerOK(worker')
      <3>1. WorkerOK(Posted("STOPPED"))
        BY <1>1, PostedOK DEF Events
      <3>2. WorkerOK([Posted("STOPPED") EXCEPT !.client = FALSE])
        BY <3>1 DEF WorkerOK
      <3>3. QED  BY <1>1, <2>3, <3>2 DEF EndClient
    <2>4. WorkerOK(worker')
      BY <1>1, <1>4, <2>3 DEF EndMqtt
    <2>5. QED  BY <1>1, <1>2, <1>4, <2>1, <2>2, <2>4 DEF EndMqtt, EndClient, history
  <1>5. CASE BeginWorker \/ StopWorker \/ Drain
    <2>1. TodoOK' /\ UNCHANGED <<overlaps, lost>>
      BY <1>5, SwitchTodo DEF Moved, Ended
    <2>2. WorkerOK(worker')
      BY <1>1, <1>5, FlagsOK DEF BeginWorker, StopWorker, Drain
    <2>3. QED  BY <1>1, <1>2, <1>5, <2>1, <2>2 DEF BeginWorker, StopWorker, Drain, history
  <1>6. CASE Connecting
    <2>1. TodoOK' /\ UNCHANGED <<overlaps, lost>>
      BY <1>6, SwitchTodo DEF Ended
    <2>2. ServiceOK(service')
      BY <1>1, <1>3, <1>6, EntersOK DEF Connecting
    <2>3. QED  BY <1>1, <1>2, <1>6, <2>1, <2>2 DEF Connecting, history
  <1>7. CASE Settle
    <2>1. PICK e \in {"SEARCHING", "STOPPED"} :
              /\ Ended(<<"settle", e>>)
              /\ IF service["ESP_NOW"].enabled /\ ~worker.suspended
                 THEN Enters("ESP_NOW", IF e = "STOPPED" THEN "ERROR" ELSE "CONNECTING")
                 ELSE UNCHANGED service
      BY <1>7, SettleTodo
    <2>2. TodoOK' /\ UNCHANGED <<overlaps, lost>>
      BY <2>1 DEF Ended
    <2>3. ServiceOK(service')
      BY <1>1, <1>3, <2>1, EntersOK
    <2>4. QED  BY <1>1, <1>2, <1>7, <2>2, <2>3 DEF Settle, history
  <1>8. CASE Preferred
    <2>1. PICK p \in ConnectionType :
              Ended(<<"prefer", p>>) /\ route' = [route EXCEPT !.preferred = p]
      BY <1>8, PreferredTodo
    <2>2. RouteOK(route')
      BY <1>1, <2>1 DEF RouteOK
    <2>3. TodoOK' /\ UNCHANGED <<overlaps, lost>>
      BY <2>1 DEF Ended
    <2>4. QED  BY <1>1, <1>2, <1>8, <2>2, <2>3 DEF Preferred, history
  <1>9. CASE Hold
    <2>1. PICK m \in Messages :
              /\ Ended(<<"hold", m>>)
              /\ \/ UNCHANGED <<deferred, accepted>>
                 \/ \E i \in Slots : /\ deferred[i] = NoMessage
                                     /\ deferred' = [deferred EXCEPT ![i] = m]
                                     /\ accepted' = accepted \cup {m}
      BY <1>9, HoldTodo
    <2>2. TodoOK' /\ UNCHANGED <<overlaps, lost>>
      BY <2>1 DEF Ended
    <2>3. MessagesOK(deferred', sent, accepted')
      BY <1>1, <2>1 DEF MessagesOK
    <2>4. QED  BY <1>1, <1>2, <1>9, <2>2, <2>3 DEF Hold
  <1>10. QED  BY <1>4, <1>5, <1>6, <1>7, <1>8, <1>9

LEMMA TypesStart ==
    ASSUME NmConnectionInit
    PROVE  TypeInv /\ OneInside /\ (\A s : ~Starting(s) /\ ~Pending(s))
  <1>1. /\ ServiceOK(service) /\ DriverOK(driver) /\ StatusOK(status)
        /\ MessagesOK(deferred, sent, accepted)
    BY DEF NmConnectionInit, ServiceOK, DriverOK, StatusOK, MessagesOK, ConnectivityState
  <1>2. RouteOK(route)
    BY NmConnectionAssumption DEF NmConnectionInit, RouteOK, ConnectionType, Transports
  <1>3. WorkerOK(worker)
    <2>1. <<>> \in Seq(Events) /\ Len(<<>>) = 0 /\ 0 <= QueueDepth
      BY NmConnectionAssumption
    <2>2. QED  BY <2>1 DEF NmConnectionInit, WorkerOK
  <1>4. DataOK
    BY <1>1, <1>2, <1>3, DataIs DEF NmConnectionInit
  <1>5. \A task \in Tasks : todo[task] = <<>>
    BY DEF NmConnectionInit
  <1>6. TodoOK
    BY <1>5, OtherLists DEF TodoOK, NmConnectionInit
  <1>7. OneInside /\ \A s : ~Starting(s) /\ ~Pending(s)
    BY <1>5 DEF OneInside, Idle, Starting, Pending, Waits
  <1>8. QED  BY <1>4, <1>6, <1>7 DEF TypeInv

LEMMA TypesKept ==
    ASSUME TypeInv, [NmConnectionNext]_vars
    PROVE  TypeInv'
  <1>1. CASE NmConnectionNext
    <2>1. "mqtt" \in Tasks /\ "espnow" \in Tasks /\ "loop" \in Tasks
      BY DEF Tasks
    <2>2. CASE LoopStep
      BY <2>1, <2>2, CoordinatorTypes, LoopTypes DEF LoopStep
    <2>3. CASE WorkerStep
      BY <2>1, <2>3, CoordinatorTypes, LoopTypes, SessionTypes DEF WorkerStep
    <2>4. CASE CoordinatorStep("mqtt")
      BY <2>1, <2>4, CoordinatorTypes
    <2>5. CASE Drivers \/ Application \/ ConnectionTick
      BY <2>5, SessionTypes, RequestTypes
    <2>6. QED  BY <1>1, <2>2, <2>3, <2>4, <2>5 DEF NmConnectionNext
  <1>2. CASE UNCHANGED vars
    BY <1>2 DEF vars, TypeInv, DataOK, NmConnectionTypeOK, TodoOK
  <1>3. QED  BY <1>1, <1>2

\* Types: the services, the worker, the drivers, the route, what is reported
\* and the backlog keep their types, whatever the tasks do and however they
\* overlap (the state of Network/NmConnection.cpp and of its two services).
THEOREM ConnectionTypes == Spec => []NmConnectionTypeOK
  <1>1. NmConnectionInit => TypeInv
    BY TypesStart
  <1>2. TypeInv /\ [NmConnectionNext]_vars => TypeInv'
    BY TypesKept
  <1>3. TypeInv => NmConnectionTypeOK
    BY DEF TypeInv, DataOK
  <1>4. QED  BY <1>1, <1>2, <1>3, PTL DEF Spec

-------------------------------------------------------------------------------
(* Messages.  While no overlap has happened, a message that was accepted is in *)
(* one slot and was not sent, or was sent once and is in no slot but the one    *)
(* that is about to be emptied.                                                 *)

Handling == {"send", "clear", "hold"}

Kept(m) == {i \in Slots : deferred[i] = m /\ ~Starting(<<"clear", i>>)}

Unsent(m) == sent[m] = 0 /\ \A i \in Slots : deferred[i] # m
HeldOnce(m) ==
    \/ sent[m] = 1 /\ Kept(m) = {}
    \/ sent[m] = 0 /\ \E i \in Slots : Kept(m) = {i}

HeldInv ==
    /\ \A m \in Messages \ accepted : Unsent(m)
    /\ \A i \in Slots, m \in Messages : Starting(<<"send", i, m>>) => deferred[i] = m
    /\ \A m \in Messages : Starting(<<"hold", m>>) => m \notin accepted
    /\ \A m \in accepted : HeldOnce(m)

LEMMA HeldStays ==
    ASSUME HeldInv, UNCHANGED <<deferred, sent, accepted>>,
           \A s : s[1] \in Handling => ~Starting(s) /\ ~Starting(s)'
    PROVE  HeldInv'
  <1>1. ASSUME NEW m  PROVE Kept(m)' = Kept(m)
    <2>1. \A i : <<"clear", i>>[1] \in Handling
      BY DEF Handling
    <2>2. QED  BY <2>1 DEF Kept
  <1>2. \A i, m : <<"send", i, m>>[1] \in Handling /\ <<"hold", m>>[1] \in Handling
    BY DEF Handling
  <1>3. \A m \in Messages \ accepted' : Unsent(m)'
    BY DEF HeldInv, Unsent
  <1>4. \A m \in accepted' : HeldOnce(m)'
    BY <1>1 DEF HeldInv, HeldOnce
  <1>5. QED  BY <1>2, <1>3, <1>4 DEF HeldInv

LEMMA HeldAside ==
    ASSUME HeldInv, UNCHANGED <<deferred, sent, accepted>>,
           NEW h, h[1] \notin Handling, NEW x, x[1] \notin Handling,
           Swaps(h, x) \/ Drops(h)
    PROVE  HeldInv'
  <1>1. ASSUME NEW s, s[1] \in Handling  PROVE ~Starting(s) /\ ~Starting(s)'
    <2>1. CASE Swaps(h, x)
      BY <1>1, <2>1 DEF Swaps
    <2>2. CASE Drops(h)
      BY <1>1, <2>2 DEF Drops, Handling, Immediate
    <2>3. QED  BY <2>1, <2>2
  <1>2. QED  BY <1>1, HeldStays

LEMMA HeldNew ==
    ASSUME HeldInv, UNCHANGED <<deferred, sent, accepted>>, overlaps' = 0,
           NEW first, first[1] \notin Handling, NEW extra, Arrives(first, extra)
    PROVE  HeldInv'
  <1>1. \A s : ~Starting(s) /\ (Starting(s)' <=> s = first)
    BY DEF Arrives
  <1>2. \A s : s[1] \in Handling => ~Starting(s) /\ ~Starting(s)'
    BY <1>1
  <1>3. QED  BY <1>2, HeldStays

LEMMA HeldCame ==
    ASSUME HeldInv, UNCHANGED <<deferred, sent, accepted>>, overlaps' = 0,
           NEW q, q # <<>> => q[1][1] \notin Handling, Came(q)
    PROVE  HeldInv'
  <1>1. \A s : ~Starting(s) /\ (Starting(s)' <=> q # <<>> /\ s = q[1])
    BY DEF Came, Comes
  <1>2. \A s : s[1] \in Handling => ~Starting(s) /\ ~Starting(s)'
    BY <1>1
  <1>3. QED  BY <1>2, HeldStays

LEMMA HeldTake ==
    ASSUME HeldInv, TypeInv, UNCHANGED <<deferred, sent, accepted>>,
           NEW i \in Slots, deferred[i] \in Messages,
           Swaps(<<"take", i>>, <<"send", i, deferred[i]>>)
    PROVE  HeldInv'
  <1>1. \A j : ~Starting(<<"clear", j>>) /\ ~Starting(<<"clear", j>>)'
    BY DEF Swaps
  <1>2. \A m : Kept(m)' = Kept(m)
    BY <1>1 DEF Kept
  <1>3. ASSUME NEW j \in Slots, NEW m \in Messages, Starting(<<"send", j, m>>)'
        PROVE  deferred[j] = m
    <2>1. <<"send", j, m>> = <<"send", i, deferred[i]>>
      BY <1>3 DEF Swaps
    <2>2. QED  BY <2>1
  <1>4. \A m : ~Starting(<<"hold", m>>)'
    BY DEF Swaps
  <1>5. \A m \in Messages \ accepted' : Unsent(m)'
    BY DEF HeldInv, Unsent
  <1>6. \A m \in accepted' : HeldOnce(m)'
    BY <1>2 DEF HeldInv, HeldOnce
  <1>7. QED  BY <1>3, <1>4, <1>5, <1>6 DEF HeldInv

LEMMA HeldSend ==
    ASSUME HeldInv, TypeInv, UNCHANGED <<deferred, accepted>>,
           NEW i \in Slots, NEW m \in Messages,
           Swaps(<<"send", i, m>>, <<"clear", i>>), sent' = [sent EXCEPT ![m] = @ + 1]
    PROVE  HeldInv'
  <1>1. Starting(<<"send", i, m>>) /\ \A j : ~Starting(<<"clear", j>>)
    BY DEF Swaps
  <1>2. deferred[i] = m /\ m \in accepted
    BY <1>1 DEF HeldInv, Unsent
  <1>3. i \in Kept(m)
    BY <1>1, <1>2 DEF Kept
  <1>4. Kept(m) = {i} /\ sent[m] = 0
    BY <1>2, <1>3 DEF HeldInv, HeldOnce
  <1>5. \A j : Starting(<<"clear", j>>)' <=> j = i
    BY DEF Swaps
  <1>6. Kept(m)' = {}
    <2>1. \A j \in Slots : deferred[j] = m => j = i
      BY <1>1, <1>4 DEF Kept
    <2>2. QED  BY <2>1, <1>5 DEF Kept
  <1>7. sent'[m] = 1 /\ \A n \in Messages \ {m} : sent'[n] = sent[n]
    BY <1>4 DEF TypeInv, DataOK
  <1>8. \A n \in Messages \ {m} : Kept(n)' = Kept(n)
    BY <1>1, <1>2, <1>5 DEF Kept
  <1>9. accepted \subseteq Messages
    BY DEF TypeInv, DataOK
  <1>10. \A n \in accepted' : HeldOnce(n)'
    BY <1>6, <1>7, <1>8, <1>9 DEF HeldInv, HeldOnce
  <1>11. \A n \in Messages \ accepted' : Unsent(n)'
    BY <1>2, <1>7 DEF HeldInv, Unsent
  <1>12. \A j, n : ~Starting(<<"send", j, n>>)' /\ ~Starting(<<"hold", n>>)'
    BY DEF Swaps
  <1>13. QED  BY <1>10, <1>11, <1>12 DEF HeldInv

LEMMA HeldUnsent ==
    ASSUME HeldInv, UNCHANGED <<deferred, sent, accepted>>,
           NEW i \in Slots, NEW m \in Messages, Drops(<<"send", i, m>>)
    PROVE  HeldInv'
  <1>1. \A j : ~Starting(<<"clear", j>>)
    BY DEF Drops
  <1>2. \A s : s[1] \in Handling => ~Starting(s)'
    BY DEF Drops, Handling, Immediate
  <1>3. \A j, n : ~Starting(<<"send", j, n>>)' /\ ~Starting(<<"hold", n>>)' /\ ~Starting(<<"clear", j>>)'
    BY <1>2 DEF Handling
  <1>4. \A n : Kept(n)' = Kept(n)
    BY <1>1, <1>3 DEF Kept
  <1>5. \A n \in Messages \ accepted' : Unsent(n)'
    BY DEF HeldInv, Unsent
  <1>6. \A n \in accepted' : HeldOnce(n)'
    BY <1>4 DEF HeldInv, HeldOnce
  <1>7. QED  BY <1>3, <1>5, <1>6 DEF HeldInv

LEMMA HeldClear ==
    ASSUME HeldInv, TypeInv, UNCHANGED <<sent, accepted>>,
           NEW i \in Slots, deferred' = [deferred EXCEPT ![i] = NoMessage],
           NEW x, x[1] \notin Handling, Swaps(<<"clear", i>>, x) \/ Drops(<<"clear", i>>)
    PROVE  HeldInv'
  <1>1. \A j : Starting(<<"clear", j>>) <=> j = i
    BY DEF Swaps, Drops
  <1>2. ASSUME NEW s, s[1] \in Handling  PROVE ~Starting(s)'
    <2>1. CASE Swaps(<<"clear", i>>, x)
      BY <1>2, <2>1 DEF Swaps
    <2>2. CASE Drops(<<"clear", i>>)
      BY <1>2, <2>2 DEF Drops, Handling, Immediate
    <2>3. QED  BY <2>1, <2>2
  <1>3. \A j, n : ~Starting(<<"send", j, n>>)' /\ ~Starting(<<"hold", n>>)' /\ ~Starting(<<"clear", j>>)'
    BY <1>2 DEF Handling
  <1>4. deferred'[i] = NoMessage /\ \A j \in Slots \ {i} : deferred'[j] = deferred[j]
    BY DEF TypeInv, DataOK, NmConnectionTypeOK
  <1>5. NoMessage \notin Messages /\ accepted \subseteq Messages
    BY NmConnectionAssumption DEF TypeInv, DataOK
  <1>6. \A n \in Messages : Kept(n)' = Kept(n)
    BY <1>1, <1>3, <1>4, <1>5 DEF Kept
  <1>7. \A n \in Messages \ accepted' : Unsent(n)'
    BY <1>4, <1>5 DEF HeldInv, Unsent
  <1>8. \A n \in accepted' : HeldOnce(n)'
    BY <1>5, <1>6 DEF HeldInv, HeldOnce
  <1>9. QED  BY <1>3, <1>7, <1>8 DEF HeldInv

LEMMA HeldHold ==
    ASSUME HeldInv, TypeInv, UNCHANGED sent, NEW m \in Messages, Drops(<<"hold", m>>),
           \/ UNCHANGED <<deferred, accepted>>
           \/ \E i \in Slots : /\ deferred[i] = NoMessage
                               /\ deferred' = [deferred EXCEPT ![i] = m]
                               /\ accepted' = accepted \cup {m}
    PROVE  HeldInv'
  <1>1. Starting(<<"hold", m>>) /\ \A j : ~Starting(<<"clear", j>>)
    BY DEF Drops
  <1>2. \A s : s[1] \in Handling => ~Starting(s)'
    BY DEF Drops, Handling, Immediate
  <1>3. \A j, n : ~Starting(<<"send", j, n>>)' /\ ~Starting(<<"hold", n>>)' /\ ~Starting(<<"clear", j>>)'
    BY <1>2 DEF Handling
  <1>4. CASE UNCHANGED <<deferred, accepted>>
    <2>1. \A n : Kept(n)' = Kept(n)
      BY <1>1, <1>3, <1>4 DEF Kept
    <2>2. \A n \in Messages \ accepted' : Unsent(n)'
      BY <1>4 DEF HeldInv, Unsent
    <2>3. \A n \in accepted' : HeldOnce(n)'
      BY <1>4, <2>1 DEF HeldInv, HeldOnce
    <2>4. QED  BY <1>3, <2>2, <2>3 DEF HeldInv
  <1>5. ASSUME NEW i \in Slots, deferred[i] = NoMessage, deferred' = [deferred EXCEPT ![i] = m],
               accepted' = accepted \cup {m}
        PROVE  HeldInv'
    <2>1. deferred'[i] = m /\ \A j \in Slots \ {i} : deferred'[j] = deferred[j]
      BY <1>5 DEF TypeInv, DataOK, NmConnectionTypeOK
    <2>2. NoMessage \notin Messages /\ accepted \subseteq Messages
      BY NmConnectionAssumption DEF TypeInv, DataOK
    <2>3. m \notin accepted /\ Unsent(m)
      BY <1>1 DEF HeldInv
    <2>4. Kept(m)' = {i}
      BY <1>3, <2>1, <2>3 DEF Kept, Unsent
    <2>5. \A n \in Messages \ {m} : Kept(n)' = Kept(n)
      BY <1>1, <1>3, <1>5, <2>1, <2>2 DEF Kept
    <2>6. \A n \in Messages \ accepted' : Unsent(n)'
      BY <1>5, <2>1 DEF HeldInv, Unsent
    <2>7. HeldOnce(m)'
      BY <2>3, <2>4 DEF HeldOnce, Unsent
    <2>8. \A n \in accepted : HeldOnce(n)'
      BY <2>2, <2>3, <2>5 DEF HeldInv, HeldOnce
    <2>9. QED  BY <1>3, <1>5, <2>6, <2>7, <2>8 DEF HeldInv
  <1>6. QED  BY <1>4, <1>5

LEMMA HeldPublish ==
    ASSUME HeldInv, TypeInv, UNCHANGED deferred, overlaps' = 0, NEW m \in Messages \ accepted,
           \/ Came(<<>>) /\ sent' = [sent EXCEPT ![m] = @ + 1] /\ accepted' = accepted \cup {m}
           \/ Came(<< <<"hold", m>> >>) /\ UNCHANGED <<sent, accepted>>
    PROVE  HeldInv'
  <1>1. ASSUME Came(<<>>), sent' = [sent EXCEPT ![m] = @ + 1], accepted' = accepted \cup {m}
        PROVE  HeldInv'
    <2>1. \A s : ~Starting(s) /\ ~Starting(s)'
      BY <1>1 DEF Came, Comes
    <2>2. \A n : Kept(n)' = Kept(n)
      BY <2>1 DEF Kept
    <2>3. Unsent(m) /\ Kept(m) = {}
      BY DEF HeldInv, Unsent, Kept
    <2>4. sent'[m] = 1 /\ \A n \in Messages \ {m} : sent'[n] = sent[n]
      BY <1>1, <2>3 DEF TypeInv, DataOK, Unsent
    <2>5. accepted \subseteq Messages
      BY DEF TypeInv, DataOK
    <2>6. \A n \in accepted' : HeldOnce(n)'
      BY <1>1, <2>2, <2>3, <2>4, <2>5 DEF HeldInv, HeldOnce
    <2>7. \A n \in Messages \ accepted' : Unsent(n)'
      BY <1>1, <2>4 DEF HeldInv, Unsent
    <2>8. QED  BY <2>1, <2>6, <2>7 DEF HeldInv
  <1>2. ASSUME Came(<< <<"hold", m>> >>), UNCHANGED <<sent, accepted>>
        PROVE  HeldInv'
    <2>1. << <<"hold", m>> >> # <<>> /\ << <<"hold", m>> >>[1] = <<"hold", m>>
      OBVIOUS
    <2>2. \A s : ~Starting(s) /\ (Starting(s)' <=> s = <<"hold", m>>)
      BY <1>2, <2>1 DEF Came, Comes
    <2>3. \A j, n : ~Starting(<<"send", j, n>>)' /\ ~Starting(<<"clear", j>>)'
      BY <2>2
    <2>4. ASSUME NEW n, Starting(<<"hold", n>>)'  PROVE n = m
      <3>1. <<"hold", n>> = <<"hold", m>>
        BY <2>2, <2>4
      <3>2. QED  BY <3>1
    <2>5. \A n : Kept(n)' = Kept(n)
      BY <2>2, <2>3 DEF Kept
    <2>6. \A n \in Messages \ accepted' : Unsent(n)'
      BY <1>2 DEF HeldInv, Unsent
    <2>7. \A n \in accepted' : HeldOnce(n)'
      BY <1>2, <2>5 DEF HeldInv, HeldOnce
    <2>8. QED  BY <1>2, <2>3, <2>4, <2>6, <2>7 DEF HeldInv
  <1>3. QED  BY <1>1, <1>2

-------------------------------------------------------------------------------
(* Every action moves the steps in one of the ways above.                      *)

Moves ==
    \/ UNCHANGED <<todo, overlaps>>
    \/ \E h, x : Moved(h, x) \/ Ended(h)
    \/ \E q : Came(q)
    \/ \E first, extra : Arrives(first, extra)

LEMMA ActionsMove ==
    ASSUME TypeInv, [NmConnectionNext]_vars
    PROVE  Moves
  <1>1. ASSUME NEW task \in Tasks, CoordinatorStep(task)  PROVE Moves
    <2>1. CASE Decide(task)
      BY <2>1, DecideTodo DEF Moves
    <2>2. CASE Select(task)
      BY <2>2, SelectTodo DEF Moves
    <2>3. CASE Conclude(task)
      BY <2>3, ConcludeTodo DEF Moves
    <2>4. CASE Notify(task)
      BY <2>4, NotifyTodo DEF Moves
    <2>5. CASE FlushTake(task)
      BY <2>5, FlushTakeTodo DEF Moves, Goes
    <2>6. CASE FlushSend(task)
      BY <2>6, FlushSendTodo DEF Moves
    <2>7. CASE FlushClear(task)
      BY <2>7, FlushClearTodo DEF Moves, Goes
    <2>8. CASE Look(task)
      BY <2>8, LookTodo DEF Moves
    <2>9. CASE Tell(task)
      BY <2>9, TellTodo DEF Moves
    <2>10. QED
      BY <1>1, <2>1, <2>2, <2>3, <2>4, <2>5, <2>6, <2>7, <2>8, <2>9 DEF CoordinatorStep
  <1>2. CASE Drivers
    <2>1. CASE MqttConnected \/ MqttDisconnected \/ MqttError
      BY <2>1, ServiceTodo DEF Moves
    <2>2. CASE ClientConnected \/ ClientLost
      BY <2>2 DEF ClientConnected, ClientLost, Moves
    <2>3. QED  BY <1>2, <2>1, <2>2 DEF Drivers
  <1>3. CASE Application \/ ConnectionTick
    <2>1. CASE MqttEnable \/ MqttDisable \/ EspNowEnable \/ EspNowDisable
      BY <2>1, ServiceTodo DEF Moves
    <2>2. CASE EspNowSuspend \/ EspNowResume \/ GatewayCandidate
      BY <2>2, ServiceTodo DEF Moves
    <2>3. CASE Prefer \/ PublishWhenConnected \/ ConnectionTick
      BY <2>3, LoopTodo DEF Moves
    <2>4. QED  BY <1>3, <2>1, <2>2, <2>3 DEF Application
  <1>4. CASE LoopStep
    <2>1. CASE CoordinatorStep("loop")
      BY <2>1, <1>1 DEF Tasks
    <2>2. CASE EndMqtt \/ BeginWorker \/ Connecting \/ EndClient \/ StopWorker \/ Drain
      BY <2>2, SwitchTodo DEF Moves
    <2>3. CASE Preferred
      BY <2>3, PreferredTodo DEF Moves
    <2>4. CASE Hold
      BY <2>4, HoldTodo DEF Moves
    <2>5. QED  BY <1>4, <2>1, <2>2, <2>3, <2>4 DEF LoopStep
  <1>5. CASE WorkerStep
    <2>1. CASE CoordinatorStep("espnow")
      BY <2>1, <1>1 DEF Tasks
    <2>2. CASE HandleConnected
      BY <2>2, ServiceTodo DEF Moves
    <2>3. CASE HandleOther
      BY <2>3, HandleOtherTodo DEF Moves
    <2>4. CASE Settle
      BY <2>4, SettleTodo DEF Moves
    <2>5. QED  BY <1>5, <2>1, <2>2, <2>3, <2>4 DEF WorkerStep
  <1>6. CASE CoordinatorStep("mqtt")
    BY <1>6, <1>1 DEF Tasks
  <1>7. CASE UNCHANGED vars
    BY <1>7 DEF vars, Moves
  <1>8. QED  BY <1>2, <1>3, <1>4, <1>5, <1>6, <1>7 DEF NmConnectionNext

LEMMA InsideKept ==
    ASSUME TypeInv, [NmConnectionNext]_vars, overlaps' = 0, overlaps = 0 => OneInside
    PROVE  overlaps = 0 /\ OneInside /\ OneInside'
  <1>1. CASE UNCHANGED <<todo, overlaps>>
    BY <1>1 DEF OneInside, Idle
  <1>2. ASSUME NEW h, NEW x, Moved(h, x) \/ Ended(h)  PROVE overlaps = 0 /\ OneInside /\ OneInside'
    BY <1>2 DEF Moved, Ended, Swaps, Drops
  <1>3. ASSUME NEW q, Came(q)  PROVE overlaps = 0 /\ OneInside /\ OneInside'
    BY <1>3 DEF Came, Comes
  <1>4. ASSUME NEW first, NEW extra, Arrives(first, extra)
        PROVE  overlaps = 0 /\ OneInside /\ OneInside'
    BY <1>4 DEF Arrives
  <1>5. QED  BY <1>1, <1>2, <1>3, <1>4, ActionsMove DEF Moves

LEMMA HeldKept ==
    ASSUME TypeInv, OneInside, HeldInv, [NmConnectionNext]_vars, overlaps' = 0
    PROVE  HeldInv'
  <1>1. ASSUME NEW task \in Tasks, CoordinatorStep(task)  PROVE HeldInv'
    <2>1. CASE Decide(task)
      <3>1. Swaps(<<"decide">>, <<"select", ResolveNetworkRoute(route.preferred, route.selected)>>)
        BY <2>1, DecideTodo DEF Moved
      <3>2. QED  BY <2>1, <3>1, HeldAside DEF Decide, history, Handling
    <2>2. CASE Select(task)
      <3>1. PICK u, b : Swaps(<<"select", u>>, <<"conclude", u, b>>)
        BY <2>2, SelectTodo DEF Moved
      <3>2. QED  BY <2>2, <3>1, HeldAside DEF Select, history, Handling
    <2>3. CASE Conclude(task)
      <3>1. PICK u, b : Swaps(<<"conclude", u, b>>, <<"notify">>) \/ Drops(<<"conclude", u, b>>)
        BY <2>3, ConcludeTodo DEF Moved, Ended
      <3>2. QED  BY <2>3, <3>1, HeldAside DEF Conclude, history, Handling
    <2>4. CASE Notify(task)
      <3>1. Swaps(<<"notify">>, <<"take", 1>>)
        BY <2>4, NotifyTodo DEF Moved
      <3>2. QED  BY <2>4, <3>1, HeldAside DEF Notify, history, Handling
    <2>5. CASE FlushTake(task)
      <3>1. PICK i \in Slots :
              /\ deferred[i] = NoMessage => Goes(<<"take", i>>, i)
              /\ deferred[i] # NoMessage =>
                    deferred[i] \in Messages /\ Moved(<<"take", i>>, <<"send", i, deferred[i]>>)
        BY <2>5, FlushTakeTodo
      <3>2. UNCHANGED <<deferred, sent, accepted>>
        BY <2>5 DEF FlushTake, history
      <3>3. CASE deferred[i] = NoMessage
        <4>1. Swaps(<<"take", i>>, <<"take", i + 1>>) \/ Drops(<<"take", i>>)
          BY <3>1, <3>3 DEF Goes, Moved, Ended
        <4>2. QED  BY <3>2, <4>1, HeldAside DEF Handling
      <3>4. CASE deferred[i] # NoMessage
        BY <3>1, <3>2, <3>4, HeldTake DEF Moved
      <3>5. QED  BY <3>3, <3>4
    <2>6. CASE FlushSend(task)
      <3>1. PICK i \in Slots, m \in Messages :
              /\ Carries => /\ Moved(<<"send", i, m>>, <<"clear", i>>)
                            /\ sent' = [sent EXCEPT ![m] = @ + 1]
              /\ ~Carries => Ended(<<"send", i, m>>) /\ UNCHANGED sent
        BY <2>6, FlushSendTodo
      <3>2. UNCHANGED <<deferred, accepted>>
        BY <2>6 DEF FlushSend
      <3>3. CASE Carries
        BY <3>1, <3>2, <3>3, HeldSend DEF Moved
      <3>4. CASE ~Carries
        BY <3>1, <3>2, <3>4, HeldUnsent DEF Ended
      <3>5. QED  BY <3>3, <3>4
    <2>7. CASE FlushClear(task)
      <3>1. PICK i \in Slots :
              deferred' = [deferred EXCEPT ![i] = NoMessage] /\ Goes(<<"clear", i>>, i)
        BY <2>7, FlushClearTodo
      <3>2. Swaps(<<"clear", i>>, <<"take", i + 1>>) \/ Drops(<<"clear", i>>)
        BY <3>1 DEF Goes, Moved, Ended
      <3>3. UNCHANGED <<sent, accepted>> /\ <<"take", i + 1>>[1] \notin Handling
        BY <2>7 DEF FlushClear, history, Handling
      <3>4. QED  BY <3>1, <3>2, <3>3, HeldClear
    <2>8. CASE Look(task)
      <3>1. PICK t, s : Swaps(<<"look", t>>, <<"tell", t, s>>)
        BY <2>8, LookTodo DEF Moved
      <3>2. QED  BY <2>8, <3>1, HeldAside DEF Look, history, Handling
    <2>9. CASE Tell(task)
      <3>1. PICK t, s : Drops(<<"tell", t, s>>)
        BY <2>9, TellTodo DEF Ended
      <3>2. QED  BY <2>9, <3>1, HeldAside DEF Tell, history, Handling
    <2>10. QED
      BY <1>1, <2>1, <2>2, <2>3, <2>4, <2>5, <2>6, <2>7, <2>8, <2>9 DEF CoordinatorStep
  <1>2. <<"decide">>[1] \notin Handling /\ <<"begin">>[1] \notin Handling
        /\ \A e : <<"settle", e>>[1] \notin Handling
    BY DEF Handling
  <1>3. ASSUME UNCHANGED <<todo, deferred, sent, accepted>>  PROVE HeldInv'
    <2>1. \A s : Starting(s)' <=> Starting(s)
      BY <1>3 DEF Starting, Idle
    <2>2. \A m : Kept(m)' = Kept(m)
      BY <1>3, <2>1 DEF Kept
    <2>3. \A m \in accepted' : HeldOnce(m)'
      BY <1>3, <2>2 DEF HeldInv, HeldOnce
    <2>4. \A m \in Messages \ accepted' : Unsent(m)'
      BY <1>3 DEF HeldInv, Unsent
    <2>5. QED  BY <1>3, <2>1, <2>3, <2>4 DEF HeldInv
  <1>4. CASE MqttConnected \/ MqttDisconnected
    <2>1. Arrives(<<"decide">>, {}) \/ UNCHANGED todo
      BY <1>4, ServiceTodo
    <2>2. UNCHANGED <<deferred, sent, accepted>>
      BY <1>4 DEF MqttConnected, MqttDisconnected, history
    <2>3. QED  BY <1>2, <1>3, <2>1, <2>2, HeldNew
  <1>5. CASE MqttError \/ HandleConnected \/ MqttEnable \/ GatewayCandidate
    <2>1. UNCHANGED <<deferred, sent, accepted>>
      BY <1>5 DEF MqttError, HandleConnected, MqttEnable, GatewayCandidate, history
    <2>2. QED  BY <1>2, <1>5, <2>1, ServiceTodo, HeldNew
  <1>6. CASE MqttDisable \/ EspNowEnable \/ EspNowResume \/ EspNowDisable \/ EspNowSuspend
    <2>1. UNCHANGED <<deferred, sent, accepted>>
      BY <1>6 DEF MqttDisable, EspNowEnable, EspNowResume, EspNowDisable, EspNowSuspend, history
    <2>2. QED  BY <1>2, <1>6, <2>1, ServiceTodo, HeldNew
  <1>7. CASE HandleOther
    <2>1. UNCHANGED <<deferred, sent, accepted>>
      BY <1>7 DEF HandleOther, history
    <2>2. PICK first, extra : Arrives(first, extra) /\ first[1] \notin Handling
      BY <1>2, <1>7, HandleOtherTodo
    <2>3. QED  BY <2>1, <2>2, HeldNew
  <1>8. CASE ClientConnected \/ ClientLost
    BY <1>3, <1>8 DEF ClientConnected, ClientLost, history
  <1>9. CASE ConnectionTick
    <2>1. Came(Reevaluate) /\ Reevaluate[1][1] \notin Handling
      BY <1>2, <1>9, LoopTodo DEF Reevaluate
    <2>2. UNCHANGED <<deferred, sent, accepted>>
      BY <1>9 DEF ConnectionTick, history
    <2>3. QED  BY <2>1, <2>2, HeldCame
  <1>10. CASE Prefer
    <2>1. PICK u, w : Came(<< <<"select", u>>, <<"prefer", w>> >>)
      BY <1>10, LoopTodo
    <2>2. << <<"select", u>>, <<"prefer", w>> >>[1][1] \notin Handling
      BY DEF Handling
    <2>3. UNCHANGED <<deferred, sent, accepted>>
      BY <1>10 DEF Prefer, history
    <2>4. QED  BY <2>1, <2>2, <2>3, HeldCame
  <1>11. CASE PublishWhenConnected
    <2>1. PICK m \in Messages \ accepted :
                 /\ Carries => /\ Came(<<>>) /\ sent' = [sent EXCEPT ![m] = @ + 1]
                               /\ accepted' = accepted \cup {m}
                 /\ ~Carries => Came(<< <<"hold", m>> >>) /\ UNCHANGED history
      BY <1>11, LoopTodo
    <2>2. UNCHANGED deferred
      BY <1>11 DEF PublishWhenConnected
    <2>3. UNCHANGED history => UNCHANGED <<sent, accepted>>
      BY DEF history
    <2>4. QED  BY <2>1, <2>2, <2>3, HeldPublish
  <1>12. CASE EndMqtt \/ BeginWorker \/ Connecting \/ EndClient \/ StopWorker \/ Drain
    <2>1. UNCHANGED <<deferred, sent, accepted>>
      BY <1>12 DEF EndMqtt, BeginWorker, Connecting, EndClient, StopWorker, Drain, history
    <2>2. PICK x \in {"begin", "connecting", "endClient", "stopWorker", "drain", "endMqtt"} :
             Swaps(<<x>>, <<"connecting">>) \/ Drops(<<x>>)
      BY <1>12, SwitchTodo DEF Moved, Ended
    <2>3. <<x>>[1] \notin Handling /\ <<"connecting">>[1] \notin Handling
      BY DEF Handling
    <2>4. QED  BY <2>1, <2>2, <2>3, HeldAside
  <1>13. CASE Settle
    <2>1. PICK e : Drops(<<"settle", e>>)
      BY <1>13, SettleTodo DEF Ended
    <2>2. UNCHANGED <<deferred, sent, accepted>>
      BY <1>13 DEF Settle, history
    <2>3. QED  BY <1>2, <2>1, <2>2, HeldAside
  <1>14. CASE Preferred
    <2>1. PICK p : Drops(<<"prefer", p>>)
      BY <1>14, PreferredTodo DEF Ended
    <2>2. UNCHANGED <<deferred, sent, accepted>> /\ <<"prefer", p>>[1] \notin Handling
      BY <1>14 DEF Preferred, history, Handling
    <2>3. QED  BY <2>1, <2>2, HeldAside
  <1>15. CASE Hold
    <2>1. PICK m \in Messages :
              /\ Ended(<<"hold", m>>)
              /\ \/ UNCHANGED <<deferred, accepted>>
                 \/ \E i \in Slots : /\ deferred[i] = NoMessage
                                     /\ deferred' = [deferred EXCEPT ![i] = m]
                                     /\ accepted' = accepted \cup {m}
      BY <1>15, HoldTodo
    <2>2. UNCHANGED sent
      BY <1>15 DEF Hold
    <2>3. QED  BY <2>1, <2>2, HeldHold DEF Ended
  <1>16. CASE UNCHANGED vars
    BY <1>3, <1>16 DEF vars
  <1>17. "mqtt" \in Tasks /\ "espnow" \in Tasks /\ "loop" \in Tasks
    BY DEF Tasks
  <1>18. QED
    BY <1>1, <1>4, <1>5, <1>6, <1>7, <1>8, <1>9, <1>10, <1>11, <1>12, <1>13, <1>14, <1>15, <1>16,
       <1>17
       DEF NmConnectionNext, Drivers, Application, LoopStep, WorkerStep

OrderlyInv == overlaps = 0 => OneInside /\ HeldInv

\* At rest no slot is about to be emptied, so a message is in as many slots as it is kept in.
LEMMA HeldAtRest ==
    ASSUME TypeInv, HeldInv, Quiet, NEW m \in accepted
    PROVE  sent[m] + Cardinality({i \in Slots : deferred[i] = m}) = 1
  <1>1. \A s : ~Starting(s)
    BY DEF Quiet, Starting
  <1>2. {i \in Slots : deferred[i] = m} = Kept(m)
    BY <1>1 DEF Kept
  <1>3. CASE sent[m] = 1 /\ Kept(m) = {}
    BY <1>2, <1>3, FS_EmptySet
  <1>4. CASE sent[m] = 0 /\ \E i \in Slots : Kept(m) = {i}
    <2>1. PICK i \in Slots : Kept(m) = {i}
      BY <1>4
    <2>2. Cardinality({i}) = 1
      BY FS_Singleton
    <2>3. QED  BY <1>2, <1>4, <2>1, <2>2
  <1>5. QED  BY <1>3, <1>4 DEF HeldInv, HeldOnce

\* Unless two tasks were inside at once, a message whose caller was told that it
\* is sent or held is in one slot of the backlog or was published once, for any
\* number of slots and messages and however connections come and go
\* (PublishTextWhenConnected and flushDeferred in Network/NmConnection.cpp).
THEOREM MessagesAreHeldOrSent == Spec => []HeldOrSent
  <1>1. NmConnectionInit => TypeInv /\ OrderlyInv
    <2>1. ASSUME NmConnectionInit  PROVE HeldInv
      <3>1. \A m \in Messages : Unsent(m)
        BY <2>1, NmConnectionAssumption DEF NmConnectionInit, Unsent
      <3>2. QED  BY <2>1, <3>1, TypesStart DEF HeldInv, NmConnectionInit
    <2>2. QED  BY <2>1, TypesStart DEF OrderlyInv
  <1>2. TypeInv /\ OrderlyInv /\ [NmConnectionNext]_vars => (TypeInv /\ OrderlyInv)'
    <2>1. ASSUME TypeInv, OrderlyInv, [NmConnectionNext]_vars, overlaps' = 0
          PROVE  OneInside' /\ HeldInv'
      <3>1. overlaps = 0 /\ OneInside /\ OneInside'
        BY <2>1, InsideKept DEF OrderlyInv
      <3>2. QED  BY <2>1, <3>1, HeldKept DEF OrderlyInv
    <2>2. QED  BY <2>1, TypesKept DEF OrderlyInv
  <1>3. TypeInv /\ OrderlyInv => HeldOrSent
    BY HeldAtRest DEF OrderlyInv, HeldOrSent, Orderly
  <1>4. QED  BY <1>1, <1>2, <1>3, PTL DEF Spec
\* What a flush moves on to is of its own kinds,
LEMMA FlushMoves ==
    ASSUME TypeInv, OneInside, NEW task \in Tasks,
           FlushTake(task) \/ FlushSend(task) \/ FlushClear(task)
    PROVE  \E h, x : /\ Swaps(h, x) \/ Drops(h)
                     /\ h[1] \in {"take", "send", "clear"} /\ x[1] \in {"take", "send", "clear"}
  <1>1. ASSUME NEW h, NEW i, Goes(h, i), h[1] \in {"take", "send", "clear"}
        PROVE  \E g, x : /\ Swaps(g, x) \/ Drops(g)
                         /\ g[1] \in {"take", "send", "clear"} /\ x[1] \in {"take", "send", "clear"}
    <2>1. Swaps(h, <<"take", i + 1>>) \/ Drops(h)
      BY <1>1 DEF Goes, Moved, Ended
    <2>2. <<"take", i + 1>>[1] = "take"
      OBVIOUS
    <2>3. QED  BY <1>1, <2>1, <2>2
  <1>2. CASE FlushTake(task)
    <2>1. PICK i \in Slots :
              /\ deferred[i] = NoMessage => Goes(<<"take", i>>, i)
              /\ deferred[i] # NoMessage =>
                    deferred[i] \in Messages /\ Moved(<<"take", i>>, <<"send", i, deferred[i]>>)
      BY <1>2, FlushTakeTodo
    <2>2. <<"take", i>>[1] = "take" /\ <<"send", i, deferred[i]>>[1] = "send"
      OBVIOUS
    <2>3. deferred[i] # NoMessage => Swaps(<<"take", i>>, <<"send", i, deferred[i]>>)
      BY <2>1 DEF Moved
    <2>4. QED  BY <1>1, <2>1, <2>2, <2>3
  <1>3. CASE FlushSend(task)
    <2>1. PICK i, m : Swaps(<<"send", i, m>>, <<"clear", i>>) \/ Drops(<<"send", i, m>>)
      BY <1>3, FlushSendTodo DEF Moved, Ended
    <2>2. <<"send", i, m>>[1] = "send" /\ <<"clear", i>>[1] = "clear"
      OBVIOUS
    <2>3. QED  BY <2>1, <2>2
  <1>4. CASE FlushClear(task)
    <2>1. PICK i : Goes(<<"clear", i>>, i)
      BY <1>4, FlushClearTodo
    <2>2. <<"clear", i>>[1] = "clear"
      OBVIOUS
    <2>3. QED  BY <1>1, <2>1, <2>2
  <1>5. QED  BY <1>2, <1>3, <1>4

\* and the loop comes in with one of these.
LEMMA LoopComes ==
    ASSUME TypeInv, ConnectionTick \/ Prefer \/ PublishWhenConnected
    PROVE  \E q : Came(q) /\ (q # <<>> => q[1][1] \in {"decide", "select", "hold"})
  <1>1. CASE ConnectionTick
    <2>1. Came(Reevaluate) /\ Reevaluate[1][1] = "decide"
      BY <1>1, LoopTodo DEF Reevaluate
    <2>2. QED  BY <2>1
  <1>2. CASE Prefer
    <2>1. PICK u, w : Came(<< <<"select", u>>, <<"prefer", w>> >>)
      BY <1>2, LoopTodo
    <2>2. << <<"select", u>>, <<"prefer", w>> >>[1][1] = "select"
      OBVIOUS
    <2>3. QED  BY <2>1, <2>2
  <1>3. CASE PublishWhenConnected
    <2>1. PICK m : Came(<<>>) \/ Came(<< <<"hold", m>> >>)
      BY <1>3, LoopTodo
    <2>2. << <<"hold", m>> >>[1][1] = "hold"
      OBVIOUS
    <2>3. QED  BY <2>1, <2>2
  <1>4. QED  BY <1>1, <1>2, <1>3

-------------------------------------------------------------------------------
(* The state a service is in was told to the application, or someone is about  *)
(* to look at it, or what he saw is still so.                                  *)

Reporting == {"look", "tell"}

Aware(t) ==
    \/ status[t].told = service[t].state
    \/ Pending(<<"look", t>>)
    \/ Starting(<<"tell", t, service[t].state>>)

StatusInv ==
    /\ \A t \in Transports : status[t].told = status[t].last
    /\ \A t \in Transports : \A s : Starting(<<"tell", t, s>>) => s = service[t].state
    /\ \A t \in Transports : Aware(t)

LEMMA StatusStays ==
    ASSUME StatusInv, NEW h, NEW x, Swaps(h, x) \/ Drops(h),
           h[1] \notin Reporting, x[1] \notin Reporting, UNCHANGED <<service, status>>
    PROVE  StatusInv'
  <1>1. ASSUME NEW t, NEW s
        PROVE  ~Starting(<<"tell", t, s>>) /\ ~Starting(<<"tell", t, s>>)'
    <2>1. <<"tell", t, s>>[1] = "tell"
      OBVIOUS
    <2>2. QED  BY <2>1 DEF Swaps, Drops, Reporting, Immediate
  <1>2. ASSUME NEW t \in Transports  PROVE Aware(t)'
    <2>1. <<"look", t>> # h
      BY DEF Reporting
    <2>2. Pending(<<"look", t>>) => Pending(<<"look", t>>)'
      BY <2>1 DEF Swaps, Drops
    <2>3. QED  BY <1>1, <2>2 DEF StatusInv, Aware
  <1>3. QED  BY <1>1, <1>2 DEF StatusInv

LEMMA StatusStill ==
    ASSUME StatusInv, UNCHANGED <<todo, service, status>>
    PROVE  StatusInv'
  <1>1. \A s : (Starting(s)' <=> Starting(s)) /\ (Pending(s)' <=> Pending(s))
    BY DEF Starting, Pending, Waits, Idle
  <1>2. \A t : Aware(t) => Aware(t)'
    BY <1>1 DEF Aware
  <1>3. QED  BY <1>1, <1>2 DEF StatusInv

\* A task that comes in looks at both.
LEMMA StatusNew ==
    ASSUME StatusInv, UNCHANGED status, NEW first, NEW extra, Arrives(first, extra), overlaps' = 0,
           first[1] \notin Reporting
    PROVE  StatusInv'
  <1>1. \A t \in Transports : Pending(<<"look", t>>)'
    BY DEF Arrives, Notices
  <1>2. \A t, s : ~Starting(<<"tell", t, s>>)'
    BY DEF Arrives, Reporting
  <1>3. QED  BY <1>1, <1>2 DEF StatusInv, Aware

\* Nobody was inside, so the application knows.
LEMMA StatusCame ==
    ASSUME StatusInv, UNCHANGED <<service, status>>, NEW q, Came(q), overlaps' = 0,
           q # <<>> => q[1][1] \notin Reporting
    PROVE  StatusInv'
  <1>1. \A s : ~Pending(s) /\ ~Starting(s)
    BY DEF Came, Comes
  <1>2. \A t, s : ~Starting(<<"tell", t, s>>)'
    BY DEF Came, Comes, Reporting
  <1>3. QED  BY <1>1, <1>2 DEF StatusInv, Aware

LEMMA StatusChange ==
    ASSUME StatusInv, NEW h, Drops(h), h[1] \notin Reporting, UNCHANGED status,
           service'["MQTT"] = service["MQTT"], Pending(<<"look", "ESP_NOW">>)'
    PROVE  StatusInv'
  <1>1. ASSUME NEW t, NEW s
        PROVE  ~Starting(<<"tell", t, s>>) /\ ~Starting(<<"tell", t, s>>)'
    <2>1. <<"tell", t, s>>[1] = "tell"
      OBVIOUS
    <2>2. QED  BY <2>1 DEF Drops, Reporting, Immediate
  <1>2. Pending(<<"look", "MQTT">>) => Pending(<<"look", "MQTT">>)'
    BY DEF Drops, Reporting
  <1>3. Aware("MQTT")' /\ Aware("ESP_NOW")'
    BY <1>1, <1>2 DEF StatusInv, Aware, Transports
  <1>4. QED  BY <1>1, <1>3 DEF StatusInv, Transports

LEMMA StatusLook ==
    ASSUME StatusInv, NEW t \in Transports, Swaps(<<"look", t>>, <<"tell", t, service[t].state>>),
           UNCHANGED <<service, status>>
    PROVE  StatusInv'
  <1>1. ASSUME NEW u \in Transports, NEW s
        PROVE  ~Starting(<<"tell", u, s>>) /\ (Starting(<<"tell", u, s>>)' => u = t /\ s = service[t].state)
    BY DEF Swaps
  <1>2. ASSUME NEW u \in Transports  PROVE Aware(u)'
    <2>1. CASE u = t
      BY <2>1 DEF Swaps, Aware
    <2>2. CASE u # t
      <3>1. Pending(<<"look", u>>) => Pending(<<"look", u>>)'
        BY <2>2 DEF Swaps
      <3>2. QED  BY <3>1, <1>1 DEF StatusInv, Aware
    <2>3. QED  BY <2>1, <2>2
  <1>3. QED  BY <1>1, <1>2 DEF StatusInv

LEMMA StatusTell ==
    ASSUME TypeInv, StatusInv, NEW t \in Transports, NEW s, Drops(<<"tell", t, s>>), UNCHANGED service,
           status' = [status EXCEPT ![t] = [last |-> s, told |-> IF s # @.last THEN s ELSE @.told]]
    PROVE  StatusInv'
  <1>1. Starting(<<"tell", t, s>>) /\ s = service[t].state
    BY DEF Drops, StatusInv
  <1>2. \A u, r : ~Starting(<<"tell", u, r>>)'
    BY DEF Drops, Immediate
  <1>3. status \in [Transports -> [last : ConnectivityState, told : ConnectivityState]]
    BY DEF TypeInv, DataOK, NmConnectionTypeOK
  <1>4. status'[t].last = s /\ status'[t].told = s /\ \A u \in Transports \ {t} : status'[u] = status[u]
    BY <1>3 DEF StatusInv
  <1>5. ASSUME NEW u \in Transports  PROVE Aware(u)'
    <2>1. CASE u = t
      BY <2>1, <1>1, <1>4 DEF Aware
    <2>2. CASE u # t
      <3>1. ~Starting(<<"tell", u, service[u].state>>)
        BY <2>2 DEF Drops
      <3>2. Pending(<<"look", u>>) => Pending(<<"look", u>>)'
        BY DEF Drops
      <3>3. QED  BY <3>1, <3>2, <2>2, <1>4 DEF StatusInv, Aware
    <2>3. QED  BY <2>1, <2>2
  <1>6. \A u \in Transports : status'[u].told = status'[u].last
    BY <1>4 DEF StatusInv
  <1>7. QED  BY <1>2, <1>5, <1>6 DEF StatusInv

LEMMA StatusKept ==
    ASSUME TypeInv, OneInside, StatusInv, [NmConnectionNext]_vars, overlaps' = 0
    PROVE  StatusInv'
  <1>1. ASSUME NEW task \in Tasks, CoordinatorStep(task)  PROVE StatusInv'
    <2>1. CASE Decide(task)
      <3>1. Swaps(<<"decide">>, <<"select", ResolveNetworkRoute(route.preferred, route.selected)>>)
        BY <2>1, DecideTodo DEF Moved
      <3>2. QED  BY <2>1, <3>1, StatusStays DEF Decide, Reporting
    <2>2. CASE Select(task)
      <3>1. PICK u, b : Swaps(<<"select", u>>, <<"conclude", u, b>>)
        BY <2>2, SelectTodo DEF Moved
      <3>2. QED  BY <2>2, <3>1, StatusStays DEF Select, Reporting
    <2>3. CASE Conclude(task)
      <3>1. PICK u, b : Swaps(<<"conclude", u, b>>, <<"notify">>) \/ Drops(<<"conclude", u, b>>)
        BY <2>3, ConcludeTodo DEF Moved, Ended
      <3>2. UNCHANGED <<service, status>>
        BY <2>3 DEF Conclude
      <3>3. <<"conclude", u, b>>[1] \notin Reporting /\ <<"notify">>[1] \notin Reporting
        BY DEF Reporting
      <3>4. QED  BY <3>1, <3>2, <3>3, StatusStays
    <2>4. CASE Notify(task)
      <3>1. Swaps(<<"notify">>, <<"take", 1>>)
        BY <2>4, NotifyTodo DEF Moved
      <3>2. QED  BY <2>4, <3>1, StatusStays DEF Notify, Reporting
    <2>5. CASE FlushTake(task) \/ FlushSend(task) \/ FlushClear(task)
      <3>1. PICK h, x : /\ Swaps(h, x) \/ Drops(h)
                        /\ h[1] \notin Reporting /\ x[1] \notin Reporting
        BY <2>5, FlushMoves DEF Reporting
      <3>2. UNCHANGED <<service, status>>
        BY <2>5 DEF FlushTake, FlushSend, FlushClear
      <3>3. QED  BY <3>1, <3>2, StatusStays
    <2>6. CASE Look(task)
      <3>1. PICK t \in Transports : Swaps(<<"look", t>>, <<"tell", t, service[t].state>>)
        BY <2>6, LookTodo DEF Moved
      <3>2. QED  BY <2>6, <3>1, StatusLook DEF Look
    <2>7. CASE Tell(task)
      <3>1. PICK t \in Transports, s \in ConnectivityState :
              /\ Ended(<<"tell", t, s>>)
              /\ status' = [status EXCEPT ![t] =
                               [last |-> s, told |-> IF s # @.last THEN s ELSE @.told]]
        BY <2>7, TellTodo
      <3>2. Drops(<<"tell", t, s>>) /\ UNCHANGED service
        BY <2>7, <3>1 DEF Ended, Tell
      <3>3. QED  BY <3>1, <3>2, StatusTell
    <2>8. QED  BY <1>1, <2>1, <2>2, <2>3, <2>4, <2>5, <2>6, <2>7 DEF CoordinatorStep
  <1>2. <<"decide">>[1] \notin Reporting /\ <<"begin">>[1] \notin Reporting
        /\ \A e : <<"settle", e>>[1] \notin Reporting
    BY DEF Reporting
  <1>3. CASE MqttConnected \/ MqttDisconnected
    <2>1. UNCHANGED status
      BY <1>3 DEF MqttConnected, MqttDisconnected
    <2>2. CASE service["MQTT"].enabled
      BY <2>1, <2>2, <1>2, <1>3, ServiceTodo, StatusNew
    <2>3. CASE ~service["MQTT"].enabled
      BY <2>1, <2>3, <1>3, StatusStill DEF MqttConnected, MqttDisconnected
    <2>4. QED  BY <2>2, <2>3
  <1>4. CASE MqttError \/ HandleConnected \/ MqttEnable \/ GatewayCandidate
    <2>1. UNCHANGED status
      BY <1>4 DEF MqttError, HandleConnected, MqttEnable, GatewayCandidate
    <2>2. QED  BY <1>2, <1>4, <2>1, ServiceTodo, StatusNew
  <1>5. CASE MqttDisable \/ EspNowEnable \/ EspNowResume \/ EspNowDisable \/ EspNowSuspend
    <2>1. UNCHANGED status
      BY <1>5 DEF MqttDisable, EspNowEnable, EspNowResume, EspNowDisable, EspNowSuspend
    <2>2. QED  BY <1>2, <1>5, <2>1, ServiceTodo, StatusNew
  <1>6. CASE HandleOther
    <2>1. UNCHANGED status
      BY <1>6 DEF HandleOther
    <2>2. PICK first, extra : Arrives(first, extra) /\ first[1] \notin Reporting
      BY <1>2, <1>6, HandleOtherTodo
    <2>3. QED  BY <2>1, <2>2, StatusNew
  <1>7. CASE ClientConnected \/ ClientLost
    BY <1>7, StatusStill DEF ClientConnected, ClientLost
  <1>8. CASE ConnectionTick \/ Prefer \/ PublishWhenConnected
    <2>1. PICK q : Came(q) /\ (q # <<>> => q[1][1] \notin Reporting)
      BY <1>8, LoopComes DEF Reporting
    <2>2. UNCHANGED <<service, status>>
      BY <1>8 DEF ConnectionTick, Prefer, PublishWhenConnected
    <2>3. QED  BY <2>1, <2>2, StatusCame
  <1>9. CASE EndMqtt \/ BeginWorker \/ EndClient \/ StopWorker \/ Drain
    <2>1. UNCHANGED <<service, status>>
      BY <1>9 DEF EndMqtt, BeginWorker, EndClient, StopWorker, Drain
    <2>2. PICK x \in {"begin", "endClient", "stopWorker", "drain", "endMqtt"} :
             Swaps(<<x>>, <<"connecting">>) \/ Drops(<<x>>)
      BY <1>9, SwitchTodo DEF Moved, Ended
    <2>3. <<x>>[1] \notin Reporting /\ <<"connecting">>[1] \notin Reporting
      BY DEF Reporting
    <2>4. QED  BY <2>1, <2>2, <2>3, StatusStays
  <1>10. CASE Connecting
    <2>1. Drops(<<"connecting">>) /\ Pending(<<"look", "ESP_NOW">>)'
      BY <1>10, SwitchTodo DEF Ended
    <2>2. service'["MQTT"] = service["MQTT"] /\ UNCHANGED status
      BY <1>10 DEF Connecting, Enters, TypeInv, DataOK, NmConnectionTypeOK, Transports
    <2>3. <<"connecting">>[1] \notin Reporting
      BY DEF Reporting
    <2>4. QED  BY <2>1, <2>2, <2>3, StatusChange
  <1>11. CASE Settle
    <2>1. PICK e : /\ Drops(<<"settle", e>>) /\ Pending(<<"look", "ESP_NOW">>)'
                   /\ IF service["ESP_NOW"].enabled /\ ~worker.suspended
                      THEN Enters("ESP_NOW", IF e = "STOPPED" THEN "ERROR" ELSE "CONNECTING")
                      ELSE UNCHANGED service
      BY <1>11, SettleTodo DEF Ended
    <2>2. service'["MQTT"] = service["MQTT"] /\ UNCHANGED status
      BY <1>11, <2>1 DEF Settle, Enters, TypeInv, DataOK, NmConnectionTypeOK, Transports
    <2>3. QED  BY <1>2, <2>1, <2>2, StatusChange
  <1>12. CASE Preferred
    <2>1. PICK p : Drops(<<"prefer", p>>)
      BY <1>12, PreferredTodo DEF Ended
    <2>2. UNCHANGED <<service, status>> /\ <<"prefer", p>>[1] \notin Reporting
      BY <1>12 DEF Preferred, Reporting
    <2>3. QED  BY <2>1, <2>2, StatusStays
  <1>13. CASE Hold
    <2>1. PICK m : Drops(<<"hold", m>>)
      BY <1>13, HoldTodo DEF Ended
    <2>2. UNCHANGED <<service, status>> /\ <<"hold", m>>[1] \notin Reporting
      BY <1>13 DEF Hold, Reporting
    <2>3. QED  BY <2>1, <2>2, StatusStays
  <1>14. CASE UNCHANGED vars
    BY <1>14, StatusStill DEF vars
  <1>15. "mqtt" \in Tasks /\ "espnow" \in Tasks /\ "loop" \in Tasks
    BY DEF Tasks
  <1>16. QED
    BY <1>1, <1>3, <1>4, <1>5, <1>6, <1>7, <1>8, <1>9, <1>10, <1>11, <1>12, <1>13, <1>14, <1>15
       DEF NmConnectionNext, Drivers, Application, LoopStep, WorkerStep

-------------------------------------------------------------------------------
(* The selected connection whose owners have not heard of its session: someone *)
(* is on the way to tell them or to another connection, or the worker has yet  *)
(* to hear that the session before it was lost.                                *)

ESP == "ESP_NOW"

\* Steps the rest is about.
Routing == {"decide", "select", "conclude", "notify", "settle",
            "begin", "connecting", "endClient", "stopWorker", "drain", "endMqtt"}

\* Steps that find ESP-NOW not connected.
Halting == {"begin", "connecting", "endClient", "stopWorker", "drain"}

Due == \E k \in 1 .. Len(worker.events) : worker.events[k] # "CONNECTED"
Renewing == Due \/ \E e : Pending(<<"settle", e>>)
Leaving(t) == \E u \in ConnectionType \ {t} : Starting(<<"select", u>>)

\* The worker runs for nobody.
Unwanted ==
    worker.running /\ (~service[ESP].enabled \/ worker.suspended \/ ~worker.client)

WorkInv ==
    /\ Unwanted => Pending(<<"stopWorker">>)
    /\ Pending(<<"begin">>) => service[ESP].enabled /\ ~worker.suspended
    /\ Pending(<<"endMqtt">>) => ~service["MQTT"].enabled
    /\ \A e : Pending(<<"settle", e>>) => worker.running
    /\ \A x \in Halting : Pending(<<x>>) => ~TransportUsable(ESP)
    /\ worker.client /\ driver[ESP] = "down" /\ worker.events # <<>> =>
          worker.events[Len(worker.events)] # "CONNECTED"

Passing(t) == route.selected = t => TransportUsable(t) \/ Pending(<<"decide">>) \/ Leaving(t)
Backed(t) == TransportUsable(t) /\ driver[t] = "down" => t = ESP /\ Renewing
Heard(t) ==
    driver[t] = "up" /\ route.selected = t /\ route.state = "CONNECTED" =>
        \/ Starting(<<"notify">>) \/ Starting(<<"conclude", t, FALSE>>) \/ Leaving(t)
        \/ ~TransportUsable(t) /\ Pending(<<"decide">>)
        \/ t = ESP /\ Renewing

Choosing == \A u \in Transports : Starting(<<"select", u>>) => TransportUsable(u)
Concluding ==
    \A u, b : Starting(<<"conclude", u, b>>) =>
        route.selected = u /\ (b => route.state = "CONNECTED")

RouteInv ==
    /\ Choosing /\ Concluding
    /\ \A t \in Transports : Passing(t) /\ Backed(t) /\ Heard(t)

\* While nobody is inside.
LEMMA WhileIdle ==
    ASSUME WorkInv, RouteInv, \A s : ~Pending(s) /\ ~Starting(s)
    PROVE  /\ ~Unwanted
           /\ \A t \in Transports : route.selected = t => TransportUsable(t)
           /\ ~(TransportUsable("MQTT") /\ driver["MQTT"] = "down")
           /\ TransportUsable(ESP) /\ driver[ESP] = "down" => Due
           /\ ~(driver["MQTT"] = "up" /\ route.selected = "MQTT" /\ route.state = "CONNECTED")
           /\ driver[ESP] = "up" /\ route.selected = ESP /\ route.state = "CONNECTED" => Due
           /\ worker.client /\ driver[ESP] = "down" /\ worker.events # <<>> =>
                 worker.events[Len(worker.events)] # "CONNECTED"
  <1>1. \A t : ~Leaving(t)
    BY DEF Leaving
  <1>2. Renewing => Due
    BY DEF Renewing
  <1>3. "MQTT" \in Transports /\ ESP \in Transports /\ ESP # "MQTT"
    BY DEF Transports, ESP
  <1>4. Passing("MQTT") /\ Backed("MQTT") /\ Heard("MQTT") /\ Passing(ESP) /\ Backed(ESP) /\ Heard(ESP)
    BY <1>3 DEF RouteInv
  <1>5. ~Unwanted
    BY DEF WorkInv
  <1>6. \A t \in Transports : route.selected = t => TransportUsable(t)
    BY <1>1 DEF RouteInv, Passing
  <1>7. /\ ~(TransportUsable("MQTT") /\ driver["MQTT"] = "down")
        /\ TransportUsable(ESP) /\ driver[ESP] = "down" => Due
    BY <1>2, <1>3, <1>4 DEF Backed
  <1>8. /\ ~(driver["MQTT"] = "up" /\ route.selected = "MQTT" /\ route.state = "CONNECTED")
        /\ driver[ESP] = "up" /\ route.selected = ESP /\ route.state = "CONNECTED" => Due
    BY <1>1, <1>2, <1>3, <1>4 DEF Heard
  <1>9. worker.client /\ driver[ESP] = "down" /\ worker.events # <<>> =>
                 worker.events[Len(worker.events)] # "CONNECTED"
    BY DEF WorkInv
  <1>10. QED  BY <1>5, <1>6, <1>7, <1>8, <1>9

\* Once somebody has come in to decide, only the sessions matter.
LEMMA RouteArrives ==
    ASSUME NEW first, NEW extra, Arrives(first, extra), overlaps' = 0,
           first[1] \notin {"select", "conclude"},
           ~(TransportUsable("MQTT") /\ driver["MQTT"] = "down")',
           (TransportUsable(ESP) /\ driver[ESP] = "down" => Renewing)',
           ~(driver["MQTT"] = "up" /\ route.selected = "MQTT" /\ route.state = "CONNECTED")',
           (driver[ESP] = "up" /\ route.selected = ESP /\ route.state = "CONNECTED" => Renewing)'
    PROVE  RouteInv'
  <1>1. \A t : Passing(t)'
    BY DEF Arrives, Notices, Passing
  <1>2. \A t \in Transports : t = "MQTT" \/ t = ESP
    BY DEF Transports, ESP
  <1>3. \A t \in Transports : Backed(t)'
    BY <1>2 DEF Backed
  <1>4. \A t \in Transports : Heard(t)'
    BY <1>2 DEF Heard
  <1>5. \A u : ~Starting(<<"select", u>>)' /\ \A b : ~Starting(<<"conclude", u, b>>)'
    <2>1. \A u, b : <<"select", u>>[1] = "select" /\ <<"conclude", u, b>>[1] = "conclude"
      OBVIOUS
    <2>2. QED  BY <2>1 DEF Arrives
  <1>6. Choosing' /\ Concluding'
    BY <1>5 DEF Choosing, Concluding
  <1>7. QED  BY <1>1, <1>3, <1>4, <1>6 DEF RouteInv

\* The worker's side of it.
LEMMA WorkArrives ==
    ASSUME NEW first, NEW extra, Arrives(first, extra), overlaps' = 0,
           extra \subseteq {<<"begin">>, <<"endMqtt">>} \cup Ends \cup {<<"settle", e>> : e \in Events},
           Unwanted' => <<"stopWorker">> \in extra,
           <<"begin">> \in extra => service'[ESP].enabled /\ ~worker'.suspended,
           <<"endMqtt">> \in extra => ~service'["MQTT"].enabled,
           (\E e \in Events : <<"settle", e>> \in extra) => worker'.running,
           (\E x \in Halting : <<x>> \in extra) => ~TransportUsable(ESP)',
           (worker.client /\ driver[ESP] = "down" /\ worker.events # <<>> =>
                 worker.events[Len(worker.events)] # "CONNECTED")'
    PROVE  WorkInv'
  <1>1. \A s : Pending(s)' <=> Notices(s) \/ s \in extra
    BY DEF Arrives
  <1>2. \A s : Notices(s) => s[1] \in {"decide", "look"}
    BY DEF Notices
  <1>3. \A x \in Halting \cup {"endMqtt"} : Pending(<<x>>)' <=> <<x>> \in extra
    <2>1. \A x \in Halting \cup {"endMqtt"} : ~Notices(<<x>>)
      BY <1>2 DEF Halting
    <2>2. QED  BY <1>1, <2>1
  <1>4. ASSUME NEW e, Pending(<<"settle", e>>)'  PROVE worker'.running
    <2>1. ~Notices(<<"settle", e>>)
      BY <1>2
    <2>2. <<"settle", e>> \in extra
      BY <1>1, <1>4, <2>1
    <2>3. e \in Events
      <3>1. <<"settle", e>> \notin {<<"begin">>, <<"endMqtt">>} \cup Ends
        BY DEF Ends
      <3>2. PICK f \in Events : <<"settle", e>> = <<"settle", f>>
        BY <2>2, <3>1
      <3>3. QED  BY <3>2
    <2>4. QED  BY <2>2, <2>3
  <1>5. "begin" \in Halting /\ "stopWorker" \in Halting
    BY DEF Halting
  <1>6. QED  BY <1>3, <1>4, <1>5 DEF WorkInv

\* A service in another state.
LEMMA AfterEnters ==
    ASSUME TypeInv, NEW t \in Transports, NEW s, Enters(t, s)
    PROVE  /\ service'[t].enabled = service[t].enabled
           /\ TransportUsable(t)' <=> service[t].enabled /\ s = "CONNECTED"
           /\ s # "CONNECTED" => ~TransportUsable(t)'
           /\ \A u \in Transports \ {t} : /\ service'[u] = service[u]
                                          /\ TransportUsable(u)' <=> TransportUsable(u)
  <1>1. service \in [Transports -> [enabled : BOOLEAN, state : ConnectivityState]]
    BY DEF TypeInv, DataOK, NmConnectionTypeOK
  <1>2. /\ service'[t].enabled = service[t].enabled /\ service'[t].state = s
        /\ \A u \in Transports \ {t} : service'[u] = service[u]
    BY <1>1 DEF Enters
  <1>3. QED  BY <1>2 DEF TransportUsable

LEMMA AfterSwitch ==
    ASSUME TypeInv, NEW t \in Transports, NEW b \in BOOLEAN, NEW s, s # "CONNECTED",
           service' = [service EXCEPT ![t] = [enabled |-> b, state |-> s]]
    PROVE  /\ service'[t].enabled = b
           /\ ~TransportUsable(t)'
           /\ \A u \in Transports \ {t} : /\ service'[u] = service[u]
                                          /\ TransportUsable(u)' <=> TransportUsable(u)
  <1>1. service \in [Transports -> [enabled : BOOLEAN, state : ConnectivityState]]
    BY DEF TypeInv, DataOK, NmConnectionTypeOK
  <1>2. /\ service'[t].enabled = b /\ service'[t].state = s
        /\ \A u \in Transports \ {t} : service'[u] = service[u]
    BY <1>1
  <1>3. QED  BY <1>2 DEF TransportUsable

LEMMA SameService ==
    ASSUME UNCHANGED service
    PROVE  \A t : TransportUsable(t)' <=> TransportUsable(t)
  BY DEF TransportUsable

LEMMA SameDue ==
    ASSUME worker'.events = worker.events
    PROVE  Due' <=> Due
  BY DEF Due

\* The first event of the worker's queue is handled.
LEMMA DueLater ==
    ASSUME TypeInv, worker.events # <<>>, worker'.events = Tail(worker.events)
    PROVE  /\ Head(worker.events) = "CONNECTED" /\ Due => Due'
           /\ worker'.events # <<>> => worker'.events[Len(worker'.events)] = worker.events[Len(worker.events)]
           /\ Head(worker.events) = "CONNECTED" /\ worker.events[Len(worker.events)] # "CONNECTED" => Due'
  <1> DEFINE q == worker.events
             r == worker'.events
  <1>1. q \in Seq(Events) /\ Len(q) \in Nat \ {0} /\ Head(q) = q[1]
    BY DEF TypeInv, DataOK
  <1>2. Len(r) = Len(q) - 1 /\ \A k \in 1 .. Len(r) : r[k] = q[k + 1]
    BY <1>1
  <1>3. r # <<>> => Len(r) > 0
    BY <1>1
  <1> HIDE DEF q, r
  <1>4. ASSUME Head(q) = "CONNECTED", NEW k \in 1 .. Len(q), q[k] # "CONNECTED"
        PROVE  \E j \in 1 .. Len(r) : r[j] # "CONNECTED"
    <2>1. k - 1 \in 1 .. Len(r) /\ r[k - 1] = q[k]
      BY <1>1, <1>2, <1>4
    <2>2. QED  BY <2>1, <1>4
  <1>5. ASSUME r # <<>>  PROVE r[Len(r)] = q[Len(q)]
    <2>1. Len(r) \in 1 .. Len(r) /\ Len(r) + 1 = Len(q)
      BY <1>1, <1>2, <1>3, <1>5
    <2>2. QED  BY <2>1, <1>2
  <1>6. Len(q) \in 1 .. Len(q)
    BY <1>1
  <1>7. QED  BY <1>4, <1>5, <1>6 DEF Due, q, r

\* The client of ESP-NOW reports.
LEMMA AfterPosted ==
    ASSUME TypeInv, NEW e \in Events, worker' = Posted(e), Room
    PROVE  /\ Due => Due'
           /\ e # "CONNECTED" => Due'
           /\ worker'.events[Len(worker'.events)] = e
           /\ worker'.running = worker.running /\ worker'.client = worker.client
           /\ worker'.suspended = worker.suspended
  <1> DEFINE q == worker.events
             r == worker'.events
  <1>1. worker \in [suspended : BOOLEAN, running : BOOLEAN, client : BOOLEAN,
                    reported : BOOLEAN, events : Seq(Events)]
    BY DEF TypeInv, DataOK
  <1>2. worker' = [worker EXCEPT !.events = Append(@, e)]
    BY DEF Posted
  <1>3. /\ worker'.running = worker.running /\ worker'.client = worker.client
        /\ worker'.suspended = worker.suspended /\ r = Append(q, e)
    BY <1>1, <1>2
  <1>4. q \in Seq(Events) /\ Len(q) \in Nat
    BY <1>1
  <1>5. Len(r) = Len(q) + 1 /\ r[Len(r)] = e /\ \A k \in 1 .. Len(q) : r[k] = q[k]
    BY <1>3, <1>4
  <1> HIDE DEF q, r
  <1>6. ASSUME NEW k \in 1 .. Len(q), q[k] # "CONNECTED"
        PROVE  \E j \in 1 .. Len(r) : r[j] # "CONNECTED"
    <2>1. k \in 1 .. Len(r) /\ r[k] = q[k]
      BY <1>4, <1>5
    <2>2. QED  BY <2>1, <1>6
  <1>7. e # "CONNECTED" => \E j \in 1 .. Len(r) : r[j] # "CONNECTED"
    <2>1. Len(r) \in 1 .. Len(r)
      BY <1>4, <1>5
    <2>2. QED  BY <2>1, <1>5
  <1>8. QED  BY <1>3, <1>5, <1>6, <1>7 DEF Due, q, r

\* The worker runs for nobody only while it is being stopped.
LEMMA WantedWhenIdle ==
    ASSUME ~Unwanted, UNCHANGED <<service, worker>>
    PROVE  ~Unwanted'
  BY DEF Unwanted

RouteAll == WorkInv /\ RouteInv

\* Where only the session of MQTT, or its service, changes.
LEMMA RouteMqttSide ==
    ASSUME RouteAll, overlaps' = 0, NEW extra \in {{}, {<<"endMqtt">>}}, Arrives(<<"decide">>, extra),
           <<"endMqtt">> \in extra => ~service'["MQTT"].enabled,
           UNCHANGED worker, service'[ESP] = service[ESP], driver'[ESP] = driver[ESP],
           route'.selected = route.selected, route'.state = route.state,
           ~(TransportUsable("MQTT") /\ driver["MQTT"] = "down")',
           ~(driver["MQTT"] = "up" /\ route.selected = "MQTT" /\ route.state = "CONNECTED")'
    PROVE  RouteAll'
  <1>1. \A s : ~Pending(s) /\ ~Starting(s)
    BY DEF Arrives
  <1>2. /\ ~Unwanted
        /\ TransportUsable(ESP) /\ driver[ESP] = "down" => Due
        /\ driver[ESP] = "up" /\ route.selected = ESP /\ route.state = "CONNECTED" => Due
        /\ worker.client /\ driver[ESP] = "down" /\ worker.events # <<>> =>
              worker.events[Len(worker.events)] # "CONNECTED"
    BY <1>1, WhileIdle DEF RouteAll
  <1>3. ~Unwanted' /\ (Due' <=> Due) /\ (TransportUsable(ESP)' <=> TransportUsable(ESP))
    BY <1>2, SameDue DEF Unwanted, TransportUsable
  <1>4. WorkInv'
    <2>1. extra \subseteq {<<"begin">>, <<"endMqtt">>} \cup Ends \cup {<<"settle", e>> : e \in Events}
      OBVIOUS
    <2>2. <<"begin">> \notin extra /\ (\A e : <<"settle", e>> \notin extra)
          /\ \A x \in Halting : <<x>> \notin extra
      BY DEF Halting
    <2>3. (worker.client /\ driver[ESP] = "down" /\ worker.events # <<>> =>
                 worker.events[Len(worker.events)] # "CONNECTED")'
      BY <1>2
    <2>4. QED  BY <2>1, <2>2, <2>3, <1>3, WorkArrives
  <1>5. (driver[ESP] = "up" /\ route.selected = ESP /\ route.state = "CONNECTED" => Renewing)'
    BY <1>2, <1>3 DEF Renewing
  <1>6. (TransportUsable(ESP) /\ driver[ESP] = "down" => Renewing)'
    BY <1>2, <1>3 DEF Renewing
  <1>7. <<"decide">>[1] \notin {"select", "conclude"}
    OBVIOUS
  <1>8. RouteInv'
    BY <1>5, <1>6, <1>7, RouteArrives
  <1>9. QED  BY <1>4, <1>8 DEF RouteAll

LEMMA RouteMqtt ==
    ASSUME TypeInv, RouteAll, overlaps' = 0,
           MqttError \/ MqttEnable \/ MqttDisable \/ GatewayCandidate
           \/ (service["MQTT"].enabled /\ (MqttConnected \/ MqttDisconnected))
    PROVE  RouteAll'
  <1>1. "MQTT" \in Transports /\ ESP \in Transports \ {"MQTT"}
    BY DEF Transports, ESP
  <1>2. driver \in [Transports -> {"down", "up", "subscribed"}]
    BY DEF TypeInv, DataOK, NmConnectionTypeOK
  <1>3. ASSUME \A s : ~Pending(s) /\ ~Starting(s)
        PROVE  /\ ~(TransportUsable("MQTT") /\ driver["MQTT"] = "down")
               /\ ~(driver["MQTT"] = "up" /\ route.selected = "MQTT" /\ route.state = "CONNECTED")
               /\ route.selected = "MQTT" => TransportUsable("MQTT")
    BY <1>1, <1>3, WhileIdle DEF RouteAll
  <1>4. ASSUME Arrives(<<"decide">>, {}) \/ Arrives(<<"decide">>, {<<"endMqtt">>})
        PROVE  /\ ~(TransportUsable("MQTT") /\ driver["MQTT"] = "down")
               /\ ~(driver["MQTT"] = "up" /\ route.selected = "MQTT" /\ route.state = "CONNECTED")
               /\ route.selected = "MQTT" => TransportUsable("MQTT")
    BY <1>3, <1>4 DEF Arrives
  <1>5. CASE MqttError
    <2>1. Arrives(<<"decide">>, {}) /\ Enters("MQTT", "ERROR") /\ UNCHANGED <<worker, driver, route>>
      BY <1>5, ServiceTodo DEF MqttError
    <2>2. service'[ESP] = service[ESP] /\ ~TransportUsable("MQTT")'
      BY <2>1, <1>1, AfterEnters
    <2>3. QED  BY <2>1, <2>2, <1>4, RouteMqttSide
  <1>6. CASE MqttEnable
    <2>1. Arrives(<<"decide">>, {}) /\ UNCHANGED <<worker, driver, route>>
      BY <1>6, ServiceTodo DEF MqttEnable
    <2>2. service'[ESP] = service[ESP] /\ ~TransportUsable("MQTT")'
      <3>1. service' = [service EXCEPT !["MQTT"] = [enabled |-> TRUE, state |-> "CONNECTING"]]
        BY <1>6 DEF MqttEnable
      <3>2. "CONNECTING" # "CONNECTED" /\ TRUE \in BOOLEAN
        OBVIOUS
      <3>3. QED  BY <3>1, <3>2, <1>1, AfterSwitch
    <2>3. QED  BY <2>1, <2>2, <1>4, RouteMqttSide
  <1>7. CASE MqttDisable
    <2>1. Arrives(<<"decide">>, {<<"endMqtt">>}) /\ UNCHANGED <<worker, driver, route>>
      BY <1>7, ServiceTodo DEF MqttDisable
    <2>2. service'[ESP] = service[ESP] /\ ~TransportUsable("MQTT")' /\ ~service'["MQTT"].enabled
      BY <1>7, <1>1, AfterSwitch DEF MqttDisable
    <2>3. QED  BY <2>1, <2>2, <1>4, RouteMqttSide
  <1>8. CASE GatewayCandidate
    <2>1. Arrives(<<"decide">>, {}) /\ UNCHANGED <<service, worker, driver>>
      BY <1>8, ServiceTodo DEF GatewayCandidate
    <2>2. route'.selected = route.selected /\ route'.state = route.state
      BY <1>8 DEF GatewayCandidate, TypeInv, DataOK, NmConnectionTypeOK
    <2>3. TransportUsable("MQTT")' <=> TransportUsable("MQTT")
      BY <2>1, SameService
    <2>4. QED  BY <2>1, <2>2, <2>3, <1>4, RouteMqttSide
  <1>9. CASE service["MQTT"].enabled /\ MqttConnected
    <2>1. Arrives(<<"decide">>, {}) /\ Enters("MQTT", "CONNECTED") /\ UNCHANGED <<worker, route>>
          /\ driver["MQTT"] = "down" /\ driver' = [driver EXCEPT !["MQTT"] = "up"]
      BY <1>9, ServiceTodo DEF MqttConnected
    <2>2. service'[ESP] = service[ESP]
      BY <2>1, <1>1, AfterEnters
    <2>3. driver'["MQTT"] = "up" /\ driver'[ESP] = driver[ESP] /\ route.selected # "MQTT"
      BY <2>1, <1>1, <1>2, <1>4
    <2>4. QED  BY <2>1, <2>2, <2>3, RouteMqttSide
  <1>10. CASE service["MQTT"].enabled /\ MqttDisconnected
    <2>1. Arrives(<<"decide">>, {}) /\ Enters("MQTT", "CONNECTING") /\ UNCHANGED <<worker, route>>
          /\ driver' = [driver EXCEPT !["MQTT"] = "down"]
      BY <1>10, ServiceTodo DEF MqttDisconnected
    <2>2. service'[ESP] = service[ESP] /\ ~TransportUsable("MQTT")'
      BY <2>1, <1>1, AfterEnters
    <2>3. driver'["MQTT"] = "down" /\ driver'[ESP] = driver[ESP]
      BY <2>1, <1>1, <1>2
    <2>4. QED  BY <2>1, <2>2, <2>3, RouteMqttSide
  <1>11. QED  BY <1>5, <1>6, <1>7, <1>8, <1>9, <1>10

\* Where the service of ESP-NOW changes, or its worker handles an event.
LEMMA RouteEspSide ==
    ASSUME RouteAll, overlaps' = 0, NEW first, NEW extra, Arrives(first, extra),
           first[1] \notin {"select", "conclude"},
           extra \subseteq {<<"begin">>} \cup Ends \cup {<<"settle", e>> : e \in Events},
           Unwanted' => <<"stopWorker">> \in extra,
           <<"begin">> \in extra => service'[ESP].enabled /\ ~worker'.suspended,
           (\E e \in Events : <<"settle", e>> \in extra) => worker'.running,
           (\E x \in Halting : <<x>> \in extra) => ~TransportUsable(ESP)',
           UNCHANGED <<driver, route>>, service'["MQTT"] = service["MQTT"],
           Due => Renewing',
           TransportUsable(ESP)' /\ driver[ESP] = "down" => Renewing',
           (worker.client /\ driver[ESP] = "down" /\ worker.events # <<>> =>
                 worker.events[Len(worker.events)] # "CONNECTED")'
    PROVE  RouteAll'
  <1>1. \A s : ~Pending(s) /\ ~Starting(s)
    BY DEF Arrives
  <1>2. /\ ~(TransportUsable("MQTT") /\ driver["MQTT"] = "down")
        /\ ~(driver["MQTT"] = "up" /\ route.selected = "MQTT" /\ route.state = "CONNECTED")
        /\ driver[ESP] = "up" /\ route.selected = ESP /\ route.state = "CONNECTED" => Due
    BY <1>1, WhileIdle DEF RouteAll
  <1>3. TransportUsable("MQTT")' <=> TransportUsable("MQTT")
    BY DEF TransportUsable
  <1>4. <<"endMqtt">> \notin extra
    <2>1. <<"endMqtt">> \notin {<<"begin">>} \cup Ends
      BY DEF Ends
    <2>2. QED  BY <2>1
  <1>5. WorkInv'
    BY <1>4, WorkArrives
  <1>6. RouteInv'
    BY <1>2, <1>3, RouteArrives
  <1>7. QED  BY <1>5, <1>6 DEF RouteAll

LEMMA RouteHandle ==
    ASSUME TypeInv, RouteAll, overlaps' = 0, HandleConnected \/ HandleOther
    PROVE  RouteAll'
  <1>1. PICK first, extra :
           /\ Arrives(first, extra) /\ first[1] \notin {"select", "conclude"}
           /\ \/ HandleConnected /\ extra = {}
              \/ HandleOther /\ \E e \in Events : extra = {<<"settle", e>>}
    <2>1. CASE HandleConnected
      <3>1. Arrives(<<"decide">>, {}) /\ <<"decide">>[1] \notin {"select", "conclude"}
        BY <2>1, ServiceTodo
      <3>2. QED  BY <2>1, <3>1
    <2>2. CASE HandleOther
      <3> DEFINE e == Head(worker.events)
                 first == IF worker.reported THEN <<"decide">> ELSE <<"settle", e>>
      <3>1. e \in Events /\ Arrives(first, {<<"settle", e>>})
        BY <2>2, HandleOtherTodo DEF Events
      <3>2. first[1] \notin {"select", "conclude"}
        OBVIOUS
      <3> HIDE DEF e, first
      <3>3. QED  BY <2>2, <3>1, <3>2
    <2>3. QED  BY <2>1, <2>2
  <1>2. \A s : ~Pending(s) /\ ~Starting(s)
    BY <1>1 DEF Arrives
  <1>3. /\ ~Unwanted
        /\ worker.client /\ driver[ESP] = "down" /\ worker.events # <<>> =>
              worker.events[Len(worker.events)] # "CONNECTED"
    BY <1>2, WhileIdle DEF RouteAll
  <1>4. /\ worker.running /\ worker.events # <<>> /\ UNCHANGED <<driver, route>>
        /\ HandleOther => UNCHANGED service
        /\ HandleConnected => Enters(ESP, "CONNECTED") /\ Head(worker.events) = "CONNECTED"
    BY DEF HandleConnected, HandleOther, ESP
  <1>5. /\ worker'.events = Tail(worker.events) /\ worker'.running = worker.running
        /\ worker'.client = worker.client /\ worker'.suspended = worker.suspended
    BY DEF HandleConnected, HandleOther, TypeInv, DataOK
  <1>6. "MQTT" \in Transports \ {ESP} /\ ESP \in Transports
    BY DEF Transports, ESP
  <1>7. service'["MQTT"] = service["MQTT"] /\ service'[ESP].enabled = service[ESP].enabled
    BY <1>1, <1>4, <1>6, AfterEnters
  <1>8. ~Unwanted'
    BY <1>3, <1>5, <1>7 DEF Unwanted
  <1>9. extra \subseteq {<<"begin">>} \cup Ends \cup {<<"settle", e>> : e \in Events}
    BY <1>1
  <1>10. (\A x \in Halting : <<x>> \notin extra) /\ <<"begin">> \notin extra
    <2>1. \A e : <<"settle", e>>[1] = "settle" /\ "settle" \notin Halting
      BY DEF Halting
    <2>2. \A x \in Halting : <<x>>[1] = x
      OBVIOUS
    <2>3. "begin" \in Halting
      BY DEF Halting
    <2>4. QED  BY <2>1, <2>2, <2>3, <1>1
  <1>11. /\ Head(worker.events) = "CONNECTED" /\ Due => Due'
         /\ worker'.events # <<>> => worker'.events[Len(worker'.events)] = worker.events[Len(worker.events)]
         /\ Head(worker.events) = "CONNECTED" /\ worker.events[Len(worker.events)] # "CONNECTED" => Due'
    BY <1>4, <1>5, DueLater
  <1>12. (worker.client /\ driver[ESP] = "down" /\ worker.events # <<>> =>
                 worker.events[Len(worker.events)] # "CONNECTED")'
    BY <1>3, <1>4, <1>5, <1>11
  <1>13. (Due => Renewing') /\ (TransportUsable(ESP)' /\ driver[ESP] = "down" => Renewing')
    <2>1. CASE HandleConnected
      <3>1. worker.client
        BY <1>3, <1>4 DEF Unwanted, TypeInv, DataOK
      <3>2. QED  BY <2>1, <3>1, <1>3, <1>4, <1>11 DEF Renewing
    <2>2. CASE \E e \in Events : extra = {<<"settle", e>>}
      <3>1. PICK e \in Events : extra = {<<"settle", e>>}
        BY <2>2
      <3>2. Pending(<<"settle", e>>)'
        BY <1>1, <3>1 DEF Arrives
      <3>3. QED  BY <3>2 DEF Renewing
    <2>3. QED  BY <2>1, <2>2, <1>1
  <1>14. (\E e \in Events : <<"settle", e>> \in extra) => worker'.running
    BY <1>4, <1>5
  <1>15. (\E x \in Halting : <<x>> \in extra) => ~TransportUsable(ESP)'
    BY <1>10
  <1>16. Unwanted' => <<"stopWorker">> \in extra
    BY <1>8
  <1>17. Arrives(first, extra) /\ first[1] \notin {"select", "conclude"}
    BY <1>1
  <1>18. UNCHANGED <<driver, route>>
    BY <1>4
  <1>19. QED
    BY <1>7, <1>9, <1>10, <1>12, <1>13, <1>14, <1>15, <1>16, <1>17, <1>18, RouteEspSide

LEMMA RouteSwitch ==
    ASSUME TypeInv, RouteAll, overlaps' = 0,
           EspNowEnable \/ EspNowResume \/ EspNowDisable \/ EspNowSuspend
    PROVE  RouteAll'
  <1>1. PICK first, extra :
           /\ Arrives(first, extra) /\ first[1] \notin {"select", "conclude"}
           /\ \/ (EspNowEnable \/ EspNowResume) /\ extra = {<<"begin">>}
              \/ (EspNowDisable \/ EspNowSuspend) /\ extra = Ends
    <2>1. <<"begin">>[1] \notin {"select", "conclude"} /\ <<"decide">>[1] \notin {"select", "conclude"}
      OBVIOUS
    <2>2. QED  BY <2>1, ServiceTodo
  <1>2. \A s : ~Pending(s) /\ ~Starting(s)
    BY <1>1 DEF Arrives
  <1>3. /\ ~Unwanted
        /\ worker.client /\ driver[ESP] = "down" /\ worker.events # <<>> =>
              worker.events[Len(worker.events)] # "CONNECTED"
    BY <1>2, WhileIdle DEF RouteAll
  <1>4. "MQTT" \in Transports \ {ESP} /\ ESP \in Transports
    BY DEF Transports, ESP
  <1>5. /\ UNCHANGED <<driver, route>>
        /\ worker'.events = worker.events /\ worker'.running = worker.running
        /\ worker'.client = worker.client
    BY DEF EspNowEnable, EspNowResume, EspNowDisable, EspNowSuspend, TypeInv, DataOK
  <1>6. /\ EspNowEnable \/ EspNowResume \/ EspNowDisable \/ EspNowSuspend =>
              service'["MQTT"] = service["MQTT"] /\ ~TransportUsable(ESP)'
        /\ EspNowEnable => ~service[ESP].enabled /\ service'[ESP].enabled /\ ~worker'.suspended
        /\ EspNowResume => worker.suspended /\ service'[ESP].enabled /\ ~worker'.suspended
    <2>1. CASE EspNowEnable
      <3>1. service' = [service EXCEPT ![ESP] = [enabled |-> TRUE, state |-> "STARTING"]]
            /\ ~service[ESP].enabled /\ ~worker'.suspended
        BY <2>1 DEF EspNowEnable, ESP, TypeInv, DataOK
      <3>2. service'[ESP].enabled = TRUE /\ ~TransportUsable(ESP)' /\ service'["MQTT"] = service["MQTT"]
        <4>1. "STARTING" # "CONNECTED" /\ TRUE \in BOOLEAN
          OBVIOUS
        <4>2. QED  BY <3>1, <4>1, <1>4, AfterSwitch
      <3>3. ~EspNowResume
        BY <3>1 DEF EspNowResume, ESP
      <3>4. QED  BY <3>1, <3>2, <3>3
    <2>2. CASE EspNowResume
      <3>1. Enters(ESP, "STARTING") /\ service[ESP].enabled /\ worker.suspended /\ ~worker'.suspended
        BY <2>2 DEF EspNowResume, ESP, TypeInv, DataOK
      <3>2. service'[ESP].enabled = service[ESP].enabled /\ ~TransportUsable(ESP)'
            /\ service'["MQTT"] = service["MQTT"]
        <4>1. "STARTING" # "CONNECTED" /\ Enters(ESP, "STARTING") /\ ESP \in Transports
          BY <3>1, <1>4
        <4>2. service'[ESP].enabled = service[ESP].enabled /\ ~TransportUsable(ESP)'
              /\ \A u \in Transports \ {ESP} : service'[u] = service[u]
          BY <4>1, AfterEnters
        <4>3. QED  BY <4>2, <1>4
      <3>3. ~EspNowEnable
        BY <3>1 DEF EspNowEnable, ESP
      <3>4. QED  BY <3>1, <3>2, <3>3
    <2>3. CASE EspNowDisable
      <3>1. service' = [service EXCEPT ![ESP] = [enabled |-> FALSE, state |-> "STOPPED"]]
        BY <2>3 DEF EspNowDisable, ESP
      <3>2. service'[ESP].enabled = FALSE /\ ~TransportUsable(ESP)' /\ service'["MQTT"] = service["MQTT"]
        BY <3>1, <1>4, AfterSwitch
      <3>3. ~EspNowEnable /\ (EspNowResume => FALSE)
        <4>1. EspNowEnable \/ EspNowResume => service'[ESP].state = "STARTING"
          BY <1>4 DEF EspNowEnable, EspNowResume, Enters, ESP, TypeInv, DataOK, NmConnectionTypeOK
        <4>2. service'[ESP].state = "STOPPED"
          BY <3>1, <1>4 DEF TypeInv, DataOK, NmConnectionTypeOK
        <4>3. QED  BY <4>1, <4>2
      <3>4. QED  BY <3>2, <3>3
    <2>4. CASE EspNowSuspend
      <3>1. Enters(ESP, "SUSPENDED") /\ service[ESP].enabled /\ ~worker.suspended
        BY <2>4 DEF EspNowSuspend, ESP
      <3>2. ~TransportUsable(ESP)' /\ service'["MQTT"] = service["MQTT"]
        BY <3>1, <1>4, AfterEnters
      <3>3. ~EspNowEnable /\ ~EspNowResume
        BY <3>1 DEF EspNowEnable, EspNowResume, ESP
      <3>4. QED  BY <3>2, <3>3
    <2>5. QED  BY <2>1, <2>2, <2>3, <2>4
  <1>7. EspNowEnable \/ EspNowResume => ~Unwanted'
    <2>1. EspNowEnable \/ EspNowResume => ~worker.running
      BY <1>3, <1>6 DEF Unwanted
    <2>2. QED  BY <2>1, <1>5 DEF Unwanted
  <1>8. <<"stopWorker">> \in Ends /\ <<"begin">> \notin Ends /\ \A e : <<"settle", e>> \notin Ends
    BY DEF Ends
  <1>9. extra \subseteq {<<"begin">>} \cup Ends \cup {<<"settle", e>> : e \in Events}
        /\ \A e : <<"settle", e>> \notin extra
    BY <1>1, <1>8
  <1>10. Unwanted' => <<"stopWorker">> \in extra
    BY <1>1, <1>7, <1>8
  <1>11. <<"begin">> \in extra => service'[ESP].enabled /\ ~worker'.suspended
    BY <1>1, <1>6, <1>8
  <1>12. Due => Renewing'
    BY <1>5, SameDue DEF Renewing
  <1>13. (worker.client /\ driver[ESP] = "down" /\ worker.events # <<>> =>
                 worker.events[Len(worker.events)] # "CONNECTED")'
    BY <1>3, <1>5
  <1>14. QED  BY <1>1, <1>5, <1>6, <1>9, <1>10, <1>11, <1>12, <1>13, RouteEspSide

Decisions == {"decide", "select", "conclude", "notify", "settle"}

\* A step that is none of these goes on or is done, and leaves them as they are.
LEMMA DecisionsWait ==
    ASSUME NEW h, NEW x, Swaps(h, x) \/ Drops(h), h[1] \notin Decisions, x[1] \notin Decisions
    PROVE  /\ Pending(<<"decide">>)' <=> Pending(<<"decide">>)
           /\ \A e : Pending(<<"settle", e>>)' <=> Pending(<<"settle", e>>)
           /\ \A u, b : /\ ~Starting(<<"select", u>>) /\ ~Starting(<<"select", u>>)'
                        /\ ~Starting(<<"conclude", u, b>>) /\ ~Starting(<<"conclude", u, b>>)'
           /\ ~Starting(<<"notify">>) /\ ~Starting(<<"notify">>)'
  <1>1. \A s : s[1] \in Decisions => s # h /\ s # x
    OBVIOUS
  <1>2. \A s : s[1] \in Decisions => (Pending(s)' <=> Pending(s)) /\ ~Starting(s)
    BY <1>1 DEF Swaps, Drops
  <1>3. \A s : s[1] \in Decisions \cap Immediate => ~Starting(s)'
    BY <1>1 DEF Swaps, Drops
  <1>4. /\ <<"decide">>[1] \in Decisions /\ <<"notify">>[1] \in Decisions \cap Immediate
        /\ \A e : <<"settle", e>>[1] \in Decisions
        /\ \A u : <<"select", u>>[1] \in Decisions \cap Immediate
        /\ \A u, b : <<"conclude", u, b>>[1] \in Decisions \cap Immediate
    BY DEF Decisions, Immediate
  <1>5. QED  BY <1>2, <1>3, <1>4

LEMMA RouteMoves ==
    ASSUME RouteInv, NEW h, NEW x, Swaps(h, x) \/ Drops(h), h[1] \notin Decisions, x[1] \notin Decisions,
           UNCHANGED service, route'.selected = route.selected, route'.state = route.state,
           \A t \in Transports : driver'[t] = "up" => driver[t] = "up",
           \A t \in Transports : driver'[t] = "down" /\ TransportUsable(t) => driver[t] = "down",
           Due /\ ~Due' => ~TransportUsable(ESP)
    PROVE  RouteInv'
  <1>1. /\ Pending(<<"decide">>)' <=> Pending(<<"decide">>)
        /\ \A e : Pending(<<"settle", e>>)' <=> Pending(<<"settle", e>>)
        /\ \A u, b : /\ ~Starting(<<"select", u>>) /\ ~Starting(<<"select", u>>)'
                     /\ ~Starting(<<"conclude", u, b>>) /\ ~Starting(<<"conclude", u, b>>)'
        /\ ~Starting(<<"notify">>) /\ ~Starting(<<"notify">>)'
    BY DecisionsWait
  <1>2. \A t : TransportUsable(t)' <=> TransportUsable(t)
    BY SameService
  <1>3. Choosing' /\ Concluding'
    BY <1>1 DEF Choosing, Concluding
  <1>4. \A t : ~Leaving(t)
    BY <1>1 DEF Leaving
  <1>5. Renewing => Renewing' \/ ~TransportUsable(ESP)
    BY <1>1 DEF Renewing
  <1>6. ESP \in Transports
    BY DEF Transports, ESP
  <1>7. ASSUME NEW t \in Transports  PROVE Passing(t)' /\ Backed(t)' /\ Heard(t)'
    <2>1. Passing(t) /\ Backed(t) /\ Heard(t)
      BY DEF RouteInv
    <2>2. Passing(t)'
      BY <2>1, <1>1, <1>2, <1>4 DEF Passing
    <2>3. Backed(t)'
      BY <2>1, <1>2, <1>5 DEF Backed
    <2>4. ASSUME driver'[t] = "up", route'.selected = t, route'.state = "CONNECTED"
          PROVE  ((~TransportUsable(t) /\ Pending(<<"decide">>)) \/ (t = ESP /\ Renewing))'
      <3>1. (~TransportUsable(t) /\ Pending(<<"decide">>)) \/ (t = ESP /\ Renewing)
        BY <2>1, <2>4, <1>1, <1>4 DEF Heard
      <3>2. ~TransportUsable(t) => Pending(<<"decide">>)
        BY <2>1, <2>4, <1>4 DEF Passing
      <3>3. QED  BY <3>1, <3>2, <1>1, <1>2, <1>5
    <2>5. QED  BY <2>2, <2>3, <2>4 DEF Heard
  <1>8. QED  BY <1>3, <1>7 DEF RouteInv

\* The step changes the state of ESP-NOW, or leaves it where it is not connected.
LEMMA RouteHalts ==
    ASSUME RouteInv, NEW h, Drops(h), h[1] \in {"connecting", "settle"},
           ~TransportUsable(ESP)', Pending(<<"decide">>)', service'["MQTT"] = service["MQTT"],
           UNCHANGED <<driver, route>>
    PROVE  RouteInv'
  <1>1. \A s : s[1] \in {"select", "conclude", "notify"} => ~Starting(s) /\ ~Starting(s)'
    BY DEF Drops, Immediate
  <1>2. \A u, b : /\ ~Starting(<<"select", u>>) /\ ~Starting(<<"select", u>>)'
                  /\ ~Starting(<<"conclude", u, b>>) /\ ~Starting(<<"conclude", u, b>>)'
    <2>1. \A u, b : /\ <<"select", u>>[1] \in {"select", "conclude", "notify"}
                    /\ <<"conclude", u, b>>[1] \in {"select", "conclude", "notify"}
      OBVIOUS
    <2>2. QED  BY <2>1, <1>1
  <1>3. ~Starting(<<"notify">>)
    <2>1. <<"notify">>[1] \in {"select", "conclude", "notify"}
      OBVIOUS
    <2>2. QED  BY <2>1, <1>1
  <1>4. Choosing' /\ Concluding'
    BY <1>2 DEF Choosing, Concluding
  <1>5. \A t \in Transports : t = "MQTT" \/ t = ESP
    BY DEF Transports, ESP
  <1>6. "MQTT" \in Transports /\ ESP # "MQTT"
    BY DEF Transports, ESP
  <1>7. TransportUsable("MQTT")' <=> TransportUsable("MQTT")
    BY DEF TransportUsable
  <1>8. ~Leaving("MQTT")
    BY <1>2 DEF Leaving
  <1>9. Backed("MQTT") /\ Heard("MQTT")
    BY <1>6 DEF RouteInv
  <1>10. ASSUME NEW t \in Transports  PROVE Passing(t)' /\ Backed(t)' /\ Heard(t)'
    <2>1. CASE t = ESP
      BY <2>1 DEF Passing, Backed, Heard
    <2>2. CASE t = "MQTT"
      <3>1. Backed("MQTT")'
        BY <1>6, <1>7, <1>9 DEF Backed
      <3>2. Heard("MQTT")'
        BY <1>2, <1>3, <1>6, <1>7, <1>8, <1>9 DEF Heard
      <3>3. QED  BY <2>2, <3>1, <3>2 DEF Passing
    <2>3. QED  BY <2>1, <2>2, <1>5
  <1>11. QED  BY <1>4, <1>10 DEF RouteInv

\* The worker's side of a step that neither starts nor stops anything.
LEMMA WorkMoves ==
    ASSUME WorkInv, NEW h, NEW x, Swaps(h, x) \/ Drops(h),
           h # <<"stopWorker">>, x[1] \notin Halting \cup {"endMqtt", "settle"},
           UNCHANGED <<service, worker>>, driver'[ESP] = "down" => driver[ESP] = "down"
    PROVE  WorkInv'
  <1>1. \A s : s[1] \in Halting \cup {"endMqtt", "settle"} => (Pending(s)' => Pending(s))
    BY DEF Swaps, Drops
  <1>2. Pending(<<"stopWorker">>) => Pending(<<"stopWorker">>)'
    BY DEF Swaps, Drops
  <1>3. Pending(<<"begin">>)' => Pending(<<"begin">>)
    BY <1>1 DEF Halting
  <1>4. Pending(<<"endMqtt">>)' => Pending(<<"endMqtt">>)
    BY <1>1
  <1>5. \A e : Pending(<<"settle", e>>)' => Pending(<<"settle", e>>)
    <2>1. \A e : <<"settle", e>>[1] = "settle"
      OBVIOUS
    <2>2. QED  BY <2>1, <1>1
  <1>6. \A y \in Halting : Pending(<<y>>)' => Pending(<<y>>)
    <2>1. \A y \in Halting : <<y>>[1] = y
      OBVIOUS
    <2>2. QED  BY <2>1, <1>1
  <1>7. TransportUsable(ESP)' <=> TransportUsable(ESP)
    BY SameService
  <1>8. Unwanted' <=> Unwanted
    BY DEF Unwanted
  <1>9. QED  BY <1>2, <1>3, <1>4, <1>5, <1>6, <1>7, <1>8 DEF WorkInv

\* A decision falls on a connection that can be used, or on another than the selected.
LEMMA RouteDecide ==
    ASSUME RouteAll, NEW p \in ConnectionType,
           Swaps(<<"decide">>, <<"select", ResolveNetworkRoute(p, route.selected)>>),
           UNCHANGED <<service, worker, driver, route>>
    PROVE  RouteAll'
  <1> DEFINE u == ResolveNetworkRoute(p, route.selected)
  <1>1. u \in ConnectionType /\ (u \in Transports => TransportUsable(u))
    BY RouteIsAConnection
  <1> HIDE DEF u
  <1>2. Swaps(<<"decide">>, <<"select", u>>)
    BY DEF u
  <1>3. <<"select", u>>[1] \notin Halting \cup {"endMqtt", "settle"} /\ <<"decide">> # <<"stopWorker">>
    BY DEF Halting
  <1>4. WorkInv'
    BY <1>2, <1>3, WorkMoves DEF RouteAll
  <1>5. \A t : TransportUsable(t)' <=> TransportUsable(t)
    BY SameService
  <1>6. /\ \A v : Starting(<<"select", v>>)' <=> v = u
        /\ \A v, b : ~Starting(<<"conclude", v, b>>)' /\ ~Starting(<<"conclude", v, b>>)
        /\ ~Starting(<<"notify">>) /\ \A v : ~Starting(<<"select", v>>)
    BY <1>2 DEF Swaps
  <1>7. \A e : Pending(<<"settle", e>>) => Pending(<<"settle", e>>)'
    BY <1>2 DEF Swaps
  <1>8. Due' <=> Due
    BY SameDue
  <1>9. Renewing => Renewing'
    BY <1>7, <1>8 DEF Renewing
  <1>10. Choosing' /\ Concluding'
    BY <1>1, <1>5, <1>6 DEF Choosing, Concluding
  <1>11. \A t \in Transports : ~TransportUsable(t) => Leaving(t)'
    BY <1>1, <1>6 DEF Leaving
  <1>12. ASSUME NEW t \in Transports  PROVE Passing(t)' /\ Backed(t)' /\ Heard(t)'
    <2>1. Backed(t) /\ Heard(t) /\ ~Leaving(t)
      BY <1>6 DEF RouteAll, RouteInv, Leaving
    <2>2. Passing(t)'
      BY <1>5, <1>11 DEF Passing
    <2>3. Backed(t)'
      BY <2>1, <1>5, <1>9 DEF Backed
    <2>4. Heard(t)'
      BY <2>1, <1>6, <1>9, <1>11 DEF Heard
    <2>5. QED  BY <2>2, <2>3, <2>4
  <1>13. QED  BY <1>4, <1>10, <1>12 DEF RouteAll, RouteInv

\* What is selected can be used, and is new unless it was selected and connected.
LEMMA RouteSelect ==
    ASSUME TypeInv, RouteAll, NEW u \in ConnectionType, route' = [route EXCEPT !.selected = u],
           Swaps(<<"select", u>>, <<"conclude", u, u = route.selected /\ route.state = "CONNECTED">>),
           UNCHANGED <<service, worker, driver>>
    PROVE  RouteAll'
  <1> DEFINE b == u = route.selected /\ route.state = "CONNECTED"
  <1>1. Swaps(<<"select", u>>, <<"conclude", u, b>>) /\ b \in BOOLEAN
    OBVIOUS
  <1>2. route'.selected = u /\ route'.state = route.state
    BY DEF TypeInv, DataOK, NmConnectionTypeOK
  <1>3. <<"conclude", u, b>>[1] \notin Halting \cup {"endMqtt", "settle"}
        /\ <<"select", u>> # <<"stopWorker">>
    BY DEF Halting
  <1>4. WorkInv'
    BY <1>1, <1>3, WorkMoves DEF RouteAll
  <1>5. \A t : TransportUsable(t)' <=> TransportUsable(t)
    BY SameService
  <1>6. b => u = route.selected /\ route.state = "CONNECTED"
    OBVIOUS
  <1>7. ~b => u # route.selected \/ route.state # "CONNECTED"
    OBVIOUS
  <1> HIDE DEF b
  <1>8. /\ \A v : Starting(<<"select", v>>) <=> v = u
        /\ \A v, c : Starting(<<"conclude", v, c>>)' <=> v = u /\ c = b
        /\ \A v, c : ~Starting(<<"conclude", v, c>>)
        /\ ~Starting(<<"notify">>) /\ \A v : ~Starting(<<"select", v>>)'
    BY <1>1 DEF Swaps
  <1>9. \A e : Pending(<<"settle", e>>) => Pending(<<"settle", e>>)'
    BY <1>1 DEF Swaps
  <1>10. Pending(<<"decide">>) => Pending(<<"decide">>)'
    BY <1>1 DEF Swaps
  <1>11. Renewing => Renewing'
    BY <1>9, SameDue DEF Renewing
  <1>12. u \in Transports => TransportUsable(u)
    BY <1>8 DEF RouteAll, RouteInv, Choosing
  <1>13. Choosing' /\ Concluding'
    BY <1>2, <1>6, <1>8 DEF Choosing, Concluding
  <1>14. ASSUME NEW t \in Transports  PROVE Passing(t)' /\ Backed(t)' /\ Heard(t)'
    <2>1. Backed(t) /\ Heard(t)
      BY DEF RouteAll, RouteInv
    <2>2. Passing(t)'
      BY <1>2, <1>5, <1>12 DEF Passing
    <2>3. Backed(t)'
      BY <2>1, <1>5, <1>11 DEF Backed
    <2>4. CASE t # u
      <3>1. Heard(t)'
        BY <2>4, <1>2 DEF Heard
      <3>2. QED  BY <2>2, <2>3, <3>1
    <2>5. CASE t = u /\ b = FALSE
      <3>1. Starting(<<"conclude", t, FALSE>>)'
        BY <2>5, <1>8
      <3>2. QED  BY <2>2, <2>3, <3>1 DEF Heard
    <2>6. CASE t = u /\ b = TRUE
      <3>1. ~Leaving(t)
        BY <2>6, <1>8 DEF Leaving
      <3>2. TransportUsable(t)
        BY <2>6, <1>12
      <3>3. driver[t] = "up" => Renewing
        BY <2>1, <2>6, <3>1, <3>2, <1>6, <1>8 DEF Heard
      <3>4. driver[t] = "up" => t = ESP
        BY <2>1, <2>6, <3>1, <3>2, <1>6, <1>8 DEF Heard
      <3>5. Heard(t)'
        BY <3>3, <3>4, <1>11 DEF Heard
      <3>6. QED  BY <2>2, <2>3, <3>5
    <2>7. QED  BY <1>1, <2>2, <2>3, <2>4, <2>5, <2>6
  <1>15. QED  BY <1>4, <1>13, <1>14 DEF RouteAll, RouteInv

\* The state is set, and a connection that is new is told of.
LEMMA RouteConclude ==
    ASSUME TypeInv, RouteAll, NEW u \in ConnectionType, NEW b \in BOOLEAN,
           route' = [route EXCEPT !.state = IF u # "AUTO" THEN "CONNECTED" ELSE "STOPPED"],
           u # "AUTO" /\ ~b => Swaps(<<"conclude", u, b>>, <<"notify">>),
           ~(u # "AUTO" /\ ~b) => Drops(<<"conclude", u, b>>),
           UNCHANGED <<service, worker, driver>>
    PROVE  RouteAll'
  <1>1. Swaps(<<"conclude", u, b>>, <<"notify">>) \/ Drops(<<"conclude", u, b>>)
    OBVIOUS
  <1>2. route'.selected = route.selected /\ (u = "AUTO" => route'.state = "STOPPED")
    BY DEF TypeInv, DataOK, NmConnectionTypeOK
  <1>3. <<"notify">>[1] \notin Halting \cup {"endMqtt", "settle"}
        /\ <<"conclude", u, b>> # <<"stopWorker">>
    BY DEF Halting
  <1>4. WorkInv'
    BY <1>1, <1>3, WorkMoves DEF RouteAll
  <1>5. \A t : TransportUsable(t)' <=> TransportUsable(t)
    BY SameService
  <1>6. /\ Starting(<<"conclude", u, b>>)
        /\ \A v, c : Starting(<<"conclude", v, c>>) => c = b
        /\ ~Starting(<<"notify">>) /\ \A v : ~Starting(<<"select", v>>)
    BY <1>1 DEF Swaps, Drops
  <1>7. \A v : ~Starting(<<"select", v>>)' /\ \A c : ~Starting(<<"conclude", v, c>>)'
    BY <1>1 DEF Swaps, Drops, Immediate
  <1>8. \A e : Pending(<<"settle", e>>) => Pending(<<"settle", e>>)'
    BY <1>1 DEF Swaps, Drops
  <1>9. Pending(<<"decide">>) => Pending(<<"decide">>)'
    BY <1>1 DEF Swaps, Drops
  <1>10. Renewing => Renewing'
    BY <1>8, SameDue DEF Renewing
  <1>11. route.selected = u /\ (b => route.state = "CONNECTED")
    BY <1>6 DEF RouteAll, RouteInv, Concluding
  <1>12. Choosing' /\ Concluding'
    BY <1>7 DEF Choosing, Concluding
  <1>13. ASSUME NEW t \in Transports  PROVE Passing(t)' /\ Backed(t)' /\ Heard(t)'
    <2>1. Passing(t) /\ Backed(t) /\ Heard(t) /\ ~Leaving(t)
      BY <1>6 DEF RouteAll, RouteInv, Leaving
    <2>2. Passing(t)'
      BY <2>1, <1>2, <1>5, <1>9 DEF Passing
    <2>3. Backed(t)'
      BY <2>1, <1>5, <1>10 DEF Backed
    <2>4. CASE u # "AUTO" /\ ~b
      <3>1. Starting(<<"notify">>)'
        BY <2>4 DEF Swaps
      <3>2. QED  BY <2>2, <2>3, <3>1 DEF Heard
    <2>5. CASE u = "AUTO"
      <3>1. Heard(t)'
        BY <2>5, <1>2 DEF Heard
      <3>2. QED  BY <2>2, <2>3, <3>1
    <2>6. CASE b = TRUE
      <3>1. ~Starting(<<"conclude", t, FALSE>>)
        BY <2>6, <1>6
      <3>2. Heard(t)'
        BY <2>1, <2>6, <3>1, <1>2, <1>5, <1>6, <1>9, <1>10, <1>11 DEF Heard
      <3>3. QED  BY <2>2, <2>3, <3>2
    <2>7. QED  BY <2>4, <2>5, <2>6
  <1>14. QED  BY <1>4, <1>12, <1>13 DEF RouteAll, RouteInv

\* The owners subscribe on the session there is.
LEMMA RouteNotify ==
    ASSUME TypeInv, RouteAll, Swaps(<<"notify">>, <<"take", 1>>),
           driver' = IF Carries THEN [driver EXCEPT ![route.selected] = "subscribed"] ELSE driver,
           UNCHANGED <<service, worker, route>>
    PROVE  RouteAll'
  <1>1. driver \in [Transports -> {"down", "up", "subscribed"}]
    BY DEF TypeInv, DataOK, NmConnectionTypeOK
  <1>2. \A t \in Transports : /\ driver'[t] = "down" => driver[t] = "down"
                              /\ driver'[t] = "up" => driver[t] = "up"
    BY <1>1
  <1>3. ASSUME NEW t \in Transports, driver'[t] = "up", route.selected = t, route.state = "CONNECTED"
        PROVE  FALSE
    <2>1. Carries
      BY <1>2, <1>3 DEF Carries
    <2>2. QED  BY <1>1, <1>3, <2>1
  <1>4. <<"take", 1>>[1] \notin Halting \cup {"endMqtt", "settle"} /\ <<"notify">> # <<"stopWorker">>
        /\ ESP \in Transports
    BY DEF Halting, Transports, ESP
  <1>5. WorkInv'
    BY <1>2, <1>4, WorkMoves DEF RouteAll
  <1>6. \A t : TransportUsable(t)' <=> TransportUsable(t)
    BY SameService
  <1>7. /\ \A v : ~Starting(<<"select", v>>) /\ ~Starting(<<"select", v>>)'
        /\ \A v, c : ~Starting(<<"conclude", v, c>>)'
    BY DEF Swaps
  <1>8. \A e : Pending(<<"settle", e>>) => Pending(<<"settle", e>>)'
    BY DEF Swaps
  <1>9. Pending(<<"decide">>) => Pending(<<"decide">>)'
    BY DEF Swaps
  <1>10. Renewing => Renewing'
    BY <1>8, SameDue DEF Renewing
  <1>11. Choosing' /\ Concluding'
    BY <1>7 DEF Choosing, Concluding
  <1>12. ASSUME NEW t \in Transports  PROVE Passing(t)' /\ Backed(t)' /\ Heard(t)'
    <2>1. Passing(t) /\ Backed(t) /\ ~Leaving(t)
      BY <1>7 DEF RouteAll, RouteInv, Leaving
    <2>2. Passing(t)'
      BY <2>1, <1>6, <1>9 DEF Passing
    <2>3. Backed(t)'
      BY <2>1, <1>2, <1>6, <1>10 DEF Backed
    <2>4. Heard(t)'
      BY <1>3 DEF Heard
    <2>5. QED  BY <2>2, <2>3, <2>4
  <1>13. QED  BY <1>5, <1>11, <1>12 DEF RouteAll, RouteInv

\* A session that begins or ends behind nobody's back.
LEMMA RouteSame ==
    ASSUME UNCHANGED <<service, todo>>
    PROVE  /\ \A t : TransportUsable(t)' <=> TransportUsable(t)
           /\ \A s : (Starting(s)' <=> Starting(s)) /\ (Pending(s)' <=> Pending(s))
           /\ \A t : Leaving(t)' <=> Leaving(t)
  <1>1. \A s : (Starting(s)' <=> Starting(s)) /\ (Pending(s)' <=> Pending(s))
    BY DEF Starting, Pending, Waits, Idle
  <1>2. QED  BY <1>1, SameService DEF Leaving

LEMMA RouteSession ==
    ASSUME TypeInv, RouteAll, ~lost',
           ClientConnected \/ ClientLost
           \/ (~service["MQTT"].enabled /\ (MqttConnected \/ MqttDisconnected))
    PROVE  RouteAll'
  <1>1. UNCHANGED <<service, todo, route>>
    BY DEF ClientConnected, ClientLost, MqttConnected, MqttDisconnected
  <1>2. /\ \A t : TransportUsable(t)' <=> TransportUsable(t)
        /\ \A s : (Starting(s)' <=> Starting(s)) /\ (Pending(s)' <=> Pending(s))
        /\ \A t : Leaving(t)' <=> Leaving(t)
    BY <1>1, RouteSame
  <1>3. "MQTT" \in Transports \ {ESP} /\ ESP \in Transports
    BY DEF Transports, ESP
  <1>4. driver \in [Transports -> {"down", "up", "subscribed"}]
    BY DEF TypeInv, DataOK, NmConnectionTypeOK
  <1>5. /\ ClientConnected => driver[ESP] = "down" /\ driver' = [driver EXCEPT ![ESP] = "up"]
        /\ ClientLost => driver' = [driver EXCEPT ![ESP] = "down"]
        /\ MqttConnected => driver' = [driver EXCEPT !["MQTT"] = "up"]
        /\ MqttDisconnected => driver' = [driver EXCEPT !["MQTT"] = "down"]
    BY DEF ClientConnected, ClientLost, MqttConnected, MqttDisconnected, ESP
  <1>6. /\ ClientConnected => worker' = Posted("CONNECTED") /\ Room
        /\ ClientLost => worker' = Posted("SEARCHING") /\ Room
        /\ MqttConnected \/ MqttDisconnected => UNCHANGED worker
    BY DEF ClientConnected, ClientLost, MqttConnected, MqttDisconnected
  <1>7. Choosing' /\ Concluding' /\ \A t \in Transports : Passing(t)'
    <2>1. Choosing /\ Concluding /\ \A t \in Transports : Passing(t)
      BY DEF RouteAll, RouteInv
    <2>2. Choosing'
      BY <2>1, <1>2 DEF Choosing
    <2>3. Concluding'
      BY <2>1, <1>1, <1>2 DEF Concluding
    <2>4. QED  BY <2>1, <2>2, <2>3, <1>1, <1>2 DEF Passing
  <1>8. /\ Due => Due'
        /\ worker'.running = worker.running /\ worker'.client = worker.client
        /\ worker'.suspended = worker.suspended
        /\ ClientLost => Due' /\ worker'.events[Len(worker'.events)] # "CONNECTED"
        /\ MqttConnected \/ MqttDisconnected => worker' = worker
    <2>1. {"CONNECTED", "SEARCHING"} \subseteq Events
      BY DEF Events
    <2>2. ClientConnected \/ ClientLost \/ UNCHANGED worker
      BY <1>6
    <2>3. QED  BY <2>1, <2>2, <1>6, AfterPosted, SameDue
  <1>9. Renewing => Renewing'
    BY <1>2, <1>8 DEF Renewing
  <1>10. Backed("MQTT") /\ Heard("MQTT") /\ Passing("MQTT") /\ Backed(ESP) /\ Heard(ESP) /\ Passing(ESP)
    BY <1>3 DEF RouteAll, RouteInv
  <1>11. Backed("MQTT")' /\ Heard("MQTT")'
    <2>1. CASE driver'["MQTT"] = driver["MQTT"]
      BY <2>1, <1>1, <1>2, <1>3, <1>10 DEF Backed, Heard
    <2>2. CASE ~service["MQTT"].enabled
      <3>1. ~TransportUsable("MQTT")'
        BY <2>2, <1>2 DEF TransportUsable
      <3>2. QED  BY <3>1, <1>1, <1>2, <1>10 DEF Backed, Heard, Passing
    <2>3. QED  BY <2>1, <2>2, <1>3, <1>4, <1>5
  <1>12. Backed(ESP)' /\ Heard(ESP)'
    <2>1. CASE driver'[ESP] = driver[ESP]
      BY <2>1, <1>1, <1>2, <1>9, <1>10 DEF Backed, Heard
    <2>2. CASE driver[ESP] = "down" /\ driver'[ESP] = "up"
      <3>1. Backed(ESP)'
        BY <2>2 DEF Backed
      <3>2. TransportUsable(ESP) => Renewing
        BY <2>2, <1>10 DEF Backed
      <3>3. route.selected = ESP => TransportUsable(ESP) \/ Pending(<<"decide">>) \/ Leaving(ESP)
        BY <1>10 DEF Passing
      <3>4. Heard(ESP)'
        BY <3>2, <3>3, <1>1, <1>2, <1>9 DEF Heard
      <3>5. QED  BY <3>1, <3>4
    <2>3. CASE ClientLost
      <3>1. driver'[ESP] = "down" /\ Renewing'
        BY <2>3, <1>3, <1>4, <1>5, <1>8 DEF Renewing
      <3>2. QED  BY <3>1 DEF Backed, Heard
    <2>4. QED  BY <2>1, <2>2, <2>3, <1>3, <1>4, <1>5
  <1>13. \A t \in Transports : t = "MQTT" \/ t = ESP
    BY DEF Transports, ESP
  <1>14. RouteInv'
    BY <1>7, <1>11, <1>12, <1>13 DEF RouteInv
  <1>15. (worker.client /\ driver[ESP] = "down" /\ worker.events # <<>> =>
                 worker.events[Len(worker.events)] # "CONNECTED")'
    <2>1. CASE ClientConnected
      BY <2>1, <1>3, <1>4, <1>5
    <2>2. CASE ClientLost
      BY <2>2, <1>8
    <2>3. CASE MqttConnected \/ MqttDisconnected
      <3>1. driver'[ESP] = driver[ESP] /\ worker' = worker
        BY <2>3, <1>3, <1>4, <1>5, <1>8
      <3>2. QED  BY <3>1 DEF RouteAll, WorkInv
    <2>4. QED  BY <2>1, <2>2, <2>3
  <1>16. WorkInv'
    <2>1. Unwanted' <=> Unwanted
      BY <1>1, <1>8 DEF Unwanted
    <2>2. QED  BY <2>1, <1>1, <1>2, <1>8, <1>15 DEF RouteAll, WorkInv
  <1>17. QED  BY <1>14, <1>16 DEF RouteAll

\* The loop comes in to decide, to choose another connection or to hold a message.
LEMMA RouteLoop ==
    ASSUME TypeInv, RouteAll, overlaps' = 0, ConnectionTick \/ Prefer \/ PublishWhenConnected
    PROVE  RouteAll'
  <1>1. PICK q : /\ Came(q)
                 /\ \A s : Has(q, s) => s[1] \in {"decide", "select", "prefer", "hold"}
                 /\ \A u \in Transports : q # <<>> /\ q[1] = <<"select", u>> => TransportUsable(u)
                 /\ \A u, b : q # <<>> => q[1] # <<"conclude", u, b>>
    <2>1. CASE ConnectionTick
      <3>1. Came(Reevaluate) /\ (\A s : Has(Reevaluate, s) => s[1] \in {"decide"})
            /\ Reevaluate[1] = <<"decide">>
        BY <2>1, LoopTodo DEF Reevaluate, Has
      <3>2. QED  BY <3>1
    <2>2. CASE Prefer
      <3>1. PICK w \in ConnectionType :
               Came(<< <<"select", ResolveNetworkRoute(w, route.selected)>>, <<"prefer", w>> >>)
        BY <2>2, LoopTodo
      <3> DEFINE u == ResolveNetworkRoute(w, route.selected)
      <3>2. u \in Transports => TransportUsable(u)
        BY RouteIsAConnection
      <3>3. Came(<< <<"select", u>>, <<"prefer", w>> >>)
        BY <3>1
      <3> HIDE DEF u
      <3>4. \A s : Has(<< <<"select", u>>, <<"prefer", w>> >>, s) => s[1] \in {"select", "prefer"}
        BY DEF Has
      <3>5. << <<"select", u>>, <<"prefer", w>> >>[1] = <<"select", u>>
        OBVIOUS
      <3>6. QED  BY <3>2, <3>3, <3>4, <3>5
    <2>3. CASE PublishWhenConnected
      <3>1. PICK m : Came(<<>>) \/ Came(<< <<"hold", m>> >>)
        BY <2>3, LoopTodo
      <3>2. /\ \A s : Has(<< <<"hold", m>> >>, s) => s[1] \in {"hold"}
            /\ \A s : ~Has(<<>>, s)
            /\ << <<"hold", m>> >>[1] = <<"hold", m>>
        BY DEF Has
      <3>3. QED  BY <3>1, <3>2
    <2>4. QED  BY <2>1, <2>2, <2>3
  <1>2. UNCHANGED <<service, worker, driver, route>>
    BY DEF ConnectionTick, Prefer, PublishWhenConnected
  <1>3. /\ \A s : ~Pending(s) /\ ~Starting(s)
        /\ \A s : Pending(s)' => Has(q, s)
        /\ \A s : Starting(s)' => q # <<>> /\ s = q[1]
    BY <1>1 DEF Came, Comes, Has
  <1>4. /\ ~Unwanted
        /\ \A t \in Transports : route.selected = t => TransportUsable(t)
        /\ ~(TransportUsable("MQTT") /\ driver["MQTT"] = "down")
        /\ TransportUsable(ESP) /\ driver[ESP] = "down" => Due
        /\ ~(driver["MQTT"] = "up" /\ route.selected = "MQTT" /\ route.state = "CONNECTED")
        /\ driver[ESP] = "up" /\ route.selected = ESP /\ route.state = "CONNECTED" => Due
        /\ worker.client /\ driver[ESP] = "down" /\ worker.events # <<>> =>
              worker.events[Len(worker.events)] # "CONNECTED"
    BY <1>3, WhileIdle DEF RouteAll
  <1>5. \A t : TransportUsable(t)' <=> TransportUsable(t)
    BY <1>2, SameService
  <1>6. Due => Renewing'
    BY <1>2, SameDue DEF Renewing
  <1>7. Choosing'
    BY <1>1, <1>3, <1>5 DEF Choosing
  <1>8. Concluding'
    BY <1>1, <1>3 DEF Concluding
  <1>9. \A t \in Transports : t = "MQTT" \/ t = ESP
    BY DEF Transports, ESP
  <1>10. ASSUME NEW t \in Transports  PROVE Passing(t)' /\ Backed(t)' /\ Heard(t)'
    <2>1. Passing(t)'
      BY <1>2, <1>4, <1>5 DEF Passing
    <2>2. Backed(t)'
      BY <1>2, <1>4, <1>5, <1>6, <1>9 DEF Backed
    <2>3. Heard(t)'
      BY <1>2, <1>4, <1>6, <1>9 DEF Heard
    <2>4. QED  BY <2>1, <2>2, <2>3
  <1>11. WorkInv'
    <2>1. \A x \in Halting \cup {"endMqtt"} : ~Pending(<<x>>)'
      BY <1>1, <1>3 DEF Halting
    <2>2. \A e : ~Pending(<<"settle", e>>)'
      BY <1>1, <1>3
    <2>3. ~Unwanted'
      BY <1>2, <1>4, WantedWhenIdle
    <2>4. <<"begin">> \in {<<x>> : x \in Halting}
      BY DEF Halting
    <2>5. ~Pending(<<"begin">>)' /\ ~Pending(<<"endMqtt">>)'
      BY <2>1 DEF Halting
    <2>6. QED  BY <1>2, <1>4, <2>1, <2>2, <2>3, <2>5 DEF WorkInv
  <1>12. QED  BY <1>7, <1>8, <1>10, <1>11 DEF RouteAll, RouteInv

\* While the loop is inside, the worker is not.
LEMMA NoSettling ==
    ASSUME TypeInv, OneInside, ~Idle("loop")
    PROVE  \A e : ~Pending(<<"settle", e>>)
  <1>1. SUFFICES ASSUME NEW e, Pending(<<"settle", e>>)  PROVE FALSE
    OBVIOUS
  <1>2. PICK task \in Tasks : Waits(task, <<"settle", e>>)
    BY <1>1 DEF Pending
  <1>3. PICK k \in 1 .. Len(todo[task]) : todo[task][k] = <<"settle", e>>
    BY <1>2 DEF Waits
  <1>4. StepsOK(task, todo[task])
    BY DEF TypeInv, TodoOK
  <1>5. task = "espnow"
    BY <1>3, <1>4 DEF StepsOK
  <1>6. Idle("espnow")
    BY DEF OneInside, Tasks
  <1>7. QED  BY <1>3, <1>5, <1>6 DEF Idle

\* What is first is pending.
LEMMA FirstIsPending ==
    ASSUME TypeInv, NEW s, Starting(s)
    PROVE  Pending(s)
  <1>1. PICK task \in Tasks : ~Idle(task) /\ Head(todo[task]) = s
    BY DEF Starting
  <1>2. todo[task] \in Seq(Step) /\ todo[task] # <<>>
    BY <1>1 DEF TypeInv, TodoOK, Idle
  <1>3. 1 \in 1 .. Len(todo[task]) /\ todo[task][1] = s
    BY <1>1, <1>2
  <1>4. QED  BY <1>3 DEF Pending, Waits

\* The client of MQTT ends.
LEMMA RouteEndMqtt ==
    ASSUME TypeInv, RouteAll, Drops(<<"endMqtt">>), EndMqtt
    PROVE  RouteAll'
  <1>1. driver' = [driver EXCEPT !["MQTT"] = "down"] /\ UNCHANGED <<service, worker, route>>
    BY DEF EndMqtt
  <1>2. driver \in [Transports -> {"down", "up", "subscribed"}] /\ ESP \in Transports /\ ESP # "MQTT"
        /\ "MQTT" \in Transports
    BY DEF TypeInv, DataOK, NmConnectionTypeOK, Transports, ESP
  <1>3. Pending(<<"endMqtt">>)
    BY FirstIsPending DEF Drops
  <1>4. ~TransportUsable("MQTT")
    BY <1>3 DEF RouteAll, WorkInv, TransportUsable
  <1>5. driver'["MQTT"] = "down" /\ \A t \in Transports : t # "MQTT" => driver'[t] = driver[t]
    BY <1>1, <1>2
  <1>6. <<"endMqtt">>[1] \notin Decisions /\ <<"look">>[1] \notin Decisions
        /\ <<"look">>[1] \notin Halting \cup {"endMqtt", "settle"} /\ <<"endMqtt">> # <<"stopWorker">>
    BY DEF Decisions, Halting
  <1>7. Due' <=> Due
    BY <1>1, SameDue
  <1>8. RouteInv'
    BY <1>1, <1>2, <1>4, <1>5, <1>6, <1>7, RouteMoves DEF RouteAll
  <1>9. WorkInv'
    BY <1>1, <1>2, <1>5, <1>6, WorkMoves DEF RouteAll
  <1>10. QED  BY <1>8, <1>9 DEF RouteAll

\* The worker of ESP-NOW is started, if none runs,
LEMMA RouteBegin ==
    ASSUME TypeInv, RouteAll, Swaps(<<"begin">>, <<"connecting">>), BeginWorker
    PROVE  RouteAll'
  <1>1. /\ worker' = IF worker.running THEN worker
                     ELSE [worker EXCEPT !.running = TRUE, !.client = TRUE,
                                         !.reported = FALSE, !.events = <<>>]
        /\ UNCHANGED <<service, driver, route>>
    BY DEF BeginWorker
  <1>2. worker \in [suspended : BOOLEAN, running : BOOLEAN, client : BOOLEAN,
                    reported : BOOLEAN, events : Seq(Events)]
    BY DEF TypeInv, DataOK
  <1>3. Pending(<<"begin">>)
    BY FirstIsPending DEF Swaps
  <1>4. /\ service[ESP].enabled /\ ~worker.suspended /\ ~TransportUsable(ESP)
    BY <1>3 DEF RouteAll, WorkInv, Halting
  <1>5. worker'.running /\ worker'.suspended = worker.suspended
    BY <1>1, <1>2
  <1>6. \A t : TransportUsable(t)' <=> TransportUsable(t)
    BY <1>1, SameService
  <1>7. RouteInv'
    <2>1. <<"begin">>[1] \notin Decisions /\ <<"connecting">>[1] \notin Decisions
      BY DEF Decisions
    <2>2. UNCHANGED <<service, driver, route>>
      BY <1>1
    <2>3. QED  BY <2>1, <2>2, <1>4, RouteMoves DEF RouteAll
  <1>8. Unwanted' => Pending(<<"stopWorker">>)'
    <2>1. CASE worker.running
      <3>1. Unwanted' => Unwanted
        BY <2>1, <1>1 DEF Unwanted
      <3>2. Pending(<<"stopWorker">>) => Pending(<<"stopWorker">>)'
        BY DEF Swaps
      <3>3. QED  BY <3>1, <3>2 DEF RouteAll, WorkInv
    <2>2. CASE ~worker.running
      <3>1. worker'.client
        BY <2>2, <1>1, <1>2
      <3>2. QED  BY <3>1, <1>1, <1>4, <1>5 DEF Unwanted
    <2>3. QED  BY <2>1, <2>2
  <1>9. Pending(<<"endMqtt">>)' => Pending(<<"endMqtt">>)
    BY DEF Swaps
  <1>10. (worker.client /\ driver[ESP] = "down" /\ worker.events # <<>> =>
                 worker.events[Len(worker.events)] # "CONNECTED")'
    <2>1. CASE worker.running
      <3>1. worker' = worker /\ driver' = driver
        BY <2>1, <1>1
      <3>2. QED  BY <3>1 DEF RouteAll, WorkInv
    <2>2. CASE ~worker.running
      BY <2>2, <1>1, <1>2
    <2>3. QED  BY <2>1, <2>2
  <1>11. WorkInv'
    BY <1>1, <1>4, <1>5, <1>6, <1>8, <1>9, <1>10 DEF RouteAll, WorkInv
  <1>12. QED  BY <1>7, <1>11 DEF RouteAll

\* and the service says that it is connecting.
LEMMA RouteConnecting ==
    ASSUME TypeInv, RouteAll, Drops(<<"connecting">>), Pending(<<"decide">>)', Connecting
    PROVE  RouteAll'
  <1>1. Enters(ESP, "CONNECTING") /\ UNCHANGED <<worker, driver, route>>
    BY DEF Connecting, ESP
  <1>2. ESP \in Transports /\ "MQTT" \in Transports \ {ESP} /\ "CONNECTING" # "CONNECTED"
    BY DEF Transports, ESP
  <1>3. /\ service'[ESP].enabled = service[ESP].enabled /\ ~TransportUsable(ESP)'
        /\ \A u \in Transports \ {ESP} : service'[u] = service[u]
    BY <1>1, <1>2, AfterEnters
  <1>4. RouteInv'
    <2>1. <<"connecting">>[1] \in {"connecting", "settle"} /\ service'["MQTT"] = service["MQTT"]
      BY <1>2, <1>3
    <2>2. QED  BY <2>1, <1>1, <1>3, RouteHalts DEF RouteAll
  <1>5. \A s : Pending(s)' => Pending(s)
    BY DEF Drops
  <1>6. Pending(<<"stopWorker">>) => Pending(<<"stopWorker">>)'
    BY DEF Drops
  <1>7. Unwanted' <=> Unwanted
    BY <1>1, <1>3 DEF Unwanted
  <1>8. WorkInv'
    BY <1>1, <1>2, <1>3, <1>5, <1>6, <1>7 DEF RouteAll, WorkInv
  <1>9. QED  BY <1>4, <1>8 DEF RouteAll

\* The client ends; the worker is to stop after it.
LEMMA RouteEndClient ==
    ASSUME TypeInv, RouteAll, Drops(<<"endClient">>), Pending(<<"stopWorker">>)', EndClient
    PROVE  RouteAll'
  <1>1. /\ driver' = [driver EXCEPT ![ESP] = "down"]
        /\ worker' = IF worker.client THEN [Posted("STOPPED") EXCEPT !.client = FALSE] ELSE worker
        /\ UNCHANGED <<service, route>>
    BY DEF EndClient, ESP
  <1>2. worker \in [suspended : BOOLEAN, running : BOOLEAN, client : BOOLEAN,
                    reported : BOOLEAN, events : Seq(Events)]
    BY DEF TypeInv, DataOK
  <1>3. driver \in [Transports -> {"down", "up", "subscribed"}] /\ ESP \in Transports
    BY DEF TypeInv, DataOK, NmConnectionTypeOK, Transports, ESP
  <1>4. Pending(<<"endClient">>)
    BY FirstIsPending DEF Drops
  <1>5. ~TransportUsable(ESP)
    BY <1>4 DEF RouteAll, WorkInv, Halting
  <1>6. driver'[ESP] = "down" /\ \A t \in Transports : t # ESP => driver'[t] = driver[t]
    BY <1>1, <1>3
  <1>7. ~worker'.client /\ worker'.running = worker.running /\ worker'.suspended = worker.suspended
    <2>1. /\ Posted("STOPPED").running = worker.running /\ Posted("STOPPED").suspended = worker.suspended
          /\ [Posted("STOPPED") EXCEPT !.client = FALSE].client = FALSE
          /\ [Posted("STOPPED") EXCEPT !.client = FALSE].running = Posted("STOPPED").running
          /\ [Posted("STOPPED") EXCEPT !.client = FALSE].suspended = Posted("STOPPED").suspended
      BY <1>2 DEF Posted
    <2>2. CASE worker.client
      BY <2>1, <2>2, <1>1
    <2>3. CASE ~worker.client
      BY <2>3, <1>1
    <2>4. QED  BY <2>2, <2>3
  <1>8. RouteInv'
    <2>1. <<"endClient">>[1] \notin Decisions /\ <<"look">>[1] \notin Decisions
      BY DEF Decisions
    <2>2. QED  BY <2>1, <1>1, <1>5, <1>6, RouteMoves DEF RouteAll
  <1>9. \A s : Pending(s)' => Pending(s)
    BY DEF Drops
  <1>10. \A t : TransportUsable(t)' <=> TransportUsable(t)
    BY <1>1, SameService
  <1>11. WorkInv'
    BY <1>1, <1>7, <1>9, <1>10 DEF RouteAll, WorkInv
  <1>12. QED  BY <1>8, <1>11 DEF RouteAll

\* The worker stops, and nothing is being settled then.
LEMMA RouteStop ==
    ASSUME TypeInv, OneInside, RouteAll, Drops(<<"stopWorker">>), StopWorker
    PROVE  RouteAll'
  <1>1. worker' = [worker EXCEPT !.running = FALSE] /\ UNCHANGED <<service, driver, route>>
    BY DEF StopWorker
  <1>2. ~worker'.running /\ worker'.events = worker.events /\ worker'.client = worker.client
        /\ worker'.suspended = worker.suspended
    BY <1>1 DEF TypeInv, DataOK
  <1>3. \A e : ~Pending(<<"settle", e>>)
    BY NoSettling DEF StopWorker, Does
  <1>4. RouteInv'
    <2>1. <<"stopWorker">>[1] \notin Decisions /\ <<"look">>[1] \notin Decisions
      BY DEF Decisions
    <2>2. Due' <=> Due
      BY <1>2, SameDue
    <2>3. QED  BY <2>1, <2>2, <1>1, RouteMoves DEF RouteAll
  <1>5. \A s : Pending(s)' => Pending(s)
    BY DEF Drops
  <1>6. \A t : TransportUsable(t)' <=> TransportUsable(t)
    BY <1>1, SameService
  <1>7. ~Unwanted'
    BY <1>2 DEF Unwanted
  <1>8. WorkInv'
    BY <1>1, <1>2, <1>3, <1>5, <1>6, <1>7 DEF RouteAll, WorkInv
  <1>9. QED  BY <1>4, <1>8 DEF RouteAll

\* Its queue is emptied while ESP-NOW is not connected.
LEMMA RouteDrain ==
    ASSUME TypeInv, RouteAll, Drops(<<"drain">>), Drain
    PROVE  RouteAll'
  <1>1. worker' = [worker EXCEPT !.events = <<>>] /\ UNCHANGED <<service, driver, route>>
    BY DEF Drain
  <1>2. worker'.running = worker.running /\ worker'.events = <<>> /\ worker'.client = worker.client
        /\ worker'.suspended = worker.suspended
    BY <1>1 DEF TypeInv, DataOK
  <1>3. Pending(<<"drain">>)
    BY FirstIsPending DEF Drops
  <1>4. ~TransportUsable(ESP)
    BY <1>3 DEF RouteAll, WorkInv, Halting
  <1>5. RouteInv'
    <2>1. <<"drain">>[1] \notin Decisions /\ <<"look">>[1] \notin Decisions
      BY DEF Decisions
    <2>2. QED  BY <2>1, <1>1, <1>4, RouteMoves DEF RouteAll
  <1>6. \A s : Pending(s)' => Pending(s)
    BY DEF Drops
  <1>7. Pending(<<"stopWorker">>) => Pending(<<"stopWorker">>)'
    BY DEF Drops
  <1>8. \A t : TransportUsable(t)' <=> TransportUsable(t)
    BY <1>1, SameService
  <1>9. Unwanted' <=> Unwanted
    BY <1>1, <1>2 DEF Unwanted
  <1>10. WorkInv'
    BY <1>1, <1>2, <1>6, <1>7, <1>8, <1>9 DEF RouteAll, WorkInv
  <1>11. QED  BY <1>5, <1>10 DEF RouteAll

\* The worker settles what an event says, or the service is already off.
LEMMA RouteSettle ==
    ASSUME TypeInv, RouteAll, NEW e \in {"SEARCHING", "STOPPED"}, Drops(<<"settle", e>>),
           Pending(<<"decide">>)', Settle,
           IF service[ESP].enabled /\ ~worker.suspended
           THEN Enters(ESP, IF e = "STOPPED" THEN "ERROR" ELSE "CONNECTING")
           ELSE UNCHANGED service
    PROVE  RouteAll'
  <1>1. UNCHANGED <<worker, driver, route>>
    BY DEF Settle
  <1>2. ESP \in Transports /\ "MQTT" \in Transports \ {ESP}
    BY DEF Transports, ESP
  <1>3. /\ service'[ESP].enabled = service[ESP].enabled /\ ~TransportUsable(ESP)'
        /\ \A u \in Transports \ {ESP} : service'[u] = service[u]
    <2>1. CASE service[ESP].enabled /\ ~worker.suspended
      <3>1. PICK s : s # "CONNECTED" /\ Enters(ESP, s)
        <4>1. "ERROR" # "CONNECTED" /\ "CONNECTING" # "CONNECTED"
          OBVIOUS
        <4>2. Enters(ESP, "ERROR") \/ Enters(ESP, "CONNECTING")
          BY <2>1
        <4>3. QED  BY <4>1, <4>2
      <3>2. QED  BY <3>1, <1>2, AfterEnters
    <2>2. CASE ~(service[ESP].enabled /\ ~worker.suspended)
      <3>1. UNCHANGED service
        BY <2>2
      <3>2. Pending(<<"settle", e>>)
        BY FirstIsPending DEF Drops
      <3>3. Unwanted
        BY <2>2, <3>2 DEF RouteAll, WorkInv, Unwanted
      <3>4. ~TransportUsable(ESP)
        BY <3>3 DEF RouteAll, WorkInv, Halting
      <3>5. QED  BY <3>1, <3>4, SameService
    <2>3. QED  BY <2>1, <2>2
  <1>4. RouteInv'
    <2>1. <<"settle", e>>[1] \in {"connecting", "settle"} /\ service'["MQTT"] = service["MQTT"]
      BY <1>2, <1>3
    <2>2. QED  BY <2>1, <1>1, <1>3, RouteHalts DEF RouteAll
  <1>5. \A s : Pending(s)' => Pending(s)
    BY DEF Drops
  <1>6. Pending(<<"stopWorker">>) => Pending(<<"stopWorker">>)'
    BY DEF Drops
  <1>7. Unwanted' <=> Unwanted
    BY <1>1, <1>3 DEF Unwanted
  <1>8. WorkInv'
    BY <1>1, <1>2, <1>3, <1>5, <1>6, <1>7 DEF RouteAll, WorkInv
  <1>9. QED  BY <1>4, <1>8 DEF RouteAll

\* The steps that are about none of it.
LEMMA RouteAside ==
    ASSUME RouteAll, NEW h, NEW x, Swaps(h, x) \/ Drops(h), h[1] \notin Routing, x[1] \notin Routing \cup {"endMqtt"},
           UNCHANGED <<service, worker, driver>>, route'.selected = route.selected, route'.state = route.state
    PROVE  RouteAll'
  <1>1. h[1] \notin Decisions /\ x[1] \notin Decisions /\ h # <<"stopWorker">>
        /\ x[1] \notin Halting \cup {"endMqtt", "settle"}
    BY DEF Routing, Decisions, Halting
  <1>2. Due' <=> Due
    BY SameDue
  <1>3. RouteInv'
    BY <1>1, <1>2, RouteMoves DEF RouteAll
  <1>4. WorkInv'
    BY <1>1, WorkMoves DEF RouteAll
  <1>5. QED  BY <1>3, <1>4 DEF RouteAll

LEMMA RouteKept ==
    ASSUME TypeInv, OneInside, RouteAll, [NmConnectionNext]_vars, overlaps' = 0, ~lost'
    PROVE  RouteAll'
  <1>1. ASSUME NEW task \in Tasks, CoordinatorStep(task)  PROVE RouteAll'
    <2>1. CASE Decide(task)
      <3>1. Swaps(<<"decide">>, <<"select", ResolveNetworkRoute(route.preferred, route.selected)>>)
            /\ route.preferred \in ConnectionType
        BY <2>1, DecideTodo DEF Moved, TypeInv, DataOK, NmConnectionTypeOK
      <3>2. QED  BY <2>1, <3>1, RouteDecide DEF Decide
    <2>2. CASE Select(task)
      <3>1. PICK u \in ConnectionType :
              /\ route' = [route EXCEPT !.selected = u]
              /\ Moved(<<"select", u>>,
                       <<"conclude", u, u = route.selected /\ route.state = "CONNECTED">>)
        BY <2>2, SelectTodo
      <3>2. UNCHANGED <<service, worker, driver>>
        BY <2>2 DEF Select
      <3>3. QED  BY <3>1, <3>2, RouteSelect DEF Moved
    <2>3. CASE Conclude(task)
      <3>1. PICK u \in ConnectionType, b \in BOOLEAN :
              /\ route' = [route EXCEPT !.state = IF u # "AUTO" THEN "CONNECTED" ELSE "STOPPED"]
              /\ u # "AUTO" /\ ~b => Moved(<<"conclude", u, b>>, <<"notify">>)
              /\ ~(u # "AUTO" /\ ~b) => Ended(<<"conclude", u, b>>)
        BY <2>3, ConcludeTodo
      <3>2. UNCHANGED <<service, worker, driver>>
        BY <2>3 DEF Conclude
      <3>3. /\ u # "AUTO" /\ ~b => Swaps(<<"conclude", u, b>>, <<"notify">>)
            /\ ~(u # "AUTO" /\ ~b) => Drops(<<"conclude", u, b>>)
        BY <3>1 DEF Moved, Ended
      <3>4. QED  BY <3>1, <3>2, <3>3, RouteConclude
    <2>4. CASE Notify(task)
      <3>1. Swaps(<<"notify">>, <<"take", 1>>)
        BY <2>4, NotifyTodo DEF Moved
      <3>2. QED  BY <2>4, <3>1, RouteNotify DEF Notify
    <2>5. CASE FlushTake(task) \/ FlushSend(task) \/ FlushClear(task)
      <3>1. PICK h, x : /\ Swaps(h, x) \/ Drops(h)
                        /\ h[1] \notin Routing /\ x[1] \notin Routing \cup {"endMqtt"}
        BY <2>5, FlushMoves DEF Routing
      <3>2. UNCHANGED <<service, worker, driver, route>>
        BY <2>5 DEF FlushTake, FlushSend, FlushClear
      <3>3. QED  BY <3>1, <3>2, RouteAside
    <2>6. CASE Look(task)
      <3>1. PICK t, s : Swaps(<<"look", t>>, <<"tell", t, s>>)
        BY <2>6, LookTodo DEF Moved
      <3>2. <<"look", t>>[1] \notin Routing /\ <<"tell", t, s>>[1] \notin Routing \cup {"endMqtt"}
        BY DEF Routing
      <3>3. UNCHANGED <<service, worker, driver, route>>
        BY <2>6 DEF Look
      <3>4. QED  BY <3>1, <3>2, <3>3, RouteAside
    <2>7. CASE Tell(task)
      <3>1. PICK t, s : Drops(<<"tell", t, s>>)
        BY <2>7, TellTodo DEF Ended
      <3>2. <<"tell", t, s>>[1] \notin Routing \cup {"endMqtt"}
        BY DEF Routing
      <3>3. UNCHANGED <<service, worker, driver, route>>
        BY <2>7 DEF Tell
      <3>4. QED  BY <3>1, <3>2, <3>3, RouteAside
    <2>8. QED  BY <1>1, <2>1, <2>2, <2>3, <2>4, <2>5, <2>6, <2>7 DEF CoordinatorStep
  <1>2. CASE MqttConnected \/ MqttDisconnected
    BY <1>2, RouteMqtt, RouteSession
  <1>3. CASE MqttError \/ MqttEnable \/ MqttDisable \/ GatewayCandidate
    BY <1>3, RouteMqtt
  <1>4. CASE ClientConnected \/ ClientLost
    BY <1>4, RouteSession
  <1>5. CASE HandleConnected \/ HandleOther
    BY <1>5, RouteHandle
  <1>6. CASE EspNowEnable \/ EspNowResume \/ EspNowDisable \/ EspNowSuspend
    BY <1>6, RouteSwitch
  <1>7. CASE ConnectionTick \/ Prefer \/ PublishWhenConnected
    BY <1>7, RouteLoop
  <1>8. CASE EndMqtt
    BY <1>8, SwitchTodo, RouteEndMqtt DEF Ended
  <1>9. CASE BeginWorker
    BY <1>9, SwitchTodo, RouteBegin DEF Moved
  <1>10. CASE Connecting
    BY <1>10, SwitchTodo, RouteConnecting DEF Ended
  <1>11. CASE EndClient
    BY <1>11, SwitchTodo, RouteEndClient DEF Ended
  <1>12. CASE StopWorker
    BY <1>12, SwitchTodo, RouteStop DEF Ended
  <1>13. CASE Drain
    BY <1>13, SwitchTodo, RouteDrain DEF Ended
  <1>14. CASE Settle
    <2>1. PICK e \in {"SEARCHING", "STOPPED"} :
              /\ Drops(<<"settle", e>>) /\ Pending(<<"decide">>)'
              /\ IF service["ESP_NOW"].enabled /\ ~worker.suspended
                 THEN Enters("ESP_NOW", IF e = "STOPPED" THEN "ERROR" ELSE "CONNECTING")
                 ELSE UNCHANGED service
      BY <1>14, SettleTodo DEF Ended
    <2>2. QED  BY <1>14, <2>1, RouteSettle DEF ESP
  <1>15. CASE Preferred
    <2>1. PICK p : Drops(<<"prefer", p>>) /\ route' = [route EXCEPT !.preferred = p]
      BY <1>15, PreferredTodo DEF Ended
    <2>2. route'.selected = route.selected /\ route'.state = route.state
      BY <2>1 DEF TypeInv, DataOK, NmConnectionTypeOK
    <2>3. <<"prefer", p>>[1] \notin Routing \cup {"endMqtt"}
      BY DEF Routing
    <2>4. UNCHANGED <<service, worker, driver>>
      BY <1>15 DEF Preferred
    <2>5. QED  BY <2>1, <2>2, <2>3, <2>4, RouteAside
  <1>16. CASE Hold
    <2>1. PICK m : Drops(<<"hold", m>>)
      BY <1>16, HoldTodo DEF Ended
    <2>2. <<"hold", m>>[1] \notin Routing \cup {"endMqtt"}
      BY DEF Routing
    <2>3. UNCHANGED <<service, worker, driver, route>>
      BY <1>16 DEF Hold
    <2>4. QED  BY <2>1, <2>2, <2>3, RouteAside
  <1>17. CASE UNCHANGED vars
    <2>1. UNCHANGED <<service, worker, driver, route, todo>>
      BY <1>17 DEF vars
    <2>2. /\ \A t : TransportUsable(t)' <=> TransportUsable(t)
          /\ \A s : (Starting(s)' <=> Starting(s)) /\ (Pending(s)' <=> Pending(s))
          /\ \A t : Leaving(t)' <=> Leaving(t)
      BY <2>1, RouteSame
    <2>3. (Due' <=> Due) /\ (Unwanted' <=> Unwanted)
      BY <2>1 DEF Due, Unwanted
    <2>4. Renewing' <=> Renewing
      BY <2>2, <2>3 DEF Renewing
    <2>5. \A t : (Passing(t) => Passing(t)') /\ (Backed(t) => Backed(t)') /\ (Heard(t) => Heard(t)')
      BY <2>1, <2>2, <2>4 DEF Passing, Backed, Heard
    <2>6. RouteInv'
      BY <2>1, <2>2, <2>5 DEF RouteAll, RouteInv, Choosing, Concluding
    <2>7. WorkInv'
      BY <2>1, <2>2, <2>3 DEF RouteAll, WorkInv
    <2>8. QED  BY <2>6, <2>7 DEF RouteAll
  <1>18. "mqtt" \in Tasks /\ "espnow" \in Tasks /\ "loop" \in Tasks
    BY DEF Tasks
  <1>19. QED
    BY <1>1, <1>2, <1>3, <1>4, <1>5, <1>6, <1>7, <1>8, <1>9, <1>10, <1>11, <1>12, <1>13, <1>14,
       <1>15, <1>16, <1>17, <1>18
       DEF NmConnectionNext, Drivers, Application, LoopStep, WorkerStep

\* An event that was lost stays lost.
LEMMA LostStays ==
    ASSUME TypeInv, [NmConnectionNext]_vars, ~lost'
    PROVE  ~lost
  <1>1. CASE ClientConnected \/ ClientLost
    BY <1>1 DEF ClientConnected, ClientLost
  <1>2. ASSUME UNCHANGED lost  PROVE ~lost
    BY <1>2
  <1>3. ASSUME NEW task \in Tasks, CoordinatorStep(task)  PROVE UNCHANGED lost
    BY <1>3 DEF CoordinatorStep, Decide, Select, Conclude, Notify, FlushTake, FlushSend, FlushClear,
                Look, Tell, Then
  <1>4. CASE MqttConnected \/ MqttDisconnected \/ MqttError
    BY <1>2, <1>4 DEF MqttConnected, MqttDisconnected, MqttError, Begins
  <1>5. CASE Application
    BY <1>2, <1>5 DEF Application, MqttEnable, MqttDisable, EspNowEnable, EspNowDisable, EspNowSuspend,
                      EspNowResume, Prefer, GatewayCandidate, PublishWhenConnected, Begins
  <1>6. CASE ConnectionTick \/ HandleConnected \/ HandleOther
    BY <1>2, <1>6 DEF ConnectionTick, HandleConnected, HandleOther, Begins
  <1>7. CASE EndMqtt \/ BeginWorker \/ Connecting \/ EndClient \/ StopWorker
    BY <1>2, <1>7 DEF EndMqtt, BeginWorker, Connecting, EndClient, StopWorker, Then
  <1>8. CASE Drain \/ Preferred \/ Hold \/ Settle
    BY <1>2, <1>8 DEF Drain, Preferred, Hold, Settle, Then
  <1>9. CASE UNCHANGED vars
    BY <1>2, <1>9 DEF vars
  <1>10. "mqtt" \in Tasks /\ "espnow" \in Tasks /\ "loop" \in Tasks
    BY DEF Tasks
  <1>11. QED
    BY <1>1, <1>2, <1>3, <1>4, <1>5, <1>6, <1>7, <1>8, <1>9, <1>10
       DEF NmConnectionNext, Drivers, LoopStep, WorkerStep

FollowInv ==
    /\ overlaps = 0 => OneInside /\ StatusInv
    /\ overlaps = 0 /\ ~lost => RouteAll

LEMMA FollowStarts ==
    ASSUME NmConnectionInit
    PROVE  FollowInv
  <1>1. \A task \in Tasks : Idle(task) /\ Len(todo[task]) = 0
    BY DEF NmConnectionInit, Idle
  <1>2. \A s : ~Starting(s) /\ ~Pending(s)
    BY <1>1 DEF Starting, Pending, Waits
  <1>3. OneInside
    BY <1>1 DEF OneInside
  <1>4. StatusInv
    BY <1>2 DEF NmConnectionInit, StatusInv, Aware
  <1>5. \A t : ~TransportUsable(t)
    BY DEF NmConnectionInit, TransportUsable
  <1>6. RouteInv
    <2>1. /\ \A t \in Transports : driver[t] = "down"
          /\ route.selected = "AUTO"
      BY DEF NmConnectionInit
    <2>2. "AUTO" \notin Transports
      BY DEF Transports
    <2>3. QED
      BY <1>2, <1>5, <2>1, <2>2 DEF RouteInv, Choosing, Concluding, Passing, Backed, Heard
  <1>7. WorkInv
    <2>1. ~Unwanted /\ worker.events = <<>>
      BY DEF NmConnectionInit, Unwanted, Transports, ESP
    <2>2. QED  BY <1>2, <2>1 DEF WorkInv
  <1>8. QED  BY <1>3, <1>4, <1>6, <1>7 DEF FollowInv, RouteAll

LEMMA FollowAtRest ==
    ASSUME TypeInv, FollowInv
    PROVE  FollowersAgree
  <1>1. ASSUME Quiet  PROVE (\A s : ~Pending(s) /\ ~Starting(s)) /\ ~Due
    <2>1. \A task \in Tasks : Idle(task) /\ Len(todo[task]) = 0
      BY <1>1 DEF Quiet, Idle
    <2>2. Len(worker.events) = 0
      BY <1>1 DEF Quiet
    <2>3. QED  BY <2>1, <2>2 DEF Pending, Starting, Waits, Due
  <1>2. StatusIsCurrent
    BY <1>1 DEF StatusIsCurrent, FollowInv, Orderly, StatusInv, Aware
  <1>3. ASSUME Orderly, Quiet, Carries  PROVE driver[route.selected] = "subscribed"
    <2>1. driver[route.selected] # "up"
      <3>1. Heard(route.selected)
        BY <1>3 DEF FollowInv, Orderly, RouteAll, RouteInv, Carries
      <3>2. ~Leaving(route.selected) /\ ~Renewing
        BY <1>1, <1>3 DEF Leaving, Renewing
      <3>3. QED  BY <1>1, <1>3, <3>1, <3>2 DEF Heard, Carries
    <2>2. driver[route.selected] \in {"down", "up", "subscribed"}
      BY <1>3 DEF Carries, TypeInv, DataOK, NmConnectionTypeOK
    <2>3. QED  BY <1>3, <2>1, <2>2 DEF Carries
  <1>4. QED  BY <1>2, <1>3 DEF FollowersAgree, OwnersFollow

\* Unless two tasks were inside at once or an event of ESP-NOW found the queue
\* full, whenever nobody is inside and no event waits the owners have subscribed
\* on the session of the selected connection and the application was told the
\* state each service is in, for any queue and any number of sessions and
\* requests (notifyConnectedOwners, activate and reportNetworkStatus in
\* Network/NmConnection.cpp, and the two services that call them).
THEOREM FollowersFollow == Spec => []FollowersAgree
  <1>1. NmConnectionInit => TypeInv /\ FollowInv
    BY TypesStart, FollowStarts
  <1>2. TypeInv /\ FollowInv /\ [NmConnectionNext]_vars => (TypeInv /\ FollowInv)'
    <2>1. ASSUME TypeInv, FollowInv, [NmConnectionNext]_vars, overlaps' = 0
          PROVE  OneInside' /\ StatusInv'
      <3>1. overlaps = 0 /\ OneInside /\ OneInside'
        BY <2>1, InsideKept DEF FollowInv
      <3>2. QED  BY <2>1, <3>1, StatusKept DEF FollowInv
    <2>2. ASSUME TypeInv, FollowInv, [NmConnectionNext]_vars, overlaps' = 0, ~lost'
          PROVE  RouteAll'
      <3>1. overlaps = 0 /\ OneInside /\ ~lost
        BY <2>2, InsideKept, LostStays DEF FollowInv
      <3>2. QED  BY <2>2, <3>1, RouteKept DEF FollowInv
    <2>3. QED  BY <2>1, <2>2, TypesKept DEF FollowInv
  <1>3. TypeInv /\ FollowInv => FollowersAgree
    BY FollowAtRest
  <1>4. QED  BY <1>1, <1>2, <1>3, PTL DEF Spec
================================================================================
