---- MODULE TriggerChannelProofs ----
(***************************************************************************)
(* Proofs about TriggerChannel: one send at a time, none under the         *)
(* connection's operation mutex, and quiet after shutdown, for any number  *)
(* of executor threads, closers, responses and places in the queue, and    *)
(* for whatever stacks of calls the threads build up.                      *)
(***************************************************************************)
EXTENDS TriggerChannel, TLAPS, SequenceTheorems

-----------------------------------------------------------------------------
(* Stacks *)

Some(s, S) == \E n \in 1..Len(s) : s[n] \in S

LEMMA HasIsSome == \A t, S : Has(t, S) <=> Some(stack[t], S)
  BY DEF Has, Some

LEMMA SomeOfNone == \A S : ~Some(<<>>, S)
  BY DEF Some

LEMMA SomeOfOne == \A S, x : Some(<<x>>, S) <=> x \in S
  BY DEF Some

LEMMA SomeOfTwo == \A S, x, y : Some(<<x, y>>, S) <=> x \in S \/ y \in S
  BY DEF Some

LEMMA SomeOfThree == \A S, x, y, z : Some(<<x, y, z>>, S) <=> x \in S \/ y \in S \/ z \in S
  BY DEF Some

LEMMA OneParts == \A x : <<x>> # <<>> /\ Head(<<x>>) = x /\ Tail(<<x>>) = <<>>
  OBVIOUS
LEMMA TwoParts == \A x, y : <<x, y>> # <<>> /\ Head(<<x, y>>) = x /\ Tail(<<x, y>>) = <<y>>
  OBVIOUS
LEMMA ThreeParts ==
    \A x, y, z : <<x, y, z>> # <<>> /\ Head(<<x, y, z>>) = x /\ Tail(<<x, y, z>>) = <<y, z>>
  OBVIOUS

LEMMA OneIsAnother == \A x, y : <<x>> # <<>> /\ (x # y => <<x>> # <<y>>)
  <1> SUFFICES ASSUME NEW x, NEW y, <<x>> = <<y>> PROVE x = y
    BY OneParts
  <1>1. Head(<<x>>) = x /\ Head(<<y>>) = y
    BY OneParts
  <1>2. QED
    BY <1>1

LEMMA PutOnNone == \A x : <<x>> \o <<>> = <<x>>
  OBVIOUS
LEMMA PutOnOne == \A x, y : <<x>> \o <<y>> = <<x, y>>
  <1> SUFFICES ASSUME NEW x, NEW y PROVE <<x>> \o <<y>> = <<x, y>>
    OBVIOUS
  <1> DEFINE S == {x, y}
  <1>1. <<x>> \in Seq(S) /\ <<y>> \in Seq(S) /\ <<x, y>> \in Seq(S)
    OBVIOUS
  <1>2. Len(<<x>>) = 1 /\ Len(<<y>>) = 1 /\ Len(<<x, y>>) = 2
    OBVIOUS
  <1> HIDE DEF S
  <1>3. /\ <<x>> \o <<y>> \in Seq(S)
        /\ Len(<<x>> \o <<y>>) = 2
        /\ \A i \in 1..2 : (<<x>> \o <<y>>)[i] = IF i <= 1 THEN <<x>>[i] ELSE <<y>>[i - 1]
    BY <1>1, <1>2, ConcatProperties
  <1>4. \A i \in 1..2 : (<<x>> \o <<y>>)[i] = <<x, y>>[i]
    BY <1>3
  <1>5. QED
    BY <1>1, <1>2, <1>3, <1>4, SeqEqual

LEMMA PutOnTwo == \A x, y, z : <<x>> \o <<y, z>> = <<x, y, z>>
  <1> SUFFICES ASSUME NEW x, NEW y, NEW z PROVE <<x>> \o <<y, z>> = <<x, y, z>>
    OBVIOUS
  <1> DEFINE S == {x, y, z}
  <1>1. <<x>> \in Seq(S) /\ <<y, z>> \in Seq(S) /\ <<x, y, z>> \in Seq(S)
    OBVIOUS
  <1>2. Len(<<x>>) = 1 /\ Len(<<y, z>>) = 2 /\ Len(<<x, y, z>>) = 3
    OBVIOUS
  <1> HIDE DEF S
  <1>3. /\ <<x>> \o <<y, z>> \in Seq(S)
        /\ Len(<<x>> \o <<y, z>>) = 3
        /\ \A i \in 1..3 : (<<x>> \o <<y, z>>)[i] = IF i <= 1 THEN <<x>>[i] ELSE <<y, z>>[i - 1]
    BY <1>1, <1>2, ConcatProperties
  <1>4. \A i \in 1..3 : (<<x>> \o <<y, z>>)[i] = <<x, y, z>>[i]
    BY <1>3
  <1>5. QED
    BY <1>1, <1>2, <1>3, <1>4, SeqEqual

LEMMA PutTwoOnOne == \A x, y, z : <<x, y>> \o <<z>> = <<x, y, z>>
  <1> SUFFICES ASSUME NEW x, NEW y, NEW z PROVE <<x, y>> \o <<z>> = <<x, y, z>>
    OBVIOUS
  <1> DEFINE S == {x, y, z}
  <1>1. <<x, y>> \in Seq(S) /\ <<z>> \in Seq(S) /\ <<x, y, z>> \in Seq(S)
    OBVIOUS
  <1>2. Len(<<x, y>>) = 2 /\ Len(<<z>>) = 1 /\ Len(<<x, y, z>>) = 3
    OBVIOUS
  <1> HIDE DEF S
  <1>3. /\ <<x, y>> \o <<z>> \in Seq(S)
        /\ Len(<<x, y>> \o <<z>>) = 3
        /\ \A i \in 1..3 : (<<x, y>> \o <<z>>)[i] = IF i <= 2 THEN <<x, y>>[i] ELSE <<z>>[i - 2]
    BY <1>1, <1>2, ConcatProperties
  <1>4. \A i \in 1..3 : (<<x, y>> \o <<z>>)[i] = <<x, y, z>>[i]
    BY <1>3
  <1>5. QED
    BY <1>1, <1>2, <1>3, <1>4, SeqEqual

LEMMA PutTwoOnNone == \A x, y : <<x, y>> \o <<>> = <<x, y>>
  OBVIOUS

-----------------------------------------------------------------------------
(* What a move does to a stack *)

Stacks == stack \in [Threads -> Seq(Frames)] /\ \A t \in Threads : Nested(stack[t])

\* Any thread but the one that moves keeps its stack.
Others(t) == \A u \in Threads : u # t => stack'[u] = stack[u]

\* The frames a thread has after a move, or before it.
TopAndRest(t, x, rest) ==
    /\ stack[t] # <<>> /\ Head(stack[t]) = x /\ Tail(stack[t]) = rest
    /\ \A S : Has(t, S) <=> x \in S \/ Some(rest, S)

LEMMA Rests ==
    ASSUME NEW x, NEW rest \in Under(x)
    PROVE  /\ rest \in Seq(Frames)
           /\ Nested(rest)
           /\ \/ rest = <<>>
              \/ \E b \in Interrupted : rest = <<b>>
              \/ rest = <<"emit">>
              \/ rest = <<"unlock">>
              \/ \E b \in Interrupted : rest = <<"unlock", b>>
  <1>1. \/ rest = <<>>
        \/ \E b \in Interrupted : rest = <<b>>
        \/ rest = <<"emit">>
        \/ rest = <<"unlock">>
        \/ \E b \in Interrupted : rest = <<"unlock", b>>
    BY DEF Under
  <1>2. CASE rest = <<>>
    BY <1>2 DEF Nested
  <1>3. CASE \E b \in Interrupted : rest = <<b>>
    <2>1. PICK b \in Interrupted : rest = <<b>>
      BY <1>3
    <2>2. b \in Frames /\ Head(rest) = b /\ Tail(rest) = <<>>
      BY <2>1, OneParts DEF Interrupted, Frames
    <2>3. <<>> \in Under(b)
      BY DEF Under
    <2>4. <<b>> \in Seq(Frames)
      BY <2>2
    <2>5. QED
      BY <1>1, <2>1, <2>2, <2>3, <2>4 DEF Nested
  <1>4. CASE rest = <<"emit">>
    <2>1. Head(rest) = "emit" /\ Tail(rest) = <<>> /\ "emit" \in Frames /\ rest \in Seq(Frames)
      BY <1>4, OneParts DEF Frames
    <2>2. <<>> \in Under("emit")
      BY DEF Under
    <2>3. QED
      BY <1>1, <2>1, <2>2 DEF Nested
  <1>5. CASE rest = <<"unlock">>
    <2>1. Head(rest) = "unlock" /\ Tail(rest) = <<>> /\ "unlock" \in Frames
            /\ rest \in Seq(Frames)
      BY <1>5, OneParts DEF Frames
    <2>2. <<>> \in Under("unlock")
      BY DEF Under
    <2>3. QED
      BY <1>1, <2>1, <2>2 DEF Nested
  <1>6. CASE \E b \in Interrupted : rest = <<"unlock", b>>
    <2>1. PICK b \in Interrupted : rest = <<"unlock", b>>
      BY <1>6
    <2>2. Head(rest) = "unlock" /\ Tail(rest) = <<b>> /\ "unlock" \in Frames /\ b \in Frames
      BY <2>1, TwoParts DEF Interrupted, Frames
    <2>3. <<b>> \in Under("unlock")
      BY DEF Under, Settling
    <2>4. rest \in Seq(Frames)
      BY <2>1, <2>2
    <2>5. QED
      BY <1>1, <2>2, <2>3, <2>4 DEF Nested
  <1>7. QED
    BY <1>1, <1>2, <1>3, <1>4, <1>5, <1>6

LEMMA OnTop ==
    ASSUME NEW x \in Frames, NEW rest \in Under(x)
    PROVE  /\ <<x>> \o rest \in Seq(Frames)
           /\ <<x>> \o rest # <<>>
           /\ Head(<<x>> \o rest) = x
           /\ Tail(<<x>> \o rest) = rest
           /\ \A S : Some(<<x>> \o rest, S) <=> x \in S \/ Some(rest, S)
  <1>1. CASE rest = <<>>
    <2>1. <<x>> \o rest = <<x>>
      BY <1>1, PutOnNone
    <2>2. <<x>> \in Seq(Frames)
      OBVIOUS
    <2>3. QED
      BY <1>1, <2>1, <2>2, OneParts, SomeOfOne, SomeOfNone
  <1>2. CASE \E b \in Frames : rest = <<b>>
    <2>1. PICK b \in Frames : rest = <<b>>
      BY <1>2
    <2>2. <<x>> \o rest = <<x, b>>
      BY <2>1, PutOnOne
    <2>3. <<x, b>> \in Seq(Frames)
      OBVIOUS
    <2>4. \A S : Some(<<x, b>>, S) <=> x \in S \/ Some(<<b>>, S)
      BY SomeOfTwo, SomeOfOne
    <2>5. <<x, b>> # <<>> /\ Head(<<x, b>>) = x /\ Tail(<<x, b>>) = <<b>>
      BY TwoParts
    <2>6. \A S : Some(<<x>> \o rest, S) <=> x \in S \/ Some(rest, S)
      BY <2>1, <2>2, <2>4
    <2>7. QED
      BY <2>1, <2>2, <2>3, <2>5, <2>6
  <1>3. CASE \E a, b \in Frames : rest = <<a, b>>
    <2>1. PICK a \in Frames, b \in Frames : rest = <<a, b>>
      BY <1>3
    <2>2. <<x>> \o rest = <<x, a, b>>
      BY <2>1, PutOnTwo
    <2>3. <<x, a, b>> \in Seq(Frames)
      OBVIOUS
    <2>4. \A S : Some(<<x, a, b>>, S) <=> x \in S \/ Some(<<a, b>>, S)
      BY SomeOfThree, SomeOfTwo
    <2>5. <<x, a, b>> # <<>> /\ Head(<<x, a, b>>) = x /\ Tail(<<x, a, b>>) = <<a, b>>
      BY ThreeParts
    <2>6. \A S : Some(<<x>> \o rest, S) <=> x \in S \/ Some(rest, S)
      BY <2>1, <2>2, <2>4
    <2>7. QED
      BY <2>1, <2>2, <2>3, <2>5, <2>6
  <1>4. Interrupted \subseteq Frames /\ "emit" \in Frames /\ "unlock" \in Frames
    BY DEF Interrupted, Frames
  <1>5. QED
    BY <1>1, <1>2, <1>3, <1>4, Rests

\* A stack that is not empty is its top and what that interrupted.
LEMMA TopOf ==
    ASSUME Stacks, NEW t \in Threads, NEW x, At(t, x)
    PROVE  /\ x \in Frames /\ Tail(stack[t]) \in Under(x)
           /\ stack[t] = <<x>> \o Tail(stack[t])
           /\ TopAndRest(t, x, Tail(stack[t]))
  <1>1. stack[t] # <<>> /\ Head(stack[t]) = x /\ stack[t] \in Seq(Frames)
    BY DEF At, Stacks
  <1>2. x \in Frames /\ Tail(stack[t]) \in Under(x)
    BY <1>1 DEF Stacks, Nested
  <1>3. stack[t] = <<x>> \o Tail(stack[t])
    BY <1>1
  <1>4. \A S : Some(stack[t], S) <=> x \in S \/ Some(Tail(stack[t]), S)
    <2> DEFINE s == stack[t]  rest == Tail(stack[t])
    <2>1. s = <<x>> \o rest /\ x \in Frames /\ rest \in Under(x)
      BY <1>2, <1>3
    <2> HIDE DEF s, rest
    <2>2. \A S : Some(<<x>> \o rest, S) <=> x \in S \/ Some(rest, S)
      BY <2>1, OnTop
    <2>3. \A S : Some(s, S) <=> x \in S \/ Some(rest, S)
      BY <2>1, <2>2
    <2>4. QED
      BY <2>3 DEF s, rest
  <1>5. QED
    BY <1>1, <1>2, <1>3, <1>4, HasIsSome DEF TopAndRest

After(t, y, rest) ==
    /\ Stacks' /\ Others(t)
    /\ stack'[t] # <<>> /\ Head(stack'[t]) = y /\ Tail(stack'[t]) = rest
    /\ \A S : Has(t, S)' <=> y \in S \/ Some(rest, S)

AfterReturn(t, rest) ==
    /\ Stacks' /\ Others(t)
    /\ stack'[t] = rest
    /\ \A S : Has(t, S)' <=> Some(rest, S)

LEMMA PutOnTop ==
    ASSUME Stacks, NEW t \in Threads, NEW y \in Frames, NEW rest \in Under(y),
           stack' = [stack EXCEPT ![t] = <<y>> \o rest]
    PROVE  After(t, y, rest)
  <1>1. stack'[t] = <<y>> \o rest /\ \A u \in Threads : u # t => stack'[u] = stack[u]
    BY DEF Stacks
  <1> DEFINE s == stack'[t]  p == <<y>> \o rest
  <1>p. /\ p \in Seq(Frames) /\ p # <<>> /\ Head(p) = y /\ Tail(p) = rest
        /\ \A S : Some(p, S) <=> y \in S \/ Some(rest, S)
    BY OnTop
  <1>e. s = p
    BY <1>1
  <1> HIDE DEF s, p
  <1>2. /\ s \in Seq(Frames) /\ s # <<>> /\ Head(s) = y /\ Tail(s) = rest
        /\ \A S : Some(s, S) <=> y \in S \/ Some(rest, S)
    BY <1>p, <1>e
  <1>3. Nested(s)
    BY <1>2 DEF Nested
  <1>4. stack' \in [Threads -> Seq(Frames)]
    <2>1. stack' = [stack EXCEPT ![t] = p]
      BY DEF p
    <2>2. QED
      BY <2>1, <1>p DEF Stacks
  <1>5. \A u \in Threads : Nested(stack'[u])
    BY <1>1, <1>3 DEF Stacks, s
  <1>6. \A S : Has(t, S)' <=> Some(s, S)
    BY DEF Has, Some, s
  <1>7. Stacks'
    BY <1>4, <1>5 DEF Stacks
  <1>8. Others(t)
    BY <1>1 DEF Others
  <1>9. QED
    BY <1>2, <1>6, <1>7, <1>8 DEF After, s

LEMMA Going ==
    ASSUME Stacks, NEW t \in Threads, NEW x, NEW rest, TopAndRest(t, x, rest),
           NEW y \in Frames, rest \in Under(y), Goto(t, y)
    PROVE  After(t, y, rest)
  <1>1. rest = Tail(stack[t])
    BY DEF TopAndRest
  <1>2. stack' = [stack EXCEPT ![t] = <<y>> \o rest]
    BY <1>1 DEF Goto, Stacks
  <1>3. QED
    BY <1>2, PutOnTop

LEMMA Returning ==
    ASSUME Stacks, NEW t \in Threads, NEW x, NEW rest \in Under(x), TopAndRest(t, x, rest),
           Return(t)
    PROVE  AfterReturn(t, rest)
  <1>1. rest = Tail(stack[t])
    BY DEF TopAndRest
  <1>2. stack'[t] = rest /\ \A u \in Threads : u # t => stack'[u] = stack[u]
    BY <1>1 DEF Return, Stacks
  <1>3. rest \in Seq(Frames) /\ Nested(rest)
    BY Rests
  <1>4. stack' \in [Threads -> Seq(Frames)]
    BY <1>1, <1>3 DEF Return, Stacks
  <1>5. \A u \in Threads : Nested(stack'[u])
    BY <1>2, <1>3 DEF Stacks
  <1>6. \A S : Has(t, S)' <=> Some(rest, S)
    BY <1>2 DEF Has, Some
  <1>7. QED
    BY <1>2, <1>4, <1>5, <1>6 DEF AfterReturn, Stacks, Others

LEMMA Calling ==
    ASSUME Stacks, NEW t \in Threads, NEW x, NEW rest \in Under(x), TopAndRest(t, x, rest),
           NEW y \in Frames, NEW z \in Frames, rest \in Under(z), Call(t, y, z),
           rest = <<>> \/ \E b \in Interrupted : rest = <<b>>,
           <<z>> \o rest \in Under(y)
    PROVE  /\ After(t, y, <<z>> \o rest)
           /\ \A S : Has(t, S)' <=> y \in S \/ z \in S \/ Some(rest, S)
  <1>1. rest = Tail(stack[t])
    BY DEF TopAndRest
  <1>2. <<y>> \o (<<z>> \o rest) = <<y, z>> \o rest
    <2>1. CASE rest = <<>>
      <3>1. <<z>> \o rest = <<z>> /\ <<y, z>> \o rest = <<y, z>>
        BY <2>1, PutOnNone, PutTwoOnNone
      <3>2. QED
        BY <3>1, PutOnOne
    <2>2. CASE \E b \in Interrupted : rest = <<b>>
      <3>1. PICK b \in Interrupted : rest = <<b>>
        BY <2>2
      <3>2. <<z>> \o rest = <<z, b>> /\ <<y, z>> \o rest = <<y, z, b>>
        BY <3>1, PutOnOne, PutTwoOnOne
      <3>3. QED
        BY <3>2, PutOnTwo
    <2>3. QED
      BY <2>1, <2>2
  <1>3. stack' = [stack EXCEPT ![t] = <<y, z>> \o rest]
    BY <1>1 DEF Call, Stacks
  <1> DEFINE below == <<z>> \o rest
  <1>4. stack' = [stack EXCEPT ![t] = <<y>> \o below]
    BY <1>2, <1>3
  <1>5. \A S : Some(below, S) <=> z \in S \/ Some(rest, S)
    BY OnTop
  <1>6. below \in Under(y)
    OBVIOUS
  <1> HIDE DEF below
  <1>7. After(t, y, below)
    BY <1>4, <1>6, PutOnTop
  <1>8. \A S : Has(t, S)' <=> y \in S \/ z \in S \/ Some(rest, S)
    BY <1>5, <1>7 DEF After
  <1>9. QED
    BY <1>7, <1>8 DEF below

LEMMA Entering ==
    ASSUME Stacks, NEW t \in Threads, Idle(t), NEW y \in Frames, Enter(t, y)
    PROVE  After(t, y, <<>>) /\ \A S : ~Has(t, S) /\ ~At(t, S)
  <1>1. <<y>> \o <<>> = <<y>> /\ <<>> \in Under(y)
    BY PutOnNone DEF Under
  <1>2. stack' = [stack EXCEPT ![t] = <<y>> \o <<>>]
    BY <1>1 DEF Enter
  <1>3. QED
    BY <1>1, <1>2, PutOnTop, HasIsSome, SomeOfNone DEF Idle, At

-----------------------------------------------------------------------------
(* Who has a frame of a kind, before and after a move *)

Keeps(K) == \A u \in Threads : Has(u, K)' <=> Has(u, K)

\* Only t's stack may differ, and it has a frame of the kind after iff now says so.
Only(t, K, now) ==
    /\ Has(t, K)' <=> now
    /\ \A u \in Threads : u # t => (Has(u, K)' <=> Has(u, K))

LEMMA OthersKeep ==
    ASSUME NEW t \in Threads, Others(t), NEW K, NEW u \in Threads, u # t
    PROVE  Has(u, K)' <=> Has(u, K)
  BY DEF Others, Has

LEMMA OthersAt ==
    ASSUME NEW t \in Threads, Others(t), NEW y, NEW u \in Threads, u # t
    PROVE  At(u, y)' <=> At(u, y)
  BY DEF Others, At

LEMMA GoingKeeps ==
    ASSUME NEW t \in Threads, NEW x, NEW y, NEW rest, TopAndRest(t, x, rest), After(t, y, rest)
    PROVE  /\ \A K : (x \in K <=> y \in K) => Keeps(K)
           /\ \A z : At(t, z)' <=> z = y
  <1>1. Others(t)
    BY DEF After
  <1>2. \A K : (x \in K <=> y \in K) => (Has(t, K)' <=> Has(t, K))
    BY DEF After, TopAndRest
  <1>3. \A z : At(t, z)' <=> z = y
    BY DEF After, At
  <1>4. QED
    BY <1>1, <1>2, <1>3, OthersKeep DEF Keeps

LEMMA ReturningKeeps ==
    ASSUME NEW t \in Threads, NEW x, NEW rest \in Under(x), TopAndRest(t, x, rest),
           AfterReturn(t, rest)
    PROVE  /\ \A K : x \notin K => Keeps(K)
           /\ \A z : At(t, z)' => z \in Interrupted \cup {"emit", "unlock"}
  <1>1. Others(t)
    BY DEF AfterReturn
  <1>2. \A K : x \notin K => (Has(t, K)' <=> Has(t, K))
    BY DEF AfterReturn, TopAndRest
  <1>3. \A z : At(t, z)' => z \in Interrupted \cup {"emit", "unlock"}
    <2>1. stack'[t] = rest
      BY DEF AfterReturn
    <2>2. rest # <<>> => Head(rest) \in Interrupted \cup {"emit", "unlock"}
      BY Rests, OneParts, TwoParts
    <2>3. QED
      BY <2>1, <2>2 DEF At
  <1>4. QED
    BY <1>1, <1>2, <1>3, OthersKeep DEF Keeps

-----------------------------------------------------------------------------
(* What keeps each part of the invariant *)

Past == Closing \ {"shutdown"}

LEMMA Kinds ==
    /\ Threads = Publishers \cup Closers \cup {Writer}
    /\ Closers \cap Publishers = {} /\ Writer \notin Closers
    /\ Body \subseteq Frames /\ InSink \subseteq Body /\ Searching \subseteq Body
    /\ Settled \subseteq Settling /\ Settling \subseteq Frames /\ Closing \subseteq Frames
    /\ Settling \cap Body = {} /\ Closing \cap Body = {} /\ Closing \cap Settling = {}
    /\ "settle" \in Settling /\ "unlock" \in Settled /\ "leased" \in Searching
  BY TriggerChannelAssumption
  DEF Threads, Body, InSink, Searching, Settled, Settling, Closing, Frames

LEMMA StacksOf ==
    ASSUME ChannelInv
    PROVE  Stacks
  BY DEF ChannelInv, TypeOK, StackInv, Stacks

LEMMA NotCloser ==
    ASSUME StackInv, NEW t \in Threads, NEW x, At(t, x), x \notin Closing
    PROVE  t \notin Closers
  BY OneParts DEF StackInv, At

LEMMA StackKept ==
    ASSUME StackInv, Stacks', NEW t \in Threads, Others(t), t \notin Closers, called' = called
    PROVE  StackInv' /\ \A c \in Closers : stack'[c] = stack[c]
  <1>1. \A c \in Closers : c \in Threads /\ c # t
    BY Kinds
  <1>2. \A c \in Closers : stack'[c] = stack[c]
    BY <1>1 DEF Others
  <1>3. QED
    BY <1>2 DEF StackInv, Stacks

LEMMA RunnerKept ==
    ASSUME RunnerInv, Keeps(Body), Keeps(Settling), Keeps(InSink), Keeps({"unlock"}),
           UNCHANGED <<pump_active, sink_calls, operation_mutex>>
    PROVE  RunnerInv'
  <1> DEFINE B == {u \in Threads : Has(u, Body)}
  <1>1. \A t, u \in Threads : Has(t, Body)' /\ Has(u, Body)' => t = u
    BY DEF RunnerInv, Keeps
  <1>2. \A t, u \in Threads : Has(t, Settling)' /\ Has(u, Settling)' => t = u
    BY DEF RunnerInv, Keeps
  <1>3. pump_active' <=> \E t \in Threads : Has(t, Body)'
    BY DEF RunnerInv, Keeps
  <1>4. sink_calls' = 1 <=> \E t \in Threads : Has(t, InSink)'
    BY DEF RunnerInv, Keeps
  <1>5. \A t \in Threads : operation_mutex' = t <=> Has(t, {"unlock"})'
    BY DEF RunnerInv, Keeps
  <1>6. QED
    BY <1>1, <1>2, <1>3, <1>4, <1>5 DEF RunnerInv

LEMMA SendKept ==
    ASSUME SendInv, Keeps(Settling), Keeps(Settled), Keeps(Searching),
           \A u \in Threads : \A z \in {"settle", "begin", "busy"} : At(u, z)' => At(u, z),
           \A u \in Threads : At(u, "leased")' <=> At(u, "leased"),
           UNCHANGED <<completion, completion_pending>>,
           session'.lease = session.lease, session'.closed = session.closed,
           closed => closed'
    PROVE  SendInv'
  <1>1. completion' = "open" => completion_pending'
    BY DEF SendInv
  <1>2. \A t \in Threads : Has(t, Settling)' => completion' = "done" /\ completion_pending'
    BY DEF SendInv, Keeps
  <1>3. \A t \in Threads : Has(t, Settled)' => ~session'.lease
    BY DEF SendInv, Keeps
  <1>4. \A t \in Threads : At(t, "settle")' => session'.closed \/ session'.lease
    BY DEF SendInv
  <1>5. completion' = "open" => session'.closed \/ session'.lease
    BY DEF SendInv
  <1>6. \A t \in Threads : Has(t, Searching)' => ~completion_pending'
    BY DEF SendInv, Keeps
  <1>7. \A t \in Threads : At(t, "begin")' => ~session'.lease
    BY DEF SendInv
  <1>8. \A t \in Threads : ~At(t, "busy")'
    BY DEF SendInv
  <1>9. \A t \in Threads : At(t, "leased")' => closed' \/ session'.lease
    BY DEF SendInv
  <1>10. session'.lease /\ ~closed' => completion_pending' \/ \E t \in Threads : At(t, "leased")'
    BY DEF SendInv
  <1>11. QED
    BY <1>1, <1>2, <1>3, <1>4, <1>5, <1>6, <1>7, <1>8, <1>9, <1>10 DEF SendInv

LEMMA QueueKept ==
    ASSUME QueueInv, UNCHANGED <<session, retained, emitted, made, completion_pending>>
    PROVE  QueueInv'
  BY DEF QueueInv

LEMMA CloseKept ==
    ASSUME CloseInv, Keeps(Past), called \subseteq Closers,
           \A c \in Closers : stack'[c] = stack[c], called' = called,
           closed => closed', session.closed => session'.closed,
           \/ task' \subseteq task
           \/ ~session.closed,
           \/ sink_calls' = sink_calls \/ sink_calls' = sink_calls - 1
           \/ ~closed,
           sink_calls' = sink_calls - 1 => sink_calls = 1
    PROVE  CloseInv'
  <1>1. \A t \in Threads : Has(t, Past)' => closed'
    BY DEF CloseInv, Keeps, Past
  <1>2. \A c \in called' : stack'[c] \in {<<>>, <<"drain">>, <<"await_sink">>} =>
                              closed' /\ session'.closed
    BY DEF CloseInv
  <1>3. \A c \in called' : stack'[c] \in {<<>>, <<"await_sink">>} => task' = {}
    <2> SUFFICES ASSUME NEW c \in called, stack[c] \in {<<>>, <<"await_sink">>} PROVE task' = {}
      OBVIOUS
    <2>1. session.closed /\ task = {}
      BY DEF CloseInv
    <2>2. QED
      BY <2>1
  <1>4. \A c \in called' : stack'[c] = <<>> => sink_calls' = 0
    <2> SUFFICES ASSUME NEW c \in called, stack[c] = <<>> PROVE sink_calls' = 0
      OBVIOUS
    <2>1. closed /\ sink_calls = 0
      BY DEF CloseInv
    <2>2. QED
      BY <2>1
  <1>5. QED
    BY <1>1, <1>2, <1>3, <1>4 DEF CloseInv, Past

LEMMA Together ==
    ASSUME TypeOK', StackInv', RunnerInv', SendInv', QueueInv', CloseInv'
    PROVE  ChannelInv'
  BY DEF ChannelInv

-----------------------------------------------------------------------------
(* Commands and responses *)

LEMMA StackSame ==
    ASSUME UNCHANGED stack
    PROVE  /\ \A K : Keeps(K)
           /\ \A u \in Threads : \A z : At(u, z)' <=> At(u, z)
  BY DEF Keeps, Has, At

LEMMA SubmitKeeps ==
    ASSUME ChannelInv, NEW p \in Publishers, Submit(p)
    PROVE  ChannelInv'
  <1>1. TypeOK'
    BY DEF ChannelInv, TypeOK, Submit, flags, owner, sending
  <1>2. StackInv'
    BY DEF ChannelInv, StackInv, Submit
  <1>3. RunnerInv'
    BY StackSame, RunnerKept DEF ChannelInv, Submit, flags, owner
  <1>4. SendInv'
    BY StackSame, SendKept DEF ChannelInv, Submit, flags, owner, sending
  <1>5. QueueInv'
    BY QueueKept DEF ChannelInv, Submit, flags, owner
  <1>6. CloseInv'
    BY StackSame, CloseKept DEF ChannelInv, TypeOK, Submit, flags, owner
  <1>7. QED
    BY <1>1, <1>2, <1>3, <1>4, <1>5, <1>6, Together

LEMMA FinishTaskKeeps ==
    ASSUME ChannelInv, NEW p \in Publishers, FinishTask(p)
    PROVE  ChannelInv'
  <1>1. TypeOK'
    BY DEF ChannelInv, TypeOK, FinishTask, flags, owner, sending
  <1>2. StackInv'
    BY DEF ChannelInv, StackInv, FinishTask
  <1>3. RunnerInv'
    BY StackSame, RunnerKept DEF ChannelInv, FinishTask, flags, owner
  <1>4. SendInv'
    BY StackSame, SendKept DEF ChannelInv, FinishTask, flags, owner, sending
  <1>5. QueueInv'
    BY QueueKept DEF ChannelInv, FinishTask, flags, owner
  <1>6. CloseInv'
    BY StackSame, CloseKept DEF ChannelInv, TypeOK, FinishTask, flags, owner
  <1>7. QED
    BY <1>1, <1>2, <1>3, <1>4, <1>5, <1>6, Together

-----------------------------------------------------------------------------
(* A move between frames of the same kinds *)

AllKeep == /\ Keeps(Body) /\ Keeps(Settling) /\ Keeps(Settled) /\ Keeps(InSink)
           /\ Keeps(Searching) /\ Keeps({"unlock"}) /\ Keeps(Past)
AtKeep == /\ \A u \in Threads : \A z \in {"settle", "begin", "busy"} : At(u, z)' => At(u, z)
          /\ \A u \in Threads : At(u, "leased")' <=> At(u, "leased")
SameKinds(x, y) ==
    /\ x \in Body <=> y \in Body
    /\ x \in Settling <=> y \in Settling
    /\ x \in Settled <=> y \in Settled
    /\ x \in InSink <=> y \in InSink
    /\ x \in Searching <=> y \in Searching
    /\ x \in {"unlock"} <=> y \in {"unlock"}
    /\ x \in Past <=> y \in Past
Watched == {"settle", "begin", "busy", "leased"}

LEMMA GoingWithin ==
    ASSUME NEW t \in Threads, NEW x, NEW y, NEW rest, TopAndRest(t, x, rest),
           After(t, y, rest), SameKinds(x, y), x # "leased", y \notin Watched
    PROVE  AllKeep /\ AtKeep
  <1>1. AllKeep
    BY GoingKeeps DEF AllKeep, SameKinds
  <1>2. \A z \in Watched : ~At(t, z)'
    BY GoingKeeps
  <1>3. ~At(t, "leased")
    BY DEF TopAndRest, At
  <1>4. Others(t)
    BY DEF After
  <1>5. QED
    BY <1>1, <1>2, <1>3, <1>4, OthersAt DEF AtKeep, Watched

LEMMA ReturningFrom ==
    ASSUME NEW t \in Threads, NEW x, NEW rest \in Under(x), TopAndRest(t, x, rest),
           AfterReturn(t, rest), x \notin Body \cup Settling \cup Past
    PROVE  AllKeep /\ AtKeep
  <1>1. x \notin Settled /\ x \notin InSink /\ x \notin Searching /\ x # "unlock"
    BY Kinds
  <1>2. AllKeep
    BY <1>1, ReturningKeeps DEF AllKeep
  <1>3. \A z \in Watched : ~At(t, z)'
    BY ReturningKeeps DEF Interrupted, Watched
  <1>4. x # "leased"
    BY <1>1, Kinds
  <1>5. ~At(t, "leased")
    BY <1>4 DEF TopAndRest, At
  <1>6. Others(t)
    BY DEF AfterReturn
  <1>7. QED
    BY <1>2, <1>3, <1>5, <1>6, OthersAt DEF AtKeep, Watched

LEMMA EnteringKeeps ==
    ASSUME Stacks, NEW t \in Threads, Idle(t), NEW y \in Frames, Enter(t, y),
           y \notin Body \cup Settling \cup Past
    PROVE  After(t, y, <<>>) /\ AllKeep /\ AtKeep
  <1>1. After(t, y, <<>>) /\ (\A S : ~Has(t, S) /\ ~At(t, S))
    BY Entering
  <1>2. y \notin Settled /\ y \notin InSink /\ y \notin Searching /\ y \notin {"unlock"}
    BY Kinds
  <1>3. Others(t)
    BY <1>1 DEF After
  <1>4. \A K : y \notin K => (Has(t, K)' <=> Has(t, K))
    BY <1>1, SomeOfNone DEF After
  <1>5. \A K : y \notin K => Keeps(K)
    BY <1>3, <1>4, OthersKeep DEF Keeps
  <1>6. AllKeep
    BY <1>2, <1>5 DEF AllKeep
  <1>7. y \notin Watched
    BY Kinds DEF Watched, Searching, Settling
  <1>8. \A z \in Watched : ~At(t, z)'
    BY <1>1, <1>7 DEF After, At
  <1>9. QED
    BY <1>1, <1>3, <1>6, <1>8, OthersAt DEF AtKeep, Watched

LEMMA StackFrom ==
    ASSUME ChannelInv, NEW t \in Threads, t \notin Closers, called' = called,
           Stacks', Others(t)
    PROVE  StackInv' /\ \A c \in Closers : stack'[c] = stack[c]
  BY StackKept DEF ChannelInv

\* The rest of the invariant when a move changed no kind and the action nothing it names.
LEMMA QuietMove ==
    ASSUME ChannelInv, AllKeep, AtKeep, StackInv', TypeOK',
           \A c \in Closers : stack'[c] = stack[c],
           UNCHANGED <<closed, completion_pending, sink_calls, completion, pump_active,
                       operation_mutex, session, retained, emitted, made, task, called>>
    PROVE  ChannelInv'
  <1>1. RunnerInv'
    BY RunnerKept DEF ChannelInv, AllKeep
  <1>2. SendInv'
    BY SendKept DEF ChannelInv, AllKeep, AtKeep
  <1>3. QueueInv'
    BY QueueKept DEF ChannelInv
  <1>4. CloseInv'
    BY CloseKept DEF ChannelInv, TypeOK, AllKeep
  <1>5. QED
    BY <1>1, <1>2, <1>3, <1>4, Together

LEMMA PublishKeeps ==
    ASSUME ChannelInv, NEW p \in Publishers, Publish(p)
    PROVE  ChannelInv'
  <1>1. Stacks /\ p \in Threads /\ p \notin Closers /\ TypeOK /\ QueueInv
    BY StacksOf, Kinds DEF ChannelInv
  <1>2. Idle(p)
    BY DEF Publish
  <1>3. "notify" \in Frames /\ "notify" \notin Body \cup Settling \cup Past
    BY DEF Frames, Body, Settling, Past, Closing
  <1>4. Stacks' /\ Others(p) /\ AllKeep /\ AtKeep
    <2>1. CASE Enter(p, "notify")
      <3>1. After(p, "notify", <<>>) /\ AllKeep /\ AtKeep
        BY <2>1, <1>1, <1>2, <1>3, EnteringKeeps
      <3>2. QED
        BY <3>1 DEF After
    <2>2. CASE UNCHANGED stack
      <3>1. AllKeep /\ AtKeep
        BY <2>2, StackSame DEF AllKeep, AtKeep
      <3>2. Stacks' /\ Others(p)
        BY <2>2, <1>1 DEF Stacks, Others
      <3>3. QED
        BY <3>1, <3>2
    <2>3. QED
      BY <2>1, <2>2 DEF Publish
  <1>5. called' = called
    BY DEF Publish
  <1>6. StackInv' /\ \A c \in Closers : stack'[c] = stack[c]
    BY <1>1, <1>4, <1>5, StackFrom
  <1>7. /\ session'.outbound = session.outbound + 1
        /\ session'.lease = session.lease /\ session'.closed = session.closed
        /\ session' \in [closed : BOOLEAN, outbound : 0..max_queued_batches, lease : BOOLEAN]
    BY <1>1, TriggerChannelAssumption DEF TypeOK, Publish
  <1>8. TypeOK'
    BY <1>1, <1>4, <1>7, TriggerChannelAssumption
    DEF TypeOK, Publish, Stacks, flags, sending
  <1>9. RunnerInv'
    BY <1>4, RunnerKept DEF ChannelInv, AllKeep, Publish, flags
  <1>10. SendInv'
    BY <1>4, <1>7, SendKept DEF ChannelInv, AllKeep, AtKeep, Publish, flags, sending
  <1>11. QueueInv'
    BY <1>1, <1>7, TriggerChannelAssumption DEF TypeOK, QueueInv, Publish, flags
  <1>12. CloseInv'
    BY <1>4, <1>6, <1>7, CloseKept DEF ChannelInv, TypeOK, AllKeep, Publish, flags
  <1>13. QED
    BY <1>6, <1>8, <1>9, <1>10, <1>11, <1>12, Together

LEMMA RefuseKeeps ==
    ASSUME ChannelInv, NEW p \in Publishers, Refuse(p)
    PROVE  ChannelInv'
  <1>1. Stacks /\ p \in Threads /\ p \notin Closers
    BY StacksOf, Kinds
  <1>2. "retain" \in Frames /\ "retain" \notin Body \cup Settling \cup Past
    BY DEF Frames, Body, Settling, Past, Closing
  <1>3. After(p, "retain", <<>>) /\ AllKeep /\ AtKeep
    BY <1>1, <1>2, EnteringKeeps DEF Refuse
  <1>4. Stacks' /\ Others(p)
    BY <1>3 DEF After
  <1>5. StackInv' /\ \A c \in Closers : stack'[c] = stack[c]
    BY <1>1, <1>4, StackFrom DEF Refuse
  <1>6. TypeOK'
    BY <1>4 DEF ChannelInv, TypeOK, Refuse, Stacks, flags, owner, sending
  <1>7. QED
    BY <1>3, <1>5, <1>6, QuietMove DEF Refuse, flags, owner, sending

-----------------------------------------------------------------------------
(* The pump ends, or is not entered *)

Shrinks(K) == \A u \in Threads : Has(u, K)' => Has(u, K)

LEMMA SendShrinks ==
    ASSUME SendInv, Shrinks(Settling), Shrinks(Settled), Shrinks(Searching),
           \A u \in Threads : \A z \in Watched : At(u, z)' => At(u, z),
           UNCHANGED <<completion, completion_pending>>,
           session'.lease = session.lease, session'.closed = session.closed,
           closed => closed',
           \/ \A u \in Threads : ~At(u, "leased") \/ At(u, "leased")'
           \/ closed'
    PROVE  SendInv'
  <1>1. \A u \in Threads : Has(u, Settling)' => completion' = "done" /\ completion_pending'
    BY DEF SendInv, Shrinks
  <1>2. \A u \in Threads : Has(u, Settled)' => ~session'.lease
    BY DEF SendInv, Shrinks
  <1>3. \A u \in Threads : At(u, "settle")' => session'.closed \/ session'.lease
    BY DEF SendInv, Watched
  <1>4. \A u \in Threads : Has(u, Searching)' => ~completion_pending'
    BY DEF SendInv, Shrinks
  <1>5. \A u \in Threads : At(u, "begin")' => ~session'.lease
    BY DEF SendInv, Watched
  <1>6. \A u \in Threads : ~At(u, "busy")'
    BY DEF SendInv, Watched
  <1>7. \A u \in Threads : At(u, "leased")' => closed' \/ session'.lease
    BY DEF SendInv, Watched
  <1>8. session'.lease /\ ~closed' => completion_pending' \/ \E u \in Threads : At(u, "leased")'
    BY DEF SendInv
  <1>9. (completion' = "open" => completion_pending')
        /\ (completion' = "open" => session'.closed \/ session'.lease)
    BY DEF SendInv
  <1>10. QED
    BY <1>1, <1>2, <1>3, <1>4, <1>5, <1>6, <1>7, <1>8, <1>9 DEF SendInv

LEMMA PumpEnds ==
    ASSUME ChannelInv, NEW t \in Threads, NEW x \in Body \ InSink, NEW rest \in Under(x),
           TopAndRest(t, x, rest), AfterReturn(t, rest), rest = <<>> \/ rest = <<"unlock">>,
           pump_active' = FALSE, UNCHANGED <<sink_calls, operation_mutex>>
    PROVE  /\ RunnerInv'
           /\ Shrinks(Settling) /\ Shrinks(Settled) /\ Shrinks(Searching) /\ Keeps(Past)
           /\ \A u \in Threads : \A z \in Watched : At(u, z)' => At(u, z)
           /\ \A u \in Threads : u # t => (At(u, "leased")' <=> At(u, "leased"))
  <1>1. RunnerInv /\ Others(t)
    BY DEF ChannelInv, AfterReturn
  <1>2. \A K : x \notin K => Keeps(K)
    BY ReturningKeeps
  <1>3. x \notin Settling /\ x \notin Settled /\ x \notin Past /\ x \notin InSink
        /\ x \notin {"unlock"}
    BY Kinds DEF Past
  <1>4. ~Has(t, Body)' /\ ~Has(t, Searching)'
    <2>1. "unlock" \notin Body /\ "unlock" \notin Searching
      BY Kinds
    <2>2. ~Some(rest, Body) /\ ~Some(rest, Searching)
      BY <2>1, SomeOfNone, SomeOfOne
    <2>3. QED
      BY <2>2 DEF AfterReturn
  <1>5. Has(t, Body)
    BY DEF TopAndRest
  <1>6. \A u \in Threads : ~Has(u, Body)'
    <2> SUFFICES ASSUME NEW u \in Threads, u # t PROVE ~Has(u, Body)'
      BY <1>4
    <2>1. ~Has(u, Body)
      BY <1>1, <1>5 DEF RunnerInv
    <2>2. QED
      BY <2>1, <1>1, OthersKeep
  <1>7. Shrinks(Searching)
    BY <1>1, <1>4, OthersKeep DEF Shrinks
  <1>8. Keeps(Settling) /\ Keeps(Settled) /\ Keeps(Past) /\ Keeps(InSink) /\ Keeps({"unlock"})
    BY <1>2, <1>3
  <1>9. RunnerInv'
    <2>1. \A v, u \in Threads : Has(v, Settling)' /\ Has(u, Settling)' => v = u
      BY <1>1, <1>8 DEF RunnerInv, Keeps
    <2>2. sink_calls' = 1 <=> \E u \in Threads : Has(u, InSink)'
      BY <1>1, <1>8 DEF RunnerInv, Keeps
    <2>3. \A u \in Threads : operation_mutex' = u <=> Has(u, {"unlock"})'
      BY <1>1, <1>8 DEF RunnerInv, Keeps
    <2>4. QED
      BY <1>6, <2>1, <2>2, <2>3 DEF RunnerInv
  <1>10. \A z \in Watched : ~At(t, z)'
    BY ReturningKeeps DEF Interrupted, Watched
  <1>11. "leased" \in Watched
    BY DEF Watched
  <1>12. QED
    BY <1>1, <1>7, <1>8, <1>9, <1>10, <1>11, OthersAt DEF Keeps, Shrinks

LEMMA TopAt ==
    ASSUME ChannelInv, NEW t \in Threads, NEW x, At(t, x)
    PROVE  /\ Stacks /\ x \in Frames
           /\ \E rest \in Under(x) : TopAndRest(t, x, rest)
           /\ x \notin Closing => t \notin Closers
           /\ \A z : At(t, z) => z = x
  BY StacksOf, TopOf, NotCloser DEF ChannelInv, At

\* What a frame may interrupt.
LEMMA UnderFacts ==
    /\ \A x : <<>> \in Under(x)
    /\ \A x \in Body \ {"loop"} : Under(x) = {<<>>}
    /\ Under("loop") = {<<>>, <<"unlock">>}
    /\ \A x \in Settling \cup Completions : Under(x) = {<<>>} \cup {<<b>> : b \in Interrupted}
    /\ Under("notify") \subseteq Under("pump")
    /\ \A x \in Settling \cup Completions : Under(x) \subseteq Under("pump")
    /\ \A x \in Closing : Under(x) = {<<>>, <<"emit">>}
    /\ \A rest \in Under("pump") : ~Some(rest, Body) => rest \in Under("loop")
  <1>1. \A x : <<>> \in Under(x)
    BY DEF Under
  <1>2. \A x \in Body \ {"loop"} : Under(x) = {<<>>}
    BY DEF Under, Body, Settling, Completions, Closing
  <1>3. Under("loop") = {<<>>, <<"unlock">>}
    BY DEF Under, Settling, Completions, Closing
  <1>4. \A x \in Settling \cup Completions : Under(x) = {<<>>} \cup {<<b>> : b \in Interrupted}
    BY DEF Under, Settling, Completions, Closing
  <1>5. Under("pump") = {<<>>} \cup {<<b>> : b \in Interrupted} \cup {<<"unlock">>}
                          \cup {<<"unlock", b>> : b \in Interrupted}
    BY DEF Under, Settling, Completions, Closing
  <1>6. Under("notify") \subseteq Under("pump")
    BY <1>5 DEF Under, Settling, Completions, Closing
  <1>7. \A x \in Closing : Under(x) = {<<>>, <<"emit">>}
    BY DEF Under, Settling, Completions, Closing
  <1>8. \A rest \in Under("pump") : ~Some(rest, Body) => rest \in Under("loop")
    <2> SUFFICES ASSUME NEW rest \in Under("pump"), ~Some(rest, Body)
                 PROVE  rest = <<>> \/ rest = <<"unlock">>
      BY <1>3
    <2>1. Interrupted \subseteq Body
      BY DEF Interrupted, Body
    <2>2. \A b \in Interrupted : Some(<<b>>, Body) /\ Some(<<"unlock", b>>, Body)
      BY <2>1, SomeOfOne, SomeOfTwo
    <2>3. QED
      BY <1>5, <2>2
  <1>9. QED
    BY <1>1, <1>2, <1>3, <1>4, <1>5, <1>6, <1>7, <1>8

LEMMA NotifyKeeps ==
    ASSUME ChannelInv, NEW t \in Threads, Notify(t)
    PROVE  ChannelInv'
  <1>1. At(t, "notify") /\ "notify" \notin Closing /\ "pump" \in Frames
    BY DEF Notify, Closing, Frames
  <1>2. Stacks /\ t \notin Closers
    BY <1>1, TopAt
  <1>3. PICK rest \in Under("notify") : TopAndRest(t, "notify", rest)
    BY <1>1, TopAt
  <1>4. Stacks' /\ Others(t) /\ AllKeep /\ AtKeep
    <2>1. CASE Goto(t, "pump")
      <3>1. rest \in Under("pump")
        BY UnderFacts
      <3>2. After(t, "pump", rest)
        BY <1>1, <1>2, <1>3, <2>1, <3>1, Going
      <3>3. SameKinds("notify", "pump") /\ "pump" \notin Watched
        BY DEF SameKinds, Watched, Body, Settling, Settled, InSink, Searching, Past, Closing
      <3>4. QED
        BY <1>3, <3>2, <3>3, GoingWithin DEF After
    <2>2. CASE Return(t)
      <3>1. AfterReturn(t, rest)
        BY <1>2, <1>3, <2>2, Returning
      <3>2. "notify" \notin Body \cup Settling \cup Past
        BY DEF Body, Settling, Past, Closing
      <3>3. QED
        BY <1>3, <3>1, <3>2, ReturningFrom DEF AfterReturn
    <2>3. QED
      BY <2>1, <2>2 DEF Notify
  <1>5. StackInv' /\ \A c \in Closers : stack'[c] = stack[c]
    BY <1>2, <1>4, StackFrom DEF Notify
  <1>6. TypeOK'
    BY <1>4 DEF ChannelInv, TypeOK, Notify, Stacks, flags, owner, sending
  <1>7. QED
    BY <1>4, <1>5, <1>6, QuietMove DEF Notify, flags, owner, sending

LEMMA RetainKeeps ==
    ASSUME ChannelInv, NEW t \in Threads, Retain(t)
    PROVE  ChannelInv'
  <1>1. /\ At(t, "retain") /\ Return(t)
        /\ "retain" \notin Closing /\ "retain" \notin Body \cup Settling \cup Past
    BY DEF Retain, Body, Settling, Past, Closing
  <1>2. Stacks /\ t \notin Closers
    BY <1>1, TopAt
  <1>3. PICK rest \in Under("retain") : TopAndRest(t, "retain", rest)
    BY <1>1, TopAt
  <1>4. AfterReturn(t, rest)
    BY <1>1, <1>2, <1>3, Returning
  <1>5. Stacks' /\ Others(t) /\ AllKeep /\ AtKeep
    BY <1>1, <1>3, <1>4, ReturningFrom DEF AfterReturn
  <1>6. /\ UNCHANGED <<flags, subscribed, session, operation_mutex, sending, called, emitted>>
        /\ task' \subseteq task
        /\ \/ UNCHANGED <<retained, made>>
           \/ retained' = retained + 1 /\ made' = made + 1
    BY DEF Retain
  <1>7. StackInv' /\ \A c \in Closers : stack'[c] = stack[c]
    BY <1>2, <1>5, <1>6, StackFrom
  <1>8. TypeOK'
    BY <1>5, <1>6 DEF ChannelInv, TypeOK, Stacks, flags, sending
  <1>9. RunnerInv'
    BY <1>5, <1>6, RunnerKept DEF ChannelInv, AllKeep, flags
  <1>10. SendInv'
    BY <1>5, <1>6, SendKept DEF ChannelInv, AllKeep, AtKeep, flags, sending
  <1>11. QueueInv'
    BY <1>6 DEF ChannelInv, TypeOK, QueueInv, flags
  <1>12. CloseInv'
    BY <1>5, <1>6, <1>7, CloseKept DEF ChannelInv, TypeOK, AllKeep, flags
  <1>13. QED
    BY <1>7, <1>8, <1>9, <1>10, <1>11, <1>12, Together

LEMMA PumpEnterKeeps ==
    ASSUME ChannelInv, NEW t \in Threads, PumpEnter(t)
    PROVE  ChannelInv'
  <1>1. At(t, "pump") /\ "pump" \notin Closing /\ "loop" \in Frames
        /\ "pump" \notin Body \cup Settling \cup Past
    BY DEF PumpEnter, Closing, Frames, Body, Settling, Past
  <1>2. Stacks /\ t \notin Closers
    BY <1>1, TopAt
  <1>3. PICK rest \in Under("pump") : TopAndRest(t, "pump", rest)
    BY <1>1, TopAt
  <1>4. CASE Return(t) /\ pump_active' = pump_active
    <2>1. AfterReturn(t, rest)
      BY <1>2, <1>3, <1>4, Returning
    <2>2. Stacks' /\ Others(t) /\ AllKeep /\ AtKeep
      BY <1>1, <1>3, <2>1, ReturningFrom DEF AfterReturn
    <2>3. StackInv' /\ \A c \in Closers : stack'[c] = stack[c]
      BY <1>2, <2>2, StackFrom DEF PumpEnter
    <2>4. TypeOK'
      BY <1>4, <2>2 DEF ChannelInv, TypeOK, PumpEnter, Stacks, owner, sending
    <2>5. QED
      BY <1>4, <2>2, <2>3, <2>4, QuietMove DEF PumpEnter, owner, sending
  <1>5. CASE Goto(t, "loop") /\ ~pump_active /\ pump_active' = TRUE
    <2>1. RunnerInv /\ SendInv
      BY DEF ChannelInv
    <2>2. \A u \in Threads : ~Has(u, Body)
      BY <1>5, <2>1 DEF RunnerInv
    <2>3. ~Some(rest, Body)
      BY <1>3, <2>2 DEF TopAndRest
    <2>4. rest \in Under("loop")
      BY <2>3, UnderFacts
    <2>5. After(t, "loop", rest)
      BY <1>1, <1>2, <1>3, <1>5, <2>4, Going
    <2>6. Others(t) /\ Stacks' /\ Has(t, Body)'
      BY <2>5 DEF After, Body
    <2>7. Keeps(Settling) /\ Keeps(Settled) /\ Keeps(InSink) /\ Keeps({"unlock"})
          /\ Keeps(Searching) /\ Keeps(Past)
      <3>1. \A K \in {Settling, Settled, InSink, {"unlock"}, Searching, Past} :
               "pump" \in K <=> "loop" \in K
        BY DEF Settling, Settled, InSink, Searching, Past, Closing
      <3>2. QED
        BY <1>3, <2>5, <3>1, GoingKeeps
    <2>8. AtKeep
      <3>1. "loop" \notin Watched /\ "leased" # "loop" /\ "leased" # "pump"
        BY DEF Watched
      <3>2. \A z \in Watched : ~At(t, z)'
        BY <1>3, <2>5, <3>1, GoingKeeps
      <3>3. ~At(t, "leased")
        BY <1>1, <3>1 DEF At
      <3>4. QED
        BY <2>6, <3>2, <3>3, OthersAt DEF AtKeep, Watched
    <2>9. RunnerInv'
      <3>1. \A v, u \in Threads : Has(v, Body)' /\ Has(u, Body)' => v = u
        BY <2>2, <2>6, OthersKeep
      <3>2. \A v, u \in Threads : Has(v, Settling)' /\ Has(u, Settling)' => v = u
        BY <2>1, <2>7 DEF RunnerInv, Keeps
      <3>3. sink_calls' = 1 <=> \E u \in Threads : Has(u, InSink)'
        BY <2>1, <2>7 DEF RunnerInv, Keeps, PumpEnter
      <3>4. \A u \in Threads : operation_mutex' = u <=> Has(u, {"unlock"})'
        BY <2>1, <2>7 DEF RunnerInv, Keeps, PumpEnter, owner
      <3>5. QED
        BY <1>5, <2>6, <3>1, <3>2, <3>3, <3>4 DEF RunnerInv
    <2>10. SendInv'
      BY <2>1, <2>7, <2>8, SendKept DEF AtKeep, PumpEnter, owner, sending
    <2>11. StackInv' /\ \A c \in Closers : stack'[c] = stack[c]
      BY <1>2, <2>6, StackFrom DEF PumpEnter
    <2>12. TypeOK'
      BY <1>5, <2>6 DEF ChannelInv, TypeOK, PumpEnter, Stacks, owner, sending
    <2>13. QueueInv'
      BY QueueKept DEF ChannelInv, PumpEnter, owner
    <2>14. CloseInv'
      BY <2>7, <2>11, CloseKept DEF ChannelInv, TypeOK, PumpEnter, owner
    <2>15. QED
      BY <2>9, <2>10, <2>11, <2>12, <2>13, <2>14, Together
  <1>6. QED
    BY <1>4, <1>5 DEF PumpEnter

\* The pump that stops leaves the rest of the channel as it is.
LEMMA StopKeeps ==
    ASSUME ChannelInv, NEW t \in Threads, NEW x \in Body \ InSink, At(t, x),
           x = "leased" => closed \/ ~session.lease,
           Return(t), pump_active' = FALSE, pump_requested' \in BOOLEAN, failed' \in BOOLEAN,
           UNCHANGED <<closed, completion_pending, sink_calls, subscribed, owner, task, sending,
                       called, made, emitted>>
    PROVE  ChannelInv'
  <1>1. x \notin Closing
    BY Kinds
  <1>2. Stacks /\ t \notin Closers
    BY <1>1, TopAt
  <1>3. PICK rest \in Under(x) : TopAndRest(t, x, rest)
    BY TopAt
  <1>4. rest = <<>> \/ rest = <<"unlock">>
    BY <1>3, UnderFacts
  <1>5. AfterReturn(t, rest)
    BY <1>2, <1>3, Returning
  <1>6. /\ RunnerInv'
        /\ Shrinks(Settling) /\ Shrinks(Settled) /\ Shrinks(Searching) /\ Keeps(Past)
        /\ \A u \in Threads : \A z \in Watched : At(u, z)' => At(u, z)
        /\ \A u \in Threads : u # t => (At(u, "leased")' <=> At(u, "leased"))
    BY <1>3, <1>4, <1>5, PumpEnds DEF owner
  <1>7. Stacks' /\ Others(t)
    BY <1>5 DEF AfterReturn
  <1>8. StackInv' /\ \A c \in Closers : stack'[c] = stack[c]
    BY <1>2, <1>7, StackFrom
  <1>9. TypeOK'
    BY <1>7 DEF ChannelInv, TypeOK, Stacks, owner, sending
  <1>10. SendInv'
    <2>1. SendInv
      BY DEF ChannelInv
    <2>2. CASE x = "leased" /\ ~closed
      <3>1. ~session.lease
        BY <2>2
      <3>2. \A u \in Threads : ~At(u, "leased")
        BY <2>1, <2>2, <3>1 DEF SendInv
      <3>3. QED
        BY <2>2, <3>2
    <2>3. CASE x # "leased"
      <3>1. ~At(t, "leased")
        BY <2>3 DEF At
      <3>2. \A u \in Threads : ~At(u, "leased") \/ At(u, "leased")'
        BY <1>6, <3>1
      <3>3. QED
        BY <1>6, <2>1, <3>2, SendShrinks DEF owner, sending
    <2>4. CASE closed
      BY <1>6, <2>1, <2>4, SendShrinks DEF owner, sending
    <2>5. QED
      BY <2>2, <2>3, <2>4
  <1>11. QueueInv'
    BY QueueKept DEF ChannelInv, owner
  <1>12. CloseInv'
    BY <1>6, <1>8, CloseKept DEF ChannelInv, TypeOK, owner
  <1>13. QED
    BY <1>6, <1>8, <1>9, <1>10, <1>11, <1>12, Together

-----------------------------------------------------------------------------
(* The pump at work *)

\* A move of the runner that leaves the sink alone and does not begin a send.
LEMMA RunnerMoves ==
    ASSUME ChannelInv, NEW t \in Threads, NEW x \in Body, NEW y \in Body, At(t, x), Goto(t, y),
           x \in InSink <=> y \in InSink, y = "loop" \/ x # "loop" \/ ~completion_pending
    PROVE  /\ After(t, y, <<>>) \/ (x = "loop" /\ y = "loop")
           /\ x # "loop" => After(t, y, <<>>) /\ TopAndRest(t, x, <<>>)
           /\ Stacks' /\ Others(t) /\ t \notin Closers
           /\ Keeps(Body) /\ Keeps(Settling) /\ Keeps(Settled) /\ Keeps(InSink)
           /\ Keeps({"unlock"}) /\ Keeps(Past)
           /\ (x \in Searching <=> y \in Searching) => Keeps(Searching)
           /\ (y \notin Searching => Shrinks(Searching))
           /\ \A z : At(t, z)' <=> z = y
           /\ \A u \in Threads : u # t => ~Has(u, Body) /\ ~Has(u, Body)'
  <1>1. x \notin Closing /\ x \in Frames /\ y \in Frames
    BY Kinds
  <1>2. Stacks /\ t \notin Closers /\ RunnerInv /\ SendInv
    BY <1>1, TopAt DEF ChannelInv
  <1>3. PICK rest \in Under(x) : TopAndRest(t, x, rest)
    BY TopAt
  <1>4. x # "loop" => rest = <<>>
    BY <1>3, UnderFacts
  <1>5. x = "loop" /\ y # "loop" => rest = <<>>
    <2> SUFFICES ASSUME x = "loop", y # "loop" PROVE rest = <<>>
      OBVIOUS
    <2>1. rest = <<>> \/ rest = <<"unlock">>
      BY <1>3, UnderFacts
    <2>2. ASSUME rest = <<"unlock">> PROVE FALSE
      <3>1. Some(rest, Settling)
        BY <2>2, SomeOfOne, Kinds
      <3>2. Has(t, Settling)
        BY <1>3, <3>1 DEF TopAndRest
      <3>3. completion_pending
        BY <1>2, <3>2 DEF SendInv
      <3>4. QED
        BY <3>3
    <2>3. QED
      BY <2>1, <2>2
  <1>6. rest \in Under(y)
    BY <1>3, <1>4, <1>5, UnderFacts
  <1>7. After(t, y, rest)
    BY <1>1, <1>2, <1>3, <1>6, Going
  <1>8. Stacks' /\ Others(t)
    BY <1>7 DEF After
  <1>9. /\ \A K : (x \in K <=> y \in K) => Keeps(K)
        /\ \A z : At(t, z)' <=> z = y
    BY <1>3, <1>7, GoingKeeps
  <1>10. /\ x \notin Settling /\ y \notin Settling /\ x \notin Settled /\ y \notin Settled
         /\ x \notin {"unlock"} /\ y \notin {"unlock"} /\ x \notin Past /\ y \notin Past
    BY Kinds DEF Past
  <1>11. Keeps(Body) /\ Keeps(Settling) /\ Keeps(Settled) /\ Keeps(InSink)
         /\ Keeps({"unlock"}) /\ Keeps(Past)
    BY <1>9, <1>10
  <1>12. y \notin Searching => Shrinks(Searching)
    <2> SUFFICES ASSUME y \notin Searching PROVE Shrinks(Searching)
      OBVIOUS
    <2>1. Has(t, Searching)' => Some(rest, Searching)
      BY <1>7 DEF After
    <2>2. Some(rest, Searching) => Has(t, Searching)
      BY <1>3 DEF TopAndRest
    <2>3. QED
      BY <1>8, <2>1, <2>2, OthersKeep DEF Shrinks
  <1>13. \A u \in Threads : u # t => ~Has(u, Body) /\ ~Has(u, Body)'
    <2>1. Has(t, Body)
      BY <1>3 DEF TopAndRest
    <2>2. \A u \in Threads : u # t => ~Has(u, Body)
      BY <1>2, <2>1 DEF RunnerInv
    <2>3. QED
      BY <1>11, <2>2 DEF Keeps
  <1>14. (x \in Searching <=> y \in Searching) => Keeps(Searching)
    BY <1>9
  <1>15. After(t, y, <<>>) \/ (x = "loop" /\ y = "loop")
    BY <1>4, <1>5, <1>7
  <1>16. x # "loop" => After(t, y, <<>>) /\ TopAndRest(t, x, <<>>)
    BY <1>3, <1>4, <1>7
  <1>17. QED
    BY <1>2, <1>8, <1>9, <1>11, <1>12, <1>13, <1>14, <1>15, <1>16

LEMMA PumpLoopKeeps ==
    ASSUME ChannelInv, NEW t \in Threads, PumpLoop(t)
    PROVE  ChannelInv'
  <1>1. At(t, "loop") /\ "loop" \in Body \ InSink /\ "begin" \in Body
    BY DEF PumpLoop, Body, InSink
  <1>2. CASE pump_active' = FALSE /\ Return(t) /\ UNCHANGED pump_requested
    <2>1. pump_requested' \in BOOLEAN /\ failed' \in BOOLEAN
      BY <1>2 DEF ChannelInv, TypeOK, PumpLoop
    <2>2. "loop" # "leased"
      OBVIOUS
    <2>3. UNCHANGED <<closed, completion_pending, sink_calls, subscribed, owner, task, sending,
                      called, made, emitted>>
      BY DEF PumpLoop
    <2>4. QED
      BY <1>1, <1>2, <2>1, <2>2, <2>3, StopKeeps
  <1>3. CASE ~Resting /\ pump_requested' = FALSE /\ Goto(t, "begin") /\ UNCHANGED pump_active
    <2>1. ~closed /\ ~completion_pending /\ "loop" \notin InSink /\ "begin" \notin InSink
          /\ "begin" # "loop"
      BY <1>3 DEF Resting, InSink
    <2>2. /\ Stacks' /\ Others(t) /\ t \notin Closers
          /\ Keeps(Body) /\ Keeps(Settling) /\ Keeps(Settled) /\ Keeps(InSink)
          /\ Keeps({"unlock"}) /\ Keeps(Past)
          /\ \A z : At(t, z)' <=> z = "begin"
          /\ \A u \in Threads : u # t => ~Has(u, Body) /\ ~Has(u, Body)'
      BY <1>1, <1>3, <2>1, RunnerMoves
    <2>3. StackInv' /\ \A c \in Closers : stack'[c] = stack[c]
      BY <2>2, StackFrom DEF PumpLoop
    <2>4. TypeOK'
      BY <1>3, <2>2 DEF ChannelInv, TypeOK, PumpLoop, Stacks, owner, sending
    <2>5. RunnerInv'
      BY <1>3, <2>2, RunnerKept DEF ChannelInv, PumpLoop, owner
    <2>6. \A u \in Threads : ~At(u, "leased") /\ ~At(u, "leased")'
      <3>1. ~At(t, "leased") /\ ~At(t, "leased")'
        BY <1>1, <2>2 DEF At
      <3>2. \A u \in Threads : u # t => ~At(u, "leased")
        BY <2>2, TopAt, Kinds DEF TopAndRest
      <3>3. QED
        BY <2>2, <3>1, <3>2, OthersAt
    <2>7. SendInv
      BY DEF ChannelInv
    <2>8. ~session.lease
      BY <2>1, <2>6, <2>7 DEF SendInv
    <2>9. \A u \in Threads : \A z \in {"settle", "busy"} : At(u, z)' => At(u, z)
      BY <2>2, OthersAt
    <2>10. SendInv'
      <3>1. UNCHANGED <<completion, completion_pending, session, closed>>
        BY DEF PumpLoop, owner, sending
      <3>2. \A u \in Threads : Has(u, Settling)' => completion' = "done" /\ completion_pending'
        BY <2>2, <2>7, <3>1 DEF SendInv, Keeps
      <3>3. \A u \in Threads : At(u, "settle")' => session'.closed \/ session'.lease
        BY <2>7, <2>9, <3>1 DEF SendInv
      <3>4. \A u \in Threads : ~At(u, "busy")'
        BY <2>7, <2>9 DEF SendInv
      <3>5. (completion' = "open" => completion_pending')
            /\ (completion' = "open" => session'.closed \/ session'.lease)
        BY <2>7, <3>1 DEF SendInv
      <3>6. QED
        BY <2>1, <2>6, <2>8, <3>1, <3>2, <3>3, <3>4, <3>5 DEF SendInv
    <2>11. QueueInv'
      BY QueueKept DEF ChannelInv, PumpLoop, owner
    <2>12. CloseInv'
      BY <2>2, <2>3, CloseKept DEF ChannelInv, TypeOK, PumpLoop, owner
    <2>13. QED
      BY <2>3, <2>4, <2>5, <2>10, <2>11, <2>12, Together
  <1>4. QED
    BY <1>2, <1>3 DEF PumpLoop

LEMMA LeasedIsRunner ==
    ASSUME ChannelInv, NEW t \in Threads, Has(t, Body), NEW u \in Threads, u # t
    PROVE  ~At(u, "leased") /\ ~At(u, "begin")
  <1>1. ~Has(u, Body)
    BY DEF ChannelInv, RunnerInv
  <1>2. "leased" \in Body /\ "begin" \in Body
    BY DEF Body
  <1>3. QED
    BY <1>1, <1>2, TopAt DEF TopAndRest

\* The runner goes on, and neither begins a send nor leaves one behind.
LEMMA RunnerGoesOn ==
    ASSUME ChannelInv, NEW t \in Threads, NEW x \in Body, NEW y \in Body, At(t, x), Goto(t, y),
           x \in InSink <=> y \in InSink, x # "loop",
           y \notin Watched, x # "leased" \/ ~session.lease \/ closed,
           y \notin Searching \/ x \in Searching, TypeOK',
           UNCHANGED <<closed, completion_pending, sink_calls, completion, pump_active,
                       operation_mutex, session, retained, emitted, made, task, called>>
    PROVE  ChannelInv'
  <1>1. /\ Stacks' /\ Others(t) /\ t \notin Closers
        /\ Keeps(Body) /\ Keeps(Settling) /\ Keeps(Settled) /\ Keeps(InSink)
        /\ Keeps({"unlock"}) /\ Keeps(Past)
        /\ \A z : At(t, z)' <=> z = y
        /\ (x \in Searching <=> y \in Searching) => Keeps(Searching)
        /\ (y \notin Searching => Shrinks(Searching))
    BY RunnerMoves
  <1>2. Shrinks(Searching) /\ Shrinks(Settling) /\ Shrinks(Settled)
    BY <1>1 DEF Keeps, Shrinks
  <1>3. \A u \in Threads : \A z \in Watched : At(u, z)' => At(u, z)
    BY <1>1, OthersAt
  <1>4. SendInv'
    <2>1. SendInv
      BY DEF ChannelInv
    <2>2. CASE closed
      BY <1>2, <1>3, <2>1, <2>2, SendShrinks
    <2>3. CASE x # "leased"
      <3>1. ~At(t, "leased")
        BY <2>3 DEF At
      <3>2. \A u \in Threads : ~At(u, "leased") \/ At(u, "leased")'
        BY <1>1, <3>1, OthersAt
      <3>3. QED
        BY <1>2, <1>3, <2>1, <3>2, SendShrinks
    <2>4. CASE x = "leased" /\ ~closed
      BY <2>1, <2>4 DEF SendInv
    <2>5. QED
      BY <2>2, <2>3, <2>4
  <1>5. StackInv' /\ \A c \in Closers : stack'[c] = stack[c]
    BY <1>1, StackFrom
  <1>6. RunnerInv'
    BY <1>1, RunnerKept DEF ChannelInv
  <1>7. QueueInv'
    BY QueueKept DEF ChannelInv
  <1>8. CloseInv'
    BY <1>1, <1>5, CloseKept DEF ChannelInv, TypeOK
  <1>9. QED
    BY <1>4, <1>5, <1>6, <1>7, <1>8, Together

LEMMA NothingToSendKeeps ==
    ASSUME ChannelInv, NEW t \in Threads, NothingToSend(t)
    PROVE  ChannelInv'
  <1>1. PICK x \in {"nothing", "busy"} : At(t, x)
    BY DEF NothingToSend
  <1>2. x \in Body \ InSink /\ "loop" \in Body /\ x # "loop" /\ x # "leased"
        /\ "loop" \notin Watched /\ "loop" \notin Searching /\ "loop" \notin InSink
    BY DEF Body, InSink, Watched, Searching
  <1>3. UNCHANGED <<closed, completion_pending, sink_calls, subscribed, owner, task, sending,
                    called, made, emitted, pump_requested>>
    BY DEF NothingToSend
  <1>4. CASE Goto(t, "loop") /\ UNCHANGED <<pump_active, failed>>
    <2>1. Stacks'
      BY <1>1, <1>2, <1>4, RunnerMoves
    <2>2. TypeOK'
      BY <1>3, <1>4, <2>1 DEF ChannelInv, TypeOK, Stacks, owner, sending
    <2>3. QED
      BY <1>1, <1>2, <1>3, <1>4, <2>2, RunnerGoesOn DEF owner, sending
  <1>5. CASE failed' = (failed \/ At(t, "busy")) /\ pump_active' = FALSE /\ Return(t)
    <2>1. failed' \in BOOLEAN /\ pump_requested' \in BOOLEAN
      BY <1>3, <1>5 DEF ChannelInv, TypeOK
    <2>2. QED
      BY <1>1, <1>2, <1>3, <1>5, <2>1, StopKeeps
  <1>6. QED
    BY <1>4, <1>5 DEF NothingToSend

LEMMA MarkFailedKeeps ==
    ASSUME ChannelInv, NEW t \in Threads, MarkFailed(t)
    PROVE  ChannelInv'
  <1>1. At(t, "mark_failed") /\ "mark_failed" \in Body \ InSink /\ "mark_failed" # "leased"
    BY DEF MarkFailed, Body, InSink
  <1>2. failed' \in BOOLEAN /\ pump_requested' \in BOOLEAN
    BY DEF ChannelInv, TypeOK, MarkFailed
  <1>3. QED
    BY <1>1, <1>2, StopKeeps DEF MarkFailed

LEMMA PumpAgainKeeps ==
    ASSUME ChannelInv, NEW t \in Threads, PumpAgain(t)
    PROVE  ChannelInv'
  <1>1. At(t, "again") /\ "again" \in Body \ InSink /\ "loop" \in Body /\ "again" # "loop"
        /\ "again" # "leased" /\ "loop" \notin Watched /\ "loop" \notin Searching
        /\ "loop" \notin InSink
    BY DEF PumpAgain, Body, InSink, Watched, Searching
  <1>2. UNCHANGED <<closed, failed, completion_pending, sink_calls, subscribed, owner, task,
                    sending, called, made, emitted, pump_requested>>
    BY DEF PumpAgain
  <1>3. CASE pump_active' = FALSE /\ Return(t)
    <2>1. failed' \in BOOLEAN /\ pump_requested' \in BOOLEAN
      BY <1>2 DEF ChannelInv, TypeOK
    <2>2. QED
      BY <1>1, <1>2, <1>3, <2>1, StopKeeps
  <1>4. CASE Goto(t, "loop") /\ UNCHANGED pump_active
    <2>1. Stacks'
      BY <1>1, <1>4, RunnerMoves
    <2>2. TypeOK'
      BY <1>2, <1>4, <2>1 DEF ChannelInv, TypeOK, Stacks, owner, sending
    <2>3. QED
      BY <1>1, <1>2, <1>4, <2>2, RunnerGoesOn DEF owner, sending
  <1>5. QED
    BY <1>3, <1>4 DEF PumpAgain

LEMMA BeginSendKeeps ==
    ASSUME ChannelInv, NEW t \in Threads, BeginSend(t)
    PROVE  ChannelInv'
  <1>1. At(t, "begin") /\ "begin" \in Body /\ "nothing" \in Body /\ "leased" \in Body
        /\ "begin" \in Searching /\ "leased" \in Searching /\ "nothing" \notin Watched
        /\ "begin" \notin InSink /\ "nothing" \notin InSink /\ "leased" \notin InSink
        /\ "begin" # "loop" /\ "begin" # "leased"
    BY DEF BeginSend, Body, InSink, Searching, Watched
  <1>2. TypeOK /\ SendInv /\ QueueInv /\ CloseInv /\ RunnerInv
    BY DEF ChannelInv
  <1>3. ~session.lease /\ ~completion_pending
    <2>1. Has(t, Searching)
      BY <1>1, TopAt DEF TopAndRest
    <2>2. QED
      BY <1>1, <1>2, <2>1 DEF SendInv
  <1>4. UNCHANGED <<flags, subscribed, retained, operation_mutex, task, sending, called, made,
                    emitted>>
    BY DEF BeginSend
  <1>5. CASE Goto(t, "nothing") /\ UNCHANGED session
    <2>1. Stacks'
      BY <1>1, <1>5, RunnerMoves
    <2>2. TypeOK'
      BY <1>2, <1>4, <1>5, <2>1 DEF TypeOK, Stacks, flags, sending
    <2>3. "nothing" \in Searching <=> "begin" \in Searching
      BY DEF Searching
    <2>4. QED
      BY <1>1, <1>4, <1>5, <2>2, RunnerGoesOn DEF flags, sending
  <1>6. CASE /\ ~session.closed /\ session.outbound > 0
             /\ session' = [session EXCEPT !.lease = TRUE]
             /\ Goto(t, "leased")
    <2>1. /\ Stacks' /\ Others(t) /\ t \notin Closers
          /\ Keeps(Body) /\ Keeps(Settling) /\ Keeps(Settled) /\ Keeps(InSink)
          /\ Keeps({"unlock"}) /\ Keeps(Past) /\ Keeps(Searching)
          /\ \A z : At(t, z)' <=> z = "leased"
      BY <1>1, <1>6, RunnerMoves
    <2>2. session'.lease = TRUE /\ session'.closed = session.closed
          /\ session'.outbound = session.outbound
          /\ session' \in [closed : BOOLEAN, outbound : 0..max_queued_batches, lease : BOOLEAN]
      BY <1>2, <1>6 DEF TypeOK
    <2>3. TypeOK'
      BY <1>2, <1>4, <2>1, <2>2 DEF TypeOK, Stacks, flags, sending
    <2>4. StackInv' /\ \A c \in Closers : stack'[c] = stack[c]
      BY <1>4, <2>1, StackFrom
    <2>5. RunnerInv'
      BY <1>2, <1>4, <2>1, RunnerKept DEF flags
    <2>6. \A u \in Threads : ~Has(u, Settling)' /\ ~Has(u, Settled)'
      <3>1. \A u \in Threads : ~Has(u, Settling)
        BY <1>2, <1>3 DEF SendInv
      <3>2. \A u \in Threads : Has(u, Settled) => Has(u, Settling)
        BY Kinds DEF Has
      <3>3. QED
        BY <2>1, <3>1, <3>2 DEF Keeps
    <2>7. \A u \in Threads : \A z \in {"settle", "begin", "busy"} : At(u, z)' => At(u, z)
      BY <2>1, OthersAt
    <2>8. \A u \in Threads : ~At(u, "begin")'
      <3>1. Has(t, Body)
        BY <1>1, TopAt DEF TopAndRest
      <3>2. QED
        BY <2>1, <3>1, LeasedIsRunner, OthersAt
    <2>9. SendInv'
      <3>1. UNCHANGED <<completion, completion_pending, closed>>
        BY <1>4 DEF flags, sending
      <3>2. \A u \in Threads : ~At(u, "busy")'
        BY <1>2, <2>7 DEF SendInv
      <3>3. completion' = "open" => completion_pending'
        BY <1>2, <3>1 DEF SendInv
      <3>4. At(t, "leased")'
        BY <2>1
      <3>5. QED
        BY <1>3, <2>2, <2>6, <2>8, <3>1, <3>2, <3>3, <3>4 DEF SendInv
    <2>10. QueueInv'
      BY <1>2, <1>3, <1>4, <1>6, <2>2 DEF QueueInv, TypeOK, flags
    <2>11. CloseInv'
      BY <1>2, <1>4, <2>1, <2>2, <2>4, CloseKept DEF TypeOK, flags
    <2>12. QED
      BY <2>3, <2>4, <2>5, <2>9, <2>10, <2>11, Together
  <1>7. QED
    BY <1>3, <1>5, <1>6 DEF BeginSend

LEMMA AbandonKeeps ==
    ASSUME ChannelInv, NEW t \in Threads, Abandon(t)
    PROVE  ChannelInv'
  <1>1. At(t, "leased") /\ "leased" \in Body /\ "mark_failed" \in Body
        /\ "leased" \in Searching /\ "mark_failed" \in Searching /\ "mark_failed" \notin Watched
        /\ "leased" \notin InSink /\ "mark_failed" \notin InSink /\ "leased" # "loop"
        /\ Goto(t, "mark_failed")
    BY DEF Abandon, Body, InSink, Searching, Watched
  <1>2. TypeOK /\ SendInv /\ QueueInv /\ CloseInv /\ RunnerInv
    BY DEF ChannelInv
  <1>3. UNCHANGED <<flags, subscribed, operation_mutex, task, sending, called, made, emitted>>
        /\ retained' = 0
    BY DEF Abandon
  <1>4. session'.closed = TRUE /\ session'.lease = FALSE /\ session'.outbound = 0
        /\ session' \in [closed : BOOLEAN, outbound : 0..max_queued_batches, lease : BOOLEAN]
    BY TriggerChannelAssumption DEF Abandon
  <1>5. /\ Stacks' /\ Others(t) /\ t \notin Closers
        /\ Keeps(Body) /\ Keeps(Settling) /\ Keeps(Settled) /\ Keeps(InSink)
        /\ Keeps({"unlock"}) /\ Keeps(Past) /\ Keeps(Searching)
        /\ \A z : At(t, z)' <=> z = "mark_failed"
    BY <1>1, RunnerMoves
  <1>6. TypeOK'
    BY <1>2, <1>3, <1>4, <1>5, TriggerChannelAssumption DEF TypeOK, Stacks, flags, sending
  <1>7. StackInv' /\ \A c \in Closers : stack'[c] = stack[c]
    BY <1>3, <1>5, StackFrom
  <1>8. RunnerInv'
    BY <1>2, <1>3, <1>5, RunnerKept DEF flags
  <1>9. \A u \in Threads : ~At(u, "busy")' /\ ~At(u, "leased")'
    <2>1. Has(t, Body)
      BY <1>1, TopAt DEF TopAndRest
    <2>2. \A u \in Threads : ~At(u, "busy")
      BY <1>2 DEF SendInv
    <2>3. QED
      BY <1>5, <2>1, <2>2, LeasedIsRunner, OthersAt
  <1>10. SendInv'
    <2>1. UNCHANGED <<completion, completion_pending, closed>>
      BY <1>3 DEF flags, sending
    <2>2. \A u \in Threads : Has(u, Settling)' => completion' = "done" /\ completion_pending'
      BY <1>2, <1>5, <2>1 DEF SendInv, Keeps
    <2>3. \A u \in Threads : Has(u, Searching)' => ~completion_pending'
      BY <1>2, <1>5, <2>1 DEF SendInv, Keeps
    <2>4. completion' = "open" => completion_pending'
      BY <1>2, <2>1 DEF SendInv
    <2>5. QED
      BY <1>4, <1>9, <2>2, <2>3, <2>4 DEF SendInv
  <1>11. QueueInv'
    <2>1. emitted <= made
      BY <1>2, TriggerChannelAssumption DEF QueueInv, TypeOK
    <2>2. QED
      BY <1>2, <1>3, <1>4, <2>1 DEF QueueInv, TypeOK
  <1>12. CloseInv'
    BY <1>2, <1>3, <1>4, <1>5, <1>7, CloseKept DEF TypeOK, flags
  <1>13. QED
    BY <1>6, <1>7, <1>8, <1>10, <1>11, <1>12, Together

LEMMA StartSinkCallKeeps ==
    ASSUME ChannelInv, NEW t \in Threads, StartSinkCall(t)
    PROVE  ChannelInv'
  <1>1. At(t, "leased") /\ "leased" \in Body /\ "emit" \in Body
        /\ "leased" \in Searching /\ "emit" \notin Searching /\ "emit" \notin Watched
        /\ "leased" \notin InSink /\ "emit" \in InSink /\ "leased" # "loop"
        /\ "emit" \in Frames /\ "leased" \notin Closing
    BY DEF StartSinkCall, Body, InSink, Searching, Watched, Frames, Closing
  <1>2. TypeOK /\ SendInv /\ QueueInv /\ CloseInv /\ RunnerInv
    BY DEF ChannelInv
  <1>3. UNCHANGED <<closed, failed, pump_requested, subscribed, owner, task, result, writing,
                    called, made>>
    BY DEF StartSinkCall
  <1>4. CASE /\ closed
             /\ pump_active' = FALSE
             /\ Return(t)
             /\ UNCHANGED <<completion_pending, sink_calls, completion, emitted>>
    <2>1. failed' \in BOOLEAN /\ pump_requested' \in BOOLEAN
      BY <1>2, <1>3 DEF TypeOK
    <2>2. UNCHANGED <<closed, completion_pending, sink_calls, subscribed, owner, task, sending,
                      called, made, emitted>>
      BY <1>3, <1>4 DEF sending
    <2>3. QED
      BY <1>1, <1>4, <2>1, <2>2, StopKeeps
  <1>5. CASE /\ ~closed
             /\ completion_pending' = TRUE
             /\ sink_calls' = sink_calls + 1
             /\ completion' = "open"
             /\ emitted' = emitted + 1
             /\ Goto(t, "emit") /\ UNCHANGED pump_active
    <2>1. Stacks /\ t \notin Closers /\ TopAndRest(t, "leased", <<>>)
      <3>1. PICK rest \in Under("leased") : TopAndRest(t, "leased", rest)
        BY <1>1, TopAt
      <3>2. rest = <<>>
        BY <1>1, <3>1, UnderFacts
      <3>3. QED
        BY <1>1, <3>1, <3>2, TopAt
    <2>2. After(t, "emit", <<>>)
      <3>1. <<>> \in Under("emit")
        BY UnderFacts
      <3>2. QED
        BY <1>1, <1>5, <2>1, <3>1, Going
    <2>3. Stacks' /\ Others(t)
      BY <2>2 DEF After
    <2>4. /\ \A K : ("leased" \in K <=> "emit" \in K) => Keeps(K)
          /\ \A z : At(t, z)' <=> z = "emit"
      BY <2>1, <2>2, GoingKeeps
    <2>5. Keeps(Body) /\ Keeps(Settling) /\ Keeps(Settled) /\ Keeps({"unlock"}) /\ Keeps(Past)
      <3>1. \A K \in {Body, Settling, Settled, {"unlock"}, Past} : "leased" \in K <=> "emit" \in K
        BY DEF Body, Settling, Settled, Past, Closing
      <3>2. QED
        BY <2>4, <3>1
    <2>6. Has(t, Body) /\ Has(t, Searching) /\ ~Has(t, InSink) /\ Has(t, InSink)'
          /\ ~Has(t, Searching)'
      BY <1>1, <2>1, <2>2, SomeOfNone DEF TopAndRest, After
    <2>7. \A u \in Threads : u # t => ~Has(u, Body) /\ ~Has(u, Searching) /\ ~Has(u, InSink)
      <3>1. \A u \in Threads : u # t => ~Has(u, Body)
        BY <1>2, <2>6 DEF RunnerInv
      <3>2. \A u \in Threads : Has(u, Searching) \/ Has(u, InSink) => Has(u, Body)
        BY Kinds DEF Has
      <3>3. QED
        BY <3>1, <3>2
    <2>8. sink_calls = 0 /\ ~completion_pending
      <3>1. \A u \in Threads : ~Has(u, InSink)
        BY <2>6, <2>7
      <3>2. QED
        BY <1>2, <2>6, <3>1 DEF RunnerInv, SendInv, TypeOK
    <2>9. \A u \in Threads : ~Has(u, Settling) /\ ~Has(u, Settled)
      <3>1. \A u \in Threads : Has(u, Settled) => Has(u, Settling)
        BY Kinds DEF Has
      <3>2. QED
        BY <1>2, <2>8, <3>1 DEF SendInv
    <2>10. session.lease
      BY <1>1, <1>2, <1>5 DEF SendInv
    <2>11. emitted + 1 <= made
      BY <1>2, <2>8, <2>10 DEF QueueInv, TypeOK
    <2>12. TypeOK'
      <3>1. emitted' \in Nat /\ sink_calls' \in 0..1
        BY <1>2, <1>5, <2>8, <2>11, TriggerChannelAssumption DEF TypeOK
      <3>2. QED
        BY <1>2, <1>3, <1>5, <2>3, <3>1 DEF TypeOK, Stacks, owner
    <2>13. StackInv' /\ \A c \in Closers : stack'[c] = stack[c]
      BY <1>3, <2>1, <2>3, StackFrom
    <2>14. RunnerInv'
      <3>1. \A v, u \in Threads : Has(v, Body)' /\ Has(u, Body)' => v = u
        BY <1>2, <2>5 DEF RunnerInv, Keeps
      <3>2. \A v, u \in Threads : Has(v, Settling)' /\ Has(u, Settling)' => v = u
        BY <1>2, <2>5 DEF RunnerInv, Keeps
      <3>3. pump_active' <=> \E u \in Threads : Has(u, Body)'
        BY <1>2, <1>5, <2>5 DEF RunnerInv, Keeps
      <3>4. sink_calls' = 1 <=> \E u \in Threads : Has(u, InSink)'
        BY <1>5, <2>6, <2>8
      <3>5. \A u \in Threads : operation_mutex' = u <=> Has(u, {"unlock"})'
        BY <1>2, <1>3, <2>5 DEF RunnerInv, Keeps, owner
      <3>6. QED
        BY <3>1, <3>2, <3>3, <3>4, <3>5 DEF RunnerInv
    <2>15. SendInv'
      <3>1. \A u \in Threads : ~Has(u, Settling)' /\ ~Has(u, Settled)'
        BY <2>5, <2>9 DEF Keeps
      <3>2. \A u \in Threads : ~Has(u, Searching)'
        BY <2>3, <2>6, <2>7, OthersKeep
      <3>3. \A u \in Threads : ~At(u, "leased")' /\ ~At(u, "begin")' /\ ~At(u, "busy")'
        <4>1. \A u \in Threads : ~At(u, "busy")
          BY <1>2 DEF SendInv
        <4>2. QED
          BY <2>3, <2>4, <2>6, <4>1, LeasedIsRunner, OthersAt
      <3>4. session' = session
        BY <1>3 DEF owner
      <3>5. QED
        BY <1>5, <2>10, <3>1, <3>2, <3>3, <3>4 DEF SendInv
    <2>16. QueueInv'
      BY <1>2, <1>3, <1>5, <2>8, <2>10 DEF QueueInv, TypeOK, owner
    <2>17. CloseInv'
      BY <1>2, <1>3, <1>5, <2>5, <2>13, CloseKept DEF TypeOK, owner
    <2>18. QED
      BY <2>12, <2>13, <2>14, <2>15, <2>16, <2>17, Together
  <1>6. QED
    BY <1>4, <1>5 DEF StartSinkCall

LEMMA CallingKeeps ==
    ASSUME Stacks, NEW t \in Threads, NEW x, NEW rest, TopAndRest(t, x, rest),
           NEW y, NEW z, NEW below, After(t, y, below),
           \A S : Has(t, S)' <=> y \in S \/ z \in S \/ Some(rest, S),
           SameKinds(x, z), y \notin Body \cup Settling \cup Past, x # "leased"
    PROVE  AllKeep /\ AtKeep /\ Stacks' /\ Others(t)
  <1>1. Stacks' /\ Others(t)
    BY DEF After
  <1>2. y \notin Settled /\ y \notin InSink /\ y \notin Searching /\ y \notin {"unlock"}
    BY Kinds
  <1>3. \A K : (x \in K <=> z \in K) /\ y \notin K => Keeps(K)
    <2> SUFFICES ASSUME NEW K, x \in K <=> z \in K, y \notin K PROVE Keeps(K)
      OBVIOUS
    <2>1. Has(t, K)' <=> Has(t, K)
      BY DEF TopAndRest
    <2>2. QED
      BY <1>1, <2>1, OthersKeep DEF Keeps
  <1>4. AllKeep
    <2>1. y \notin Body /\ y \notin Settling /\ y \notin Past
      OBVIOUS
    <2>2. QED
      BY <1>2, <1>3, <2>1 DEF AllKeep, SameKinds
  <1>5. y \notin Watched
    BY Kinds DEF Watched, Settling, Searching
  <1>6. \A w \in Watched : ~At(t, w)'
    BY <1>5 DEF After, At
  <1>7. ~At(t, "leased")
    BY DEF TopAndRest, At
  <1>8. QED
    BY <1>1, <1>4, <1>6, <1>7, OthersAt DEF AtKeep, Watched

LEMMA EmitKeeps ==
    ASSUME ChannelInv, NEW t \in Threads, Emit(t)
    PROVE  ChannelInv'
  <1>1. At(t, "emit") /\ "emit" \in Body /\ "emit" \in Frames /\ "emit" \notin Closing
        /\ "emit" # "loop" /\ "emit" # "leased" /\ "emit" \in InSink
    BY DEF Emit, Body, Frames, Closing, InSink
  <1>2. UNCHANGED <<flags, subscribed, owner, task, completion, result, called, made, emitted>>
        /\ (writing' = TRUE \/ UNCHANGED writing)
    BY DEF Emit
  <1>w. writing' \in BOOLEAN
    BY <1>2 DEF ChannelInv, TypeOK
  <1>3. Stacks /\ t \notin Closers /\ TopAndRest(t, "emit", <<>>)
    <2>1. PICK rest \in Under("emit") : TopAndRest(t, "emit", rest)
      BY <1>1, TopAt
    <2>2. rest = <<>>
      BY <1>1, <2>1, UnderFacts
    <2>3. QED
      BY <1>1, <2>1, <2>2, TopAt
  <1>4. ASSUME NEW y \in {"accepted", "refused"}, Goto(t, y)
        PROVE  ChannelInv'
    <2>1. y \in Body /\ y \in InSink /\ y \notin Watched /\ y \notin Searching
      BY DEF Body, InSink, Watched, Searching
    <2>2. Stacks'
      BY <1>1, <1>4, <2>1, RunnerMoves
    <2>3. TypeOK'
      BY <1>2, <1>w, <2>2 DEF ChannelInv, TypeOK, Stacks, flags, owner
    <2>4. QED
      BY <1>1, <1>2, <1>4, <2>1, <2>3, RunnerGoesOn DEF flags, owner
  <1>5. ASSUME NEW y \in {"complete_written", "complete_failed", "shutdown"},
               NEW z \in {"accepted", "refused", "emit"}, Call(t, y, z),
               y \in Completions => z \in Interrupted, y = "shutdown" => z = "emit"
        PROVE  ChannelInv'
    <2>1. y \in Frames /\ z \in Frames /\ z \in Body /\ y \notin Body \cup Settling \cup Past
          /\ SameKinds("emit", z)
      BY DEF Frames, Body, Settling, Past, Closing, SameKinds, InSink, Searching, Settled
    <2>2. <<z>> \in Under(y)
      BY <1>5 DEF Under, Completions, Closing
    <2>3. <<z>> \o <<>> = <<z>> /\ <<>> \in Under("emit") /\ <<>> \in Under(z)
      BY PutOnNone, UnderFacts
    <2>4. After(t, y, <<z>> \o <<>>) /\ \A S : Has(t, S)' <=> y \in S \/ z \in S \/ Some(<<>>, S)
      BY <1>3, <1>5, <2>1, <2>2, <2>3, Calling
    <2>5. AllKeep /\ AtKeep /\ Stacks' /\ Others(t)
      BY <1>1, <1>3, <2>1, <2>4, CallingKeeps
    <2>6. StackInv' /\ \A c \in Closers : stack'[c] = stack[c]
      BY <1>2, <1>3, <2>5, StackFrom
    <2>7. TypeOK'
      BY <1>2, <1>w, <2>5 DEF ChannelInv, TypeOK, Stacks, flags, owner
    <2>8. QED
      BY <1>2, <2>5, <2>6, <2>7, QuietMove DEF flags, owner
  <1>6. \/ \E y \in {"accepted", "refused"} : Goto(t, y)
        \/ Call(t, "complete_written", "accepted")
        \/ Call(t, "complete_failed", "refused")
        \/ Call(t, "shutdown", "emit")
    BY DEF Emit
  <1>7. "accepted" \in Interrupted /\ "refused" \in Interrupted /\ "shutdown" \notin Completions
    BY DEF Interrupted, Completions
  <1>8. QED
    BY <1>4, <1>5, <1>6, <1>7

LEMMA SinkReturnsKeeps ==
    ASSUME ChannelInv, NEW t \in Threads, SinkReturns(t)
    PROVE  ChannelInv'
  <1>1. PICK x \in {"accepted", "refused"} : At(t, x)
    BY DEF SinkReturns
  <1>2. x \in Body /\ x \in Frames /\ x \notin Closing /\ x # "loop" /\ x # "leased"
        /\ x \in InSink
    BY DEF Body, Frames, Closing, InSink
  <1>3. UNCHANGED <<closed, failed, pump_active, pump_requested, completion_pending, subscribed,
                    owner, task, sending, called, made, emitted>>
        /\ sink_calls' = sink_calls - 1
    BY DEF SinkReturns
  <1>4. Stacks /\ t \notin Closers /\ TopAndRest(t, x, <<>>)
    <2>1. PICK rest \in Under(x) : TopAndRest(t, x, rest)
      BY <1>1, TopAt
    <2>2. rest = <<>>
      BY <1>2, <2>1, UnderFacts
    <2>3. QED
      BY <1>1, <1>2, <2>1, <2>2, TopAt
  <1>5. /\ Stacks' /\ Others(t)
        /\ \A w \in Watched : ~At(t, w)'
        /\ \/ \A S : Has(t, S)' <=> "again" \in S
           \/ \A S : Has(t, S)' <=> "complete_failed" \in S \/ "again" \in S
    <2>1. CASE Goto(t, "again")
      <3>1. "again" \in Frames /\ <<>> \in Under("again") /\ "again" \notin Watched
        BY UnderFacts DEF Frames, Watched
      <3>2. After(t, "again", <<>>)
        BY <1>4, <2>1, <3>1, Going
      <3>3. \A w \in Watched : ~At(t, w)'
        BY <3>1, <3>2 DEF After, At
      <3>4. QED
        BY <3>2, <3>3, SomeOfNone DEF After
    <2>2. CASE Call(t, "complete_failed", "again")
      <3>1. "again" \in Frames /\ "complete_failed" \in Frames /\ "complete_failed" \notin Watched
            /\ <<"again">> \in Under("complete_failed") /\ <<>> \in Under("again")
            /\ <<>> \in Under(x)
        BY UnderFacts DEF Frames, Watched, Under, Completions, Interrupted
      <3>2. <<"again">> \o <<>> = <<"again">>
            /\ <<"again">> \o <<>> \in Under("complete_failed")
        BY <3>1, PutOnNone
      <3>3. /\ After(t, "complete_failed", <<"again">> \o <<>>)
            /\ \A S : Has(t, S)' <=> "complete_failed" \in S \/ "again" \in S \/ Some(<<>>, S)
        <4> DEFINE none == <<>>
        <4>1. none \in Under(x) /\ none = <<>>
          BY <3>1
        <4> HIDE DEF none
        <4>2. TopAndRest(t, x, none) /\ none \in Under("again")
              /\ <<"again">> \o none \in Under("complete_failed")
          BY <1>4, <3>1, <3>2, <4>1
        <4>3. /\ After(t, "complete_failed", <<"again">> \o none)
              /\ \A S : Has(t, S)' <=> "complete_failed" \in S \/ "again" \in S
                                         \/ Some(none, S)
          BY <1>4, <2>2, <3>1, <4>1, <4>2, Calling
        <4>4. QED
          BY <4>1, <4>3
      <3>4. \A w \in Watched : ~At(t, w)'
        BY <3>1, <3>3 DEF After, At
      <3>5. \A S : Has(t, S)' <=> "complete_failed" \in S \/ "again" \in S
        BY <3>3, SomeOfNone
      <3>6. QED
        BY <3>3, <3>4, <3>5 DEF After
    <2>3. QED
      BY <2>1, <2>2 DEF SinkReturns
  <1>6. \A S : Has(t, S) <=> x \in S
    BY <1>4, SomeOfNone DEF TopAndRest
  <1>7. \A K : ((x \in K <=> "again" \in K) /\ "complete_failed" \notin K) => Keeps(K)
    <2> SUFFICES ASSUME NEW K, x \in K <=> "again" \in K, "complete_failed" \notin K
                 PROVE  Keeps(K)
      OBVIOUS
    <2>1. Has(t, K)' <=> Has(t, K)
      BY <1>5, <1>6
    <2>2. QED
      BY <1>5, <2>1, OthersKeep DEF Keeps
  <1>8. Keeps(Body) /\ Keeps(Settling) /\ Keeps(Settled) /\ Keeps({"unlock"}) /\ Keeps(Past)
        /\ Keeps(Searching)
    <2>1. \A K \in {Body, Settling, Settled, {"unlock"}, Past, Searching} :
             (x \in K <=> "again" \in K) /\ "complete_failed" \notin K
      BY DEF Body, Settling, Settled, Past, Closing, Searching
    <2>2. QED
      BY <1>7, <2>1
  <1>9. Has(t, Body) /\ Has(t, InSink) /\ ~Has(t, InSink)'
    <2>1. "again" \notin InSink /\ "complete_failed" \notin InSink
      BY DEF InSink
    <2>2. QED
      BY <1>2, <1>5, <1>6, <2>1
  <1>10. RunnerInv /\ TypeOK
    BY DEF ChannelInv
  <1>11. \A u \in Threads : ~Has(u, InSink)'
    <2>1. \A u \in Threads : u # t => ~Has(u, Body)
      BY <1>9, <1>10 DEF RunnerInv
    <2>2. \A u \in Threads : u # t => ~Has(u, InSink)
      BY <2>1, Kinds DEF Has
    <2>3. QED
      BY <1>5, <1>9, <2>2, OthersKeep
  <1>12. sink_calls = 1 /\ sink_calls' = 0
    BY <1>3, <1>9, <1>10 DEF RunnerInv
  <1>13. AtKeep
    <2>1. ~At(t, "leased")
      BY <1>1, <1>2 DEF At
    <2>2. QED
      BY <1>5, <2>1, OthersAt DEF AtKeep, Watched
  <1>14. TypeOK'
    BY <1>3, <1>5, <1>10, <1>12 DEF TypeOK, Stacks, owner, sending
  <1>15. StackInv' /\ \A c \in Closers : stack'[c] = stack[c]
    BY <1>3, <1>4, <1>5, StackFrom
  <1>16. RunnerInv'
    <2>1. \A v, u \in Threads : Has(v, Body)' /\ Has(u, Body)' => v = u
      BY <1>8, <1>10 DEF RunnerInv, Keeps
    <2>2. \A v, u \in Threads : Has(v, Settling)' /\ Has(u, Settling)' => v = u
      BY <1>8, <1>10 DEF RunnerInv, Keeps
    <2>3. pump_active' <=> \E u \in Threads : Has(u, Body)'
      BY <1>3, <1>8, <1>10 DEF RunnerInv, Keeps
    <2>4. \A u \in Threads : operation_mutex' = u <=> Has(u, {"unlock"})'
      BY <1>3, <1>8, <1>10 DEF RunnerInv, Keeps, owner
    <2>5. QED
      BY <1>11, <1>12, <2>1, <2>2, <2>3, <2>4 DEF RunnerInv
  <1>17. SendInv'
    BY <1>3, <1>8, <1>13, SendKept DEF ChannelInv, AtKeep, owner, sending
  <1>18. QueueInv'
    BY <1>3, QueueKept DEF ChannelInv, owner
  <1>19. CloseInv'
    BY <1>3, <1>8, <1>10, <1>12, <1>15, CloseKept DEF ChannelInv, TypeOK, owner
  <1>20. QED
    BY <1>14, <1>15, <1>16, <1>17, <1>18, <1>19, Together

-----------------------------------------------------------------------------
(* A send is completed and settled *)

LEMMA WriterCompletesKeeps ==
    ASSUME ChannelInv, WriterCompletes
    PROVE  ChannelInv'
  <1>1. PICK r \in Completions : Enter(Writer, r)
    BY DEF WriterCompletes, Completions
  <1>2. Stacks /\ Writer \in Threads /\ Writer \notin Closers /\ Idle(Writer)
    BY StacksOf, Kinds DEF WriterCompletes
  <1>3. r \in Frames /\ r \notin Body \cup Settling \cup Past
    BY DEF Completions, Frames, Body, Settling, Past, Closing
  <1>4. After(Writer, r, <<>>) /\ AllKeep /\ AtKeep
    BY <1>1, <1>2, <1>3, EnteringKeeps
  <1>5. Stacks' /\ Others(Writer)
    BY <1>4 DEF After
  <1>6. StackInv' /\ \A c \in Closers : stack'[c] = stack[c]
    BY <1>2, <1>5, StackFrom DEF WriterCompletes
  <1>7. TypeOK'
    BY <1>5 DEF ChannelInv, TypeOK, WriterCompletes, Stacks, flags, owner
  <1>8. QED
    BY <1>4, <1>6, <1>7, QuietMove DEF WriterCompletes, flags, owner

LEMMA CompleteKeeps ==
    ASSUME ChannelInv, NEW t \in Threads, Complete(t)
    PROVE  ChannelInv'
  <1>1. PICK x \in Completions : At(t, x)
    BY DEF Complete, Completions
  <1>2. x \in Frames /\ x \notin Body \cup Settling \cup Past /\ x \notin Closing
    BY DEF Completions, Frames, Body, Settling, Past, Closing
  <1>3. UNCHANGED <<flags, subscribed, owner, task, writing, called, made, emitted>>
    BY DEF Complete
  <1>4. Stacks /\ t \notin Closers
    BY <1>1, <1>2, TopAt
  <1>5. PICK rest \in Under(x) : TopAndRest(t, x, rest)
    BY <1>1, TopAt
  <1>6. TypeOK /\ SendInv /\ RunnerInv
    BY DEF ChannelInv
  <1>7. Return(t) => AfterReturn(t, rest) /\ AllKeep /\ AtKeep /\ Stacks' /\ Others(t)
    <2>1. Return(t) => AfterReturn(t, rest)
      BY <1>4, <1>5, Returning
    <2>2. QED
      BY <1>2, <1>5, <2>1, ReturningFrom DEF AfterReturn
  <1>8. CASE completion # "open"
    <2>1. Return(t) /\ UNCHANGED <<completion, result>>
      BY <1>8 DEF Complete
    <2>2. StackInv' /\ \A c \in Closers : stack'[c] = stack[c]
      BY <1>3, <1>4, <1>7, <2>1, StackFrom
    <2>3. TypeOK'
      BY <1>3, <1>6, <1>7, <2>1 DEF TypeOK, Stacks, flags, owner
    <2>4. QED
      BY <1>3, <1>7, <2>1, <2>2, <2>3, QuietMove DEF flags, owner
  <1>9. CASE completion = "open"
    <2>1. completion' = "done" /\ result' \in {"written", "failed"}
      BY <1>9 DEF Complete
    <2>2. completion_pending /\ (session.closed \/ session.lease)
          /\ \A u \in Threads : ~Has(u, Settling) /\ ~Has(u, Settled)
      <3>1. \A u \in Threads : Has(u, Settled) => Has(u, Settling)
        BY Kinds DEF Has
      <3>2. QED
        BY <1>6, <1>9, <3>1 DEF SendInv
    <2>3. /\ Stacks' /\ Others(t)
          /\ Keeps(Body) /\ Keeps(Settled) /\ Keeps(InSink) /\ Keeps(Searching)
          /\ Keeps({"unlock"}) /\ Keeps(Past)
          /\ \A z \in Watched \ {"settle"} : ~At(t, z)'
      <3>1. CASE Return(t)
        <4>1. AfterReturn(t, rest)
          BY <1>7, <3>1
        <4>2. \A z \in Watched : ~At(t, z)'
          BY <1>5, <4>1, ReturningKeeps DEF Interrupted, Watched
        <4>3. QED
          BY <1>7, <3>1, <4>2 DEF AllKeep
      <3>2. CASE Goto(t, "settle")
        <4>1. rest \in Under("settle") /\ "settle" \in Frames
          <5>1. "settle" \in Settling /\ x \in Settling \cup Completions
            BY DEF Settling
          <5>2. QED
            BY <1>5, <5>1, UnderFacts, Kinds
        <4>2. After(t, "settle", rest)
          BY <1>4, <1>5, <3>2, <4>1, Going
        <4>3. /\ \A K : (x \in K <=> "settle" \in K) => Keeps(K)
              /\ \A z : At(t, z)' <=> z = "settle"
          BY <1>5, <4>2, GoingKeeps
        <4>4. \A K \in {Body, Settled, InSink, Searching, {"unlock"}, Past} :
                 x \notin K /\ "settle" \notin K
          BY <1>2 DEF Body, Settled, Settling, InSink, Searching, Past, Closing, Completions
        <4>5. QED
          BY <4>2, <4>3, <4>4 DEF After
      <3>3. QED
        BY <1>9, <3>1, <3>2 DEF Complete
    <2>4. StackInv' /\ \A c \in Closers : stack'[c] = stack[c]
      BY <1>3, <1>4, <2>3, StackFrom
    <2>5. TypeOK'
      BY <1>3, <1>6, <2>1, <2>3 DEF TypeOK, Stacks, flags, owner
    <2>6. RunnerInv'
      <3>1. \A v, u \in Threads : Has(v, Body)' /\ Has(u, Body)' => v = u
        BY <1>6, <2>3 DEF RunnerInv, Keeps
      <3>2. \A v, u \in Threads : Has(v, Settling)' /\ Has(u, Settling)' => v = u
        BY <2>2, <2>3, OthersKeep
      <3>3. pump_active' <=> \E u \in Threads : Has(u, Body)'
        BY <1>3, <1>6, <2>3 DEF RunnerInv, Keeps, flags
      <3>4. sink_calls' = 1 <=> \E u \in Threads : Has(u, InSink)'
        BY <1>3, <1>6, <2>3 DEF RunnerInv, Keeps, flags
      <3>5. \A u \in Threads : operation_mutex' = u <=> Has(u, {"unlock"})'
        BY <1>3, <1>6, <2>3 DEF RunnerInv, Keeps, owner
      <3>6. QED
        BY <3>1, <3>2, <3>3, <3>4, <3>5 DEF RunnerInv
    <2>7. SendInv'
      <3>1. UNCHANGED <<closed, completion_pending, session>>
        BY <1>3 DEF flags, owner
      <3>2. \A u \in Threads : ~Has(u, Settled)'
        BY <2>2, <2>3 DEF Keeps
      <3>3. \A u \in Threads : ~Has(u, Searching)'
        BY <1>6, <2>2, <2>3 DEF SendInv, Keeps
      <3>4. \A u \in Threads : ~At(u, "begin")' /\ ~At(u, "busy")' /\ ~At(u, "leased")'
        <4>1. \A u \in Threads : \A z \in Searching : ~At(u, z)
          <5>1. \A u \in Threads : ~Has(u, Searching)
            BY <1>6, <2>2 DEF SendInv
          <5>2. QED
            BY <5>1, TopAt DEF TopAndRest
        <4>2. \A u \in Threads : u # t => ~At(u, "begin")' /\ ~At(u, "busy")' /\ ~At(u, "leased")'
          BY <2>3, <4>1, OthersAt DEF Searching
        <4>3. QED
          BY <2>3, <4>2 DEF Watched
      <3>5. QED
        BY <2>1, <2>2, <3>1, <3>2, <3>3, <3>4 DEF SendInv
    <2>8. QueueInv'
      BY <1>3, QueueKept DEF ChannelInv, flags, owner
    <2>9. CloseInv'
      BY <1>3, <1>6, <2>3, <2>4, CloseKept DEF ChannelInv, TypeOK, flags, owner
    <2>10. QED
      BY <2>4, <2>5, <2>6, <2>7, <2>8, <2>9, Together
  <1>10. QED
    BY <1>8, <1>9

\* While a thread settles a send, no other does and nobody looks for the next one.
LEMMA WhileSettling ==
    ASSUME ChannelInv, NEW t \in Threads, NEW x \in Settling, At(t, x)
    PROVE  /\ Stacks /\ t \notin Closers
           /\ completion = "done" /\ completion_pending
           /\ \A u \in Threads : ~Has(u, Searching)
           /\ \A u \in Threads : \A z \in Searching : ~At(u, z)
           /\ \A u \in Threads : u # t => ~Has(u, Settling) /\ ~At(u, "settle")
           /\ \E rest \in Under(x) : /\ TopAndRest(t, x, rest)
                                     /\ rest = <<>> \/ \E b \in Interrupted : rest = <<b>>
                                     /\ \A K \in {Settling, Settled, {"unlock"}} : ~Some(rest, K)
  <1>1. x \notin Closing /\ RunnerInv /\ SendInv
    BY Kinds DEF ChannelInv
  <1>2. PICK rest \in Under(x) : TopAndRest(t, x, rest)
    BY TopAt
  <1>3. Has(t, Settling)
    BY <1>2 DEF TopAndRest
  <1>4. completion = "done" /\ completion_pending
    BY <1>1, <1>3 DEF SendInv
  <1>5. \A u \in Threads : ~Has(u, Searching)
    BY <1>1, <1>4 DEF SendInv
  <1>6. \A u \in Threads : \A z \in Searching : ~At(u, z)
    BY <1>5, TopAt DEF TopAndRest
  <1>7. \A u \in Threads : u # t => ~Has(u, Settling)
    BY <1>1, <1>3 DEF RunnerInv
  <1>8. \A u \in Threads : At(u, "settle") => Has(u, Settling)
    BY TopAt, Kinds DEF TopAndRest
  <1>9. rest = <<>> \/ \E b \in Interrupted : rest = <<b>>
    BY <1>2, UnderFacts
  <1>10. \A K \in {Settling, Settled, {"unlock"}} : ~Some(rest, K)
    <2>1. \A b \in Interrupted : \A K \in {Settling, Settled, {"unlock"}} : b \notin K
      BY DEF Interrupted, Settling, Settled
    <2>2. QED
      BY <1>9, <2>1, SomeOfNone, SomeOfOne
  <1>11. QED
    BY <1>1, <1>2, <1>4, <1>5, <1>6, <1>7, <1>8, <1>9, <1>10, TopAt

LEMMA SettleKeeps ==
    ASSUME ChannelInv, NEW t \in Threads, Settle(t)
    PROVE  ChannelInv'
  <1>1. At(t, "settle") /\ "settle" \in Settling /\ "settle" \in Frames /\ Unheld
    BY DEF Settle, Settling, Frames
  <1>2. UNCHANGED <<flags, subscribed, task, sending, called, made, emitted>>
    BY DEF Settle
  <1>3. /\ Stacks /\ t \notin Closers
        /\ completion = "done" /\ completion_pending
        /\ \A u \in Threads : ~Has(u, Searching)
        /\ \A u \in Threads : \A z \in Searching : ~At(u, z)
        /\ \A u \in Threads : u # t => ~Has(u, Settling) /\ ~At(u, "settle")
    BY <1>1, WhileSettling
  <1>4. PICK rest \in Under("settle") :
            /\ TopAndRest(t, "settle", rest)
            /\ rest = <<>> \/ \E b \in Interrupted : rest = <<b>>
            /\ \A K \in {Settling, Settled, {"unlock"}} : ~Some(rest, K)
    BY <1>1, WhileSettling
  <1>5. TypeOK /\ SendInv /\ RunnerInv /\ QueueInv /\ CloseInv
    BY DEF ChannelInv
  <1>6. operation_mutex = Nobody /\ \A u \in Threads : ~Has(u, {"unlock"})
    <2>1. operation_mutex = Nobody /\ Nobody \notin Threads
      BY <1>1, TriggerChannelAssumption DEF Unheld
    <2>2. QED
      BY <1>5, <2>1 DEF RunnerInv
  <1> DEFINE Moved(held) ==
        /\ Stacks' /\ Others(t)
        /\ Keeps(Body) /\ Keeps(Settling) /\ Keeps(InSink) /\ Keeps(Searching) /\ Keeps(Past)
        /\ \A z \in Watched : ~At(t, z)'
        /\ Has(t, {"unlock"})' <=> held
  <1>7. ASSUME NEW y \in {"record", "record_failure"}, Goto(t, y)
        PROVE  Moved(FALSE)
    <2>1. y \in Frames /\ y \in Settling /\ y \notin Watched /\ y \notin {"unlock"}
      BY DEF Frames, Settling, Watched
    <2>2. rest \in Under(y)
      BY <1>1, <1>4, <2>1, UnderFacts
    <2>3. After(t, y, rest)
      BY <1>3, <1>4, <1>7, <2>1, <2>2, Going
    <2>4. /\ \A K : ("settle" \in K <=> y \in K) => Keeps(K)
          /\ \A z : At(t, z)' <=> z = y
      BY <1>4, <2>3, GoingKeeps
    <2>5. \A K \in {Body, Settling, InSink, Searching, Past} : "settle" \in K <=> y \in K
      BY DEF Body, Settling, InSink, Searching, Past, Closing
    <2>6. ~Has(t, {"unlock"})'
      BY <1>4, <2>1, <2>3 DEF After
    <2>7. QED
      BY <2>1, <2>3, <2>4, <2>5, <2>6 DEF After
  <1>8. ASSUME Call(t, "notify", "unlock")
        PROVE  Moved(TRUE)
    <2>1. "notify" \in Frames /\ "unlock" \in Frames /\ "notify" \notin Watched
          /\ "unlock" \in Settling
      BY DEF Frames, Watched, Settling
    <2>2. rest \in Under("unlock")
      BY <1>1, <1>4, <2>1, UnderFacts
    <2>3. <<"unlock">> \o rest \in Under("notify")
      <3>1. CASE rest = <<>>
        BY <3>1, PutOnNone DEF Under
      <3>2. CASE \E b \in Interrupted : rest = <<b>>
        <4>1. PICK b \in Interrupted : rest = <<b>>
          BY <3>2
        <4>2. <<"unlock">> \o rest = <<"unlock", b>>
          BY <4>1, PutOnOne
        <4>3. QED
          BY <4>2 DEF Under
      <3>3. QED
        BY <1>4, <3>1, <3>2
    <2>4. /\ After(t, "notify", <<"unlock">> \o rest)
          /\ \A S : Has(t, S)' <=> "notify" \in S \/ "unlock" \in S \/ Some(rest, S)
      BY <1>3, <1>4, <1>8, <2>1, <2>2, <2>3, Calling
    <2>5. Stacks' /\ Others(t)
      BY <2>4 DEF After
    <2>6. \A K : ("settle" \in K <=> "unlock" \in K) /\ "notify" \notin K => Keeps(K)
      <3> SUFFICES ASSUME NEW K, "settle" \in K <=> "unlock" \in K, "notify" \notin K
                   PROVE  Keeps(K)
        OBVIOUS
      <3>1. Has(t, K)' <=> Has(t, K)
        BY <1>4, <2>4 DEF TopAndRest
      <3>2. QED
        BY <2>5, <3>1, OthersKeep DEF Keeps
    <2>7. \A K \in {Body, Settling, InSink, Searching, Past} :
             ("settle" \in K <=> "unlock" \in K) /\ "notify" \notin K
      BY DEF Body, Settling, InSink, Searching, Past, Closing
    <2>8. \A z \in Watched : ~At(t, z)'
      BY <2>1, <2>4 DEF After, At
    <2>9. Has(t, {"unlock"})'
      BY <2>4
    <2>10. QED
      BY <2>5, <2>6, <2>7, <2>8, <2>9
  \* What the step does to the queue and to the mutex, whichever way it goes.
  <1>9. \E held \in BOOLEAN :
            /\ Moved(held)
            /\ operation_mutex' = IF held THEN t ELSE Nobody
            /\ ~session'.lease
            /\ session.closed => session'.closed
            /\ session' \in [closed : BOOLEAN, outbound : 0..max_queued_batches, lease : BOOLEAN]
            /\ session'.closed => session'.outbound = 0
            /\ retained' \in 0..retained
            /\ emitted + session'.outbound + retained' <= made
    <2>1. emitted <= made
      BY <1>5, TriggerChannelAssumption DEF TypeOK, QueueInv
    <2>2. CASE session.closed /\ Goto(t, "record_failure") /\ UNCHANGED owner
      <3>1. Moved(FALSE)
        BY <1>7, <2>2
      <3>2. session' = session /\ retained' = retained /\ operation_mutex' = Nobody
        BY <1>6, <2>2 DEF owner
      <3>3. ~session.lease /\ session.outbound = 0
        BY <1>5, <2>2 DEF QueueInv
      <3>4. retained' \in 0..retained /\ emitted + session'.outbound + retained' <= made
        BY <1>5, <3>2, <3>3 DEF TypeOK, QueueInv
      <3> HIDE DEF Moved
      <3>5. QED
        BY <1>5, <3>1, <3>2, <3>3, <3>4 DEF TypeOK
    <2>3. CASE /\ session' = [closed |-> TRUE, outbound |-> 0, lease |-> FALSE]
               /\ retained' = 0
               /\ Goto(t, "record")
               /\ UNCHANGED operation_mutex
      <3>1. Moved(FALSE)
        BY <1>7, <2>3
      <3>2. /\ session' \in [closed : BOOLEAN, outbound : 0..max_queued_batches, lease : BOOLEAN]
            /\ session'.closed = TRUE /\ session'.outbound = 0 /\ session'.lease = FALSE
        BY <2>3, TriggerChannelAssumption
      <3>3. retained' \in 0..retained /\ emitted + session'.outbound + retained' <= made
        BY <1>5, <2>1, <2>3, <3>2 DEF TypeOK
      <3> HIDE DEF Moved
      <3>4. QED
        BY <1>6, <2>3, <3>1, <3>2, <3>3
    <2>4. CASE ~session.closed /\ result = "written"
      <3> DEFINE left == session.outbound - 1
                 room == max_queued_batches - left
                 retried == IF retained < room THEN retained ELSE room
      <3>1. session.lease /\ session.outbound > 0
        BY <1>1, <1>5, <2>4 DEF SendInv, QueueInv
      <3>2. left \in Nat /\ retried \in 0..retained /\ left + retried \in 0..max_queued_batches
        BY <1>5, <3>1, TriggerChannelAssumption DEF TypeOK
      <3>3. /\ session' = [session EXCEPT !.outbound = left + retried, !.lease = FALSE]
            /\ retained' = retained - retried
            /\ \/ operation_mutex' = t /\ Call(t, "notify", "unlock")
               \/ UNCHANGED operation_mutex /\ Goto(t, "record")
        BY <1>5, <2>4 DEF Settle, TypeOK
      <3>4. emitted + session.outbound + retained <= made + 1
        BY <1>3, <1>5, <3>1 DEF QueueInv
      <3> HIDE DEF retried
      <3>5. /\ session' \in [closed : BOOLEAN, outbound : 0..max_queued_batches, lease : BOOLEAN]
            /\ session'.closed = FALSE /\ session'.outbound = left + retried
            /\ session'.lease = FALSE
        BY <1>5, <2>4, <3>2, <3>3 DEF TypeOK
      <3>6. retained' \in 0..retained /\ emitted + session'.outbound + retained' <= made
        <4>1. emitted \in Nat /\ session.outbound \in Nat /\ retained \in Nat /\ made \in Nat
          BY <1>5, TriggerChannelAssumption DEF TypeOK
        <4>2. session'.outbound = session.outbound - 1 + retried
              /\ retained' = retained - retried /\ retried \in 0..retained
          BY <3>2, <3>3, <3>5
        <4>3. QED
          BY <3>4, <4>1, <4>2
      <3>7. \E held \in BOOLEAN : Moved(held) /\ operation_mutex' = IF held THEN t ELSE Nobody
        <4>1. CASE operation_mutex' = t /\ Call(t, "notify", "unlock")
          <5>1. Moved(TRUE)
            BY <1>8, <4>1
          <5> HIDE DEF Moved
          <5>2. QED
            BY <4>1, <5>1
        <4>2. CASE UNCHANGED operation_mutex /\ Goto(t, "record")
          <5>1. Moved(FALSE)
            BY <1>7, <4>2
          <5> HIDE DEF Moved
          <5>2. QED
            BY <1>6, <4>2, <5>1
        <4>3. QED
          BY <3>3, <4>1, <4>2
      <3> HIDE DEF Moved
      <3>8. QED
        BY <2>4, <3>5, <3>6, <3>7
    <2> HIDE DEF Moved
    <2>5. QED
      BY <2>2, <2>3, <2>4 DEF Settle
  <1>10. PICK held \in BOOLEAN :
            /\ Moved(held)
            /\ operation_mutex' = IF held THEN t ELSE Nobody
            /\ ~session'.lease
            /\ session.closed => session'.closed
            /\ session' \in [closed : BOOLEAN, outbound : 0..max_queued_batches, lease : BOOLEAN]
            /\ session'.closed => session'.outbound = 0
            /\ retained' \in 0..retained
            /\ emitted + session'.outbound + retained' <= made
    BY <1>9
  <1>11. Moved(held)
    BY <1>10
  <1>12. StackInv' /\ \A c \in Closers : stack'[c] = stack[c]
    BY <1>2, <1>3, <1>11, StackFrom
  <1>13. TypeOK'
    <2>1. retained' \in Nat /\ operation_mutex' \in Threads \cup {Nobody}
      BY <1>5, <1>10, TriggerChannelAssumption DEF TypeOK
    <2>2. QED
      BY <1>2, <1>5, <1>10, <1>11, <2>1 DEF TypeOK, Stacks, flags, sending
  <1>14. RunnerInv'
    <2>1. \A v, u \in Threads : Has(v, Body)' /\ Has(u, Body)' => v = u
      BY <1>5, <1>11 DEF RunnerInv, Keeps
    <2>2. \A v, u \in Threads : Has(v, Settling)' /\ Has(u, Settling)' => v = u
      BY <1>5, <1>11 DEF RunnerInv, Keeps
    <2>3. pump_active' <=> \E u \in Threads : Has(u, Body)'
      BY <1>2, <1>5, <1>11 DEF RunnerInv, Keeps, flags
    <2>4. sink_calls' = 1 <=> \E u \in Threads : Has(u, InSink)'
      BY <1>2, <1>5, <1>11 DEF RunnerInv, Keeps, flags
    <2>5. \A u \in Threads : operation_mutex' = u <=> Has(u, {"unlock"})'
      <3>1. \A u \in Threads : u # t => ~Has(u, {"unlock"})'
        BY <1>6, <1>11, OthersKeep
      <3>2. operation_mutex' = (IF held THEN t ELSE Nobody) /\ Nobody \notin Threads
        BY <1>10, TriggerChannelAssumption
      <3>3. QED
        BY <1>11, <3>1, <3>2
    <2>6. QED
      BY <2>1, <2>2, <2>3, <2>4, <2>5 DEF RunnerInv
  <1>15. SendInv'
    <2>1. completion' = "done" /\ completion_pending' /\ ~session'.lease
      BY <1>2, <1>3, <1>10 DEF flags, sending
    <2>2. \A u \in Threads : ~Has(u, Searching)'
      BY <1>3, <1>11 DEF Keeps
    <2>3. \A u \in Threads : \A z \in Watched : ~At(u, z)'
      <3>1. \A u \in Threads : u # t => \A z \in Watched : ~At(u, z)
        BY <1>3 DEF Watched, Searching
      <3>2. QED
        BY <1>11, <3>1, OthersAt
    <2>4. QED
      BY <2>1, <2>2, <2>3 DEF SendInv, Watched
  <1>16. QueueInv'
    <2>1. ~session'.lease /\ (session'.closed => session'.outbound = 0)
          /\ emitted + session'.outbound + retained' <= made
      BY <1>10
    <2>2. emitted' = emitted /\ made' = made /\ completion_pending' = completion_pending
      BY <1>2 DEF flags
    <2>3. made \in Nat /\ made + 0 = made
      BY <1>5, TriggerChannelAssumption DEF TypeOK
    <2>4. emitted' + session'.outbound + retained' <= made' + 0
      BY <2>1, <2>2, <2>3
    <2>5. QED
      BY <2>1, <2>4 DEF QueueInv
  <1>17. CloseInv'
    <2>1. session.closed => session'.closed
      BY <1>10
    <2>2. QED
      BY <1>2, <1>5, <1>11, <1>12, <2>1, CloseKept DEF TypeOK, flags
  <1>18. QED
    BY <1>12, <1>13, <1>14, <1>15, <1>16, <1>17, Together

LEMMA UnlockKeeps ==
    ASSUME ChannelInv, NEW t \in Threads, Unlock(t)
    PROVE  ChannelInv'
  <1>1. At(t, "unlock") /\ "unlock" \in Settling /\ "record" \in Settling /\ "record" \in Frames
        /\ Goto(t, "record") /\ operation_mutex' = Nobody /\ "record" \notin Watched
    BY DEF Unlock, Settling, Frames, Watched
  <1>2. UNCHANGED <<flags, subscribed, session, retained, task, sending, called, made, emitted>>
    BY DEF Unlock
  <1>3. Stacks /\ t \notin Closers
    BY <1>1, WhileSettling
  <1>4. PICK rest \in Under("unlock") :
            /\ TopAndRest(t, "unlock", rest)
            /\ \A K \in {Settling, Settled, {"unlock"}} : ~Some(rest, K)
    BY <1>1, WhileSettling
  <1>5. TypeOK /\ RunnerInv
    BY DEF ChannelInv
  <1>6. rest \in Under("record")
    BY <1>1, <1>4, UnderFacts
  <1>7. After(t, "record", rest)
    BY <1>1, <1>3, <1>4, <1>6, Going
  <1>8. Stacks' /\ Others(t)
    BY <1>7 DEF After
  <1>9. Keeps(Body) /\ Keeps(Settling) /\ Keeps(Settled) /\ Keeps(InSink) /\ Keeps(Searching)
        /\ Keeps(Past)
    <2>1. \A K \in {Body, Settling, Settled, InSink, Searching, Past} :
             "unlock" \in K <=> "record" \in K
      BY DEF Body, Settling, Settled, InSink, Searching, Past, Closing
    <2>2. QED
      BY <1>4, <1>7, <2>1, GoingKeeps
  <1>10. AtKeep
    <2>1. \A z \in Watched : ~At(t, z)'
      BY <1>1, <1>4, <1>7, GoingKeeps
    <2>2. ~At(t, "leased")
      BY <1>1 DEF At
    <2>3. QED
      BY <1>8, <2>1, <2>2, OthersAt DEF AtKeep, Watched
  <1>11. \A u \in Threads : ~Has(u, {"unlock"})'
    <2>1. ~Has(t, {"unlock"})'
      BY <1>4, <1>7 DEF After
    <2>2. operation_mutex = t
      <3>1. Has(t, {"unlock"})
        BY <1>4 DEF TopAndRest
      <3>2. QED
        BY <1>5, <3>1 DEF RunnerInv
    <2>3. \A u \in Threads : u # t => ~Has(u, {"unlock"})
      BY <1>5, <2>2 DEF RunnerInv
    <2>4. QED
      BY <1>8, <2>1, <2>3, OthersKeep
  <1>12. StackInv' /\ \A c \in Closers : stack'[c] = stack[c]
    BY <1>2, <1>3, <1>8, StackFrom
  <1>13. TypeOK'
    BY <1>1, <1>2, <1>5, <1>8 DEF TypeOK, Stacks, flags, sending
  <1>14. RunnerInv'
    <2>1. \A v, u \in Threads : Has(v, Body)' /\ Has(u, Body)' => v = u
      BY <1>5, <1>9 DEF RunnerInv, Keeps
    <2>2. \A v, u \in Threads : Has(v, Settling)' /\ Has(u, Settling)' => v = u
      BY <1>5, <1>9 DEF RunnerInv, Keeps
    <2>3. pump_active' <=> \E u \in Threads : Has(u, Body)'
      BY <1>2, <1>5, <1>9 DEF RunnerInv, Keeps, flags
    <2>4. sink_calls' = 1 <=> \E u \in Threads : Has(u, InSink)'
      BY <1>2, <1>5, <1>9 DEF RunnerInv, Keeps, flags
    <2>5. \A u \in Threads : operation_mutex' = u <=> Has(u, {"unlock"})'
      BY <1>1, <1>11, TriggerChannelAssumption
    <2>6. QED
      BY <2>1, <2>2, <2>3, <2>4, <2>5 DEF RunnerInv
  <1>15. SendInv'
    BY <1>2, <1>9, <1>10, SendKept DEF ChannelInv, AtKeep, flags, sending
  <1>16. QueueInv'
    BY <1>2, QueueKept DEF ChannelInv, flags
  <1>17. CloseInv'
    BY <1>2, <1>5, <1>9, <1>12, CloseKept DEF ChannelInv, TypeOK, flags
  <1>18. QED
    BY <1>12, <1>13, <1>14, <1>15, <1>16, <1>17, Together

LEMMA RecordKeeps ==
    ASSUME ChannelInv, NEW t \in Threads, Record(t)
    PROVE  ChannelInv'
  <1>1. PICK x \in {"record", "record_failure"} : At(t, x)
    BY DEF Record
  <1>2. x \in Settling /\ x \in Settled /\ "pump" \in Frames /\ Goto(t, "pump")
        /\ "pump" \notin Watched /\ completion_pending' = FALSE
    BY DEF Record, Settling, Settled, Frames, Watched
  <1>3. UNCHANGED <<closed, pump_active, pump_requested, sink_calls, subscribed, owner, task,
                    sending, called, made, emitted>> /\ failed' \in BOOLEAN
    BY DEF Record, ChannelInv, TypeOK
  <1>4. /\ Stacks /\ t \notin Closers
        /\ completion = "done" /\ completion_pending
        /\ \A u \in Threads : ~Has(u, Searching)
        /\ \A u \in Threads : \A z \in Searching : ~At(u, z)
        /\ \A u \in Threads : u # t => ~Has(u, Settling) /\ ~At(u, "settle")
    BY <1>1, <1>2, WhileSettling
  <1>5. PICK rest \in Under(x) :
            /\ TopAndRest(t, x, rest)
            /\ \A K \in {Settling, Settled, {"unlock"}} : ~Some(rest, K)
    BY <1>1, <1>2, WhileSettling
  <1>6. TypeOK /\ SendInv /\ RunnerInv /\ QueueInv
    BY DEF ChannelInv
  <1>7. ~session.lease
    <2>1. Has(t, Settled)
      BY <1>2, <1>5 DEF TopAndRest
    <2>2. QED
      BY <1>6, <2>1 DEF SendInv
  <1>8. rest \in Under("pump")
    BY <1>2, <1>5, UnderFacts
  <1>9. After(t, "pump", rest)
    BY <1>2, <1>4, <1>5, <1>8, Going
  <1>10. Stacks' /\ Others(t)
    BY <1>9 DEF After
  <1>11. Keeps(Body) /\ Keeps(InSink) /\ Keeps(Searching) /\ Keeps({"unlock"}) /\ Keeps(Past)
    <2>1. \A K \in {Body, InSink, Searching, {"unlock"}, Past} : x \in K <=> "pump" \in K
      BY DEF Body, InSink, Searching, Past, Closing
    <2>2. QED
      BY <1>5, <1>9, <2>1, GoingKeeps
  <1>12. \A u \in Threads : ~Has(u, Settling)' /\ ~Has(u, Settled)'
    <2>1. "pump" \notin Settling /\ "pump" \notin Settled
      BY DEF Settling, Settled
    <2>2. ~Has(t, Settling)' /\ ~Has(t, Settled)'
      BY <1>5, <1>9, <2>1 DEF After
    <2>3. \A u \in Threads : u # t => ~Has(u, Settled)
      BY <1>4, Kinds DEF Has
    <2>4. QED
      BY <1>4, <1>10, <2>2, <2>3, OthersKeep
  <1>13. \A u \in Threads : \A z \in Watched : ~At(u, z)'
    <2>1. \A u \in Threads : u # t => \A z \in Watched : ~At(u, z)
      BY <1>4 DEF Watched, Searching
    <2>2. \A z \in Watched : ~At(t, z)'
      BY <1>2, <1>5, <1>9, GoingKeeps
    <2>3. QED
      BY <1>10, <2>1, <2>2, OthersAt
  <1>14. StackInv' /\ \A c \in Closers : stack'[c] = stack[c]
    BY <1>3, <1>4, <1>10, StackFrom
  <1>15. TypeOK'
    BY <1>2, <1>3, <1>6, <1>10 DEF TypeOK, Stacks, owner, sending
  <1>16. RunnerInv'
    <2>1. \A v, u \in Threads : Has(v, Body)' /\ Has(u, Body)' => v = u
      BY <1>6, <1>11 DEF RunnerInv, Keeps
    <2>2. pump_active' <=> \E u \in Threads : Has(u, Body)'
      BY <1>3, <1>6, <1>11 DEF RunnerInv, Keeps
    <2>3. sink_calls' = 1 <=> \E u \in Threads : Has(u, InSink)'
      BY <1>3, <1>6, <1>11 DEF RunnerInv, Keeps
    <2>4. \A u \in Threads : operation_mutex' = u <=> Has(u, {"unlock"})'
      BY <1>3, <1>6, <1>11 DEF RunnerInv, Keeps, owner
    <2>5. QED
      BY <1>12, <2>1, <2>2, <2>3, <2>4 DEF RunnerInv
  <1>17. SendInv'
    <2>1. completion' = "done" /\ ~completion_pending' /\ ~session'.lease
      BY <1>2, <1>3, <1>4, <1>7 DEF owner, sending
    <2>2. QED
      BY <1>12, <1>13, <2>1 DEF SendInv, Watched
  <1>18. QueueInv'
    <2>1. UNCHANGED <<session, retained, emitted, made>>
      BY <1>3 DEF owner
    <2>2. QED
      BY <1>6, <1>7, <2>1 DEF QueueInv
  <1>19. CloseInv'
    BY <1>3, <1>6, <1>11, <1>14, CloseKept DEF ChannelInv, TypeOK, owner
  <1>20. QED
    BY <1>14, <1>15, <1>16, <1>17, <1>18, <1>19, Together

-----------------------------------------------------------------------------
(* shutdown() *)

LEMMA CallShutdownKeeps ==
    ASSUME ChannelInv, NEW c \in Closers, CallShutdown(c)
    PROVE  ChannelInv'
  <1>1. c \notin called /\ called' = called \cup {c} /\ Enter(c, "shutdown")
    BY DEF CallShutdown
  <1>2. UNCHANGED <<flags, subscribed, owner, task, sending, made, emitted>>
    BY DEF CallShutdown
  <1>3. Stacks /\ c \in Threads /\ Idle(c) /\ TypeOK /\ CloseInv /\ StackInv
    BY <1>1, StacksOf, Kinds DEF ChannelInv, StackInv, Idle
  <1>4. "shutdown" \in Frames /\ "shutdown" \notin Body \cup Settling \cup Past
        /\ "shutdown" \in Closing
    BY DEF Frames, Body, Settling, Past, Closing
  <1>5. After(c, "shutdown", <<>>) /\ AllKeep /\ AtKeep
    BY <1>1, <1>3, <1>4, EnteringKeeps
  <1>6. Stacks' /\ Others(c)
    BY <1>5 DEF After
  <1>7. stack'[c] = <<"shutdown">> /\ \A b \in Closers : b # c => stack'[b] = stack[b]
    BY <1>1, <1>3, <1>6, Kinds DEF Enter, Stacks, Others
  <1>8. StackInv'
    BY <1>1, <1>3, <1>4, <1>6, <1>7 DEF StackInv, Stacks
  <1>9. TypeOK'
    BY <1>1, <1>2, <1>3, <1>6 DEF TypeOK, Stacks, flags, owner, sending
  <1>10. RunnerInv'
    BY <1>2, <1>5, RunnerKept DEF ChannelInv, AllKeep, flags, owner
  <1>11. SendInv'
    BY <1>2, <1>5, SendKept DEF ChannelInv, AllKeep, AtKeep, flags, owner, sending
  <1>12. QueueInv'
    BY <1>2, QueueKept DEF ChannelInv, flags, owner
  <1>13. CloseInv'
    <2>1. \A t \in Threads : Has(t, Past)' => closed'
      BY <1>2, <1>3, <1>5 DEF CloseInv, Past, AllKeep, Keeps, flags
    <2>2. stack'[c] \notin {<<>>, <<"drain">>, <<"await_sink">>}
      BY <1>7, OneIsAnother
    <2>3. \A b \in called : stack'[b] = stack[b]
      BY <1>1, <1>3, <1>7 DEF TypeOK
    <2>4. \A b \in called' : stack'[b] \in {<<>>, <<"drain">>, <<"await_sink">>} =>
                                b \in called /\ stack'[b] = stack[b]
      BY <1>1, <2>2, <2>3
    <2>5. UNCHANGED <<closed, session, task, sink_calls>>
      BY <1>2 DEF flags, owner
    <2>6. QED
      BY <1>3, <2>1, <2>4, <2>5 DEF CloseInv, Past
  <1>14. QED
    BY <1>8, <1>9, <1>10, <1>11, <1>12, <1>13, Together

\* A step of shutdown changes no kind of frame but its own.
LEMMA ClosingMoves ==
    ASSUME ChannelInv, NEW t \in Threads, NEW x \in Closing, At(t, x), NEW y \in Closing,
           Goto(t, y) \/ Return(t), called' = called
    PROVE  /\ Stacks' /\ Others(t) /\ StackInv'
           /\ Keeps(Body) /\ Keeps(Settling) /\ Keeps(Settled) /\ Keeps(InSink)
           /\ Keeps(Searching) /\ Keeps({"unlock"}) /\ AtKeep
           /\ t \in Closers => /\ stack[t] = <<x>> /\ t \in called
                               /\ Goto(t, y) => stack'[t] = <<y>>
                               /\ Return(t) => stack'[t] = <<>>
           /\ x # "shutdown" => closed
  <1>1. Stacks /\ StackInv /\ CloseInv
    BY StacksOf DEF ChannelInv
  <1>2. PICK rest \in Under(x) : TopAndRest(t, x, rest)
    BY TopAt
  <1>3. \A z \in {x, y} : z \notin Body /\ z \notin Settling /\ z \notin Settled
                          /\ z \notin InSink /\ z \notin Searching /\ z \notin {"unlock"}
                          /\ z \notin Watched /\ z \in Frames
    <2>1. Watched \subseteq Body \cup Settling
      BY DEF Watched, Body, Settling
    <2>2. QED
      BY <2>1, Kinds
  <1>4. rest \in Under(y)
    BY <1>2, UnderFacts
  <1>5. ~At(t, "leased")
    BY <1>3 DEF At, Watched
  <1>6. /\ Stacks' /\ Others(t)
        /\ Keeps(Body) /\ Keeps(Settling) /\ Keeps(Settled) /\ Keeps(InSink)
        /\ Keeps(Searching) /\ Keeps({"unlock"})
        /\ \A z \in Watched : ~At(t, z)'
    <2>1. CASE Goto(t, y)
      <3>1. After(t, y, rest)
        BY <1>1, <1>2, <1>3, <1>4, <2>1, Going
      <3>2. QED
        BY <1>2, <1>3, <3>1, GoingKeeps DEF After
    <2>2. CASE Return(t)
      <3>1. AfterReturn(t, rest)
        BY <1>1, <1>2, <2>2, Returning
      <3>2. \A z \in Watched : ~At(t, z)'
        BY <1>2, <3>1, ReturningKeeps DEF Interrupted, Watched
      <3>3. QED
        BY <1>2, <1>3, <3>1, <3>2, ReturningKeeps DEF AfterReturn
    <2>3. QED
      BY <2>1, <2>2
  <1>7. AtKeep
    BY <1>5, <1>6, OthersAt DEF AtKeep, Watched
  <1>8. t \in Closers => /\ stack[t] = <<x>> /\ t \in called
                         /\ Goto(t, y) => stack'[t] = <<y>>
                         /\ Return(t) => stack'[t] = <<>>
    <2> SUFFICES ASSUME t \in Closers
                 PROVE  /\ stack[t] = <<x>> /\ t \in called
                        /\ Goto(t, y) => stack'[t] = <<y>>
                        /\ Return(t) => stack'[t] = <<>>
      OBVIOUS
    <2>1. stack[t] # <<>> /\ Head(stack[t]) = x
      BY DEF At
    <2>2. stack[t] = <<x>> /\ t \in called
      BY <1>1, <2>1, OneParts DEF StackInv
    <2>3. Tail(stack[t]) = <<>>
      BY <2>2, OneParts
    <2>4. Goto(t, y) => stack'[t] = <<y>>
      BY <1>1, <2>3, PutOnNone DEF Goto, Stacks
    <2>5. Return(t) => stack'[t] = <<>>
      BY <1>1, <2>3 DEF Return, Stacks
    <2>6. QED
      BY <2>2, <2>4, <2>5
  <1>9. StackInv'
    <2>1. \A c \in Closers : c # t => stack'[c] = stack[c]
      BY <1>6, Kinds DEF Others
    <2>2. QED
      BY <1>1, <1>6, <1>8, <2>1 DEF StackInv, Stacks
  <1>10. x # "shutdown" => closed
    <2>1. x # "shutdown" => Has(t, Past)
      BY <1>2 DEF TopAndRest, Past
    <2>2. QED
      BY <1>1, <2>1 DEF CloseInv, Past
  <1>11. QED
    BY <1>6, <1>7, <1>8, <1>9, <1>10

LEMMA CloseMoves ==
    ASSUME CloseInv, NEW t \in Threads, Others(t), called' = called, called \subseteq Closers,
           closed' = TRUE, session.closed => session'.closed,
           UNCHANGED <<task, sink_calls>>,
           t \in called => /\ stack'[t] \in {<<>>, <<"drain">>, <<"await_sink">>} =>
                                 session'.closed
                           /\ stack'[t] \in {<<>>, <<"await_sink">>} => task = {}
                           /\ stack'[t] = <<>> => sink_calls = 0
    PROVE  CloseInv'
  <1>1. \A c \in called : c # t => stack'[c] = stack[c]
    BY Kinds DEF Others
  <1>2. \A c \in called' : stack'[c] \in {<<>>, <<"drain">>, <<"await_sink">>} =>
                              closed' /\ session'.closed
    BY <1>1 DEF CloseInv
  <1>3. \A c \in called' : stack'[c] \in {<<>>, <<"await_sink">>} => task' = {}
    BY <1>1 DEF CloseInv
  <1>4. \A c \in called' : stack'[c] = <<>> => sink_calls' = 0
    BY <1>1 DEF CloseInv
  <1>5. QED
    BY <1>2, <1>3, <1>4 DEF CloseInv

\* A step of shutdown that only moves on, and may set closed_ or drop the subscription.
LEMMA ClosingStep ==
    ASSUME ChannelInv, NEW t \in Threads, NEW x \in Closing, At(t, x), NEW y \in Closing,
           Goto(t, y) \/ Return(t), closed' = TRUE, subscribed' \in BOOLEAN,
           t \in Closers => /\ stack'[t] \in {<<>>, <<"drain">>, <<"await_sink">>} =>
                                 session.closed
                            /\ stack'[t] \in {<<>>, <<"await_sink">>} => task = {}
                            /\ stack'[t] = <<>> => sink_calls = 0,
           UNCHANGED <<failed, pump_active, pump_requested, completion_pending, sink_calls,
                       owner, task, sending, called, made, emitted>>
    PROVE  ChannelInv'
  <1>1. /\ Stacks' /\ Others(t) /\ StackInv'
        /\ Keeps(Body) /\ Keeps(Settling) /\ Keeps(Settled) /\ Keeps(InSink)
        /\ Keeps(Searching) /\ Keeps({"unlock"}) /\ AtKeep
    BY ClosingMoves
  <1>2. TypeOK'
    BY <1>1 DEF ChannelInv, TypeOK, Stacks, owner, sending
  <1>3. RunnerInv'
    BY <1>1, RunnerKept DEF ChannelInv, owner
  <1>4. SendInv'
    BY <1>1, SendKept DEF ChannelInv, AtKeep, owner, sending
  <1>5. QueueInv'
    BY QueueKept DEF ChannelInv, owner
  <1>6. CloseInv'
    <2>1. called \subseteq Closers /\ CloseInv
      BY DEF ChannelInv, TypeOK
    <2>2. QED
      BY <1>1, <2>1, CloseMoves DEF owner
  <1>7. QED
    BY <1>1, <1>2, <1>3, <1>4, <1>5, <1>6, Together

LEMMA ShutdownKeeps ==
    ASSUME ChannelInv, NEW t \in Threads, Shutdown(t)
    PROVE  ChannelInv'
  <1>1. At(t, "shutdown") /\ "shutdown" \in Closing /\ closed' = TRUE
    BY DEF Shutdown, Closing
  <1>2. PICK y \in {"close_owner", "unsubscribe"} : Goto(t, y)
    BY DEF Shutdown
  <1>3. y \in Closing /\ called' = called
    BY DEF Closing, Shutdown
  <1>4. t \in Closers => stack'[t] \notin {<<>>, <<"drain">>, <<"await_sink">>}
    <2>1. t \in Closers => stack'[t] = <<y>>
      BY <1>1, <1>2, <1>3, ClosingMoves
    <2>2. QED
      BY <2>1, OneIsAnother
  <1>5. UNCHANGED <<failed, pump_active, pump_requested, completion_pending, sink_calls,
                    subscribed, owner, task, sending, called, made, emitted>>
    BY DEF Shutdown
  <1>6. subscribed' \in BOOLEAN
    BY <1>5 DEF ChannelInv, TypeOK
  <1>7. QED
    BY <1>1, <1>2, <1>3, <1>4, <1>5, <1>6, ClosingStep

LEMMA UnsubscribeKeeps ==
    ASSUME ChannelInv, NEW t \in Threads, Unsubscribe(t)
    PROVE  ChannelInv'
  <1>1. At(t, "unsubscribe") /\ "unsubscribe" \in Closing /\ "unsubscribe" # "shutdown"
        /\ "close_owner" \in Closing /\ Goto(t, "close_owner") /\ subscribed' \in BOOLEAN
    BY DEF Unsubscribe, Closing
  <1>2. UNCHANGED <<closed, failed, pump_active, pump_requested, completion_pending, sink_calls,
                    owner, task, sending, called, made, emitted>>
    BY DEF Unsubscribe, flags
  <1>3. closed /\ (t \in Closers => stack'[t] = <<"close_owner">>)
    BY <1>1, <1>2, ClosingMoves
  <1>4. t \in Closers => stack'[t] \notin {<<>>, <<"drain">>, <<"await_sink">>}
    BY <1>3, OneIsAnother
  <1>5. closed' = TRUE
    BY <1>2, <1>3 DEF ChannelInv, TypeOK
  <1>6. QED
    BY <1>1, <1>2, <1>4, <1>5, ClosingStep

LEMMA CloseOwnerKeeps ==
    ASSUME ChannelInv, NEW t \in Threads, CloseOwner(t)
    PROVE  ChannelInv'
  <1>1. At(t, "close_owner") /\ "close_owner" \in Closing /\ "close_owner" # "shutdown"
        /\ "drain" \in Closing /\ Goto(t, "drain") /\ retained' = 0
    BY DEF CloseOwner, Closing
  <1>2. UNCHANGED <<flags, subscribed, operation_mutex, task, sending, called, made, emitted>>
    BY DEF CloseOwner
  <1>3. session'.closed = TRUE /\ session'.lease = FALSE /\ session'.outbound = 0
        /\ session' \in [closed : BOOLEAN, outbound : 0..max_queued_batches, lease : BOOLEAN]
    BY TriggerChannelAssumption DEF CloseOwner
  <1>4. /\ Stacks' /\ Others(t) /\ StackInv'
        /\ Keeps(Body) /\ Keeps(Settling) /\ Keeps(Settled) /\ Keeps(InSink)
        /\ Keeps(Searching) /\ Keeps({"unlock"}) /\ AtKeep
        /\ t \in Closers => stack'[t] = <<"drain">>
        /\ closed
    BY <1>1, <1>2, ClosingMoves
  <1>5. TypeOK /\ SendInv /\ QueueInv /\ CloseInv /\ RunnerInv
    BY DEF ChannelInv
  <1>6. closed' = TRUE
    BY <1>2, <1>4, <1>5 DEF TypeOK, flags
  <1>7. TypeOK'
    BY <1>1, <1>2, <1>3, <1>4, <1>5, TriggerChannelAssumption DEF TypeOK, Stacks, flags, sending
  <1>8. RunnerInv'
    BY <1>2, <1>4, <1>5, RunnerKept DEF flags
  <1>9. SendInv'
    <2>1. UNCHANGED <<completion, completion_pending>>
      BY <1>2 DEF flags, sending
    <2>2. \A u \in Threads : Has(u, Settling)' => completion' = "done" /\ completion_pending'
      BY <1>4, <1>5, <2>1 DEF SendInv, Keeps
    <2>3. \A u \in Threads : Has(u, Searching)' => ~completion_pending'
      BY <1>4, <1>5, <2>1 DEF SendInv, Keeps
    <2>4. completion' = "open" => completion_pending'
      BY <1>5, <2>1 DEF SendInv
    <2>5. \A u \in Threads : ~At(u, "busy")'
      BY <1>4, <1>5 DEF SendInv, AtKeep
    <2>6. QED
      BY <1>3, <1>6, <2>2, <2>3, <2>4, <2>5 DEF SendInv
  <1>10. QueueInv'
    <2>1. emitted <= made /\ emitted \in Nat /\ made \in Nat
      BY <1>5, TriggerChannelAssumption DEF QueueInv, TypeOK
    <2>2. QED
      BY <1>1, <1>2, <1>3, <2>1 DEF QueueInv
  <1>11. CloseInv'
    <2>1. called' = called /\ called \subseteq Closers /\ UNCHANGED <<task, sink_calls>>
      BY <1>2, <1>5 DEF TypeOK, flags
    <2>2. t \in called => stack'[t] \notin {<<>>, <<"await_sink">>}
      <3>1. t \in called => stack'[t] = <<"drain">>
        BY <1>4, <2>1
      <3>2. QED
        BY <3>1, OneIsAnother
    <2>3. QED
      BY <1>3, <1>4, <1>5, <1>6, <2>1, <2>2, CloseMoves
  <1>12. QED
    BY <1>4, <1>7, <1>8, <1>9, <1>10, <1>11, Together

LEMMA DrainKeeps ==
    ASSUME ChannelInv, NEW t \in Threads, Drain(t)
    PROVE  ChannelInv'
  <1>1. At(t, "drain") /\ "drain" \in Closing /\ "drain" # "shutdown"
        /\ "await_sink" \in Closing /\ Goto(t, "await_sink")
    BY DEF Drain, Closing
  <1>2. UNCHANGED <<flags, subscribed, owner, task, sending, called, made, emitted>>
    BY DEF Drain
  <1>3. closed /\ (t \in Closers => /\ stack[t] = <<"drain">> /\ t \in called
                                    /\ stack'[t] = <<"await_sink">>)
    BY <1>1, <1>2, ClosingMoves
  <1>4. closed' = TRUE /\ subscribed' \in BOOLEAN
    BY <1>2, <1>3 DEF ChannelInv, TypeOK, flags
  <1>5. t \in Closers => session.closed /\ task = {} /\ stack'[t] # <<>>
    <2>1. t \in Closers => session.closed
      BY <1>3 DEF ChannelInv, CloseInv
    <2>2. t \in Closers => task = {}
      BY Kinds DEF Drain
    <2>3. t \in Closers => stack'[t] # <<>>
      BY <1>3, OneParts
    <2>4. QED
      BY <2>1, <2>2, <2>3
  <1>6. QED
    BY <1>1, <1>2, <1>4, <1>5, ClosingStep DEF flags

LEMMA AwaitSinkKeeps ==
    ASSUME ChannelInv, NEW t \in Threads, AwaitSink(t)
    PROVE  ChannelInv'
  <1>1. At(t, "await_sink") /\ "await_sink" \in Closing /\ "await_sink" # "shutdown"
        /\ Return(t)
    BY DEF AwaitSink, Closing
  <1>2. UNCHANGED <<flags, subscribed, owner, task, sending, called, made, emitted>>
    BY DEF AwaitSink
  <1>3. closed /\ (t \in Closers => stack[t] = <<"await_sink">> /\ t \in called)
    BY <1>1, <1>2, ClosingMoves
  <1>4. closed' = TRUE /\ subscribed' \in BOOLEAN
    BY <1>2, <1>3 DEF ChannelInv, TypeOK, flags
  <1>5. t \in Closers => session.closed /\ task = {} /\ sink_calls = 0
    <2>1. t \in Closers => session.closed /\ task = {}
      BY <1>3 DEF ChannelInv, CloseInv
    <2>2. t \in Closers => ~Within(t, "emit")
      <3>1. Len(<<"await_sink">>) = 1
        OBVIOUS
      <3>2. t \in Closers => Len(stack[t]) = 1
        BY <1>3, <3>1
      <3>3. QED
        BY <3>2 DEF Within
    <2>3. QED
      BY <2>1, <2>2 DEF AwaitSink
  <1>6. QED
    BY <1>1, <1>2, <1>4, <1>5, ClosingStep DEF flags

-----------------------------------------------------------------------------
(* The theorems *)

LEMMA InitHolds == Init => ChannelInv
  <1> SUFFICES ASSUME Init PROVE ChannelInv
    OBVIOUS
  <1>1. \A t \in Threads : stack[t] = <<>>
    BY DEF Init
  <1>2. \A t \in Threads : \A K : ~Has(t, K) /\ ~At(t, K)
    BY <1>1, HasIsSome, SomeOfNone DEF At
  <1>3. TypeOK
    <2>1. 0 \in Nat /\ 0 \in 0..max_queued_batches /\ 0 \in 0..1
      BY TriggerChannelAssumption
    <2>2. session \in [closed : BOOLEAN, outbound : 0..max_queued_batches, lease : BOOLEAN]
      BY <2>1 DEF Init
    <2>3. stack \in [Threads -> Seq(Frames)]
      <3>1. <<>> \in Seq(Frames)
        OBVIOUS
      <3>2. QED
        BY <3>1 DEF Init
    <2>4. QED
      BY <2>1, <2>2, <2>3 DEF Init, TypeOK
  <1>4. StackInv
    BY <1>1, Kinds DEF Init, StackInv, Nested
  <1>5. RunnerInv
    BY <1>2, TriggerChannelAssumption DEF Init, RunnerInv
  <1>6. SendInv
    BY <1>2 DEF Init, SendInv
  <1>7. QueueInv
    BY DEF Init, QueueInv
  <1>8. CloseInv
    BY <1>2 DEF Init, CloseInv
  <1>9. QED
    BY <1>3, <1>4, <1>5, <1>6, <1>7, <1>8 DEF ChannelInv

LEMMA NextKeeps == ChannelInv /\ [Next]_vars => ChannelInv'
  <1> SUFFICES ASSUME ChannelInv, [Next]_vars PROVE ChannelInv'
    OBVIOUS
  <1>1. ASSUME NEW p \in Publishers, Submit(p) \/ FinishTask(p) \/ Publish(p) \/ Refuse(p)
        PROVE  ChannelInv'
    BY <1>1, SubmitKeeps, FinishTaskKeeps, PublishKeeps, RefuseKeeps
  <1>2. ASSUME NEW t \in Threads, Pump(t) \/ Abandon(t)
        PROVE  ChannelInv'
    BY <1>2, PumpEnterKeeps, PumpLoopKeeps, BeginSendKeeps, NothingToSendKeeps, MarkFailedKeeps,
       StartSinkCallKeeps, EmitKeeps, SinkReturnsKeeps, PumpAgainKeeps, AbandonKeeps DEF Pump
  <1>3. ASSUME NEW t \in Threads, Retain(t) \/ Notify(t) \/ Completing(t)
        PROVE  ChannelInv'
    BY <1>3, RetainKeeps, NotifyKeeps, CompleteKeeps, SettleKeeps, UnlockKeeps, RecordKeeps
    DEF Completing
  <1>4. ASSUME NEW t \in Threads, ShuttingDown(t)
        PROVE  ChannelInv'
    BY <1>4, ShutdownKeeps, UnsubscribeKeeps, CloseOwnerKeeps, DrainKeeps, AwaitSinkKeeps
    DEF ShuttingDown
  <1>5. ASSUME NEW c \in Closers, CallShutdown(c)
        PROVE  ChannelInv'
    BY <1>5, CallShutdownKeeps
  <1>6. CASE WriterCompletes
    BY <1>6, WriterCompletesKeeps
  <1>7. CASE UNCHANGED vars
    <2>1. UNCHANGED <<flags, subscribed, owner, task, sending, stack, called, made, emitted>>
      BY <1>7 DEF vars
    <2>2. AllKeep /\ AtKeep
      BY <2>1, StackSame DEF AllKeep, AtKeep
    <2>3. StackInv' /\ \A c \in Closers : stack'[c] = stack[c]
      BY <2>1 DEF ChannelInv, StackInv
    <2>4. TypeOK'
      BY <2>1 DEF ChannelInv, TypeOK, flags, owner, sending
    <2>5. QED
      BY <2>1, <2>2, <2>3, <2>4, QuietMove DEF flags, owner, sending
  <1>8. QED
    BY <1>1, <1>2, <1>3, <1>4, <1>5, <1>6, <1>7 DEF Next, Continue, Finished

\* The invariant: which calls may interrupt which, who pumps, where the send is, what the
\* queue holds and how far a shutdown is (pump, send_completed, shutdown).
THEOREM ChannelSound == Spec => []ChannelInv
  <1>1. Init => ChannelInv
    BY InitHolds
  <1>2. ChannelInv /\ [Next]_vars => ChannelInv'
    BY NextKeeps
  <1>3. QED
    BY <1>1, <1>2, PTL DEF Spec

\* One send at a time, and the flags say where it is (pump, send_completed, begin_send).
THEOREM OneSendAlways == Spec => []OneSendAtATime
  <1>1. ChannelInv => OneSendAtATime
    BY DEF ChannelInv, RunnerInv, SendInv, OneSendAtATime
  <1>2. QED
    BY <1>1, ChannelSound, PTL

\* Nobody sends from within a retry that holds the connection's operation mutex: the retry
\* ends before completion_pending_ is cleared (send_completed, complete_send, notify).
THEOREM NoSendUnderOperationAlways == Spec => []NoSendUnderOperation
  <1>1. ChannelInv => NoSendUnderOperation
    <2> SUFFICES ASSUME ChannelInv, NEW t \in Threads, At(t, "emit"), operation_mutex = t
                 PROVE  FALSE
      BY DEF NoSendUnderOperation
    <2>1. Has(t, {"unlock"})
      BY DEF ChannelInv, RunnerInv
    <2>2. PICK rest \in Under("emit") : TopAndRest(t, "emit", rest)
      BY TopAt
    <2>3. rest = <<>>
      BY <2>2, UnderFacts DEF Body
    <2>4. QED
      BY <2>1, <2>2, <2>3, SomeOfNone DEF TopAndRest
  <1>2. QED
    BY <1>1, ChannelSound, PTL

\* Once a caller of shutdown is back no call of the sink is under way or starts, and no
\* task of the connection runs (shutdown, wait_connection_idle, pump).
THEOREM QuietAfterShutdownAlways == Spec => []QuietAfterShutdown
  <1>1. ChannelInv => QuietAfterShutdown
    BY DEF ChannelInv, CloseInv, QuietAfterShutdown, Idle
  <1>2. QED
    BY <1>1, ChannelSound, PTL
====
