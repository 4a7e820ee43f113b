-------------------------- MODULE ChannelTheorems ---------------------------
(* Facts about the channel operators, about induction and about the        *)
(* subsequences properties compare, cited by the proofs of the modules     *)
(* that communicate over channels.                                         *)
EXTENDS Channels, SequencesExt, SequenceTheorems, FiniteSetTheorems, TLAPS

\* A sequence is a sequence over any set that holds its elements.
LEMMA SeqByElements ==
    ASSUME NEW T, NEW U, NEW s \in Seq(T), \A i \in 1 .. Len(s) : s[i] \in U
    PROVE  s \in Seq(U)
  OBVIOUS

\* A sequence of length one is the tuple of its element.
LEMMA SingletonSeq ==
    ASSUME NEW T, NEW s \in Seq(T), Len(s) = 1
    PROVE  s = <<s[1]>> /\ s[1] \in T
  <1>1. s[1] \in T /\ <<s[1]>> \in Seq(T) /\ Len(<<s[1]>>) = 1 /\ <<s[1]>>[1] = s[1]
    OBVIOUS
  <1> QED
    BY <1>1, SeqEqual

\* A send appends the value to the buffer and keeps the channel's type.
LEMMA SendChan ==
    ASSUME NEW T, NEW c \in ChanOf(T), NEW v \in T
    PROVE  /\ Send(c, v) \in ChanOf(T)
           /\ Send(c, v).buf = Append(c.buf, v) /\ Send(c, v).closed = c.closed
           /\ Len(Send(c, v).buf) = Len(c.buf) + 1
  BY DEF ChanOf, Send

\* A receive takes the oldest value and leaves the others in order.
LEMMA ReceiveChan ==
    ASSUME NEW T, NEW c \in ChanOf(T), HasValue(c)
    PROVE  /\ Receive(c) \in ChanOf(T) /\ Head(c.buf) \in T
           /\ Receive(c).buf = Tail(c.buf) /\ Receive(c).closed = c.closed
           /\ Len(Receive(c).buf) = Len(c.buf) - 1
           /\ c.buf = <<Head(c.buf)>> \o Receive(c).buf
  <1>1. c.buf \in Seq(T) /\ c.buf # <<>> /\ c.closed \in BOOLEAN
    BY DEF ChanOf, HasValue
  <1>2. Tail(c.buf) \in Seq(T) /\ Head(c.buf) \in T /\ Len(Tail(c.buf)) = Len(c.buf) - 1
    BY <1>1
  <1>3. c.buf = <<Head(c.buf)>> \o Tail(c.buf)
    BY <1>1
  <1> QED
    BY <1>1, <1>2, <1>3 DEF ChanOf, Receive

\* Closing a channel keeps what is buffered.
LEMMA CloseChanChan ==
    ASSUME NEW T, NEW c \in ChanOf(T)
    PROVE  CloseChan(c) \in ChanOf(T) /\ CloseChan(c).buf = c.buf /\ CloseChan(c).closed
  BY DEF ChanOf, CloseChan

\* A sequence typed by its own elements stays so when one is appended.
LEMMA AppendToSet ==
    ASSUME NEW s, s \in Seq(ToSet(s)), NEW x
    PROVE  /\ Append(s, x) \in Seq(ToSet(Append(s, x))) /\ Len(Append(s, x)) = Len(s) + 1
           /\ DOMAIN Append(s, x) = DOMAIN s \cup {Len(s) + 1} /\ Len(s) + 1 \notin DOMAIN s
           /\ Append(s, x)[Len(s) + 1] = x /\ \A i \in DOMAIN s : Append(s, x)[i] = s[i]
  <1>1. Append(s, x) \in Seq(ToSet(s) \cup {x}) /\ Len(Append(s, x)) = Len(s) + 1
    OBVIOUS
  <1>2. /\ DOMAIN Append(s, x) = 1 .. Len(s) + 1 /\ DOMAIN s = 1 .. Len(s) /\ Len(s) \in Nat
    BY <1>1
  <1>3. Append(s, x)[Len(s) + 1] = x /\ \A i \in DOMAIN s : Append(s, x)[i] = s[i]
    BY <1>2
  <1>4. \A i \in 1 .. Len(Append(s, x)) : Append(s, x)[i] \in ToSet(Append(s, x))
    BY <1>1, <1>2 DEF ToSet
  <1>5. Append(s, x) \in Seq(ToSet(Append(s, x)))
    BY <1>1, <1>4, SeqByElements
  <1>6. DOMAIN Append(s, x) = DOMAIN s \cup {Len(s) + 1} /\ Len(s) + 1 \notin DOMAIN s
    BY <1>2
  <1> QED
    BY <1>1, <1>3, <1>5, <1>6

LEMMA ConcatOne ==
    ASSUME NEW s, s \in Seq(ToSet(s)), NEW x
    PROVE  s \o <<x>> = Append(s, x)
  <1> DEFINE T == ToSet(s) \cup {x}
  <1>1. s \in Seq(T) /\ x \in T
    OBVIOUS
  <1> HIDE DEF T
  <1> QED
    BY <1>1, AppendIsConcat

LEMMA ConcatToSet ==
    ASSUME NEW a, NEW b, a \in Seq(ToSet(a)), b \in Seq(ToSet(b))
    PROVE  a \o b \in Seq(ToSet(a \o b))
  <1> DEFINE T == ToSet(a) \cup ToSet(b)
             c == a \o b
  <1>1. a \in Seq(T) /\ b \in Seq(T)
    OBVIOUS
  <1> HIDE DEF T
  <1>2. c \in Seq(T)
    BY <1>1
  <1> HIDE DEF c
  <1>3. \A i \in 1 .. Len(c) : c[i] \in ToSet(c)
    BY <1>2 DEF ToSet
  <1>4. c \in Seq(ToSet(c))
    BY <1>2, <1>3, SeqByElements
  <1> QED
    BY <1>4 DEF c

\* A channel typed by its own contents stays so when a value is sent.
LEMMA SendToSet ==
    ASSUME NEW c, c \in ChanOf(ToSet(c.buf)), NEW x
    PROVE  /\ Send(c, x) \in ChanOf(ToSet(Send(c, x).buf))
           /\ Send(c, x).buf = Append(c.buf, x) /\ Send(c, x).closed = c.closed
           /\ Len(Send(c, x).buf) = Len(c.buf) + 1
  <1>1. c.buf \in Seq(ToSet(c.buf)) /\ c.closed \in BOOLEAN
    BY DEF ChanOf
  <1>2. Append(c.buf, x) \in Seq(ToSet(Append(c.buf, x))) /\ Len(Append(c.buf, x)) = Len(c.buf) + 1
    BY <1>1, AppendToSet
  <1>3. /\ Send(c, x).buf = Append(c.buf, x) /\ Send(c, x).closed = c.closed
        /\ Send(c, x) = [buf |-> Append(c.buf, x), closed |-> c.closed]
    BY DEF Send
  <1> QED
    BY <1>1, <1>2, <1>3 DEF ChanOf

\* ... and when its oldest value is received.
LEMMA ReceiveToSet ==
    ASSUME NEW c, c \in ChanOf(ToSet(c.buf)), HasValue(c)
    PROVE  /\ Receive(c) \in ChanOf(ToSet(Receive(c).buf))
           /\ Receive(c).buf = Tail(c.buf) /\ Receive(c).closed = c.closed
           /\ Len(Receive(c).buf) = Len(c.buf) - 1
           /\ c.buf = <<Head(c.buf)>> \o Receive(c).buf
  <1>1. /\ Receive(c) \in ChanOf(ToSet(c.buf)) /\ Receive(c).buf = Tail(c.buf)
        /\ Receive(c).closed = c.closed /\ Len(Receive(c).buf) = Len(c.buf) - 1
        /\ c.buf = <<Head(c.buf)>> \o Receive(c).buf
    BY ReceiveChan
  <1>2. Tail(c.buf) \in Seq(ToSet(c.buf)) /\ c.closed \in BOOLEAN
    BY <1>1 DEF ChanOf
  <1>3. PICK t : t = Tail(c.buf)
    OBVIOUS
  <1>4. t \in Seq(ToSet(c.buf)) /\ DOMAIN t = 1 .. Len(t)
    BY <1>2, <1>3
  <1>5. \A i \in 1 .. Len(t) : t[i] \in ToSet(t)
    BY <1>4 DEF ToSet
  <1>6. t \in Seq(ToSet(t))
    BY <1>4, <1>5, SeqByElements
  <1> QED
    BY <1>1, <1>2, <1>3, <1>6 DEF ChanOf, Receive

-----------------------------------------------------------------------------
(* Induction, over a set instead of over a predicate so that the provers   *)
(* can apply it.  If n were not in S, the successor would map the finite   *)
(* set of the numbers below n that are in S into itself without zero, one  *)
(* to one, against the pigeonhole principle.                               *)

\* A set that holds 0 and the successor of each of its naturals holds Nat.
LEMMA SetInduction ==
    ASSUME NEW S, 0 \in S, \A n \in Nat : n \in S => n + 1 \in S
    PROVE  Nat \subseteq S
  <1> SUFFICES ASSUME NEW n \in Nat, n \notin S PROVE FALSE
    OBVIOUS
  <1> DEFINE T == {k \in 0 .. n : k \in S}
  <1>1. T \in SUBSET (0 .. n) /\ IsFiniteSet(0 .. n)
    BY FS_Interval
  <1>2. IsFiniteSet(T) /\ Cardinality(T) \in Nat
    BY <1>1, FS_Subset, FS_CardinalityType
  <1>3. 0 \in T /\ \A k \in T : k + 1 \in T \ {0}
    OBVIOUS
  <1>4. IsFiniteSet(T \ {0}) /\ Cardinality(T \ {0}) = Cardinality(T) - 1
    BY <1>2, <1>3, FS_RemoveElement
  <1> DEFINE f == [k \in T |-> k + 1]
  <1>5. f \in [T -> T \ {0}] /\ \A x, y \in T : f[x] = f[y] => x = y
    BY <1>3
  <1>6. Cardinality(T \ {0}) < Cardinality(T)
    BY <1>2, <1>4
  <1> HIDE DEF T, f
  <1>7. \E x, y \in T : x # y /\ f[x] = f[y]
    BY <1>2, <1>4, <1>5, <1>6, FS_PigeonHole
  <1> QED
    BY <1>5, <1>7

\* Induction over the sequences over T, from the front.
LEMMA AppendInduction ==
    ASSUME NEW T, NEW S, <<>> \in S,
           \A s \in Seq(T), x \in T : s \in S => Append(s, x) \in S
    PROVE  Seq(T) \subseteq S
  <1> DEFINE N == {n \in Nat : \A s \in Seq(T) : Len(s) = n => s \in S}
  <1>1. 0 \in N
    OBVIOUS
  <1>2. ASSUME NEW n \in Nat, n \in N PROVE n + 1 \in N
    <2> SUFFICES ASSUME NEW s \in Seq(T), Len(s) = n + 1 PROVE s \in S
      OBVIOUS
    <2>1. PICK u \in Seq(T), x \in T : s = Append(u, x)
      <3>1. s # <<>>
        OBVIOUS
      <3> QED
        BY <3>1, SequenceEmptyOrAppend
    <2>2. Len(u) = n
      BY <2>1
    <2> QED
      BY <1>2, <2>1, <2>2
  <1> HIDE DEF N
  <1>3. Nat \subseteq N
    BY <1>1, <1>2, SetInduction
  <1> QED
    BY <1>3 DEF N

-----------------------------------------------------------------------------
(* The operator Only.                                                      *)

\* f[i] is what the first i elements of seq keep, for i up to n.
IsOnly(f, seq, A, n) ==
    f = [i \in 0 .. n |->
            IF i = 0 THEN <<>>
            ELSE IF seq[i] \in A THEN Append(f[i - 1], seq[i]) ELSE f[i - 1]]

\* Only is the last value of that function.
LEMMA OnlyChoose ==
    ASSUME NEW seq, NEW A
    PROVE  Only(seq, A) = (CHOOSE f : IsOnly(f, seq, A, Len(seq)))[Len(seq)]
  BY DEF Only, IsOnly

\* One step of the function.
LEMMA IsOnlyStep ==
    ASSUME NEW f, NEW seq, NEW A, NEW n \in Nat, IsOnly(f, seq, A, n)
    PROVE  /\ f[0] = <<>>
           /\ \A i \in 0 .. n - 1 :
                 f[i + 1] = IF seq[i + 1] \in A THEN Append(f[i], seq[i + 1]) ELSE f[i]
  <1> DEFINE h == [i \in 0 .. n |->
                     IF i = 0 THEN <<>>
                     ELSE IF seq[i] \in A THEN Append(f[i - 1], seq[i]) ELSE f[i - 1]]
  <1>1. f = h
    BY DEF IsOnly
  <1>2. h[0] = <<>>
    OBVIOUS
  <1>3. ASSUME NEW i \in 0 .. n - 1
        PROVE  h[i + 1] = IF seq[i + 1] \in A THEN Append(f[i], seq[i + 1]) ELSE f[i]
    <2>1. i + 1 \in 0 .. n /\ i + 1 # 0 /\ i + 1 - 1 = i
      OBVIOUS
    <2>2. h[i + 1] = IF seq[i + 1] \in A THEN Append(f[i + 1 - 1], seq[i + 1]) ELSE f[i + 1 - 1]
      BY <2>1
    <2> QED
      BY <2>1, <2>2
  <1> HIDE DEF h
  <1> QED
    BY <1>1, <1>2, <1>3

\* There is such a function ...
LEMMA IsOnlyExists ==
    ASSUME NEW seq, NEW A
    PROVE  \A n \in Nat : \E f : IsOnly(f, seq, A, n)
  <1> DEFINE S == {n \in Nat : \E f : IsOnly(f, seq, A, n)}
  <1>1. 0 \in S
    <2> DEFINE f == [i \in 0 .. 0 |-> <<>>]
    <2>1. IsOnly(f, seq, A, 0)
      BY DEF IsOnly
    <2> QED
      BY <2>1
  <1>2. ASSUME NEW n \in Nat, n \in S PROVE n + 1 \in S
    <2>1. PICK f : IsOnly(f, seq, A, n)
      BY <1>2
    <2> DEFINE last == IF seq[n + 1] \in A THEN Append(f[n], seq[n + 1]) ELSE f[n]
               g == [i \in 0 .. n + 1 |-> IF i = n + 1 THEN last ELSE f[i]]
    <2>2. /\ g[0] = <<>> /\ g[n + 1] = last /\ n + 1 - 1 = n /\ g[n] = f[n]
          /\ \A i \in 1 .. n : g[i] = f[i] /\ g[i - 1] = f[i - 1]
      BY <2>1 DEF IsOnly
    <2> DEFINE h == [i \in 0 .. n + 1 |->
                       IF i = 0 THEN <<>>
                       ELSE IF seq[i] \in A THEN Append(g[i - 1], seq[i]) ELSE g[i - 1]]
    <2>3. \A i \in 0 .. n + 1 : g[i] = h[i]
      <3> SUFFICES ASSUME NEW i \in 0 .. n + 1 PROVE g[i] = h[i]
        OBVIOUS
      <3>1. CASE i = 0
        BY <2>2, <3>1
      <3>2. CASE i = n + 1
        <4>1. h[n + 1] = IF seq[n + 1] \in A THEN Append(g[n + 1 - 1], seq[n + 1]) ELSE g[n + 1 - 1]
          OBVIOUS
        <4> HIDE DEF g, h
        <4> QED
        BY <2>2, <3>2, <4>1
      <3>3. CASE i \in 1 .. n
        <4>1. f[i] = IF seq[i] \in A THEN Append(f[i - 1], seq[i]) ELSE f[i - 1]
          <5>1. i - 1 \in 0 .. n - 1 /\ (i - 1) + 1 = i
            BY <3>3
          <5>2. f[(i - 1) + 1] = IF seq[(i - 1) + 1] \in A THEN Append(f[i - 1], seq[(i - 1) + 1])
                                 ELSE f[i - 1]
            BY <2>1, <5>1, IsOnlyStep
          <5> QED
            BY <5>1, <5>2
        <4>2. h[i] = IF seq[i] \in A THEN Append(g[i - 1], seq[i]) ELSE g[i - 1]
          BY <3>3
        <4> HIDE DEF g, h
        <4> QED
          BY <2>2, <3>3, <4>1, <4>2
      <3> QED
        BY <3>1, <3>2, <3>3
    <2>4. g = h
      <3>1. DOMAIN g = 0 .. n + 1 /\ DOMAIN h = 0 .. n + 1
        OBVIOUS
      <3>2. g = [i \in 0 .. n + 1 |-> g[i]] /\ h = [i \in 0 .. n + 1 |-> h[i]]
        OBVIOUS
      <3> HIDE DEF g, h
      <3> QED
        BY <2>3, <3>2
    <2>5. IsOnly(g, seq, A, n + 1)
      BY <2>4 DEF IsOnly
    <2> QED
      BY <2>5
  <1> HIDE DEF S
  <1>3. Nat \subseteq S
    BY <1>1, <1>2, SetInduction
  <1> QED
    BY <1>3 DEF S

\* ... and its values depend on the elements before them only.
LEMMA IsOnlyUnique ==
    ASSUME NEW s, NEW t, NEW A, NEW n \in Nat, NEW m \in Nat, n <= m,
           \A i \in 1 .. n : s[i] = t[i],
           NEW f, NEW g, IsOnly(f, s, A, n), IsOnly(g, t, A, m)
    PROVE  f[n] = g[n]
  <1> DEFINE S == {i \in Nat : i <= n => f[i] = g[i]}
  <1>1. 0 \in S
    BY IsOnlyStep
  <1>2. ASSUME NEW i \in Nat, i \in S PROVE i + 1 \in S
    <2> SUFFICES ASSUME i + 1 <= n PROVE f[i + 1] = g[i + 1]
      OBVIOUS
    <2>1. f[i] = g[i] /\ s[i + 1] = t[i + 1]
      BY <1>2
    <2>2. f[i + 1] = IF s[i + 1] \in A THEN Append(f[i], s[i + 1]) ELSE f[i]
      BY IsOnlyStep
    <2>3. g[i + 1] = IF t[i + 1] \in A THEN Append(g[i], t[i + 1]) ELSE g[i]
      BY IsOnlyStep
    <2> QED
      BY <2>1, <2>2, <2>3
  <1> HIDE DEF S
  <1>3. Nat \subseteq S
    BY <1>1, <1>2, SetInduction
  <1> QED
    BY <1>3 DEF S

\* An appended element is kept exactly when it is in A.
LEMMA OnlyAppend ==
    ASSUME NEW T, NEW seq \in Seq(T), NEW x \in T, NEW A
    PROVE  Only(Append(seq, x), A)
             = IF x \in A THEN Append(Only(seq, A), x) ELSE Only(seq, A)
  <1> DEFINE t == Append(seq, x)
             n == Len(seq)
             f == CHOOSE f : IsOnly(f, seq, A, n)
             g == CHOOSE g : IsOnly(g, t, A, n + 1)
  <1>1. n \in Nat /\ Len(t) = n + 1 /\ t[n + 1] = x /\ \A i \in 1 .. n : seq[i] = t[i]
    OBVIOUS
  <1>2. Only(seq, A) = f[n] /\ Only(t, A) = g[n + 1]
    BY <1>1, OnlyChoose
  <1> HIDE DEF t, n
  <1>3. IsOnly(f, seq, A, n) /\ IsOnly(g, t, A, n + 1)
    <2>1. (\E h : IsOnly(h, seq, A, n)) /\ (\E h : IsOnly(h, t, A, n + 1))
      BY <1>1, n + 1 \in Nat, IsOnlyExists
    <2> QED
      BY <2>1
  <1> HIDE DEF f, g
  <1>4. f[n] = g[n]
    <2> DEFINE m == n + 1
    <2>1. n \in Nat /\ m \in Nat /\ n <= m /\ IsOnly(g, t, A, m)
      BY <1>1, <1>3
    <2> HIDE DEF m
    <2> QED
      BY <1>1, <1>3, <2>1, IsOnlyUnique
  <1>5. g[n + 1] = IF t[n + 1] \in A THEN Append(g[n], t[n + 1]) ELSE g[n]
    <2>1. n + 1 \in Nat /\ n \in 0 .. (n + 1) - 1
      BY <1>1
    <2> QED
      BY <1>3, <2>1, IsOnlyStep
  <1> QED
    BY <1>1, <1>2, <1>4, <1>5 DEF t

\* Nothing is kept of nothing.
LEMMA OnlyEmpty ==
    ASSUME NEW A
    PROVE  Only(<<>>, A) = <<>>
  <1>1. PICK h : IsOnly(h, <<>>, A, 0)
    BY IsOnlyExists, 0 \in Nat
  <1>2. Only(<<>>, A) = (CHOOSE f : IsOnly(f, <<>>, A, 0))[0]
    BY OnlyChoose
  <1> DEFINE g == CHOOSE f : IsOnly(f, <<>>, A, 0)
  <1>3. IsOnly(g, <<>>, A, 0)
    BY <1>1
  <1> HIDE DEF g
  <1>4. g[0] = <<>>
    BY <1>3, IsOnlyStep
  <1> QED
    BY <1>2, <1>4 DEF g

\* What is kept is a sequence over A.
LEMMA OnlyType ==
    ASSUME NEW T, NEW A
    PROVE  \A s \in Seq(T) : Only(s, A) \in Seq(A)
  <1> DEFINE S == {s \in Seq(T) : Only(s, A) \in Seq(A)}
  <1>1. <<>> \in S
    <2>1. <<>> \in Seq(T) /\ <<>> \in Seq(A)
      OBVIOUS
    <2> QED
      BY <2>1, OnlyEmpty
  <1>2. ASSUME NEW s \in Seq(T), NEW x \in T, s \in S PROVE Append(s, x) \in S
    <2>1. Only(Append(s, x), A) = IF x \in A THEN Append(Only(s, A), x) ELSE Only(s, A)
      BY OnlyAppend
    <2>2. Append(s, x) \in Seq(T) /\ (x \in A => Append(Only(s, A), x) \in Seq(A))
      BY <1>2
    <2> QED
      BY <1>2, <2>1, <2>2
  <1> HIDE DEF S
  <1>3. Seq(T) \subseteq S
    BY <1>1, <1>2, AppendInduction
  <1> QED
    BY <1>3 DEF S

\* Keeping commutes with concatenation.
LEMMA OnlyConcat ==
    ASSUME NEW T, NEW A, NEW s \in Seq(T)
    PROVE  \A t \in Seq(T) : Only(s \o t, A) = Only(s, A) \o Only(t, A)
  <1> DEFINE S == {t \in Seq(T) : Only(s \o t, A) = Only(s, A) \o Only(t, A)}
  <1>1. <<>> \in S
    <2>1. Only(s, A) \in Seq(A) /\ s \o <<>> = s
      BY OnlyType
    <2> QED
      BY <2>1, OnlyEmpty
  <1>2. ASSUME NEW t \in Seq(T), NEW x \in T, t \in S PROVE Append(t, x) \in S
    <2>1. s \o t \in Seq(T) /\ s \o Append(t, x) = Append(s \o t, x) /\ Append(t, x) \in Seq(T)
      OBVIOUS
    <2>2. Only(Append(t, x), A) = IF x \in A THEN Append(Only(t, A), x) ELSE Only(t, A)
      BY OnlyAppend
    <2>3. Only(Append(s \o t, x), A)
            = IF x \in A THEN Append(Only(s \o t, A), x) ELSE Only(s \o t, A)
      BY <2>1, OnlyAppend
    <2> DEFINE a == Only(s, A)
               b == Only(t, A)
    <2>4. a \in Seq(A) /\ b \in Seq(A) /\ Only(s \o t, A) = a \o b
      BY <1>2, OnlyType
    <2> HIDE DEF a, b
    <2>5. x \in A => a \o Append(b, x) = Append(a \o b, x)
      BY <2>4
    <2>6. Only(s \o Append(t, x), A) = a \o Only(Append(t, x), A)
      BY <2>1, <2>2, <2>3, <2>4, <2>5 DEF b
    <2> QED
      BY <2>1, <2>6 DEF a
  <1> HIDE DEF S
  <1>3. Seq(T) \subseteq S
    BY <1>1, <1>2, AppendInduction
  <1> QED
    BY <1>3 DEF S

\* A sequence over A keeps all its elements.
LEMMA OnlyAll ==
    ASSUME NEW T, NEW A, T \subseteq A
    PROVE  \A s \in Seq(T) : Only(s, A) = s
  <1> DEFINE S == {s \in Seq(T) : Only(s, A) = s}
  <1>1. <<>> \in S
    BY OnlyEmpty
  <1>2. ASSUME NEW s \in Seq(T), NEW x \in T, s \in S PROVE Append(s, x) \in S
    BY <1>2, OnlyAppend
  <1> HIDE DEF S
  <1>3. Seq(T) \subseteq S
    BY <1>1, <1>2, AppendInduction
  <1> QED
    BY <1>3 DEF S

\* Only what A says of the elements that occur matters.
LEMMA OnlySame ==
    ASSUME NEW T, NEW A, NEW B, \A x \in T : x \in A <=> x \in B
    PROVE  \A s \in Seq(T) : Only(s, A) = Only(s, B)
  <1> DEFINE S == {s \in Seq(T) : Only(s, A) = Only(s, B)}
  <1>1. <<>> \in S
    BY OnlyEmpty
  <1>2. ASSUME NEW s \in Seq(T), NEW x \in T, s \in S PROVE Append(s, x) \in S
    <2>1. Append(s, x) \in Seq(T) /\ Only(s, A) = Only(s, B) /\ (x \in A <=> x \in B)
      BY <1>2
    <2>2. /\ Only(Append(s, x), A) = IF x \in A THEN Append(Only(s, A), x) ELSE Only(s, A)
          /\ Only(Append(s, x), B) = IF x \in B THEN Append(Only(s, B), x) ELSE Only(s, B)
      BY OnlyAppend
    <2>3. Only(Append(s, x), A) = Only(Append(s, x), B)
      BY <2>1, <2>2
    <2> QED
      BY <2>1, <2>3
  <1> HIDE DEF S
  <1>3. Seq(T) \subseteq S
    BY <1>1, <1>2, AppendInduction
  <1> QED
    BY <1>3 DEF S

\* OnlyAppend, as a concatenation.
LEMMA OnlyNewest ==
    ASSUME NEW T, NEW A, NEW s \in Seq(T), NEW x \in T
    PROVE  Only(Append(s, x), A) = IF x \in A THEN Only(s, A) \o <<x>> ELSE Only(s, A)
  <1> DEFINE k == Only(s, A)
  <1>1. k \in Seq(A) /\ Only(Append(s, x), A) = IF x \in A THEN Append(k, x) ELSE k
    BY OnlyType, OnlyAppend
  <1> HIDE DEF k
  <1>2. x \in A => Append(k, x) = k \o <<x>>
    BY <1>1, AppendIsConcat
  <1> QED
    BY <1>1, <1>2 DEF k

LEMMA OnlyOther ==
    ASSUME NEW T, NEW A, NEW s \in Seq(T), NEW x \in T, x \notin A
    PROVE  Only(Append(s, x), A) = Only(s, A)
  BY OnlyAppend

\* The oldest element of a sequence is kept, or not, before the others.
LEMMA OnlyHead ==
    ASSUME NEW T, NEW A, NEW s \in Seq(T), s # <<>>
    PROVE  Only(s, A) = IF Head(s) \in A THEN <<Head(s)>> \o Only(Tail(s), A)
                        ELSE Only(Tail(s), A)
  <1>1. Head(s) \in T /\ Tail(s) \in Seq(T) /\ <<Head(s)>> \in Seq(T) /\ s = <<Head(s)>> \o Tail(s)
    OBVIOUS
  <1>2. Only(s, A) = Only(<<Head(s)>>, A) \o Only(Tail(s), A)
    BY <1>1, OnlyConcat
  <1>3. Only(<<Head(s)>>, A) = IF Head(s) \in A THEN <<Head(s)>> ELSE <<>>
    <2>1. <<>> \in Seq(T) /\ Append(<<>>, Head(s)) = <<Head(s)>>
      BY <1>1
    <2>2. Only(Append(<<>>, Head(s)), A)
             = IF Head(s) \in A THEN Append(Only(<<>>, A), Head(s)) ELSE Only(<<>>, A)
      BY <1>1, <2>1, OnlyAppend
    <2> QED
      BY <2>1, <2>2, OnlyEmpty
  <1>4. Only(Tail(s), A) \in Seq(A)
    BY <1>1, OnlyType
  <1>5. <<>> \o Only(Tail(s), A) = Only(Tail(s), A)
    BY <1>4, ConcatEmptySeq
  <1> QED
    BY <1>2, <1>3, <1>5

-----------------------------------------------------------------------------
(* The operator Total.                                                     *)

\* f[i] is the sum of the first i numbers of seq, for i up to n.
IsTotal(f, seq, n) ==
    f = [i \in 0 .. n |-> IF i = 0 THEN 0 ELSE f[i - 1] + seq[i]]

LEMMA TotalChoose ==
    ASSUME NEW seq
    PROVE  Total(seq) = (CHOOSE f : IsTotal(f, seq, Len(seq)))[Len(seq)]
  BY DEF Total, IsTotal

\* One step of the function.
LEMMA IsTotalStep ==
    ASSUME NEW f, NEW seq, NEW n \in Nat, IsTotal(f, seq, n)
    PROVE  f[0] = 0 /\ \A i \in 0 .. n - 1 : f[i + 1] = f[i] + seq[i + 1]
  <1> DEFINE h == [i \in 0 .. n |-> IF i = 0 THEN 0 ELSE f[i - 1] + seq[i]]
  <1>1. f = h
    BY DEF IsTotal
  <1>2. h[0] = 0
    OBVIOUS
  <1>3. ASSUME NEW i \in 0 .. n - 1 PROVE h[i + 1] = f[i] + seq[i + 1]
    <2>1. i + 1 \in 0 .. n /\ i + 1 # 0 /\ i + 1 - 1 = i
      OBVIOUS
    <2>2. h[i + 1] = f[i + 1 - 1] + seq[i + 1]
      BY <2>1
    <2> QED
      BY <2>1, <2>2
  <1> HIDE DEF h
  <1> QED
    BY <1>1, <1>2, <1>3

\* There is such a function ...
LEMMA IsTotalExists ==
    ASSUME NEW seq
    PROVE  \A n \in Nat : \E f : IsTotal(f, seq, n)
  <1> DEFINE S == {n \in Nat : \E f : IsTotal(f, seq, n)}
  <1>1. 0 \in S
    <2> DEFINE f == [i \in 0 .. 0 |-> 0]
    <2>1. IsTotal(f, seq, 0)
      BY DEF IsTotal
    <2> QED
      BY <2>1
  <1>2. ASSUME NEW n \in Nat, n \in S PROVE n + 1 \in S
    <2>1. PICK f : IsTotal(f, seq, n)
      BY <1>2
    <2> DEFINE last == f[n] + seq[n + 1]
               g == [i \in 0 .. n + 1 |-> IF i = n + 1 THEN last ELSE f[i]]
    <2>2. /\ g[0] = 0 /\ g[n + 1] = last /\ n + 1 - 1 = n /\ g[n] = f[n]
          /\ \A i \in 1 .. n : g[i] = f[i] /\ g[i - 1] = f[i - 1]
      BY <2>1 DEF IsTotal
    <2> DEFINE h == [i \in 0 .. n + 1 |-> IF i = 0 THEN 0 ELSE g[i - 1] + seq[i]]
    <2>3. \A i \in 0 .. n + 1 : g[i] = h[i]
      <3> SUFFICES ASSUME NEW i \in 0 .. n + 1 PROVE g[i] = h[i]
        OBVIOUS
      <3>1. CASE i = 0
        BY <2>2, <3>1
      <3>2. CASE i = n + 1
        <4>1. h[n + 1] = g[n + 1 - 1] + seq[n + 1]
          OBVIOUS
        <4> HIDE DEF g, h
        <4> QED
          BY <2>2, <3>2, <4>1
      <3>3. CASE i \in 1 .. n
        <4>1. f[i] = f[i - 1] + seq[i]
          <5>1. i - 1 \in 0 .. n - 1 /\ (i - 1) + 1 = i
            BY <3>3
          <5>2. f[(i - 1) + 1] = f[i - 1] + seq[(i - 1) + 1]
            BY <2>1, <5>1, IsTotalStep
          <5> QED
            BY <5>1, <5>2
        <4>2. h[i] = g[i - 1] + seq[i]
          BY <3>3
        <4> HIDE DEF g, h
        <4> QED
          BY <2>2, <3>3, <4>1, <4>2
      <3> QED
        BY <3>1, <3>2, <3>3
    <2>4. g = h
      <3>1. g = [i \in 0 .. n + 1 |-> g[i]] /\ h = [i \in 0 .. n + 1 |-> h[i]]
        OBVIOUS
      <3> HIDE DEF g, h
      <3> QED
        BY <2>3, <3>1
    <2>5. IsTotal(g, seq, n + 1)
      BY <2>4 DEF IsTotal
    <2> QED
      BY <2>5
  <1> HIDE DEF S
  <1>3. Nat \subseteq S
    BY <1>1, <1>2, SetInduction
  <1> QED
    BY <1>3 DEF S

\* ... and its values depend on the numbers before them only.
LEMMA IsTotalUnique ==
    ASSUME NEW n \in Nat, NEW m \in Nat, n <= m
    PROVE  \A s, t, f, g :
              /\ \A i \in 1 .. n : s[i] = t[i]
              /\ IsTotal(f, s, n) /\ IsTotal(g, t, m)
              => f[n] = g[n]
  <1> SUFFICES ASSUME NEW s, NEW t, NEW f, NEW g, \A i \in 1 .. n : s[i] = t[i],
                      IsTotal(f, s, n), IsTotal(g, t, m)
               PROVE  f[n] = g[n]
    OBVIOUS
  <1> DEFINE S == {i \in Nat : i <= n => f[i] = g[i]}
  <1>1. 0 \in S
    BY IsTotalStep
  <1>2. ASSUME NEW i \in Nat, i \in S PROVE i + 1 \in S
    <2> SUFFICES ASSUME i + 1 <= n PROVE f[i + 1] = g[i + 1]
      OBVIOUS
    <2>1. f[i] = g[i] /\ s[i + 1] = t[i + 1]
      BY <1>2
    <2>2. f[i + 1] = f[i] + s[i + 1] /\ g[i + 1] = g[i] + t[i + 1]
      BY IsTotalStep
    <2> QED
      BY <2>1, <2>2
  <1> HIDE DEF S
  <1>3. Nat \subseteq S
    BY <1>1, <1>2, SetInduction
  <1> QED
    BY <1>3 DEF S

LEMMA TotalAppend ==
    ASSUME NEW seq \in Seq(Nat), NEW x \in Nat
    PROVE  Total(Append(seq, x)) = Total(seq) + x
  <1> DEFINE t == Append(seq, x)
             n == Len(seq)
             f == CHOOSE f : IsTotal(f, seq, n)
             g == CHOOSE g : IsTotal(g, t, n + 1)
  <1>1. n \in Nat /\ Len(t) = n + 1 /\ t[n + 1] = x /\ \A i \in 1 .. n : seq[i] = t[i]
    OBVIOUS
  <1>2. Total(seq) = f[n] /\ Total(t) = g[n + 1]
    BY <1>1, TotalChoose
  <1> HIDE DEF t, n
  <1>3. IsTotal(f, seq, n) /\ IsTotal(g, t, n + 1)
    <2>1. (\E h : IsTotal(h, seq, n)) /\ (\E h : IsTotal(h, t, n + 1))
      BY <1>1, n + 1 \in Nat, IsTotalExists
    <2> QED
      BY <2>1
  <1> HIDE DEF f, g
  <1>4. f[n] = g[n]
    <2> DEFINE m == n + 1
    <2>1. n \in Nat /\ m \in Nat /\ n <= m /\ IsTotal(g, t, m)
      BY <1>1, <1>3
    <2> HIDE DEF m
    <2> QED
      BY <1>1, <1>3, <2>1, IsTotalUnique
  <1>5. g[n + 1] = g[n] + t[n + 1]
    <2>1. n + 1 \in Nat /\ n \in 0 .. (n + 1) - 1
      BY <1>1
    <2> QED
      BY <1>3, <2>1, IsTotalStep
  <1> QED
    BY <1>1, <1>2, <1>4, <1>5 DEF t

LEMMA TotalEmpty == Total(<<>>) = 0
  <1>1. PICK h : IsTotal(h, <<>>, 0)
    BY IsTotalExists, 0 \in Nat
  <1> DEFINE g == CHOOSE f : IsTotal(f, <<>>, 0)
  <1>2. Total(<<>>) = g[0]
    BY TotalChoose
  <1>3. IsTotal(g, <<>>, 0)
    BY <1>1
  <1> HIDE DEF g
  <1>4. g[0] = 0
    BY <1>3, IsTotalStep
  <1> QED
    BY <1>2, <1>4

LEMMA TotalZeros == \A s \in Seq({0}) : Total(s) = 0
  <1> DEFINE S == {s \in Seq({0}) : Total(s) = 0}
  <1>1. <<>> \in S
    BY TotalEmpty
  <1>2. ASSUME NEW s \in Seq({0}), NEW x \in {0}, s \in S PROVE Append(s, x) \in S
    <2>1. s \in Seq(Nat) /\ x = 0 /\ Total(s) = 0 /\ Append(s, x) \in Seq({0})
      BY <1>2
    <2>2. Total(Append(s, x)) = Total(s) + x
      BY <2>1, TotalAppend
    <2> QED
      BY <2>1, <2>2
  <1> HIDE DEF S
  <1>3. Seq({0}) \subseteq S
    BY <1>1, <1>2, AppendInduction
  <1> QED
    BY <1>3 DEF S

-----------------------------------------------------------------------------
(* The operator FlattenSeq of SequencesExt.                                *)

\* Concatenation, by name: the lemmas on the recursion need nothing of it.
Join(a, b) == a \o b

\* f[i] is the concatenation of the first i sequences of ss, for i up to n.
IsFlat(f, ss, n) ==
    f = [i \in 1 .. n |-> IF i = 1 THEN ss[i] ELSE Join(f[i - 1], ss[i])]

LEMMA FlattenChoose ==
    ASSUME NEW ss, Len(ss) # 0
    PROVE  FlattenSeq(ss) = (CHOOSE f : IsFlat(f, ss, Len(ss)))[Len(ss)]
  BY DEF FlattenSeq, IsFlat, Join

\* One step of the function.
LEMMA IsFlatStep ==
    ASSUME NEW f, NEW ss, NEW n \in Nat, IsFlat(f, ss, n)
    PROVE  /\ n > 0 => f[1] = ss[1]
           /\ \A i \in 1 .. n - 1 : f[i + 1] = Join(f[i], ss[i + 1])
  <1> DEFINE h == [i \in 1 .. n |-> IF i = 1 THEN ss[i] ELSE Join(f[i - 1], ss[i])]
  <1>1. f = h
    BY DEF IsFlat
  <1>2. n > 0 => h[1] = ss[1]
    OBVIOUS
  <1>3. ASSUME NEW i \in 1 .. n - 1 PROVE h[i + 1] = Join(f[i], ss[i + 1])
    <2>1. i + 1 \in 1 .. n /\ i + 1 # 1 /\ i + 1 - 1 = i
      OBVIOUS
    <2>2. h[i + 1] = Join(f[i + 1 - 1], ss[i + 1])
      BY <2>1
    <2> QED
      BY <2>1, <2>2
  <1> HIDE DEF h
  <1> QED
    BY <1>1, <1>2, <1>3

\* There is such a function ...
LEMMA IsFlatExists ==
    ASSUME NEW ss
    PROVE  \A n \in Nat : \E f : IsFlat(f, ss, n)
  <1> DEFINE S == {n \in Nat : \E f : IsFlat(f, ss, n)}
  <1>1. 0 \in S
    <2> DEFINE f == [i \in 1 .. 0 |-> <<>>]
    <2>1. IsFlat(f, ss, 0)
      BY DEF IsFlat
    <2> QED
      BY <2>1
  <1>2. ASSUME NEW n \in Nat, n \in S PROVE n + 1 \in S
    <2>1. PICK f : IsFlat(f, ss, n)
      BY <1>2
    <2> DEFINE last == IF n = 0 THEN ss[1] ELSE Join(f[n], ss[n + 1])
               g == [i \in 1 .. n + 1 |-> IF i = n + 1 THEN last ELSE f[i]]
    <2>2. /\ g[n + 1] = last /\ n + 1 - 1 = n /\ (n # 0 => g[n] = f[n] /\ g[1] = f[1])
          /\ \A i \in 2 .. n : g[i] = f[i] /\ g[i - 1] = f[i - 1]
      BY <2>1 DEF IsFlat
    <2> DEFINE h == [i \in 1 .. n + 1 |-> IF i = 1 THEN ss[i] ELSE Join(g[i - 1], ss[i])]
    <2>3. \A i \in 1 .. n + 1 : g[i] = h[i]
      <3> SUFFICES ASSUME NEW i \in 1 .. n + 1 PROVE g[i] = h[i]
        OBVIOUS
      <3>1. CASE i = 1
        <4>1. h[1] = ss[1] /\ n >= 0
          OBVIOUS
        <4>2. n > 0 => f[1] = ss[1]
          BY <2>1, IsFlatStep
        <4>3. n = 0 => last = ss[1] /\ n + 1 = 1
          OBVIOUS
        <4> HIDE DEF g, h, last
        <4> QED
          BY <2>2, <3>1, <4>1, <4>2, <4>3
      <3>2. CASE i = n + 1 /\ i # 1
        <4>1. h[n + 1] = Join(g[n + 1 - 1], ss[n + 1]) /\ n # 0 /\ last = Join(f[n], ss[n + 1])
          BY <3>2
        <4> HIDE DEF g, h, last
        <4> QED
          BY <2>2, <3>2, <4>1
      <3>3. CASE i \in 2 .. n
        <4>1. f[i] = Join(f[i - 1], ss[i])
          <5>1. i - 1 \in 1 .. n - 1 /\ (i - 1) + 1 = i
            BY <3>3
          <5>2. f[(i - 1) + 1] = Join(f[i - 1], ss[(i - 1) + 1])
            BY <2>1, <5>1, IsFlatStep
          <5> QED
            BY <5>1, <5>2
        <4>2. h[i] = Join(g[i - 1], ss[i])
          BY <3>3
        <4> HIDE DEF g, h
        <4> QED
          BY <2>2, <3>3, <4>1, <4>2
      <3> QED
        BY <3>1, <3>2, <3>3
    <2>4. g = h
      <3>1. g = [i \in 1 .. n + 1 |-> g[i]] /\ h = [i \in 1 .. n + 1 |-> h[i]]
        OBVIOUS
      <3> HIDE DEF g, h
      <3> QED
        BY <2>3, <3>1
    <2>5. IsFlat(g, ss, n + 1)
      BY <2>4 DEF IsFlat
    <2> QED
      BY <2>5
  <1> HIDE DEF S
  <1>3. Nat \subseteq S
    BY <1>1, <1>2, SetInduction
  <1> QED
    BY <1>3 DEF S

\* ... and its values depend on the sequences before them only.
LEMMA IsFlatUnique ==
    ASSUME NEW n \in Nat, NEW m \in Nat, n <= m
    PROVE  \A s, t, f, g :
              /\ \A i \in 1 .. n : s[i] = t[i]
              /\ IsFlat(f, s, n) /\ IsFlat(g, t, m) /\ n > 0
              => f[n] = g[n]
  <1> SUFFICES ASSUME NEW s, NEW t, NEW f, NEW g, \A i \in 1 .. n : s[i] = t[i],
                      IsFlat(f, s, n), IsFlat(g, t, m), n > 0
               PROVE  f[n] = g[n]
    OBVIOUS
  <1> DEFINE S == {i \in Nat : i \in 1 .. n => f[i] = g[i]}
  <1>1. 0 \in S
    OBVIOUS
  <1>2. ASSUME NEW i \in Nat, i \in S PROVE i + 1 \in S
    <2> SUFFICES ASSUME i + 1 <= n PROVE f[i + 1] = g[i + 1]
      OBVIOUS
    <2>1. CASE i = 0
      <3>1. f[1] = s[1] /\ g[1] = t[1] /\ s[1] = t[1]
        BY <2>1, m > 0, IsFlatStep
      <3> QED
        BY <2>1, <3>1
    <2>2. CASE i > 0
      <3>1. f[i] = g[i] /\ s[i + 1] = t[i + 1]
        BY <1>2, <2>2
      <3>2. f[i + 1] = Join(f[i], s[i + 1]) /\ g[i + 1] = Join(g[i], t[i + 1])
        BY <2>2, IsFlatStep
      <3> QED
        BY <3>1, <3>2
    <2> QED
      BY <2>1, <2>2
  <1> HIDE DEF S
  <1>3. Nat \subseteq S
    BY <1>1, <1>2, SetInduction
  <1> QED
    BY <1>3 DEF S

LEMMA FlattenEmpty == FlattenSeq(<<>>) = <<>>
  BY DEF FlattenSeq

LEMMA FlattenAppend ==
    ASSUME NEW T, NEW ss \in Seq(T), NEW s \in T, NEW U, s \in Seq(U)
    PROVE  FlattenSeq(Append(ss, s)) = FlattenSeq(ss) \o s
  <1> DEFINE t == Append(ss, s)
             n == Len(ss)
             f == CHOOSE f : IsFlat(f, ss, n)
             g == CHOOSE g : IsFlat(g, t, n + 1)
  <1>1. /\ n \in Nat /\ Len(t) = n + 1 /\ t[n + 1] = s /\ \A i \in 1 .. n : ss[i] = t[i]
        /\ n = 0 => ss = <<>>
    OBVIOUS
  <1>2. FlattenSeq(t) = g[n + 1] /\ (n # 0 => FlattenSeq(ss) = f[n])
    <2>1. Len(t) # 0 /\ (n # 0 => Len(ss) # 0)
      BY <1>1
    <2>2. FlattenSeq(t) = (CHOOSE x : IsFlat(x, t, Len(t)))[Len(t)]
      BY <2>1, FlattenChoose
    <2> QED
      BY <1>1, <2>1, <2>2, FlattenChoose
  <1> HIDE DEF t, n
  <1>3. IsFlat(f, ss, n) /\ IsFlat(g, t, n + 1)
    <2>1. (\E h : IsFlat(h, ss, n)) /\ (\E h : IsFlat(h, t, n + 1))
      BY <1>1, n + 1 \in Nat, IsFlatExists
    <2> QED
      BY <2>1
  <1> HIDE DEF f, g
  <1>4. CASE n = 0
    <2>1. n + 1 \in Nat /\ n + 1 > 0 /\ n + 1 = 1
      BY <1>4
    <2>2. g[1] = t[1]
      BY <1>3, <2>1, IsFlatStep
    <2>3. FlattenSeq(ss) = <<>> /\ <<>> \o s = s
      BY <1>1, <1>4, FlattenEmpty, ConcatEmptySeq
    <2> QED
      BY <1>1, <1>2, <2>1, <2>2, <2>3 DEF t
  <1>5. CASE n # 0
    <2>1. f[n] = g[n]
      <3> DEFINE m == n + 1
      <3>1. n \in Nat /\ m \in Nat /\ n <= m /\ IsFlat(g, t, m) /\ n > 0
        BY <1>1, <1>3, <1>5
      <3> HIDE DEF m
      <3> QED
        BY <1>1, <1>3, <3>1, IsFlatUnique
    <2>2. g[n + 1] = Join(g[n], t[n + 1])
      <3>1. n + 1 \in Nat /\ n \in 1 .. (n + 1) - 1
        BY <1>1, <1>5
      <3> QED
        BY <1>3, <3>1, IsFlatStep
    <2> QED
      BY <1>1, <1>2, <1>5, <2>1, <2>2 DEF t, Join
  <1> QED
    BY <1>4, <1>5

LEMMA FlattenType ==
    ASSUME NEW U
    PROVE  \A ss \in Seq(Seq(U)) : FlattenSeq(ss) \in Seq(U)
  <1> DEFINE S == {ss \in Seq(Seq(U)) : FlattenSeq(ss) \in Seq(U)}
  <1>1. <<>> \in S
    <2>1. <<>> \in Seq(Seq(U)) /\ <<>> \in Seq(U)
      OBVIOUS
    <2> QED
      BY <2>1, FlattenEmpty
  <1>2. ASSUME NEW ss \in Seq(Seq(U)), NEW s \in Seq(U), ss \in S PROVE Append(ss, s) \in S
    <2>1. FlattenSeq(ss) \in Seq(U) /\ Append(ss, s) \in Seq(Seq(U))
      BY <1>2
    <2>2. FlattenSeq(Append(ss, s)) = FlattenSeq(ss) \o s
      BY FlattenAppend
    <2>3. FlattenSeq(ss) \o s \in Seq(U)
      <3> DEFINE a == FlattenSeq(ss)
      <3>1. a \in Seq(U)
        BY <2>1
      <3> HIDE DEF a
      <3>2. a \o s \in Seq(U)
        BY <3>1, ConcatProperties
      <3> QED
        BY <3>2 DEF a
    <2> QED
      BY <2>1, <2>2, <2>3, Zenon
  <1> HIDE DEF S
  <1>3. Seq(Seq(U)) \subseteq S
    BY <1>1, <1>2, AppendInduction
  <1> QED
    BY <1>3 DEF S

LEMMA FlattenEmpties == \A ss \in Seq({<<>>}) : FlattenSeq(ss) = <<>>
  <1> DEFINE S == {ss \in Seq({<<>>}) : FlattenSeq(ss) = <<>>}
  <1>1. <<>> \in S
    BY FlattenEmpty
  <1>2. ASSUME NEW ss \in Seq({<<>>}), NEW s \in {<<>>}, ss \in S PROVE Append(ss, s) \in S
    <2>1. s = <<>> /\ FlattenSeq(ss) = <<>> /\ Append(ss, s) \in Seq({<<>>}) /\ s \in Seq({})
      BY <1>2
    <2>2. FlattenSeq(Append(ss, s)) = FlattenSeq(ss) \o s
      BY <2>1, FlattenAppend
    <2>3. <<>> \o <<>> = <<>>
      OBVIOUS
    <2> QED
      BY <2>1, <2>2, <2>3
  <1> HIDE DEF S
  <1>3. Seq({<<>>}) \subseteq S
    BY <1>1, <1>2, AppendInduction
  <1> QED
    BY <1>3 DEF S

-----------------------------------------------------------------------------
(* Appending an element, and taking it off again.                          *)

LEMMA Appended ==
    ASSUME NEW T, NEW h \in Seq(T), NEW x \in T
    PROVE  LET g == Append(h, x)  n == Len(h) + 1 IN
             /\ g \in Seq(T) /\ Len(g) = n
             /\ DOMAIN h = 1 .. Len(h) /\ DOMAIN g = 1 .. n /\ DOMAIN g = DOMAIN h \cup {n}
             /\ n \in Nat /\ \A i \in DOMAIN h : i \in Nat /\ i < n /\ g[i] = h[i] /\ h[i] \in T
             /\ g[n] = x
  OBVIOUS

LEMMA FrontAppend ==
    ASSUME NEW T, NEW s \in Seq(T), NEW x \in T
    PROVE  Front(Append(s, x)) = s
  <1> DEFINE n == Len(s)
             a == Append(s, x)
  <1>1. n \in Nat /\ a \in Seq(T) /\ Len(a) - 1 = n /\ \A i \in 1 .. n : a[i] = s[i]
    OBVIOUS
  <1>2. Front(a) = SubSeq(a, 1, n)
    BY <1>1 DEF Front
  <1>3. n <= Len(a)
    BY <1>1
  <1>4. /\ SubSeq(a, 1, n) \in Seq(T) /\ Len(SubSeq(a, 1, n)) = n
        /\ \A i \in 1 .. n : SubSeq(a, 1, n)[i] = a[i]
    <2> HIDE DEF a, n
    <2> QED
      BY <1>1, <1>3
  <1> DEFINE b == SubSeq(a, 1, n)
  <1> HIDE DEF a, b
  <1>5. b \in Seq(T) /\ Len(b) = Len(s) /\ \A i \in 1 .. Len(b) : b[i] = s[i]
    BY <1>1, <1>4 DEF b
  <1>6. b = s
    BY <1>5, SeqEqual
  <1> QED
    BY <1>2, <1>6 DEF a, b

LEMMA FrontLast ==
    ASSUME NEW T, NEW s \in Seq(T), s # <<>>
    PROVE  Front(s) \in Seq(T) /\ s[Len(s)] \in T /\ s = Append(Front(s), s[Len(s)])
  <1> DEFINE n == Len(s)
             x == s[n]
             f == SubSeq(s, 1, n - 1)
             a == Append(f, x)
  <1>1. n \in Nat /\ n # 0 /\ x \in T /\ Front(s) = f
    BY DEF Front
  <1>2. n - 1 \in Nat /\ n - 1 <= n
    BY <1>1
  <1> HIDE DEF x
  <1>3. f \in Seq(T) /\ Len(f) = n - 1 /\ \A i \in 1 .. n - 1 : f[i] = s[i]
    <2> DEFINE m == n - 1
    <2>1. m \in Nat /\ m <= Len(s)
      BY <1>2
    <2> HIDE DEF m
    <2>2. /\ SubSeq(s, 1, m) \in Seq(T) /\ Len(SubSeq(s, 1, m)) = m
          /\ \A i \in 1 .. m : SubSeq(s, 1, m)[i] = s[i]
      BY <2>1
    <2> QED
      BY <2>2 DEF m
  <1> HIDE DEF f
  <1>4. a \in Seq(T) /\ Len(a) = n - 1 + 1 /\ a[n - 1 + 1] = x /\ \A i \in 1 .. n - 1 : a[i] = f[i]
    BY <1>1, <1>2, <1>3
  <1> HIDE DEF a, n
  <1>5. Len(a) = n /\ \A i \in 1 .. n : a[i] = s[i]
    <2> SUFFICES ASSUME NEW i \in 1 .. n PROVE Len(a) = n /\ a[i] = s[i]
      BY <1>1, <1>2, <1>4
    <2>1. n - 1 + 1 = n /\ (i = n \/ i \in 1 .. n - 1)
      BY <1>1
    <2> QED
      BY <1>3, <1>4, <2>1 DEF x
  <1>6. s = a
    BY <1>4, <1>5, SeqEqual DEF n
  <1> QED
    BY <1>1, <1>3, <1>6 DEF a, x, n

-----------------------------------------------------------------------------
(* A value moves from one place of a pipeline to the next.                 *)

LEMMA MoveAcross ==
    ASSUME NEW T, NEW a \in Seq(T), NEW b \in Seq(T), NEW x \in T
    PROVE  a \o (<<x>> \o b) = Append(a, x) \o b
  <1>1. <<x>> \in Seq(T) /\ Append(a, x) = a \o <<x>>
    BY AppendIsConcat
  <1>2. (a \o <<x>>) \o b = a \o (<<x>> \o b)
    BY <1>1, ConcatAssociative
  <1> QED
    BY <1>1, <1>2

LEMMA ConcatAppend ==
    ASSUME NEW T, NEW a \in Seq(T), NEW b \in Seq(T), NEW x \in T
    PROVE  a \o Append(b, x) = Append(a \o b, x)
  <1> DEFINE c == a \o b
  <1>1. <<x>> \in Seq(T) /\ c \in Seq(T) /\ Append(b, x) = b \o <<x>>
    BY AppendIsConcat
  <1>2. (a \o b) \o <<x>> = a \o (b \o <<x>>)
    BY <1>1, ConcatAssociative
  <1>3. Append(c, x) = c \o <<x>>
    <2> HIDE DEF c
    <2> QED
      BY <1>1, AppendIsConcat
  <1> QED
    BY <1>1, <1>2, <1>3
=============================================================================
