-------------------------- MODULE RecordReplayProofs --------------------------
(* The data path from a lossy capture to the replay: whatever commands and *)
(* replies there were, wherever messages were lost or cut, and in whatever *)
(* order the connections were flushed.                                     *)
EXTENDS RecordReplay, ChannelTheorems

-----------------------------------------------------------------------------
(* The parts a sequence was joined from.                                   *)

\* A nonempty set of naturals has a least element, which Min returns.
LEMMA LeastOfNat ==
    ASSUME NEW S, S \subseteq Nat, S # {}
    PROVE  Min(S) \in S /\ \A j \in S : Min(S) <= j
  <1>1. \E n \in S : \A j \in S : n <= j
    <2> SUFFICES ASSUME \A n \in S : \E j \in S : ~(n <= j) PROVE FALSE
      OBVIOUS
    <2> DEFINE T == {n \in Nat : \A j \in 0 .. n : j \notin S}
    <2>1. 0 \in T
      OBVIOUS
    <2>2. ASSUME NEW n \in Nat, n \in T PROVE n + 1 \in T
      <3>1. \A j \in 0 .. n : j \notin S
        BY <2>2
      <3>2. n + 1 \notin S
        BY <3>1
      <3> QED
        BY <3>1, <3>2
    <2> HIDE DEF T
    <2>3. Nat \subseteq T
      BY <2>1, <2>2, SetInduction
    <2>4. PICK n \in Nat : n \in S
      OBVIOUS
    <2>5. \A j \in 0 .. n : j \notin S
      BY <2>3 DEF T
    <2> QED
      BY <2>4, <2>5
  <1> QED
    BY <1>1 DEF Min

\* A function on 1 .. n is a sequence.
LEMMA FunctionSeq ==
    ASSUME NEW U, NEW n \in Nat, NEW f \in [1 .. n -> U]
    PROVE  f \in Seq(U) /\ Len(f) = n /\ DOMAIN f = 1 .. n
  OBVIOUS

\* Every element of the joined sequence is an element of a part.
LEMMA FlattenElement ==
    ASSUME NEW U, NEW ss \in Seq(Seq(U)), NEW j \in DOMAIN FlattenSeq(ss)
    PROVE  \E i \in DOMAIN ss : \E k \in DOMAIN ss[i] : FlattenSeq(ss)[j] = ss[i][k]
  <1> DEFINE From(x, rr) == \E i \in DOMAIN rr : \E k \in DOMAIN rr[i] : x = rr[i][k]
             S == {rr \in Seq(Seq(U)) : \A n \in DOMAIN FlattenSeq(rr) : From(FlattenSeq(rr)[n], rr)}
  <1>1. <<>> \in S
    BY FlattenEmpty
  <1>2. ASSUME NEW rr \in Seq(Seq(U)), NEW s \in Seq(U), rr \in S PROVE Append(rr, s) \in S
    <2> DEFINE tt == Append(rr, s)
               a == FlattenSeq(rr)
    <2>1. FlattenSeq(tt) = a \o s /\ a \in Seq(U)
      BY FlattenAppend, FlattenType
    <2>2. /\ tt \in Seq(Seq(U)) /\ DOMAIN tt = DOMAIN rr \cup {Len(rr) + 1}
          /\ \A i \in DOMAIN rr : tt[i] = rr[i]
          /\ tt[Len(rr) + 1] = s
      BY Appended
    <2>3. \A n \in DOMAIN a : From(a[n], rr)
      BY <1>2
    <2> HIDE DEF tt, a
    <2>4. ASSUME NEW n \in DOMAIN (a \o s) PROVE From((a \o s)[n], tt)
      <3>1. n \in 1 .. Len(a) + Len(s)
        BY <2>1, ConcatProperties
      <3>2. CASE n <= Len(a)
        <4>1. n \in DOMAIN a /\ (a \o s)[n] = a[n]
          BY <2>1, <3>1, <3>2, ConcatProperties
        <4> QED
          BY <2>2, <2>3, <4>1
      <3>3. CASE ~(n <= Len(a))
        <4>1. n - Len(a) \in DOMAIN s /\ (a \o s)[n] = s[n - Len(a)]
          BY <2>1, <3>1, <3>3, ConcatProperties
        <4> QED
          BY <2>2, <4>1
      <3> QED
        BY <3>2, <3>3
    <2> HIDE DEF From
    <2>5. \A n \in DOMAIN FlattenSeq(tt) : From(FlattenSeq(tt)[n], tt)
      BY <2>1, <2>4
    <2> QED
      BY <2>2, <2>5 DEF tt
  <1> HIDE DEF S
  <1>3. Seq(Seq(U)) \subseteq S
    BY <1>1, <1>2, AppendInduction
  <1> QED
    BY <1>3 DEF S

\* As long as every part is one element, positions are kept.
LEMMA FlattenPrefix ==
    ASSUME NEW U, NEW ss \in Seq(Seq(U)), NEW f \in 0 .. Len(ss), \A i \in 1 .. f : Len(ss[i]) = 1
    PROVE  /\ f <= Len(FlattenSeq(ss)) /\ (f = Len(ss) => Len(FlattenSeq(ss)) = f)
           /\ \A i \in 1 .. f : FlattenSeq(ss)[i] = ss[i][1]
  <1> DEFINE Kept(rr, n) == /\ n <= Len(FlattenSeq(rr)) /\ (n = Len(rr) => Len(FlattenSeq(rr)) = n)
                            /\ \A i \in 1 .. n : FlattenSeq(rr)[i] = rr[i][1]
             S == {rr \in Seq(Seq(U)) : \A n \in 0 .. Len(rr) :
                      (\A i \in 1 .. n : Len(rr[i]) = 1) => Kept(rr, n)}
  <1>1. <<>> \in S
    BY FlattenEmpty
  <1>2. ASSUME NEW rr \in Seq(Seq(U)), NEW s \in Seq(U), rr \in S PROVE Append(rr, s) \in S
    <2> DEFINE tt == Append(rr, s)
               a == FlattenSeq(rr)
               m == Len(rr)
    <2>1. FlattenSeq(tt) = a \o s /\ a \in Seq(U)
      BY FlattenAppend, FlattenType
    <2>2. /\ tt \in Seq(Seq(U)) /\ Len(tt) = m + 1 /\ m \in Nat
          /\ \A i \in 1 .. m : tt[i] = rr[i]
          /\ tt[m + 1] = s
      BY Appended
    <2>3. \A n \in 0 .. m : (\A i \in 1 .. n : Len(rr[i]) = 1) =>
              /\ n <= Len(a) /\ (n = m => Len(a) = n) /\ \A i \in 1 .. n : a[i] = rr[i][1]
      BY <1>2
    <2>4. /\ Len(a \o s) = Len(a) + Len(s) /\ Len(a) \in Nat /\ Len(s) \in Nat
          /\ \A i \in 1 .. Len(a) : (a \o s)[i] = a[i]
          /\ \A i \in Len(a) + 1 .. Len(a) + Len(s) : (a \o s)[i] = s[i - Len(a)]
      BY <2>1, ConcatProperties
    <2> HIDE DEF tt, a, m
    <2>5. ASSUME NEW n \in 0 .. m + 1, \A i \in 1 .. n : Len(tt[i]) = 1
          PROVE  /\ n <= Len(a \o s) /\ (n = m + 1 => Len(a \o s) = n)
                 /\ \A i \in 1 .. n : (a \o s)[i] = tt[i][1]
      <3>1. CASE n <= m
        <4>1. n \in 0 .. m /\ \A i \in 1 .. n : tt[i] = rr[i] /\ Len(rr[i]) = 1
          BY <2>2, <2>5, <3>1
        <4>2. n <= Len(a) /\ \A i \in 1 .. n : a[i] = rr[i][1]
          BY <2>3, <4>1
        <4>3. n <= Len(a \o s) /\ n # m + 1
          BY <2>2, <2>4, <3>1, <4>2
        <4>4. ASSUME NEW i \in 1 .. n PROVE (a \o s)[i] = tt[i][1]
          <5>1. i \in 1 .. Len(a)
            BY <2>4, <4>2
          <5>2. (a \o s)[i] = a[i]
            BY <2>4, <5>1
          <5> QED
            BY <4>1, <4>2, <5>2
        <4> QED
          BY <4>3, <4>4
      <3>2. CASE n = m + 1
        <4>0. m \in 0 .. m /\ \A i \in 1 .. m : tt[i] = rr[i] /\ Len(rr[i]) = 1
          BY <2>2, <2>5, <3>2
        <4>1. Len(a) = m /\ \A i \in 1 .. m : a[i] = rr[i][1]
          BY <2>3, <4>0
        <4>2. Len(s) = 1
          BY <2>2, <2>5, <3>2
        <4>3. (a \o s)[m + 1] = s[1]
          BY <2>2, <2>4, <4>1, <4>2
        <4>4. ASSUME NEW i \in 1 .. m PROVE (a \o s)[i] = tt[i][1]
          BY <2>4, <4>0, <4>1
        <4>5. Len(a \o s) = m + 1
          BY <2>4, <4>1, <4>2
        <4>6. \A i \in 1 .. n : i \in 1 .. m \/ i = m + 1
          BY <2>2, <3>2
        <4>7. \A i \in 1 .. n : (a \o s)[i] = tt[i][1]
          BY <2>2, <4>3, <4>4, <4>6
        <4> QED
          BY <2>2, <3>2, <4>5, <4>7
      <3> QED
        BY <2>2, <3>1, <3>2
    <2> QED
      BY <2>1, <2>2, <2>5 DEF tt
  <1> HIDE DEF S
  <1>3. Seq(Seq(U)) \subseteq S
    BY <1>1, <1>2, AppendInduction
  <1> QED
    BY <1>3 DEF S

\* x is the first element of s that is in M.
IsFirst(x, s, M) == \E n \in DOMAIN s : s[n] = x /\ x \in M /\ \A i \in 1 .. n - 1 : s[i] \notin M

\* What is first stays first when elements are added at the end.
LEMMA FirstOfConcat ==
    ASSUME NEW U, NEW a \in Seq(U), NEW b \in Seq(U), NEW M, NEW x
    PROVE  /\ IsFirst(x, a, M) => IsFirst(x, a \o b, M)
           /\ (\A i \in DOMAIN a : a[i] \notin M) /\ IsFirst(x, b, M) => IsFirst(x, a \o b, M)
  <1> DEFINE c == a \o b
             k == Len(a)
             m == Len(b)
  <1>1. /\ c \in Seq(U) /\ Len(c) = k + m /\ k \in Nat /\ m \in Nat
        /\ \A i \in 1 .. k : c[i] = a[i]
        /\ \A i \in k + 1 .. k + m : c[i] = b[i - k]
    BY ConcatProperties
  <1>2. DOMAIN a = 1 .. k /\ DOMAIN b = 1 .. m /\ DOMAIN c = 1 .. k + m
    BY <1>1
  <1> HIDE DEF c, k, m
  <1>3. ASSUME IsFirst(x, a, M) PROVE IsFirst(x, c, M)
    <2>1. PICK n \in 1 .. k : a[n] = x /\ x \in M /\ \A i \in 1 .. n - 1 : a[i] \notin M
      BY <1>2, <1>3 DEF IsFirst
    <2>2. n \in DOMAIN c /\ c[n] = x /\ \A i \in 1 .. n - 1 : c[i] \notin M
      BY <1>1, <1>2, <2>1
    <2> QED
      BY <2>1, <2>2 DEF IsFirst
  <1>4. ASSUME \A i \in DOMAIN a : a[i] \notin M, IsFirst(x, b, M) PROVE IsFirst(x, c, M)
    <2>1. PICK n \in 1 .. m : b[n] = x /\ x \in M /\ \A i \in 1 .. n - 1 : b[i] \notin M
      BY <1>2, <1>4 DEF IsFirst
    <2>2. k + n \in DOMAIN c /\ c[k + n] = x
      BY <1>1, <1>2, <2>1
    <2>3. ASSUME NEW i \in 1 .. (k + n) - 1 PROVE c[i] \notin M
      <3>1. CASE i <= k
        <4>1. i \in 1 .. k
          BY <1>1, <3>1
        <4> QED
          BY <1>1, <1>2, <1>4, <4>1
      <3>2. CASE ~(i <= k)
        <4>1. i - k \in 1 .. n - 1 /\ c[i] = b[i - k]
          BY <1>1, <2>1, <3>2
        <4> QED
          BY <2>1, <4>1
      <3> QED
        BY <3>1, <3>2
    <2> QED
      BY <2>1, <2>2, <2>3 DEF IsFirst
  <1> QED
    BY <1>3, <1>4 DEF c

\* The first element in M of the joined sequence is that of the first part
\* that has one.
LEMMA FlattenFirst ==
    ASSUME NEW U, NEW ss \in Seq(Seq(U)), NEW M, NEW x, NEW p \in DOMAIN ss, IsFirst(x, ss[p], M),
           \A i \in 1 .. p - 1 : \A k \in DOMAIN ss[i] : ss[i][k] \notin M
    PROVE  IsFirst(x, FlattenSeq(ss), M)
  <1> DEFINE At(rr, q) == /\ IsFirst(x, rr[q], M)
                          /\ \A i \in 1 .. q - 1 : \A k \in DOMAIN rr[i] : rr[i][k] \notin M
             S == {rr \in Seq(Seq(U)) : \A q \in DOMAIN rr : At(rr, q) => IsFirst(x, FlattenSeq(rr), M)}
  <1>1. <<>> \in S
    OBVIOUS
  <1>2. ASSUME NEW rr \in Seq(Seq(U)), NEW s \in Seq(U), rr \in S PROVE Append(rr, s) \in S
    <2> DEFINE tt == Append(rr, s)
               a == FlattenSeq(rr)
               m == Len(rr)
    <2>1. FlattenSeq(tt) = a \o s /\ a \in Seq(U)
      BY FlattenAppend, FlattenType
    <2>2. /\ tt \in Seq(Seq(U)) /\ DOMAIN tt = 1 .. m + 1 /\ m \in Nat /\ DOMAIN rr = 1 .. m
          /\ \A i \in 1 .. m : tt[i] = rr[i]
          /\ tt[m + 1] = s
      BY Appended
    <2>3. \A q \in DOMAIN rr : At(rr, q) => IsFirst(x, a, M)
      BY <1>2
    <2>4. \A n \in DOMAIN a : \E i \in DOMAIN rr : \E k \in DOMAIN rr[i] : a[n] = rr[i][k]
      BY FlattenElement
    <2> HIDE DEF tt, a, m
    <2>5. ASSUME NEW q \in DOMAIN tt, At(tt, q) PROVE IsFirst(x, a \o s, M)
      <3>1. CASE q \in 1 .. m
        <4>1. At(rr, q)
          BY <2>2, <2>5, <3>1
        <4> HIDE DEF At
        <4>2. IsFirst(x, a, M)
          BY <2>2, <2>3, <3>1, <4>1
        <4> QED
          BY <2>1, <4>2, FirstOfConcat
      <3>2. CASE q = m + 1
        <4>1. IsFirst(x, s, M) /\ \A i \in 1 .. m : \A k \in DOMAIN rr[i] : rr[i][k] \notin M
          BY <2>2, <2>5, <3>2
        <4>2. \A n \in DOMAIN a : a[n] \notin M
          BY <2>2, <2>4, <4>1
        <4> QED
          BY <2>1, <4>1, <4>2, FirstOfConcat
      <3> QED
        BY <2>2, <3>1, <3>2
    <2> HIDE DEF At
    <2>6. \A q \in DOMAIN tt : At(tt, q) => IsFirst(x, FlattenSeq(tt), M)
      BY <2>1, <2>5
    <2> QED
      BY <2>2, <2>6 DEF tt
  <1> HIDE DEF S
  <1>3. Seq(Seq(U)) \subseteq S
    BY <1>1, <1>2, AppendInduction
  <1>4. At(ss, p)
    OBVIOUS
  <1> QED
    BY <1>3, <1>4 DEF S

-----------------------------------------------------------------------------
(* What capturing leaves of one side of a connection, and what the parser  *)
(* makes of it.                                                            *)

GarbledCommand == Command(<< <<Garbled>> >>)
GarbledValue == Value("bulk", <<Garbled>>)
Broken == {Junk, GarbledCommand, GarbledValue}

\* x is a message of the side, or what is left of one.
Remains(x, msgs, c, side, dmg) ==
    \/ \E i \in DOMAIN msgs : x = msgs[i]
    \/ x = Junk
    \/ /\ x = GarbledValue
       /\ \E i \in DOMAIN msgs :
             \/ msgs[i].t # "array"
             \/ <<c, side, i>> \in DOMAIN dmg /\ dmg[<<c, side, i>>] = "headless"
    \/ x = GarbledCommand /\ \E i \in DOMAIN msgs : msgs[i].t = "array"

\* What is left of message i.
Part(msgs, c, side, dmg, i) ==
    IF <<c, side, i>> \in DOMAIN dmg THEN CapturedAs(msgs[i], dmg[<<c, side, i>>]) ELSE << msgs[i] >>

PartsOf(parts, msgs, c, side, dmg) ==
    /\ Len(parts) = Len(msgs)
    /\ \A i \in 1 .. Len(msgs) : parts[i] = Part(msgs, c, side, dmg, i)
    /\ \A i \in 1 .. Len(msgs) :
          parts[i] = <<>> \/ \E x : parts[i] = <<x>> /\ Remains(x, msgs, c, side, dmg)

\* A message is captured as nothing or as one of these.
LEMMA CapturedPart ==
    ASSUME NEW m, NEW fault
    PROVE  \/ CapturedAs(m, fault) = <<>>
           \/ CapturedAs(m, fault) = <<Junk>> /\ fault = "cut"
           \/ CapturedAs(m, fault) = <<GarbledValue>> /\ (fault = "headless" \/ m.t # "array")
           \/ CapturedAs(m, fault) = <<GarbledCommand>> /\ m.t = "array"
  <1>1. CASE fault = "lost"
    BY <1>1 DEF CapturedAs
  <1>2. CASE fault = "headless"
    BY <1>2 DEF CapturedAs, GarbledValue
  <1>3. CASE fault = "cut"
    BY <1>3 DEF CapturedAs
  <1>4. CASE fault \notin {"lost", "headless", "cut"}
    BY <1>4 DEF CapturedAs, GarbledValue, GarbledCommand
  <1> QED
    BY <1>1, <1>2, <1>3, <1>4

\* The buffer is joined from one part for each message.
LEMMA BufferParts ==
    ASSUME NEW T, NEW msgs \in Seq(T), NEW c, NEW side, NEW dmg
    PROVE  \E parts \in Seq(Seq(T \cup Broken)) :
              Buffer(msgs, c, side, dmg) = FlattenSeq(parts) /\ PartsOf(parts, msgs, c, side, dmg)
  <1> DEFINE part(i) == Part(msgs, c, side, dmg, i)
             parts == [i \in DOMAIN msgs |-> part(i)]
             Fits(s) == s = <<>> \/ \E x \in T \cup Broken : s = <<x>> /\ Remains(x, msgs, c, side, dmg)
  <1>1. Buffer(msgs, c, side, dmg) = FlattenSeq(parts)
    BY Zenon DEF Buffer, Part
  <1>2. ASSUME NEW i \in 1 .. Len(msgs) PROVE Fits(part(i))
    <2>0. i \in DOMAIN msgs /\ msgs[i] \in T
      OBVIOUS
    <2>1. CASE <<c, side, i>> \in DOMAIN dmg
      <3> DEFINE fault == dmg[<<c, side, i>>]
                 s == CapturedAs(msgs[i], fault)
      <3>1. part(i) = s
        BY <2>1, Zenon DEF Part
      <3>2. \/ s = <<>>
            \/ s = <<Junk>>
            \/ s = <<GarbledValue>> /\ (fault = "headless" \/ msgs[i].t # "array")
            \/ s = <<GarbledCommand>> /\ msgs[i].t = "array"
        BY CapturedPart, Zenon
      <3> HIDE DEF s, part
      <3>3. Fits(s)
        BY <2>0, <2>1, <3>2 DEF Remains, Broken
      <3> QED
        BY <3>1, <3>3
    <2>2. CASE <<c, side, i>> \notin DOMAIN dmg
      <3>1. part(i) = <<msgs[i]>>
        BY <2>2 DEF Part
      <3> HIDE DEF part
      <3>2. Remains(msgs[i], msgs, c, side, dmg)
        BY <2>0 DEF Remains
      <3> QED
        BY <2>0, <3>1, <3>2
    <2> QED
      BY <2>1, <2>2
  <1> HIDE DEF part
  <1>3. \A i \in 1 .. Len(msgs) : part(i) \in Seq(T \cup Broken)
    <2> SUFFICES ASSUME NEW i \in 1 .. Len(msgs) PROVE part(i) \in Seq(T \cup Broken)
      OBVIOUS
    <2> HIDE DEF parts
    <2>1. part(i) = <<>> \/ \E x \in T \cup Broken : part(i) = <<x>>
      BY <1>2
    <2>2. <<>> \in Seq(T \cup Broken) /\ \A x \in T \cup Broken : <<x>> \in Seq(T \cup Broken)
      OBVIOUS
    <2> QED
      BY <2>1, <2>2, Zenon
  <1>4. /\ parts \in Seq(Seq(T \cup Broken)) /\ Len(parts) = Len(msgs)
        /\ \A i \in 1 .. Len(msgs) : parts[i] = part(i)
    <2>1. DOMAIN msgs = 1 .. Len(msgs) /\ Len(msgs) \in Nat
      OBVIOUS
    <2>2. parts \in [1 .. Len(msgs) -> Seq(T \cup Broken)] /\ \A i \in 1 .. Len(msgs) : parts[i] = part(i)
      BY <1>3, <2>1
    <2> QED
      BY <2>1, <2>2, FunctionSeq
  <1> HIDE DEF parts, Fits
  <1>5. \A i \in 1 .. Len(msgs) : Fits(parts[i])
    BY <1>2, <1>4
  <1>6. \A i \in 1 .. Len(msgs) : parts[i] = Part(msgs, c, side, dmg, i)
    BY <1>4, Zenon DEF part
  <1> QED
    BY <1>1, <1>4, <1>5, <1>6 DEF Fits, PartsOf

\* So the buffer holds what is left of messages, and the undamaged ones at
\* its start at the positions they were sent.
BufferOf(b, msgs, c, side, dmg) ==
    /\ \A j \in DOMAIN b : Remains(b[j], msgs, c, side, dmg)
    /\ \A f \in Nat : (\A i \in 1 .. f : <<c, side, i>> \notin DOMAIN dmg) =>
          /\ \A i \in 1 .. Len(msgs) : i <= f => i \in DOMAIN b /\ b[i] = msgs[i]
          /\ Len(msgs) <= f => Len(b) = Len(msgs)

LEMMA Buffered ==
    ASSUME NEW T, NEW msgs \in Seq(T), NEW c, NEW side, NEW dmg
    PROVE  /\ Buffer(msgs, c, side, dmg) \in Seq(T \cup Broken)
           /\ BufferOf(Buffer(msgs, c, side, dmg), msgs, c, side, dmg)
  <1> DEFINE b == Buffer(msgs, c, side, dmg)
             U == T \cup Broken
             n == Len(msgs)
  <1>0. n \in Nat
    OBVIOUS
  <1>p. PICK parts \in Seq(Seq(U)) : b = FlattenSeq(parts) /\ PartsOf(parts, msgs, c, side, dmg)
    BY BufferParts, Zenon
  <1>1. /\ b = FlattenSeq(parts) /\ Len(parts) = n
        /\ \A i \in 1 .. n : parts[i] = <<>> \/ \E x : parts[i] = <<x>> /\ Remains(x, msgs, c, side, dmg)
        /\ \A i \in 1 .. n : <<c, side, i>> \notin DOMAIN dmg => parts[i] = <<msgs[i]>>
    BY <1>p, Zenon DEF PartsOf, Part
  <1> HIDE DEF b, U, n
  <1>2. b \in Seq(U)
    BY <1>1, FlattenType
  <1>3. ASSUME NEW j \in DOMAIN b PROVE Remains(b[j], msgs, c, side, dmg)
    <2>1. PICK i \in DOMAIN parts : \E k \in DOMAIN parts[i] : b[j] = parts[i][k]
      BY <1>1, FlattenElement
    <2>2. i \in 1 .. n /\ parts[i] # <<>>
      BY <1>1, <2>1
    <2>3. PICK x : parts[i] = <<x>> /\ Remains(x, msgs, c, side, dmg)
      BY <1>1, <2>2
    <2>4. b[j] = x
      BY <2>1, <2>3
    <2> QED
      BY <2>3, <2>4, Zenon
  <1>4. ASSUME NEW f \in Nat, \A i \in 1 .. f : <<c, side, i>> \notin DOMAIN dmg
        PROVE  /\ \A i \in 1 .. n : i <= f => i \in DOMAIN b /\ b[i] = msgs[i]
               /\ n <= f => Len(b) = n
    <2>1. \A i \in 1 .. n : i <= f => parts[i] = <<msgs[i]>>
      <3> SUFFICES ASSUME NEW i \in 1 .. n, i <= f PROVE <<c, side, i>> \notin DOMAIN dmg
        BY <1>1, Zenon
      <3>1. i \in 1 .. f
        BY <1>0
      <3> QED
        BY <1>4, <3>1, Zenon
    <2> DEFINE g == IF n <= f THEN n ELSE f
    <2>2. /\ g \in 0 .. n /\ (\A i \in 1 .. n : i <= f => i \in 1 .. g) /\ (n <= f => g = n)
          /\ \A i \in 1 .. g : i \in 1 .. n /\ i <= f
      BY <1>0
    <2> HIDE DEF g
    <2>3. g \in 0 .. Len(parts) /\ \A i \in 1 .. g : Len(parts[i]) = 1 /\ parts[i][1] = msgs[i]
      <3>1. g \in 0 .. Len(parts)
        BY <1>1, <2>2
      <3>2. \A i \in 1 .. g : parts[i] = <<msgs[i]>>
        BY <2>1, <2>2
      <3>3. \A i \in 1 .. g : Len(<<msgs[i]>>) = 1 /\ <<msgs[i]>>[1] = msgs[i]
        OBVIOUS
      <3> QED
        BY <3>1, <3>2, <3>3, Zenon
    <2>4. /\ g <= Len(b) /\ (g = n => Len(b) = g)
          /\ \A i \in 1 .. g : b[i] = msgs[i]
      BY <1>1, <2>3, FlattenPrefix
    <2>5. \A i \in 1 .. g : i \in DOMAIN b
      BY <1>2, <2>2, <2>4, <1>0
    <2> QED
      BY <2>2, <2>4, <2>5
  <1> QED
    BY <1>2, <1>3, <1>4 DEF b, U, n, BufferOf

\* ParseRESPStream returns the values at the start of the buffer.
LEMMA Parsed ==
    ASSUME NEW U, NEW buf \in Seq(U)
    PROVE  LET p == ParseRESPStream(buf) IN
           /\ p \in Seq(U) /\ Len(p) <= Len(buf)
           /\ \A i \in DOMAIN p : i \in DOMAIN buf /\ p[i] = buf[i] /\ p[i].t \in {"array", "value"}
           /\ \A f \in 0 .. Len(buf) : (\A i \in 1 .. f : buf[i].t \in {"array", "value"}) => f <= Len(p)
  <1> DEFINE bad == {i \in DOMAIN buf : buf[i].t \notin {"array", "value"}}
             p == ParseRESPStream(buf)
  <1>1. CASE bad = {}
    <2>1. p = buf
      BY <1>1 DEF ParseRESPStream
    <2>2. \A i \in DOMAIN buf : buf[i].t \in {"array", "value"}
      BY <1>1
    <2> QED
      BY <2>1, <2>2
  <1>2. CASE bad # {}
    <2> DEFINE m == Min(bad)
    <2>1. bad \subseteq Nat
      OBVIOUS
    <2>2. m \in bad /\ \A j \in bad : m <= j
      BY <1>2, <2>1, LeastOfNat
    <2>3. p = SubSeq(buf, 1, m - 1)
      BY <1>2 DEF ParseRESPStream
    <2>4. m \in 1 .. Len(buf) /\ buf[m].t \notin {"array", "value"}
      BY <2>2
    <2>5. \A i \in 1 .. m - 1 : i \in DOMAIN buf /\ buf[i].t \in {"array", "value"}
      BY <2>2, <2>4
    <2> HIDE DEF m, p, bad
    <2>6. p \in Seq(U) /\ Len(p) = m - 1 /\ \A i \in 1 .. m - 1 : p[i] = buf[i]
      BY <2>3, <2>4
    <2>7. ASSUME NEW f \in 0 .. Len(buf), \A i \in 1 .. f : buf[i].t \in {"array", "value"}
          PROVE  f <= Len(p)
      BY <2>4, <2>6, <2>7
    <2>8. \A i \in DOMAIN p : i \in DOMAIN buf /\ p[i] = buf[i] /\ p[i].t \in {"array", "value"}
      BY <2>5, <2>6
    <2>9. Len(p) <= Len(buf)
      BY <2>4, <2>6
    <2> QED
      BY <2>6, <2>7, <2>8, <2>9 DEF p
  <1> QED
    BY <1>1, <1>2

-----------------------------------------------------------------------------
(* The calls that TryRESP pairs.                                           *)

SentCommands == {Command(words) : words \in AppCommands}
\* The tokens of texts, and the ones display forms add.
Token == Tokens \cup {Garbled, "?", "(nil)", "(error)", "(integer)"}
Call == [command : Seq(Seq(Token)), reply : Seq(Token)]

\* A reply comes back from its display form.
LEMMA ReplyRoundTrip ==
    ASSUME NEW v \in Replies
    PROVE  v.t = "value" /\ Display(v) \in Seq(Token) /\ EncodeReply(Display(v)) = AsReplayed(v)
  <1>0. /\ v = Value(v.kind, v.text) /\ v.text \in Seq(Tokens) /\ v.t = "value"
        /\ \/ v.kind \in {"bulk", "status"} /\ ~LooksDisplayed(v.text)
           \/ v.kind \in {"error", "integer"} /\ v.text # <<>>
           \/ v.kind = "null" /\ v.text = <<>>
    BY RecordReplayAssumption DEF Value
  <1>1. v.text \in Seq(Token) /\ v = Value(v.kind, v.text) /\ v.t = "value"
    BY <1>0, SeqByElements DEF Token
  <1> DEFINE text == v.text
  <1>2. CASE v.kind \in {"bulk", "status"} /\ ~LooksDisplayed(v.text)
    <2>1. Display(v) = text
      BY <1>1, <1>2 DEF Display
    <2>2. text # <<"(nil)">> /\ ~(Len(text) > 1 /\ text[1] = "(error)")
          /\ ~(Len(text) > 1 /\ text[1] = "(integer)")
      BY <1>2 DEF LooksDisplayed
    <2>3. EncodeReply(text) = Value("status", text)
      BY <2>2 DEF EncodeReply
    <2>4. AsReplayed(v) = Value("status", text)
      BY <1>1, <1>2 DEF AsReplayed
    <2> QED
      BY <1>1, <2>1, <2>3, <2>4
  <1>3. CASE v.kind = "null" /\ v.text = <<>>
    <2>1. Display(v) = <<"(nil)">> /\ <<"(nil)">> \in Seq(Token)
      BY <1>1, <1>3 DEF Display, Token
    <2>2. EncodeReply(<<"(nil)">>) = Value("null", <<>>)
      BY DEF EncodeReply
    <2>3. AsReplayed(v) = Value("null", <<>>)
      BY <1>1, <1>3 DEF AsReplayed
    <2> QED
      BY <1>1, <2>1, <2>2, <2>3
  <1>4. CASE v.kind \in {"error", "integer"} /\ v.text # <<>>
    <2> DEFINE kind == v.kind
               tag == IF kind = "error" THEN "(error)" ELSE "(integer)"
               d == <<tag>> \o text
    <2>0. /\ (kind = "error" /\ tag = "(error)") \/ (kind = "integer" /\ tag = "(integer)")
          /\ tag \in Token
      <3>1. "(error)" \in Token /\ "(integer)" \in Token
        BY DEF Token
      <3>2. CASE kind = "error"
        BY <3>1, <3>2
      <3>3. CASE kind = "integer"
        BY <3>1, <3>3
      <3> QED
        BY <1>4, <3>2, <3>3
    <2> HIDE DEF tag
    <2>1. Display(v) = d
      BY <1>1, <2>0 DEF Display
    <2>2. /\ d \in Seq(Token) /\ Len(d) = 1 + Len(text) /\ d[1] = tag /\ Tail(d) = text
          /\ Len(text) \in Nat /\ Len(text) > 0
      BY <1>1, <1>4, <2>0
    <2> HIDE DEF d
    <2>3. Len(d) > 1 /\ d # <<"(nil)">>
      BY <2>2
    <2>4. EncodeReply(d) = Value(kind, text)
      BY <2>0, <2>2, <2>3 DEF EncodeReply
    <2>5. AsReplayed(v) = Value(kind, text)
      BY <1>1, <2>0 DEF AsReplayed
    <2> QED
      BY <1>1, <2>1, <2>2, <2>4, <2>5
  <1> QED
    BY <1>0, <1>1, <1>2, <1>3, <1>4

LEMMA GarbledRoundTrip ==
    /\ GarbledValue.t = "value" /\ Display(GarbledValue) = <<Garbled>> /\ <<Garbled>> \in Seq(Token)
    /\ EncodeReply(<<Garbled>>) = Value("status", <<Garbled>>)
    /\ <<"?">> \in Seq(Token) /\ EncodeReply(<<"?">>) = Value("status", <<"?">>)
  <1>1. GarbledValue.t = "value" /\ GarbledValue.kind = "bulk" /\ GarbledValue.text = <<Garbled>>
    BY DEF GarbledValue, Value
  <1>2. Display(GarbledValue) = <<Garbled>>
    BY <1>1 DEF Display
  <1>3. ASSUME NEW x \in {Garbled, "?"}
        PROVE  <<x>> \in Seq(Token) /\ EncodeReply(<<x>>) = Value("status", <<x>>)
    <2>1. x \in Token /\ Len(<<x>>) = 1 /\ <<x>> # <<"(nil)">>
      BY DEF Garbled, Token
    <2> QED
      BY <2>1 DEF EncodeReply
  <1> QED
    BY <1>1, <1>2, <1>3

\* What the commands and the replies of a connection parse to.
CommandsOf(writes, c, dmg) == ParseRESPStream(Buffer(writes, c, "write", dmg))
RepliesOf(reads, c, dmg) == ParseRESPStream(Buffer(reads, c, "read", dmg))
CallsOn(writes, reads, c, dmg) == TryRESP(Buffer(writes, c, "write", dmg), Buffer(reads, c, "read", dmg))

LEMMA WriteSide ==
    ASSUME NEW writes \in Seq(SentCommands), NEW c, NEW dmg
    PROVE  LET cmds == CommandsOf(writes, c, dmg) IN
           /\ cmds \in Seq(SentCommands \cup Broken)
           /\ \A i \in DOMAIN cmds :
                 \/ \E j \in DOMAIN writes : cmds[i] = writes[j]
                 \/ cmds[i] = GarbledCommand
                 \/ /\ cmds[i] = GarbledValue
                    /\ \E j \in DOMAIN writes : /\ <<c, "write", j>> \in DOMAIN dmg
                                                /\ dmg[<<c, "write", j>>] = "headless"
           /\ \A f \in 1 .. Len(writes) : (\A i \in 1 .. f : <<c, "write", i>> \notin DOMAIN dmg) =>
                 \A i \in 1 .. f : i \in DOMAIN cmds /\ cmds[i] = writes[i]
  <1> DEFINE b == Buffer(writes, c, "write", dmg)
             cmds == CommandsOf(writes, c, dmg)
             U == SentCommands \cup Broken
             n == Len(writes)
  <1>0. n \in Nat /\ DOMAIN writes = 1 .. n
    OBVIOUS
  <1>1. /\ b \in Seq(U) /\ \A j \in DOMAIN b : Remains(b[j], writes, c, "write", dmg)
        /\ \A f \in Nat : (\A i \in 1 .. f : <<c, "write", i>> \notin DOMAIN dmg) =>
              \A i \in 1 .. n : i <= f => i \in DOMAIN b /\ b[i] = writes[i]
    <2>1. b \in Seq(U) /\ BufferOf(b, writes, c, "write", dmg)
      BY Buffered, Zenon
    <2> QED
      BY <2>1, Zenon DEF BufferOf
  <1>2. cmds = ParseRESPStream(b)
    BY DEF CommandsOf
  <1> HIDE DEF b, cmds, U, n
  <1>3. /\ cmds \in Seq(U) /\ Len(cmds) <= Len(b)
        /\ \A i \in DOMAIN cmds : i \in DOMAIN b /\ cmds[i] = b[i] /\ cmds[i].t \in {"array", "value"}
        /\ \A f \in 0 .. Len(b) : (\A i \in 1 .. f : b[i].t \in {"array", "value"}) => f <= Len(cmds)
    BY <1>1, <1>2, Parsed
  <1>4. \A j \in DOMAIN writes : writes[j].t = "array"
    BY DEF SentCommands, Command
  <1>5. ASSUME NEW i \in DOMAIN cmds
        PROVE  \/ \E j \in DOMAIN writes : cmds[i] = writes[j]
               \/ cmds[i] = GarbledCommand
               \/ /\ cmds[i] = GarbledValue
                  /\ \E j \in DOMAIN writes : /\ <<c, "write", j>> \in DOMAIN dmg
                                              /\ dmg[<<c, "write", j>>] = "headless"
    <2>1. Remains(cmds[i], writes, c, "write", dmg) /\ cmds[i].t \in {"array", "value"}
      BY <1>1, <1>3
    <2>2. cmds[i] # Junk
      BY <2>1 DEF Junk
    <2> QED
      BY <1>4, <2>1, <2>2 DEF Remains
  <1>6. ASSUME NEW f \in 1 .. n, \A i \in 1 .. f : <<c, "write", i>> \notin DOMAIN dmg
        PROVE  \A i \in 1 .. f : i \in DOMAIN cmds /\ cmds[i] = writes[i]
    <2>1. \A i \in 1 .. f : i \in DOMAIN b /\ b[i] = writes[i] /\ i \in 1 .. n
      BY <1>0, <1>1, <1>6
    <2>2. f \in DOMAIN b /\ DOMAIN b = 1 .. Len(b)
      BY <1>0, <1>1, <2>1
    <2>3. f \in 0 .. Len(b) /\ \A i \in 1 .. f : b[i].t \in {"array", "value"}
      BY <1>0, <1>4, <2>1, <2>2
    <2>4. f <= Len(cmds)
      BY <1>3, <2>3
    <2>5. \A i \in 1 .. f : i \in DOMAIN cmds
      BY <1>0, <1>3, <2>4
    <2> QED
      BY <1>3, <2>1, <2>5
  <1> QED
    BY <1>3, <1>5, <1>6 DEF cmds, U, n

LEMMA ReadSide ==
    ASSUME NEW reads \in Seq(Replies), NEW c, NEW dmg
    PROVE  LET replies == RepliesOf(reads, c, dmg) IN
           /\ replies \in Seq(Replies \cup Broken)
           /\ \A i \in DOMAIN replies :
                 replies[i] = GarbledValue \/ \E j \in DOMAIN reads : replies[i] = reads[j]
           /\ \A f \in Nat \ {0} : (\A i \in 1 .. f : <<c, "read", i>> \notin DOMAIN dmg) =>
                 IF f <= Len(reads) THEN f <= Len(replies) /\ replies[f] = reads[f]
                                    ELSE Len(replies) < f
  <1> DEFINE b == Buffer(reads, c, "read", dmg)
             replies == RepliesOf(reads, c, dmg)
             U == Replies \cup Broken
             n == Len(reads)
  <1>0. n \in Nat /\ DOMAIN reads = 1 .. n
    OBVIOUS
  <1>1. /\ b \in Seq(U) /\ \A j \in DOMAIN b : Remains(b[j], reads, c, "read", dmg)
        /\ \A f \in Nat : (\A i \in 1 .. f : <<c, "read", i>> \notin DOMAIN dmg) =>
              /\ \A i \in 1 .. n : i <= f => i \in DOMAIN b /\ b[i] = reads[i]
              /\ n <= f => Len(b) = n
    <2>1. b \in Seq(U) /\ BufferOf(b, reads, c, "read", dmg)
      BY Buffered, Zenon
    <2> QED
      BY <2>1, Zenon DEF BufferOf
  <1>2. replies = ParseRESPStream(b)
    BY DEF RepliesOf
  <1> HIDE DEF b, replies, U, n
  <1>3. /\ replies \in Seq(U) /\ Len(replies) <= Len(b)
        /\ \A i \in DOMAIN replies : i \in DOMAIN b /\ replies[i] = b[i] /\ replies[i].t \in {"array", "value"}
        /\ \A f \in 0 .. Len(b) : (\A i \in 1 .. f : b[i].t \in {"array", "value"}) => f <= Len(replies)
    BY <1>1, <1>2, Parsed
  <1>4. \A j \in DOMAIN reads : reads[j].t = "value"
    BY ReplyRoundTrip
  <1>5. ASSUME NEW i \in DOMAIN replies
        PROVE  replies[i] = GarbledValue \/ \E j \in DOMAIN reads : replies[i] = reads[j]
    <2>1. Remains(replies[i], reads, c, "read", dmg) /\ replies[i].t \in {"array", "value"}
      BY <1>1, <1>3
    <2>2. replies[i] # Junk
      BY <2>1 DEF Junk
    <2>3. ~\E j \in DOMAIN reads : reads[j].t = "array"
      BY <1>4
    <2> QED
      BY <2>1, <2>2, <2>3 DEF Remains
  <1>6. ASSUME NEW f \in Nat \ {0}, \A i \in 1 .. f : <<c, "read", i>> \notin DOMAIN dmg
        PROVE  IF f <= n THEN f <= Len(replies) /\ replies[f] = reads[f] ELSE Len(replies) < f
    <2>1. CASE f <= n
      <3>1. \A i \in 1 .. f : i \in DOMAIN b /\ b[i] = reads[i] /\ i \in 1 .. n
        BY <1>0, <1>1, <1>6, <2>1
      <3>2. f \in DOMAIN b /\ DOMAIN b = 1 .. Len(b)
        BY <1>0, <1>1, <3>1
      <3>3. f \in 0 .. Len(b) /\ \A i \in 1 .. f : b[i].t \in {"array", "value"}
        BY <1>0, <1>4, <3>1, <3>2
      <3>4. f <= Len(replies)
        BY <1>3, <3>3
      <3>5. f \in DOMAIN replies /\ b[f] = reads[f]
        BY <1>0, <1>3, <3>1, <3>4
      <3> QED
        BY <1>3, <2>1, <3>4, <3>5
    <2>2. CASE ~(f <= n)
      <3>1. n <= f
        BY <1>0, <2>2
      <3>2. Len(b) = n
        BY <1>1, <1>6, <3>1
      <3>3. Len(replies) \in Nat
        BY <1>3
      <3> QED
        BY <1>0, <1>3, <2>2, <3>2, <3>3
    <2> QED
      BY <2>1, <2>2
  <1> QED
    BY <1>3, <1>5, <1>6 DEF replies, U, n

-----------------------------------------------------------------------------
(* Where a value that is no array is found among the commands.             *)

Hit(dmg, c, i, fault) == <<c, "write", i>> \in DOMAIN dmg /\ dmg[<<c, "write", i>>] = fault

GivenUp(writes, c, dmg) ==
    \E i \in DOMAIN writes :
        Hit(dmg, c, i, "headless") /\ \A j \in 1 .. i - 1 : ~Hit(dmg, c, j, "cut")

\* What ends the parsing, and what TryRESP takes no command stream to have.
Stops == {Junk, GarbledValue}

LEMMA StopTypes ==
    /\ Junk.t = "junk" /\ GarbledValue.t = "value" /\ GarbledCommand.t = "array"
    /\ \A m \in SentCommands : m.t = "array"
    /\ Junk # GarbledValue
  BY DEF Junk, GarbledValue, GarbledCommand, Value, Command, SentCommands

\* Only a headless and a cut command leave one of the two, and always do.
LEMMA PartStops ==
    ASSUME NEW writes \in Seq(SentCommands), NEW c, NEW dmg, NEW i \in DOMAIN writes
    PROVE  LET part == Part(writes, c, "write", dmg, i) IN
           /\ Hit(dmg, c, i, "headless") => part = <<GarbledValue>>
           /\ Hit(dmg, c, i, "cut") => part = <<Junk>>
           /\ ~Hit(dmg, c, i, "headless") /\ ~Hit(dmg, c, i, "cut") => \A k \in DOMAIN part : part[k] \notin Stops
  <1> DEFINE part == Part(writes, c, "write", dmg, i)
             fault == dmg[<<c, "write", i>>]
  <1>1. writes[i] \in SentCommands /\ writes[i].t = "array"
    BY StopTypes
  <1>2. CASE <<c, "write", i>> \notin DOMAIN dmg
    <2>1. part = << writes[i] >>
      BY <1>2 DEF Part
    <2>2. writes[i] \notin Stops
      BY <1>1, StopTypes DEF Stops
    <2>3. ~Hit(dmg, c, i, "headless") /\ ~Hit(dmg, c, i, "cut")
      BY <1>2 DEF Hit
    <2> HIDE DEF part
    <2>4. \A k \in DOMAIN part : part[k] = writes[i]
      BY <2>1
    <2> QED
      BY <2>2, <2>3, <2>4 DEF part
  <1>3. CASE <<c, "write", i>> \in DOMAIN dmg
    <2>1. part = CapturedAs(writes[i], fault)
      BY <1>3, Zenon DEF Part
    <2>2. \A x : Hit(dmg, c, i, x) <=> fault = x
      BY <1>3 DEF Hit
    <2> HIDE DEF part, fault
    <2>3. ASSUME fault = "headless" PROVE part = <<GarbledValue>>
      BY <2>1, <2>3 DEF CapturedAs, GarbledValue
    <2>4. ASSUME fault = "cut" PROVE part = <<Junk>>
      BY <2>1, <2>4 DEF CapturedAs
    <2>5. ASSUME fault # "headless", fault # "cut", NEW k \in DOMAIN part PROVE part[k] \notin Stops
      <3>1. part = <<>> \/ part = <<GarbledCommand>>
        BY <1>1, <2>1, <2>5, CapturedPart
      <3>2. part[k] = GarbledCommand
        BY <2>5, <3>1
      <3> QED
        BY <3>2, StopTypes DEF Stops
    <2> QED
      BY <2>2, <2>3, <2>4, <2>5 DEF part
  <1> QED
    BY <1>2, <1>3

\* The first of the two in the buffer is what a headless or cut command
\* left, if nothing before it is headless or cut.
LEMMA FirstStop ==
    ASSUME NEW writes \in Seq(SentCommands), NEW c, NEW dmg, NEW p \in DOMAIN writes,
           \A i \in 1 .. p - 1 : ~Hit(dmg, c, i, "headless") /\ ~Hit(dmg, c, i, "cut")
    PROVE  LET b == Buffer(writes, c, "write", dmg) IN
           /\ Hit(dmg, c, p, "headless") => IsFirst(GarbledValue, b, Stops)
           /\ Hit(dmg, c, p, "cut") => IsFirst(Junk, b, Stops)
  <1> DEFINE b == Buffer(writes, c, "write", dmg)
             U == SentCommands \cup Broken
             n == Len(writes)
  <1>0. n \in Nat /\ DOMAIN writes = 1 .. n /\ p \in 1 .. n
    OBVIOUS
  <1>1. PICK parts \in Seq(Seq(U)) : b = FlattenSeq(parts) /\ PartsOf(parts, writes, c, "write", dmg)
    BY BufferParts, Zenon
  <1>2. Len(parts) = n /\ \A i \in 1 .. n : parts[i] = Part(writes, c, "write", dmg, i)
    BY <1>1, Zenon DEF PartsOf
  <1> HIDE DEF b, U, n
  <1>3. p \in DOMAIN parts
    BY <1>0, <1>2
  <1>4. ASSUME NEW i \in 1 .. p - 1, NEW k \in DOMAIN parts[i] PROVE parts[i][k] \notin Stops
    <2>1. i \in 1 .. n /\ i \in DOMAIN writes
      BY <1>0
    <2> QED
      BY <1>2, <1>4, <2>1, PartStops
  <1>5. ASSUME NEW x \in Stops, parts[p] = <<x>> PROVE IsFirst(x, b, Stops)
    <2>1. 1 \in DOMAIN <<x>> /\ <<x>>[1] = x
      OBVIOUS
    <2>2. IsFirst(x, parts[p], Stops)
      BY <1>5, <2>1 DEF IsFirst
    <2> QED
      BY <1>1, <1>3, <1>4, <2>2, FlattenFirst
  <1>6. GarbledValue \in Stops /\ Junk \in Stops
    BY DEF Stops
  <1>7. parts[p] = Part(writes, c, "write", dmg, p)
    BY <1>0, <1>2
  <1>8. /\ Hit(dmg, c, p, "headless") => parts[p] = <<GarbledValue>>
        /\ Hit(dmg, c, p, "cut") => parts[p] = <<Junk>>
    BY <1>7, PartStops
  <1> QED
    BY <1>5, <1>6, <1>8 DEF b

\* TryRESP finds a value that is no array exactly when the connection is one
\* to be given up.
LEMMA GivesUp ==
    ASSUME NEW writes \in Seq(SentCommands), NEW c, NEW dmg
    PROVE  (\E i \in DOMAIN CommandsOf(writes, c, dmg) : CommandsOf(writes, c, dmg)[i].t # "array")
               <=> GivenUp(writes, c, dmg)
  <1> DEFINE b == Buffer(writes, c, "write", dmg)
             cmds == CommandsOf(writes, c, dmg)
             U == SentCommands \cup Broken
  <1>1. b \in Seq(U) /\ BufferOf(b, writes, c, "write", dmg) /\ cmds = ParseRESPStream(b)
    BY Buffered, Zenon DEF CommandsOf
  <1>2. \A i \in DOMAIN cmds :
            \/ \E j \in DOMAIN writes : cmds[i] = writes[j]
            \/ cmds[i] = GarbledCommand
            \/ cmds[i] = GarbledValue /\ \E j \in DOMAIN writes : Hit(dmg, c, j, "headless")
    BY WriteSide DEF Hit
  <1>3. b \in Seq(U) /\ \A i \in DOMAIN b : b[i] \notin Stops => b[i].t \in {"array", "value"}
    <2>1. \A x \in U : x \notin Stops => x.t = "array"
      BY StopTypes DEF Broken, Stops
    <2> HIDE DEF b, U
    <2> QED
      BY <1>1, <2>1
  <1> HIDE DEF b, cmds, U
  <1>4. /\ cmds \in Seq(U) /\ Len(cmds) <= Len(b)
        /\ \A i \in DOMAIN cmds : i \in DOMAIN b /\ cmds[i] = b[i] /\ cmds[i].t \in {"array", "value"}
        /\ \A f \in 0 .. Len(b) : (\A i \in 1 .. f : b[i].t \in {"array", "value"}) => f <= Len(cmds)
    BY <1>1, Parsed
  <1>5. ASSUME GivenUp(writes, c, dmg) PROVE \E i \in DOMAIN cmds : cmds[i].t # "array"
    <2>1. PICK i \in DOMAIN writes :
              Hit(dmg, c, i, "headless") /\ \A j \in 1 .. i - 1 : ~Hit(dmg, c, j, "cut")
      BY <1>5 DEF GivenUp
    <2> DEFINE heads == {j \in DOMAIN writes : Hit(dmg, c, j, "headless")}
               p == Min(heads)
    <2>2. p \in heads /\ \A j \in heads : p <= j
      <3>1. heads # {} /\ heads \subseteq Nat
        BY <2>1
      <3> QED
        BY <3>1, LeastOfNat
    <2> HIDE DEF p
    <2>3. p \in DOMAIN writes /\ Hit(dmg, c, p, "headless") /\ p <= i
      BY <2>1, <2>2
    <2>4. ASSUME NEW j \in 1 .. p - 1 PROVE ~Hit(dmg, c, j, "headless") /\ ~Hit(dmg, c, j, "cut")
      <3>1. j \in DOMAIN writes /\ ~(p <= j) /\ j \in 1 .. i - 1
        BY <2>1, <2>3
      <3> QED
        BY <2>1, <2>2, <3>1
    <2>5. IsFirst(GarbledValue, b, Stops)
      BY <2>3, <2>4, FirstStop DEF b
    <2>6. PICK m \in DOMAIN b : b[m] = GarbledValue /\ \A j \in 1 .. m - 1 : b[j] \notin Stops
      BY <2>5 DEF IsFirst
    <2>7. m \in 0 .. Len(b) /\ \A j \in 1 .. m : b[j].t \in {"array", "value"}
      <3>1. m \in 1 .. Len(b) /\ Len(b) \in Nat
        BY <1>3
      <3>2. ASSUME NEW j \in 1 .. m PROVE b[j].t \in {"array", "value"}
        <4>1. CASE j = m
          BY <2>6, <4>1, StopTypes
        <4>2. CASE j # m
          <5>1. j \in 1 .. m - 1 /\ j \in DOMAIN b
            BY <1>3, <3>1, <4>2
          <5> QED
            BY <1>3, <2>6, <5>1
        <4> QED
          BY <4>1, <4>2
      <3> QED
        BY <3>1, <3>2
    <2>8. m <= Len(cmds)
      BY <1>4, <2>7
    <2>9. m \in DOMAIN cmds
      BY <1>3, <1>4, <2>8
    <2>10. cmds[m].t = "value"
      BY <1>4, <2>6, <2>9, StopTypes
    <2> QED
      BY <2>9, <2>10
  <1>6. ASSUME NEW i \in DOMAIN cmds, cmds[i].t # "array", ~GivenUp(writes, c, dmg) PROVE FALSE
    <2>1. cmds[i] = GarbledValue /\ \E j \in DOMAIN writes : Hit(dmg, c, j, "headless")
      BY <1>2, <1>6, StopTypes
    <2>2. PICK h \in DOMAIN writes : Hit(dmg, c, h, "headless")
      BY <2>1
    <2> DEFINE cuts == {j \in DOMAIN writes : Hit(dmg, c, j, "cut")}
               p == Min(cuts)
    <2>3. cuts # {} /\ cuts \subseteq Nat
      <3>1. PICK j \in 1 .. h - 1 : Hit(dmg, c, j, "cut")
        BY <1>6, <2>2 DEF GivenUp
      <3>2. j \in DOMAIN writes
        BY <3>1
      <3> QED
        BY <3>1, <3>2
    <2>4. p \in cuts /\ \A j \in cuts : p <= j
      BY <2>3, LeastOfNat
    <2> HIDE DEF p
    <2>5. ASSUME NEW j \in 1 .. p - 1 PROVE ~Hit(dmg, c, j, "headless") /\ ~Hit(dmg, c, j, "cut")
      <3>1. \A k \in 1 .. p - 1 : k \in DOMAIN writes /\ ~(p <= k)
        BY <2>4
      <3>2. \A k \in 1 .. p - 1 : ~Hit(dmg, c, k, "cut")
        BY <2>4, <3>1
      <3>3. \A k \in 1 .. j - 1 : k \in 1 .. p - 1
        BY <2>4
      <3>4. ~Hit(dmg, c, j, "headless")
        BY <1>6, <3>1, <3>2, <3>3 DEF GivenUp
      <3> QED
        BY <3>2, <3>4
    <2>6. IsFirst(Junk, b, Stops)
      BY <2>4, <2>5, FirstStop DEF b
    <2>7. PICK m \in DOMAIN b : b[m] = Junk /\ \A j \in 1 .. m - 1 : b[j] \notin Stops
      BY <2>6 DEF IsFirst
    <2>8. i \in 1 .. Len(cmds) /\ Len(cmds) \in Nat /\ m \in Nat \ {0} /\ DOMAIN cmds = 1 .. Len(cmds)
      BY <1>3, <1>4
    <2>9. m \notin DOMAIN cmds
      BY <1>4, <2>7, StopTypes
    <2>10. i \in 1 .. m - 1
      BY <2>8, <2>9
    <2>11. b[i] = GarbledValue
      BY <1>4, <2>1
    <2> QED
      BY <2>7, <2>10, <2>11 DEF Stops
  <1> QED
    BY <1>5, <1>6 DEF cmds

-----------------------------------------------------------------------------
\* The calls are joined from one part for each command: none for one that is
\* dropped, else the command with the reply at its position.
ReplyFor(replies, i) == IF i <= Len(replies) THEN Display(replies[i]) ELSE <<"?">>
CallParts(parts, cmds, replies) ==
    /\ Len(parts) = Len(cmds)
    /\ \A i \in 1 .. Len(cmds) :
          parts[i] = IF IsData(cmds[i].words)
                     THEN << [command |-> cmds[i].words, reply |-> ReplyFor(replies, i)] >>
                     ELSE <<>>

\* What the words of a command and the texts of its reply can be.
LEMMA CallTypes ==
    ASSUME NEW writes \in Seq(SentCommands), NEW reads \in Seq(Replies), NEW c, NEW dmg, NEW i,
           i \in DOMAIN CommandsOf(writes, c, dmg), CommandsOf(writes, c, dmg)[i].t = "array"
    PROVE  LET cmd == CommandsOf(writes, c, dmg)[i]
               reply == ReplyFor(RepliesOf(reads, c, dmg), i)
           IN  /\ cmd.words \in Seq(Seq(Token))
               /\ cmd.words = << <<Garbled>> >> \/ \E j \in DOMAIN writes : cmd.words = writes[j].words
               /\ reply \in Seq(Token)
               /\ \/ EncodeReply(reply) \in {Value("status", <<"?">>), Value("status", <<Garbled>>)}
                  \/ \E j \in DOMAIN reads : EncodeReply(reply) = AsReplayed(reads[j])
  <1> DEFINE cmds == CommandsOf(writes, c, dmg)
             replies == RepliesOf(reads, c, dmg)
             cmd == cmds[i]
             reply == ReplyFor(replies, i)
  <1>1. \/ \E j \in DOMAIN writes : cmds[i] = writes[j]
        \/ cmds[i] = GarbledCommand
        \/ cmds[i] = GarbledValue
    BY WriteSide
  <1>2. /\ replies \in Seq(Replies \cup Broken)
        /\ \A j \in DOMAIN replies :
              replies[j] = GarbledValue \/ \E k \in DOMAIN reads : replies[j] = reads[k]
    BY ReadSide
  <1>3. cmds \in Seq(SentCommands \cup Broken) /\ i \in 1 .. Len(cmds) /\ i \in Nat /\ cmd.t = "array"
    BY WriteSide
  <1> HIDE DEF cmds, replies
  <1>4. ASSUME NEW j \in DOMAIN writes
        PROVE  writes[j].words \in Seq(Seq(Token))
    <2>1. PICK words \in AppCommands : writes[j] = Command(words)
      BY DEF SentCommands
    <2>2. writes[j].words = words /\ words \in Seq(Seq(Tokens))
      BY <2>1, RecordReplayAssumption DEF Command
    <2>3. \A w \in Seq(Tokens) : w \in Seq(Token)
      BY SeqByElements DEF Token
    <2>4. words \in Seq(Seq(Token))
      BY <2>2, <2>3, SeqByElements
    <2> QED
      BY <2>2, <2>4
  <1>5. GarbledCommand.words = << <<Garbled>> >> /\ << <<Garbled>> >> \in Seq(Seq(Token))
    BY GarbledRoundTrip DEF GarbledCommand, Command
  <1>6. cmd # GarbledValue
    BY <1>3, GarbledRoundTrip
  <1>7. /\ cmd.words \in Seq(Seq(Token))
        /\ cmd.words = << <<Garbled>> >> \/ \E j \in DOMAIN writes : cmd.words = writes[j].words
    BY <1>1, <1>4, <1>5, <1>6
  <1>8. CASE i <= Len(replies)
    <2>1. i \in DOMAIN replies /\ reply = Display(replies[i])
      BY <1>2, <1>3, <1>8 DEF ReplyFor
    <2> HIDE DEF reply
    <2>2. CASE replies[i] = GarbledValue
      <3>1. reply = <<Garbled>>
        BY <2>1, <2>2, GarbledRoundTrip
      <3> QED
        BY <1>7, <3>1, GarbledRoundTrip DEF cmds, replies, reply
    <2>3. ASSUME NEW k \in DOMAIN reads, replies[i] = reads[k]
          PROVE  reply \in Seq(Token) /\ EncodeReply(reply) = AsReplayed(reads[k])
      <3>1. reads[k] \in Replies
        OBVIOUS
      <3> QED
        BY <2>1, <2>3, <3>1, ReplyRoundTrip
    <2>4. CASE \E k \in DOMAIN reads : replies[i] = reads[k]
      <3>1. PICK k \in DOMAIN reads : replies[i] = reads[k]
        BY <2>4
      <3>2. reply \in Seq(Token) /\ EncodeReply(reply) = AsReplayed(reads[k])
        BY <2>3, <3>1, Zenon
      <3> QED
        BY <1>7, <3>2 DEF cmds, replies, reply
    <2> QED
      BY <1>2, <2>1, <2>2, <2>4
  <1>9. CASE ~(i <= Len(replies))
    <2>1. reply = <<"?">>
      BY <1>9 DEF ReplyFor
    <2> HIDE DEF reply
    <2> QED
      BY <1>7, <2>1, GarbledRoundTrip DEF cmds, replies, reply
  <1> QED
    BY <1>8, <1>9

LEMMA TriedParts ==
    ASSUME NEW writes \in Seq(SentCommands), NEW reads \in Seq(Replies), NEW c, NEW dmg,
           \A i \in DOMAIN CommandsOf(writes, c, dmg) : CommandsOf(writes, c, dmg)[i].t = "array"
    PROVE  \E parts \in Seq(Seq(Call)) :
              /\ CallsOn(writes, reads, c, dmg) = FlattenSeq(parts)
              /\ CallParts(parts, CommandsOf(writes, c, dmg), RepliesOf(reads, c, dmg))
  <1> DEFINE cmds == CommandsOf(writes, c, dmg)
             replies == RepliesOf(reads, c, dmg)
             dropped(i) == cmds[i].words = <<>> \/ IsAdminCommand(cmds[i].words[1])
             call(i) == [command |-> cmds[i].words,
                         reply |-> IF i <= Len(replies) THEN Display(replies[i]) ELSE <<"?">>]
             parts == [i \in DOMAIN cmds |-> IF dropped(i) THEN <<>> ELSE <<call(i)>>]
  <1>1. CallsOn(writes, reads, c, dmg) = FlattenSeq(parts)
    BY Zenon DEF CallsOn, TryRESP, CommandsOf, RepliesOf
  <1>2. cmds \in Seq(SentCommands \cup Broken)
    BY WriteSide
  <1>3. DOMAIN cmds = 1 .. Len(cmds) /\ Len(cmds) \in Nat
    BY <1>2
  <1>4. ASSUME NEW i \in 1 .. Len(cmds) PROVE call(i) \in Call
    <2>1. cmds[i].words \in Seq(Seq(Token)) /\ ReplyFor(replies, i) \in Seq(Token)
      BY <1>3, CallTypes
    <2> QED
      BY <2>1 DEF Call, ReplyFor
  <1>5. \A i \in 1 .. Len(cmds) : call(i) = [command |-> cmds[i].words, reply |-> ReplyFor(replies, i)]
    BY DEF ReplyFor
  <1>6. \A i \in 1 .. Len(cmds) : dropped(i) <=> ~IsData(cmds[i].words)
    BY Zenon DEF IsData
  <1> HIDE DEF cmds, replies, call, dropped
  <1>7. <<>> \in Seq(Call) /\ \A i \in 1 .. Len(cmds) : <<call(i)>> \in Seq(Call)
    BY <1>4
  <1>8. /\ parts \in [1 .. Len(cmds) -> Seq(Call)]
        /\ \A i \in 1 .. Len(cmds) : parts[i] = IF dropped(i) THEN <<>> ELSE <<call(i)>>
    BY <1>3, <1>7
  <1> HIDE DEF parts
  <1>9. parts \in Seq(Seq(Call)) /\ Len(parts) = Len(cmds)
    BY <1>3, <1>8, FunctionSeq
  <1>10. CallParts(parts, cmds, replies)
    BY <1>5, <1>6, <1>8, <1>9 DEF CallParts
  <1> QED
    BY <1>1, <1>9, <1>10 DEF cmds, replies

\* The text of a garbled command is the one no command has.
LEMMA GarbledText == TextOf(<< <<Garbled>> >>) = <<Garbled>>
  <1> DEFINE g == <<Garbled>>
             t == LowerText(g)
  <1>1. g \in Seq(Token) /\ <<>> \in Seq(Seq(Token)) /\ Append(<<>>, g) = <<g>> /\ <<>> \o g = g
    BY GarbledRoundTrip
  <1>2. FlattenSeq(Append(<<>>, g)) = FlattenSeq(<<>>) \o g
    BY <1>1, FlattenAppend
  <1>3. FlattenSeq(<<g>>) = g
    BY <1>1, <1>2, FlattenEmpty
  <1>4. Lower(Garbled) = Garbled
    BY DEF Lower, Garbled
  <1>5. DOMAIN g = 1 .. 1 /\ g[1] = Garbled
    OBVIOUS
  <1> HIDE DEF g
  <1>6. t = [i \in 1 .. 1 |-> Garbled]
    BY <1>4, <1>5 DEF LowerText
  <1>7. g = [i \in 1 .. 1 |-> Garbled]
    BY DEF g
  <1> QED
    BY <1>3, <1>6, <1>7 DEF TextOf, g

\* A call was made of a command of the connection, or of a garbled one, and
\* its reply of a reply of the connection, or of none.
FromTraffic(call, writes, reads) ==
    /\ IsData(call.command)
    /\ call.command = << <<Garbled>> >> \/ \E j \in DOMAIN writes : call.command = writes[j].words
    /\ \/ EncodeReply(call.reply) \in {Value("status", <<"?">>), Value("status", <<Garbled>>)}
       \/ \E j \in DOMAIN reads : EncodeReply(call.reply) = AsReplayed(reads[j])

LEMMA CallsFrom ==
    ASSUME NEW writes \in Seq(SentCommands), NEW reads \in Seq(Replies), NEW c, NEW dmg
    PROVE  /\ CallsOn(writes, reads, c, dmg) \in Seq(Call)
           /\ \A n \in DOMAIN CallsOn(writes, reads, c, dmg) :
                 FromTraffic(CallsOn(writes, reads, c, dmg)[n], writes, reads)
  <1> DEFINE cmds == CommandsOf(writes, c, dmg)
             replies == RepliesOf(reads, c, dmg)
             calls == CallsOn(writes, reads, c, dmg)
  <1>1. CASE \E i \in DOMAIN cmds : cmds[i].t # "array"
    <2>1. calls = <<>>
      BY <1>1, Zenon DEF CallsOn, TryRESP, CommandsOf
    <2> HIDE DEF calls
    <2>2. calls \in Seq(Call) /\ DOMAIN calls = {}
      BY <2>1
    <2> QED
      BY <2>2 DEF calls
  <1>2. CASE \A i \in DOMAIN cmds : cmds[i].t = "array"
    <2>1. PICK parts \in Seq(Seq(Call)) : calls = FlattenSeq(parts) /\ CallParts(parts, cmds, replies)
      BY <1>2, TriedParts, Zenon
    <2>2. cmds \in Seq(SentCommands \cup Broken)
      BY WriteSide
    <2>3. DOMAIN cmds = 1 .. Len(cmds)
      BY <2>2
    <2>4. ASSUME NEW i \in 1 .. Len(cmds)
          PROVE  FromTraffic([command |-> cmds[i].words, reply |-> ReplyFor(replies, i)], writes, reads)
                 \/ ~IsData(cmds[i].words)
      <3>1. /\ cmds[i].words = << <<Garbled>> >> \/ \E j \in DOMAIN writes : cmds[i].words = writes[j].words
            /\ \/ EncodeReply(ReplyFor(replies, i)) \in {Value("status", <<"?">>), Value("status", <<Garbled>>)}
               \/ \E j \in DOMAIN reads : EncodeReply(ReplyFor(replies, i)) = AsReplayed(reads[j])
        BY <1>2, <2>3, CallTypes
      <3> HIDE DEF cmds, replies
      <3> QED
        BY <3>1 DEF FromTraffic
    <2> HIDE DEF cmds, replies, calls
    <2>5. calls \in Seq(Call)
      BY <2>1, FlattenType
    <2>6. ASSUME NEW n \in DOMAIN calls PROVE FromTraffic(calls[n], writes, reads)
      <3>1. PICK i \in DOMAIN parts : \E k \in DOMAIN parts[i] : calls[n] = parts[i][k]
        BY <2>1, FlattenElement
      <3>2. i \in 1 .. Len(cmds) /\ parts[i] # <<>>
        BY <2>1, <3>1 DEF CallParts
      <3>3. IsData(cmds[i].words) /\ parts[i] = << [command |-> cmds[i].words, reply |-> ReplyFor(replies, i)] >>
        BY <2>1, <3>2 DEF CallParts
      <3>4. calls[n] = [command |-> cmds[i].words, reply |-> ReplyFor(replies, i)]
        BY <3>1, <3>3
      <3> QED
        BY <2>4, <3>2, <3>3, <3>4
    <2> QED
      BY <2>5, <2>6 DEF calls
  <1> QED
    BY <1>1, <1>2

\* The calls of a text.
WithText(text) == {call \in Call : TextOf(call.command) = text}

\* If the first command of a text and all before it were captured, with their
\* replies, the first call of that text has the reply of that command.
LEMMA FirstCall ==
    ASSUME NEW writes \in Seq(SentCommands), NEW reads \in Seq(Replies), NEW c, NEW dmg, NEW text,
           NEW f \in DOMAIN writes, IsData(writes[f].words), TextOf(writes[f].words) = text,
           \A i \in 1 .. f - 1 : ~(IsData(writes[i].words) /\ TextOf(writes[i].words) = text),
           \A i \in 1 .. f : <<c, "write", i>> \notin DOMAIN dmg /\ <<c, "read", i>> \notin DOMAIN dmg,
           ~GivenUp(writes, c, dmg)
    PROVE  \E call \in Call :
              /\ IsFirst(call, CallsOn(writes, reads, c, dmg), WithText(text))
              /\ EncodeReply(call.reply) = IF f <= Len(reads) THEN AsReplayed(reads[f])
                                           ELSE Value("status", <<"?">>)
  <1> DEFINE cmds == CommandsOf(writes, c, dmg)
             replies == RepliesOf(reads, c, dmg)
             calls == CallsOn(writes, reads, c, dmg)
             call == [command |-> cmds[f].words, reply |-> ReplyFor(replies, f)]
  <1>0. f \in 1 .. Len(writes) /\ f \in Nat \ {0}
    OBVIOUS
  <1>1. /\ cmds \in Seq(SentCommands \cup Broken)
        /\ \A i \in 1 .. f : i \in DOMAIN cmds /\ cmds[i] = writes[i]
    BY <1>0, WriteSide
  <1>2. IF f <= Len(reads) THEN f <= Len(replies) /\ replies[f] = reads[f] ELSE Len(replies) < f
    BY <1>0, ReadSide
  <1>3. replies \in Seq(Replies \cup Broken)
    BY ReadSide
  <1>4. \A i \in DOMAIN cmds : cmds[i].t = "array"
    BY GivesUp
  <1>5. PICK parts \in Seq(Seq(Call)) : calls = FlattenSeq(parts) /\ CallParts(parts, cmds, replies)
    BY <1>4, TriedParts, Zenon
  <1> HIDE DEF cmds, replies, calls
  <1>6. /\ \A i \in 1 .. f : i \in 1 .. Len(cmds) /\ i \in DOMAIN parts
        /\ f \in DOMAIN parts
    <2>1. DOMAIN cmds = 1 .. Len(cmds)
      BY <1>1
    <2>2. Len(parts) = Len(cmds) /\ DOMAIN parts = 1 .. Len(parts)
      BY <1>5 DEF CallParts
    <2>3. \A i \in 1 .. f : i \in 1 .. Len(cmds) /\ i \in DOMAIN parts
      BY <1>1, <2>1, <2>2
    <2> QED
      BY <1>0, <2>3
  <1>7. parts[f] = <<call>> /\ call \in Call
    <2>1. f \in 1 .. Len(cmds) /\ cmds[f] = writes[f] /\ IsData(cmds[f].words)
      BY <1>0, <1>1, <1>6
    <2>2. parts[f] = <<call>>
      BY <1>5, <2>1 DEF CallParts
    <2>3. parts[f] \in Seq(Call) /\ <<call>>[1] = call /\ Len(<<call>>) = 1
      BY <1>6
    <2> HIDE DEF call
    <2> QED
      BY <2>2, <2>3
  <1>8. call \in WithText(text)
    <2>1. f \in 1 .. f /\ cmds[f] = writes[f]
      BY <1>0, <1>1
    <2>2. call.command = writes[f].words
      BY <2>1
    <2> HIDE DEF call
    <2> QED
      BY <1>7, <2>2 DEF WithText
  <1>9. ASSUME NEW i \in 1 .. f - 1, NEW k \in DOMAIN parts[i] PROVE parts[i][k] \notin WithText(text)
    <2>1. i \in 1 .. f /\ i \in 1 .. Len(cmds)
      BY <1>0, <1>6
    <2>2. cmds[i] = writes[i]
      BY <1>1, <2>1
    <2>3. parts[i] # <<>>
      BY <1>9
    <2>4. IsData(cmds[i].words) /\ parts[i] = << [command |-> cmds[i].words, reply |-> ReplyFor(replies, i)] >>
      BY <1>5, <2>1, <2>3 DEF CallParts
    <2>5. parts[i][k] = [command |-> cmds[i].words, reply |-> ReplyFor(replies, i)]
      BY <1>9, <2>4
    <2>6. TextOf(cmds[i].words) # text
      BY <2>2, <2>4
    <2> QED
      BY <2>5, <2>6 DEF WithText
  <1> HIDE DEF call
  <1>10. IsFirst(call, parts[f], WithText(text))
    BY <1>7, <1>8 DEF IsFirst
  <1>11. IsFirst(call, calls, WithText(text))
    BY <1>5, <1>6, <1>9, <1>10, FlattenFirst
  <1>12. EncodeReply(call.reply) = IF f <= Len(reads) THEN AsReplayed(reads[f]) ELSE Value("status", <<"?">>)
    <2>1. CASE f <= Len(reads)
      <3>1. call.reply = Display(reads[f]) /\ reads[f] \in Replies
        BY <1>0, <1>2, <2>1 DEF call, ReplyFor
      <3> QED
        BY <2>1, <3>1, ReplyRoundTrip
    <2>2. CASE ~(f <= Len(reads))
      <3>1. ~(f <= Len(replies))
        BY <1>0, <1>2, <1>3, <2>2
      <3>2. call.reply = <<"?">>
        BY <3>1 DEF call, ReplyFor
      <3> QED
        BY <2>2, <3>2, GarbledRoundTrip
    <2> QED
      BY <2>1, <2>2
  <1> QED
    BY <1>7, <1>11, <1>12 DEF calls

-----------------------------------------------------------------------------
(* The calls of a recording, and the answers of the replay.                *)

CallsIn(traffic, c, dmg) == CallsOn(traffic[c]["write"], traffic[c]["read"], c, dmg)

IsTraffic(traffic) ==
    \A c \in Conns : traffic[c]["write"] \in Seq(SentCommands) /\ traffic[c]["read"] \in Seq(Replies)

Exchange == [proto : {"redis"}, content : Seq(Call)]
Http == [proto |-> "http", content |-> << <<"/">>, <<"200">> >>]

\* There is one exchange for each connection that has calls.
ExchangeParts(parts, traffic, order, dmg) ==
    /\ Len(parts) = Len(order)
    /\ \A i \in 1 .. Len(order) :
          parts[i] = IF CallsIn(traffic, order[i], dmg) = <<>> THEN <<>>
                     ELSE << [proto |-> "redis", content |-> CallsIn(traffic, order[i], dmg)] >>

LEMMA ExchangesFrom ==
    ASSUME NEW traffic, IsTraffic(traffic), NEW order \in Seq(Conns), NEW dmg
    PROVE  \E parts \in Seq(Seq(Exchange)) :
              /\ Exchanges(traffic, order, dmg) = FlattenSeq(parts) \o <<Http>>
              /\ ExchangeParts(parts, traffic, order, dmg)
  <1> DEFINE calls(c) == TryRESP(Buffer(traffic[c]["write"], c, "write", dmg),
                                 Buffer(traffic[c]["read"], c, "read", dmg))
             redis(c) == IF calls(c) = <<>> THEN <<>>
                         ELSE << [proto |-> "redis", content |-> calls(c)] >>
             parts == [i \in DOMAIN order |-> redis(order[i])]
  <1>1. Exchanges(traffic, order, dmg) = FlattenSeq(parts) \o <<Http>>
    BY Zenon DEF Exchanges, Http
  <1>2. \A c : calls(c) = CallsIn(traffic, c, dmg)
    BY Zenon DEF CallsIn, CallsOn
  <1> HIDE DEF calls
  <1>3. ASSUME NEW c \in Conns PROVE redis(c) \in Seq(Exchange)
    <2>1. calls(c) \in Seq(Call)
      BY <1>2, CallsFrom DEF IsTraffic, CallsIn
    <2>2. [proto |-> "redis", content |-> calls(c)] \in Exchange
      BY <2>1 DEF Exchange
    <2> QED
      BY <2>2
  <1>4. \A c : redis(c) = IF CallsIn(traffic, c, dmg) = <<>> THEN <<>>
                          ELSE << [proto |-> "redis", content |-> CallsIn(traffic, c, dmg)] >>
    BY <1>2, Zenon
  <1> HIDE DEF redis
  <1>5. DOMAIN order = 1 .. Len(order) /\ Len(order) \in Nat /\ \A i \in 1 .. Len(order) : order[i] \in Conns
    OBVIOUS
  <1>6. /\ parts \in [1 .. Len(order) -> Seq(Exchange)]
        /\ \A i \in 1 .. Len(order) : parts[i] = redis(order[i])
    BY <1>3, <1>5
  <1> HIDE DEF parts
  <1>7. parts \in Seq(Seq(Exchange)) /\ Len(parts) = Len(order)
    BY <1>5, <1>6, FunctionSeq
  <1>8. ExchangeParts(parts, traffic, order, dmg)
    BY <1>4, <1>6, <1>7 DEF ExchangeParts
  <1> QED
    BY <1>1, <1>7, <1>8

\* The calls of the recording are joined from those of the exchanges.
ContentOf(ex) == IF ex.proto = "redis" THEN ex.content ELSE <<>>

LEMMA ContentsOf ==
    ASSUME NEW exs \in Seq(Exchange \cup {Http})
    PROVE  \E contents \in Seq(Seq(Call)) :
              /\ CallsOf(exs) = FlattenSeq(contents) /\ Len(contents) = Len(exs)
              /\ \A i \in 1 .. Len(exs) : contents[i] = ContentOf(exs[i])
  <1> DEFINE contents == [i \in DOMAIN exs |-> IF exs[i].proto = "redis" THEN exs[i].content ELSE <<>>]
  <1>1. CallsOf(exs) = FlattenSeq(contents)
    BY Zenon DEF CallsOf
  <1>2. DOMAIN exs = 1 .. Len(exs) /\ Len(exs) \in Nat
    OBVIOUS
  <1>3. ASSUME NEW i \in 1 .. Len(exs) PROVE ContentOf(exs[i]) \in Seq(Call)
    <2>1. CASE exs[i] \in Exchange
      BY <2>1 DEF Exchange, ContentOf
    <2>2. CASE exs[i] = Http
      <3>1. exs[i].proto # "redis"
        BY <2>2 DEF Http
      <3>2. ContentOf(exs[i]) = <<>>
        BY <3>1 DEF ContentOf
      <3> QED
        BY <3>2
    <2> QED
      BY <2>1, <2>2
  <1>4. /\ contents \in [1 .. Len(exs) -> Seq(Call)]
        /\ \A i \in 1 .. Len(exs) : contents[i] = ContentOf(exs[i])
    BY <1>2, <1>3 DEF ContentOf
  <1> HIDE DEF contents
  <1>5. contents \in Seq(Seq(Call)) /\ Len(contents) = Len(exs)
    BY <1>2, <1>4, FunctionSeq
  <1> QED
    BY <1>1, <1>4, <1>5

\* Every recorded call is a call of a connection.
LEMMA RecordedFrom ==
    ASSUME NEW traffic, IsTraffic(traffic), NEW order \in Seq(Conns), NEW dmg
    PROVE  LET calls == CallsOf(Exchanges(traffic, order, dmg)) IN
           /\ calls \in Seq(Call)
           /\ \A n \in DOMAIN calls : \E i \in DOMAIN order :
                 \E k \in DOMAIN CallsIn(traffic, order[i], dmg) :
                     calls[n] = CallsIn(traffic, order[i], dmg)[k]
  <1> DEFINE exs == Exchanges(traffic, order, dmg)
             calls == CallsOf(exs)
             U == Exchange \cup {Http}
  <1>1. PICK parts \in Seq(Seq(Exchange)) :
            exs = FlattenSeq(parts) \o <<Http>> /\ ExchangeParts(parts, traffic, order, dmg)
    BY ExchangesFrom, Zenon
  <1> HIDE DEF exs, U
  <1> DEFINE first == FlattenSeq(parts)
  <1>2. first \in Seq(Exchange)
    BY FlattenType
  <1>3. \A j \in DOMAIN first : \E i \in DOMAIN parts : \E k \in DOMAIN parts[i] : first[j] = parts[i][k]
    BY FlattenElement
  <1> HIDE DEF first
  <1>4. first \in Seq(U) /\ <<Http>> \in Seq(U)
    BY <1>2, SeqByElements DEF U
  <1>5. exs \in Seq(U) /\ Len(exs) = Len(first) + 1
        /\ \A j \in 1 .. Len(first) + 1 : exs[j] = IF j <= Len(first) THEN first[j] ELSE Http
    <2>1. exs = first \o <<Http>> /\ Len(<<Http>>) = 1 /\ <<Http>>[1] = Http /\ Len(first) \in Nat
      BY <1>1, <1>2 DEF first
    <2>2. /\ exs \in Seq(U) /\ Len(exs) = Len(first) + 1
          /\ \A j \in 1 .. Len(first) + 1 : exs[j] = IF j <= Len(first) THEN first[j]
                                                      ELSE <<Http>>[j - Len(first)]
      BY <1>4, <2>1, ConcatProperties
    <2>3. \A j \in 1 .. Len(first) + 1 : ~(j <= Len(first)) => j - Len(first) = 1
      BY <2>1
    <2> QED
      BY <2>1, <2>2, <2>3
  <1>6. PICK contents \in Seq(Seq(Call)) :
              /\ calls = FlattenSeq(contents) /\ Len(contents) = Len(exs)
              /\ \A i \in 1 .. Len(exs) : contents[i] = ContentOf(exs[i])
    BY <1>5, ContentsOf DEF U
  <1> HIDE DEF calls
  <1>7. calls \in Seq(Call)
    BY <1>6, FlattenType
  <1>8. ASSUME NEW n \in DOMAIN calls
        PROVE  \E i \in DOMAIN order : \E k \in DOMAIN CallsIn(traffic, order[i], dmg) :
                   calls[n] = CallsIn(traffic, order[i], dmg)[k]
    <2>1. PICK j \in DOMAIN contents : \E k \in DOMAIN contents[j] : calls[n] = contents[j][k]
      BY <1>6, FlattenElement
    <2>2. j \in 1 .. Len(first) + 1 /\ contents[j] = ContentOf(exs[j]) /\ contents[j] # <<>>
      BY <1>5, <1>6, <2>1
    <2>3. exs[j] # Http
      BY <2>2 DEF ContentOf, Http
    <2>4. j \in DOMAIN first /\ exs[j] = first[j]
      BY <1>2, <1>5, <2>2, <2>3
    <2>5. PICK i \in DOMAIN parts : \E k \in DOMAIN parts[i] : first[j] = parts[i][k]
      BY <1>3, <2>4
    <2>6. i \in 1 .. Len(order) /\ parts[i] # <<>>
      BY <1>1, <2>5 DEF ExchangeParts
    <2>7. parts[i] = << [proto |-> "redis", content |-> CallsIn(traffic, order[i], dmg)] >>
      BY <1>1, <2>6 DEF ExchangeParts
    <2>8. first[j] = [proto |-> "redis", content |-> CallsIn(traffic, order[i], dmg)]
      BY <2>5, <2>7
    <2>9. contents[j] = CallsIn(traffic, order[i], dmg)
      BY <2>2, <2>4, <2>8 DEF ContentOf
    <2>10. i \in DOMAIN order
      BY <2>6
    <2> QED
      BY <2>1, <2>9, <2>10
  <1> QED
    BY <1>7, <1>8 DEF calls, exs

\* The first call in a set is that of the connection flushed first of those
\* that have one.
LEMMA RecordedFirst ==
    ASSUME NEW traffic, IsTraffic(traffic), NEW order \in Seq(Conns), NEW dmg, NEW M, NEW x,
           NEW p \in DOMAIN order, IsFirst(x, CallsIn(traffic, order[p], dmg), M),
           \A i \in 1 .. p - 1 : \A k \in DOMAIN CallsIn(traffic, order[i], dmg) :
               CallsIn(traffic, order[i], dmg)[k] \notin M
    PROVE  IsFirst(x, CallsOf(Exchanges(traffic, order, dmg)), M)
  <1> DEFINE exs == Exchanges(traffic, order, dmg)
             calls == CallsOf(exs)
             U == Exchange \cup {Http}
             Has == {ex \in U : \E k \in DOMAIN ContentOf(ex) : ContentOf(ex)[k] \in M}
             ExOf(i) == [proto |-> "redis", content |-> CallsIn(traffic, order[i], dmg)]
  <1>1. PICK parts \in Seq(Seq(Exchange)) :
            exs = FlattenSeq(parts) \o <<Http>> /\ ExchangeParts(parts, traffic, order, dmg)
    BY ExchangesFrom, Zenon
  <1> HIDE DEF exs
  <1>2. p \in 1 .. Len(order) /\ p \in 1 .. Len(parts) /\ p \in DOMAIN parts
    BY <1>1 DEF ExchangeParts
  <1>3. \A i : ContentOf(ExOf(i)) = CallsIn(traffic, order[i], dmg)
    BY DEF ContentOf
  <1>4. CallsIn(traffic, order[p], dmg) # <<>> /\ \E k \in DOMAIN ContentOf(ExOf(p)) : ContentOf(ExOf(p))[k] \in M
    <2> DEFINE s == CallsIn(traffic, order[p], dmg)
    <2> HIDE DEF s
    <2>1. PICK k \in DOMAIN s : s[k] \in M
      BY DEF IsFirst, s
    <2>2. s # <<>>
      BY <2>1
    <2>3. ContentOf(ExOf(p)) = s
      BY <1>3 DEF s
    <2> HIDE DEF ExOf
    <2> QED
      BY <2>1, <2>2, <2>3 DEF s
  <1>5. parts[p] = <<ExOf(p)>>
    BY <1>1, <1>2, <1>4 DEF ExchangeParts
  <1> HIDE DEF ExOf
  <1>6. ExOf(p) \in Exchange
    <2>1. parts[p] \in Seq(Exchange) /\ <<ExOf(p)>>[1] = ExOf(p) /\ Len(<<ExOf(p)>>) = 1
      BY <1>2
    <2> QED
      BY <1>5, <2>1
  <1>7. IsFirst(ExOf(p), parts[p], Has)
    <2>1. ExOf(p) \in Has
      BY <1>4, <1>6
    <2> HIDE DEF Has
    <2> QED
      BY <1>5, <2>1 DEF IsFirst
  <1>8. ASSUME NEW i \in 1 .. p - 1, NEW k \in DOMAIN parts[i] PROVE parts[i][k] \notin Has
    <2>1. i \in 1 .. Len(order) /\ parts[i] # <<>>
      BY <1>2, <1>8
    <2>2. parts[i] = <<ExOf(i)>>
      BY <1>1, <2>1 DEF ExchangeParts, ExOf
    <2>3. parts[i][k] = ExOf(i)
      BY <1>8, <2>2
    <2> QED
      BY <1>3, <1>8, <2>3
  <1> HIDE DEF Has
  <1>9. IsFirst(ExOf(p), FlattenSeq(parts), Has)
    BY <1>2, <1>7, <1>8, FlattenFirst
  <1>10. FlattenSeq(parts) \in Seq(Exchange)
    BY FlattenType
  <1>11. FlattenSeq(parts) \in Seq(U) /\ <<Http>> \in Seq(U)
    BY <1>10, SeqByElements
  <1> HIDE DEF U
  <1>12. exs \in Seq(U) /\ IsFirst(ExOf(p), exs, Has)
    <2> DEFINE a == FlattenSeq(parts)
               b == <<Http>>
    <2>1. a \in Seq(U) /\ b \in Seq(U) /\ exs = a \o b /\ IsFirst(ExOf(p), a, Has)
      BY <1>1, <1>9, <1>11
    <2> HIDE DEF a, b
    <2> QED
      BY <2>1, FirstOfConcat, ConcatProperties
  <1>13. PICK contents \in Seq(Seq(Call)) :
              /\ calls = FlattenSeq(contents) /\ Len(contents) = Len(exs)
              /\ \A i \in 1 .. Len(exs) : contents[i] = ContentOf(exs[i])
    BY <1>12, ContentsOf DEF U
  <1> HIDE DEF calls
  <1>14. PICK q \in DOMAIN exs : exs[q] = ExOf(p) /\ \A i \in 1 .. q - 1 : exs[i] \notin Has
    BY <1>12 DEF IsFirst
  <1>15. q \in DOMAIN contents /\ q \in 1 .. Len(exs) /\ contents[q] = CallsIn(traffic, order[p], dmg)
    BY <1>3, <1>12, <1>13, <1>14
  <1>16. ASSUME NEW i \in 1 .. q - 1, NEW k \in DOMAIN contents[i] PROVE contents[i][k] \notin M
    <2>1. i \in 1 .. Len(exs) /\ exs[i] \in U
      BY <1>12, <1>15
    <2>2. contents[i] = ContentOf(exs[i]) /\ exs[i] \notin Has
      BY <1>13, <1>14, <2>1
    <2> QED
      BY <1>16, <2>1, <2>2 DEF Has
  <1>17. IsFirst(x, contents[q], M)
    BY <1>15
  <1>18. IsFirst(x, calls, M)
    BY <1>13, <1>15, <1>16, <1>17, FlattenFirst
  <1> QED
    BY <1>18 DEF calls, exs

\* The proxy answers with the reply of the first call of the command's text.
LEMMA ServesFirst ==
    ASSUME NEW exs, CallsOf(exs) \in Seq(Call), NEW words, IsData(words)
    PROVE  /\ (\A n \in DOMAIN CallsOf(exs) : CallsOf(exs)[n] \notin WithText(TextOf(words)))
                 => ReplyTo(Build(exs).dependencies, words) = EncodeError("unrecorded")
           /\ \A call : IsFirst(call, CallsOf(exs), WithText(TextOf(words)))
                 => ReplyTo(Build(exs).dependencies, words) = EncodeReply(call.reply)
  <1> DEFINE calls == CallsOf(exs)
             deps == Build(exs).dependencies
             want == LowerText(FlattenSeq(words))
             match == {i \in DOMAIN deps : LowerText(deps[i].request) = want}
             M == WithText(TextOf(words))
             answer == ReplyTo(deps, words)
  <1>1. deps = [i \in DOMAIN calls |-> DependencyOf(calls[i])]
    BY Zenon DEF Build
  <1>2. answer = IF match = {} THEN EncodeError("unrecorded") ELSE EncodeReply(deps[Min(match)].response)
    <2>1. words # <<>> /\ ~IsAdminCommand(words[1])
      BY DEF IsData
    <2> HIDE DEF deps
    <2> QED
      BY <2>1 DEF ReplyTo
  <1>3. want = TextOf(words)
    BY DEF TextOf
  <1> HIDE DEF calls, deps, want, answer
  <1>4. DOMAIN deps = DOMAIN calls /\ DOMAIN calls = 1 .. Len(calls) /\ Len(calls) \in Nat
        /\ \A i \in DOMAIN calls : calls[i] \in Call
    BY <1>1 DEF calls
  <1>5. ASSUME NEW i \in DOMAIN calls
        PROVE  deps[i].response = calls[i].reply /\ (i \in match <=> calls[i] \in M)
    <2>1. deps[i].request = FlattenSeq(calls[i].command) /\ deps[i].response = calls[i].reply
      BY <1>1, <1>5 DEF DependencyOf
    <2>2. LowerText(deps[i].request) = TextOf(calls[i].command)
      BY <2>1 DEF TextOf
    <2> QED
      BY <1>3, <1>4, <1>5, <2>1, <2>2 DEF WithText
  <1>6. match \subseteq DOMAIN calls
    BY <1>4
  <1> HIDE DEF match, M
  <1>7. ASSUME \A n \in DOMAIN calls : calls[n] \notin M PROVE answer = EncodeError("unrecorded")
    <2>1. match = {}
      BY <1>5, <1>6, <1>7
    <2> QED
      BY <1>2, <2>1
  <1>8. ASSUME NEW call, IsFirst(call, calls, M) PROVE answer = EncodeReply(call.reply)
    <2>1. PICK n \in DOMAIN calls : calls[n] = call /\ call \in M /\ \A i \in 1 .. n - 1 : calls[i] \notin M
      BY <1>8 DEF IsFirst
    <2>2. n \in match /\ match \subseteq Nat /\ match # {}
      BY <1>4, <1>5, <1>6, <2>1
    <2>3. Min(match) \in match /\ \A j \in match : Min(match) <= j
      BY <2>2, LeastOfNat
    <2>4. ASSUME NEW i \in match PROVE ~(i < n)
      <3>1. i \in DOMAIN calls /\ calls[i] \in M
        BY <1>5, <1>6
      <3> QED
        BY <1>4, <2>1, <3>1
    <2>5. Min(match) = n
      BY <2>2, <2>3, <2>4
    <2> QED
      BY <1>2, <1>5, <2>1, <2>2, <2>5
  <1> QED
    BY <1>7, <1>8 DEF calls, deps, M, answer

-----------------------------------------------------------------------------
(* The invariant: the recording is that of the traffic, in some order of   *)
(* the connections, and the answers are those of the recording.            *)

AnswersTo(traffic, tc) ==
    [c \in Conns |-> [i \in DOMAIN traffic[c]["write"] |->
        ReplyTo(tc.dependencies, traffic[c]["write"][i].words)]]

ReplayInv ==
    /\ phase \in {"record", "stopped", "replayed"}
    /\ sent \in [Conns -> [Sides -> Seq(SentCommands \cup Replies)]] /\ IsTraffic(sent)
    /\ phase # "record" => \E order \in SetToSeqs(Conns) : recording = Build(Exchanges(sent, order, damage))
    /\ replayed = IF phase = "replayed" THEN AnswersTo(sent, recording) ELSE [c \in Conns |-> <<>>]

LEMMA ReplayStart == Init => ReplayInv
  <1> SUFFICES ASSUME Init PROVE ReplayInv
    OBVIOUS
  <1>1. <<>> \in Seq(SentCommands \cup Replies) /\ <<>> \in Seq(SentCommands) /\ <<>> \in Seq(Replies)
    OBVIOUS
  <1>2. sent = [c \in Conns |-> [side \in Sides |-> <<>>]] /\ "write" \in Sides /\ "read" \in Sides
    BY DEF Init, Sides
  <1>3. sent \in [Conns -> [Sides -> Seq(SentCommands \cup Replies)]] /\ IsTraffic(sent)
    BY <1>1, <1>2 DEF IsTraffic
  <1> QED
    BY <1>3 DEF Init, ReplayInv

\* A message is added to one side of a connection.
LEMMA TrafficGrows ==
    ASSUME NEW traffic, traffic \in [Conns -> [Sides -> Seq(SentCommands \cup Replies)]], IsTraffic(traffic),
           NEW c \in Conns, NEW side \in Sides, NEW m,
           side = "write" => m \in SentCommands, side = "read" => m \in Replies
    PROVE  LET new == [traffic EXCEPT ![c][side] = Append(@, m)] IN
           new \in [Conns -> [Sides -> Seq(SentCommands \cup Replies)]] /\ IsTraffic(new)
  <1> DEFINE U == SentCommands \cup Replies
             s == traffic[c][side]
             t == Append(s, m)
             new == [traffic EXCEPT ![c][side] = t]
  <1>1. m \in U /\ Sides = {"write", "read"}
    BY DEF Sides
  <1>2. s \in Seq(U)
    OBVIOUS
  <1>3. t \in Seq(U)
    BY <1>1, <1>2
  <1>4. (side = "write" => t \in Seq(SentCommands)) /\ (side = "read" => t \in Seq(Replies))
    BY DEF IsTraffic
  <1> HIDE DEF t, U
  <1>5. new \in [Conns -> [Sides -> Seq(U)]]
    BY <1>3 DEF U
  <1>6. ASSUME NEW d \in Conns PROVE new[d]["write"] \in Seq(SentCommands) /\ new[d]["read"] \in Seq(Replies)
    BY <1>1, <1>4 DEF IsTraffic
  <1> QED
    BY <1>5, <1>6 DEF IsTraffic, t, U

LEMMA ReplayStep == ReplayInv /\ [Next]_vars => ReplayInv'
  <1> SUFFICES ASSUME ReplayInv, [Next]_vars PROVE ReplayInv'
    OBVIOUS
  <1>1. CASE UNCHANGED vars
    BY <1>1 DEF ReplayInv, vars
  <1>2. ASSUME NEW c \in Conns, NEW words \in AppCommands, AppSends(c, words) PROVE ReplayInv'
    <2>1. Command(words) \in SentCommands /\ "write" \in Sides
      BY DEF SentCommands, Sides
    <2>2. sent' \in [Conns -> [Sides -> Seq(SentCommands \cup Replies)]] /\ IsTraffic(sent')
      BY <1>2, <2>1, TrafficGrows DEF ReplayInv, AppSends
    <2>3. phase = "record" /\ phase' = phase /\ replayed' = replayed
      BY <1>2 DEF AppSends
    <2>4. replayed = [d \in Conns |-> <<>>]
      BY <2>3 DEF ReplayInv
    <2> QED
      BY <2>2, <2>3, <2>4 DEF ReplayInv
  <1>3. ASSUME NEW c \in Conns, NEW v \in Replies, RedisAnswers(c, v) PROVE ReplayInv'
    <2>1. "read" \in Sides
      BY DEF Sides
    <2>2. sent' \in [Conns -> [Sides -> Seq(SentCommands \cup Replies)]] /\ IsTraffic(sent')
      BY <1>3, <2>1, TrafficGrows DEF ReplayInv, RedisAnswers
    <2>3. phase = "record" /\ phase' = phase /\ replayed' = replayed
      BY <1>3 DEF RedisAnswers
    <2>4. replayed = [d \in Conns |-> <<>>]
      BY <2>3 DEF ReplayInv
    <2> QED
      BY <2>2, <2>3, <2>4 DEF ReplayInv
  <1>4. ASSUME NEW order \in SetToSeqs(Conns), NEW dmg, StopRecording(order, dmg) PROVE ReplayInv'
    <2>1. /\ phase = "record" /\ phase' = "stopped" /\ sent' = sent /\ damage' = dmg /\ replayed' = replayed
          /\ recording' = Build(Exchanges(sent, order, dmg))
      BY <1>4 DEF StopRecording
    <2>2. recording' = Build(Exchanges(sent', order, damage'))
      BY <2>1
    <2>3. replayed = [d \in Conns |-> <<>>]
      BY <2>1 DEF ReplayInv
    <2>4. IsTraffic(sent')
      BY <2>1 DEF ReplayInv
    <2> QED
      BY <1>4, <2>1, <2>2, <2>3, <2>4 DEF ReplayInv
  <1>5. CASE Replay
    <2>1. /\ phase = "stopped" /\ phase' = "replayed" /\ sent' = sent /\ damage' = damage /\ recording' = recording
          /\ replayed' = AnswersTo(sent, recording)
      BY <1>5 DEF Replay, AnswersTo
    <2>2. PICK order \in SetToSeqs(Conns) : recording = Build(Exchanges(sent, order, damage))
      BY <2>1 DEF ReplayInv
    <2>3. recording' = Build(Exchanges(sent', order, damage')) /\ replayed' = AnswersTo(sent', recording')
      BY <2>1, <2>2
    <2>4. IsTraffic(sent')
      BY <2>1 DEF ReplayInv
    <2> QED
      BY <2>1, <2>3, <2>4 DEF ReplayInv
  <1>6. CASE Terminated
    BY <1>1, <1>6 DEF Terminated
  <1> QED
    BY <1>1, <1>2, <1>3, <1>4, <1>5, <1>6 DEF Next

-----------------------------------------------------------------------------
(* What the invariant says of an answer.                                   *)

\* The connections are flushed in some order, each of them once.
LEMMA EveryConnFlushed ==
    ASSUME NEW order \in SetToSeqs(Conns)
    PROVE  order \in Seq(Conns) /\ \A c \in Conns : \E p \in DOMAIN order : order[p] = c
  <1> DEFINE n == Cardinality(Conns)
             D == 1 .. n
  <1>1. IsFiniteSet(Conns) /\ n \in Nat
    BY RecordReplayAssumption, FS_CardinalityType
  <1>2. order \in [D -> Conns] /\ \A i, j \in D : i # j => order[i] # order[j]
    BY DEF SetToSeqs
  <1>3. order \in Injection(D, Conns)
    BY <1>2 DEF Injection, IsInjective
  <1>4. IsFiniteSet(D) /\ Cardinality(D) = n
    BY <1>1, FS_Interval
  <1> HIDE DEF D, n
  <1>5. order \in Surjection(D, Conns)
    BY <1>1, <1>3, <1>4, FS_Injection DEF n
  <1>6. \A c \in Conns : \E p \in D : order[p] = c
    BY <1>5 DEF Surjection
  <1>7. order \in Seq(Conns) /\ DOMAIN order = D
    BY <1>1, <1>2, FunctionSeq DEF D
  <1> QED
    BY <1>6, <1>7

\* No command that was sent has the garbled text.
LEMMA SentText ==
    ASSUME ReplayInv, NEW c \in Conns, NEW i \in DOMAIN sent[c]["write"]
    PROVE  TextOf(sent[c]["write"][i].words) # <<Garbled>>
  <1>1. sent[c]["write"] \in Seq(SentCommands)
    BY DEF ReplayInv, IsTraffic
  <1>2. PICK words \in AppCommands : sent[c]["write"][i] = Command(words)
    BY <1>1 DEF SentCommands
  <1>3. sent[c]["write"][i].words = words
    BY <1>2 DEF Command
  <1> QED
    BY <1>3, RecordReplayAssumption DEF TextOf

\* A connection with a call of a text carried that text, and what the call is
\* answered with is a reply of the connection, "?" or the garbled text.
LEMMA CallCarried ==
    ASSUME ReplayInv, NEW c \in Conns, NEW k \in DOMAIN CallsIn(sent, c, damage), NEW text,
           text # <<Garbled>>, CallsIn(sent, c, damage)[k] \in WithText(text)
    PROVE  LET answer == EncodeReply(CallsIn(sent, c, damage)[k].reply) IN
           /\ c \in Carriers(text)
           /\ \/ answer \in {Value("status", <<"?">>), Value("status", <<Garbled>>)}
              \/ \E j \in DOMAIN sent[c]["read"] : answer = ReplyAt(c, j)
  <1> DEFINE call == CallsIn(sent, c, damage)[k]
             writes == sent[c]["write"]
             reads == sent[c]["read"]
  <1>1. writes \in Seq(SentCommands) /\ reads \in Seq(Replies)
    BY DEF ReplayInv, IsTraffic
  <1>2. FromTraffic(call, writes, reads) /\ TextOf(call.command) = text
    BY <1>1, CallsFrom DEF CallsIn, WithText
  <1> HIDE DEF call
  <1>3. call.command # << <<Garbled>> >>
    BY <1>2, GarbledText
  <1>4. PICK j \in DOMAIN writes : call.command = writes[j].words
    BY <1>2, <1>3 DEF FromTraffic
  <1>5. j \in Places(c, text)
    BY <1>2, <1>4 DEF Places, FromTraffic
  <1>6. c \in Carriers(text)
    BY <1>5 DEF Carriers
  <1>7. ASSUME NEW m \in DOMAIN reads PROVE AsReplayed(reads[m]) = ReplyAt(c, m)
    <2>1. m <= Len(reads)
      BY <1>1
    <2> QED
      BY <2>1 DEF ReplyAt
  <1> QED
    BY <1>2, <1>6, <1>7 DEF FromTraffic, call

\* The commands of a replay, the calls that were recorded and the answers.
LEMMA AnswerOf ==
    ASSUME ReplayInv, NEW c \in Conns, NEW i \in DOMAIN replayed[c], IsData(sent[c]["write"][i].words)
    PROVE  /\ i \in DOMAIN sent[c]["write"]
           /\ \E order \in SetToSeqs(Conns) :
                 replayed[c][i] = ReplyTo(Build(Exchanges(sent, order, damage)).dependencies,
                                          sent[c]["write"][i].words)
  <1>1. phase = "replayed"
    <2>1. CASE phase # "replayed"
      <3>1. replayed[c] = <<>>
        BY <2>1 DEF ReplayInv
      <3> QED
        BY <3>1
    <2> QED
      BY <2>1
  <1>2. replayed = AnswersTo(sent, recording)
    BY <1>1 DEF ReplayInv
  <1>3. PICK order \in SetToSeqs(Conns) : recording = Build(Exchanges(sent, order, damage))
    BY <1>1 DEF ReplayInv
  <1>4. /\ DOMAIN replayed[c] = DOMAIN sent[c]["write"]
        /\ replayed[c][i] = ReplyTo(recording.dependencies, sent[c]["write"][i].words)
    BY <1>2 DEF AnswersTo
  <1> QED
    BY <1>3, <1>4

LEMMA DamageStays == ReplayInv => DamageStaysOnConnection
  <1> SUFFICES ASSUME ReplayInv, NEW c \in Conns, NEW i \in DOMAIN replayed[c],
                      IsData(sent[c]["write"][i].words)
               PROVE  LET words == sent[c]["write"][i].words
                          answer == replayed[c][i]
                      IN  \/ answer \in {EncodeError("unrecorded"), Value("status", <<"?">>),
                                         Value("status", <<Garbled>>)}
                          \/ \E d \in Carriers(TextOf(words)) : \E j \in DOMAIN sent[d]["read"] :
                                answer = ReplyAt(d, j)
    BY DEF DamageStaysOnConnection, Answered
  <1> DEFINE words == sent[c]["write"][i].words
             text == TextOf(words)
             answer == replayed[c][i]
  <1>1. PICK order \in SetToSeqs(Conns) :
            answer = ReplyTo(Build(Exchanges(sent, order, damage)).dependencies, words)
    BY AnswerOf
  <1>2. i \in DOMAIN sent[c]["write"] /\ text # <<Garbled>>
    BY AnswerOf, SentText
  <1> DEFINE exs == Exchanges(sent, order, damage)
             calls == CallsOf(exs)
  <1>3. order \in Seq(Conns) /\ IsTraffic(sent)
    BY EveryConnFlushed DEF ReplayInv
  <1>4. /\ calls \in Seq(Call)
        /\ \A n \in DOMAIN calls : \E p \in DOMAIN order :
              \E k \in DOMAIN CallsIn(sent, order[p], damage) :
                  calls[n] = CallsIn(sent, order[p], damage)[k]
    BY <1>3, RecordedFrom
  <1> HIDE DEF words, text, answer, exs
  <1>5. CASE \A n \in DOMAIN calls : calls[n] \notin WithText(text)
    <2>1. answer = EncodeError("unrecorded")
      BY <1>1, <1>4, <1>5, ServesFirst DEF words, text, exs
    <2> QED
      BY <2>1 DEF answer
  <1>6. CASE \E n \in DOMAIN calls : calls[n] \in WithText(text)
    <2> DEFINE at == {n \in DOMAIN calls : calls[n] \in WithText(text)}
               f == Min(at)
    <2>1. at \subseteq Nat /\ at # {} /\ DOMAIN calls = 1 .. Len(calls) /\ Len(calls) \in Nat
      BY <1>4, <1>6
    <2>2. f \in at /\ \A j \in at : f <= j
      BY <2>1, LeastOfNat
    <2> HIDE DEF f
    <2>3. f \in DOMAIN calls /\ f \in Nat /\ calls[f] \in WithText(text) /\ \A j \in 1 .. f - 1 : calls[j] \notin WithText(text)
      BY <2>1, <2>2
    <2> HIDE DEF calls, at
    <2>4. IsFirst(calls[f], calls, WithText(text))
      BY <2>3 DEF IsFirst
    <2>5. answer = EncodeReply(calls[f].reply)
      BY <1>1, <1>4, <2>4, ServesFirst DEF words, text, exs, calls
    <2>6. PICK p \in DOMAIN order : \E k \in DOMAIN CallsIn(sent, order[p], damage) :
                  calls[f] = CallsIn(sent, order[p], damage)[k]
      BY <1>4, <2>3
    <2>7. order[p] \in Conns
      BY <1>3
    <2>8. \/ answer \in {Value("status", <<"?">>), Value("status", <<Garbled>>)}
          \/ \E j \in DOMAIN sent[order[p]]["read"] : answer = ReplyAt(order[p], j)
      BY <1>2, <2>3, <2>5, <2>6, <2>7, CallCarried
    <2>9. order[p] \in Carriers(text)
      BY <1>2, <2>3, <2>6, <2>7, CallCarried
    <2> QED
      BY <2>8, <2>9 DEF answer, text, words
  <1> QED
    BY <1>5, <1>6

\* The two ways to say that a connection was given up.
LEMMA DiscardedIsGivenUp ==
    ASSUME NEW c
    PROVE  Discarded(c) <=> GivenUp(sent[c]["write"], c, damage)
  BY DEF Discarded, GivenUp, Hit

\* Nothing is recorded of a connection that was given up.
LEMMA DiscardedHasNoCalls ==
    ASSUME ReplayInv, NEW c \in Conns, Discarded(c)
    PROVE  CallsIn(sent, c, damage) = <<>>
  <1> DEFINE writes == sent[c]["write"]
             cmds == CommandsOf(writes, c, damage)
  <1>1. writes \in Seq(SentCommands) /\ GivenUp(writes, c, damage)
    BY DiscardedIsGivenUp DEF ReplayInv, IsTraffic
  <1>2. \E i \in DOMAIN cmds : cmds[i].t # "array"
    BY <1>1, GivesUp
  <1> QED
    BY <1>2, Zenon DEF CallsIn, CallsOn, TryRESP, CommandsOf

\* The connections that carried a text and were not given up.
Kept(text) == {c \in Carriers(text) : ~Discarded(c)}

LEMMA CallKept ==
    ASSUME ReplayInv, NEW c \in Conns, NEW k \in DOMAIN CallsIn(sent, c, damage), NEW text,
           text # <<Garbled>>, CallsIn(sent, c, damage)[k] \in WithText(text)
    PROVE  c \in Kept(text)
  <1>1. c \in Carriers(text)
    BY CallCarried
  <1>2. CallsIn(sent, c, damage) # <<>>
    OBVIOUS
  <1> QED
    BY <1>1, <1>2, DiscardedHasNoCalls DEF Kept

\* A text that no kept connection carried was not recorded.
LEMMA NoneKept ==
    ASSUME ReplayInv, NEW c \in Conns, NEW i \in DOMAIN replayed[c],
           IsData(sent[c]["write"][i].words), Kept(TextOf(sent[c]["write"][i].words)) = {}
    PROVE  replayed[c][i] = EncodeError("unrecorded")
  <1> DEFINE words == sent[c]["write"][i].words
             text == TextOf(words)
             answer == replayed[c][i]
  <1>1. PICK order \in SetToSeqs(Conns) :
            answer = ReplyTo(Build(Exchanges(sent, order, damage)).dependencies, words)
    BY AnswerOf
  <1>2. text # <<Garbled>>
    BY AnswerOf, SentText
  <1> DEFINE exs == Exchanges(sent, order, damage)
             calls == CallsOf(exs)
  <1>3. order \in Seq(Conns) /\ IsTraffic(sent)
    BY EveryConnFlushed DEF ReplayInv
  <1>4. /\ calls \in Seq(Call)
        /\ \A n \in DOMAIN calls : \E p \in DOMAIN order :
              \E k \in DOMAIN CallsIn(sent, order[p], damage) :
                  calls[n] = CallsIn(sent, order[p], damage)[k]
    BY <1>3, RecordedFrom
  <1>5. Kept(text) = {} /\ IsData(words)
    OBVIOUS
  <1> HIDE DEF words, text, answer, exs, calls
  <1>6. ASSUME NEW n \in DOMAIN calls, calls[n] \in WithText(text) PROVE FALSE
    <2>1. PICK p \in DOMAIN order : \E k \in DOMAIN CallsIn(sent, order[p], damage) :
              calls[n] = CallsIn(sent, order[p], damage)[k]
      BY <1>4
    <2>2. order[p] \in Conns
      BY <1>3
    <2> QED
      BY <1>2, <1>5, <1>6, <2>1, <2>2, CallKept
  <1>7. answer = EncodeError("unrecorded")
    BY <1>1, <1>4, <1>5, <1>6, ServesFirst DEF text, exs, calls
  <1> QED
    BY <1>7 DEF answer

\* One that some did is answered from the one flushed first.
LEMMA SomeKept ==
    ASSUME ReplayInv, NEW c \in Conns, NEW i \in DOMAIN replayed[c],
           IsData(sent[c]["write"][i].words), Kept(TextOf(sent[c]["write"][i].words)) # {},
           \A d \in Kept(TextOf(sent[c]["write"][i].words)) :
               ~DamagedUpTo(d, First(d, TextOf(sent[c]["write"][i].words)))
    PROVE  \E d \in Kept(TextOf(sent[c]["write"][i].words)) :
               replayed[c][i] = ReplyAt(d, First(d, TextOf(sent[c]["write"][i].words)))
  <1> DEFINE words == sent[c]["write"][i].words
             text == TextOf(words)
             answer == replayed[c][i]
  <1>1. PICK order \in SetToSeqs(Conns) :
            answer = ReplyTo(Build(Exchanges(sent, order, damage)).dependencies, words)
    BY AnswerOf
  <1>2. i \in DOMAIN sent[c]["write"] /\ text # <<Garbled>>
    BY AnswerOf, SentText
  <1> DEFINE exs == Exchanges(sent, order, damage)
             calls == CallsOf(exs)
  <1>3. order \in Seq(Conns) /\ IsTraffic(sent) /\ \A d \in Conns : \E p \in DOMAIN order : order[p] = d
    BY EveryConnFlushed DEF ReplayInv
  <1>4. calls \in Seq(Call)
    BY <1>3, RecordedFrom
  <1>5. Kept(text) # {} /\ Kept(text) \subseteq Carriers(text) /\ Carriers(text) \subseteq Conns
    BY DEF Kept, Carriers
  <1> HIDE DEF words, text, answer, exs, calls
  \* The kept carrier that was flushed first.
  <1> DEFINE flushed == {p \in DOMAIN order : order[p] \in Kept(text)}
             p == Min(flushed)
             d == order[p]
             f == First(d, text)
             writes == sent[d]["write"]
             reads == sent[d]["read"]
  <1>6. flushed \subseteq Nat /\ flushed # {}
    BY <1>3, <1>5
  <1>7. p \in flushed /\ \A j \in flushed : p <= j
    BY <1>6, LeastOfNat
  <1> HIDE DEF p
  <1>8. /\ p \in DOMAIN order /\ d \in Kept(text) /\ d \in Conns
        /\ \A j \in 1 .. p - 1 : order[j] \in Conns /\ order[j] \notin Kept(text)
    <2>1. p \in DOMAIN order /\ d \in Kept(text) /\ d \in Conns /\ DOMAIN order = 1 .. Len(order)
      BY <1>3, <1>7
    <2>2. ASSUME NEW j \in 1 .. p - 1 PROVE order[j] \in Conns /\ order[j] \notin Kept(text)
      <3>1. j \in DOMAIN order /\ ~(p <= j)
        BY <1>3, <2>1
      <3> QED
        BY <1>3, <1>7, <3>1
    <2> QED
      BY <2>1, <2>2
  <1> HIDE DEF flushed, d
  <1>9. writes \in Seq(SentCommands) /\ reads \in Seq(Replies)
    BY <1>3, <1>8 DEF IsTraffic
  <1>10. /\ f \in DOMAIN writes /\ IsData(writes[f].words) /\ TextOf(writes[f].words) = text
         /\ \A j \in 1 .. f - 1 : ~(IsData(writes[j].words) /\ TextOf(writes[j].words) = text)
    <2>1. Places(d, text) \subseteq Nat /\ Places(d, text) # {}
      BY <1>8, <1>9 DEF Places, Carriers, Kept
    <2>2. f \in Places(d, text) /\ \A j \in Places(d, text) : f <= j
      BY <2>1, LeastOfNat DEF First
    <2> HIDE DEF f
    <2>3. f \in DOMAIN writes /\ IsData(writes[f].words) /\ TextOf(writes[f].words) = text
      BY <2>2 DEF Places
    <2>4. ASSUME NEW j \in 1 .. f - 1, IsData(writes[j].words), TextOf(writes[j].words) = text PROVE FALSE
      <3>1. j \in DOMAIN writes /\ ~(f <= j)
        BY <1>9, <2>3
      <3>2. j \in Places(d, text)
        BY <2>4, <3>1 DEF Places
      <3> QED
        BY <2>2, <3>1, <3>2
    <2> QED
      BY <2>3, <2>4
  <1>11. ~DamagedUpTo(d, f) /\ ~Discarded(d)
    BY <1>8 DEF text, words, Kept
  <1>12. \A j \in 1 .. f : <<d, "write", j>> \notin DOMAIN damage /\ <<d, "read", j>> \notin DOMAIN damage
    <2> HIDE DEF f
    <2> SUFFICES ASSUME NEW j \in 1 .. f, NEW side, <<d, side, j>> \in DOMAIN damage PROVE FALSE
      BY Zenon
    <2>1. <<d, side, j>>[1] = d /\ <<d, side, j>>[3] = j /\ j <= f
      BY <1>9, <1>10
    <2> QED
      BY <1>11, <2>1, Zenon DEF DamagedUpTo
  <1>13. ~GivenUp(writes, d, damage)
    BY <1>11, DiscardedIsGivenUp
  <1> HIDE DEF f, writes, reads
  <1>14. PICK call \in Call :
              /\ IsFirst(call, CallsOn(writes, reads, d, damage), WithText(text))
              /\ EncodeReply(call.reply) = IF f <= Len(reads) THEN AsReplayed(reads[f])
                                           ELSE Value("status", <<"?">>)
    BY <1>9, <1>10, <1>12, <1>13, FirstCall
  <1>15. IsFirst(call, CallsIn(sent, order[p], damage), WithText(text))
    BY <1>14 DEF CallsIn, d, writes, reads
  <1>16. ASSUME NEW j \in 1 .. p - 1, NEW k \in DOMAIN CallsIn(sent, order[j], damage)
         PROVE  CallsIn(sent, order[j], damage)[k] \notin WithText(text)
    BY <1>2, <1>8, <1>16, CallKept
  <1>17. IsFirst(call, calls, WithText(text))
    BY <1>3, <1>8, <1>15, <1>16, RecordedFirst DEF calls, exs
  <1>18. answer = EncodeReply(call.reply)
    BY <1>1, <1>4, <1>17, ServesFirst DEF words, text, exs, calls
  <1>19. answer = ReplyAt(d, f)
    BY <1>14, <1>18 DEF ReplyAt, reads
  <1> QED
    BY <1>8, <1>19 DEF answer, f, text, words

LEMMA FirstReproduced == ReplayInv => FirstReplyReproduced
  <1> SUFFICES ASSUME ReplayInv, NEW c \in Conns, NEW i \in DOMAIN replayed[c],
                      IsData(sent[c]["write"][i].words),
                      \A d \in Kept(TextOf(sent[c]["write"][i].words)) :
                          ~DamagedUpTo(d, First(d, TextOf(sent[c]["write"][i].words)))
               PROVE  LET kept == Kept(TextOf(sent[c]["write"][i].words)) IN
                      replayed[c][i] \in
                          IF kept = {} THEN {EncodeError("unrecorded")}
                          ELSE {ReplyAt(d, First(d, TextOf(sent[c]["write"][i].words))) : d \in kept}
    BY Zenon DEF FirstReplyReproduced, Answered, Kept
  <1> QED
    BY NoneKept, SomeKept

\* The recording is that of what was sent, whatever was lost of it, and the
\* answers are those of the recording.
LEMMA ReplayAnswersRecording == Spec => []ReplayInv
  BY ReplayStart, ReplayStep, PTL DEF Spec

\* Whatever was lost or cut in capturing, a data command is answered with a
\* reply received on a connection that carried its text, with "?", with the
\* garbled text or as unrecorded.
THEOREM ReplayDamageStays == Spec => []DamageStaysOnConnection
  BY ReplayAnswersRecording, DamageStays, PTL

\* A data command is answered with the reply the first command of its text
\* got, if nothing up to that command was lost or cut on the connections that
\* carried it, those left aside of which a remainder that is no array made
\* TryRESP give up; if there are no others, it is answered as unrecorded.
THEOREM ReplayFirstReply == Spec => []FirstReplyReproduced
  BY ReplayAnswersRecording, FirstReproduced, PTL
===============================================================================
