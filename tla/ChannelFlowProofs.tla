------------------------- MODULE ChannelFlowProofs --------------------------
(***************************************************************************)
(* ChannelFlow for every window, packet size and amount of data: bytes     *)
(* travel in order and exactly once, flow control conserves credit, no     *)
(* data is dropped, the receiver's buffer is bounded, and 'end' comes      *)
(* after every byte.                                                       *)
(***************************************************************************)
EXTENDS ChannelFlow, TLAPS

\* Multiplication by the packet size is monotonic.
LEMMA TimesMonotonic ==
    ASSUME NEW a \in Int, NEW b \in Int, NEW c \in Nat, a <= b
    PROVE  a * c <= b * c
<1>1. PICK d \in Nat : b = a + d
  BY b - a \in Nat /\ b = a + (b - a)
<1>2. d * c \in Nat
  BY SMT
<1>3. b * c = a * c + d * c
  BY <1>1, SMT
<1>4. QED
  BY <1>2, <1>3, SMT

\* How many packets a write of n bytes makes.
LEMMA PacketsOf ==
    ASSUME NEW n \in Nat
    PROVE  /\ Packets(n) \in Nat
           /\ n <= Packets(n) * PacketSize
           /\ n = 0 <=> Packets(n) = 0
           /\ n # 0 => (Packets(n) - 1) * PacketSize < n
<1>. DEFINE P == PacketSize
            x == n + P - 1
            k == x \div P
<1>1. P \in Nat /\ P > 0 /\ x \in Nat
  BY WindowAssumption
<1>2. k \in Int /\ P * k <= x /\ x < P * k + P
  BY <1>1, SMT
<1>3. k * P = P * k /\ (k - 1) * P = P * k - P
  BY <1>1, <1>2, SMT
<1>4. QED
  BY <1>1, <1>2, <1>3, SMT DEF Packets

\* The packets of a write are data, none empty, and run through the bytes written.
LEMMA SlicesRun ==
    ASSUME NEW lo \in Nat, NEW n \in Nat
    PROVE  /\ Slices(lo, n) \in Seq(Message)
           /\ Runs(Slices(lo, n), lo, lo + n)
           /\ \A i \in 1..Len(Slices(lo, n)) :
                 Slices(lo, n)[i].type = "data" /\ Slices(lo, n)[i].lo < Slices(lo, n)[i].hi
<1>. DEFINE P == PacketSize
            k == Packets(n)
            q == Slices(lo, n)
            a(i) == (i - 1) * P
            b(i) == Least(i * P, n)
<1>1. P \in Nat /\ P > 0
  BY WindowAssumption
<1>2. k \in Nat /\ n <= k * P /\ (n = 0 <=> k = 0) /\ (n # 0 => (k - 1) * P < n)
  BY PacketsOf
<1>3. ASSUME NEW i \in 1..k
      PROVE  /\ a(i) \in Nat /\ b(i) \in Nat
             /\ a(i) < b(i) /\ b(i) <= n
             /\ (i < k => b(i) = i * P)
  <2>1. a(i) \in Nat /\ i * P \in Nat /\ i * P = a(i) + P
    BY <1>1, SMT
  <2>2. a(i) <= (k - 1) * P
    BY <1>1, <1>2, TimesMonotonic, i - 1 \in Int, k - 1 \in Int, i - 1 <= k - 1
  <2>3. k # 0 /\ (k - 1) * P \in Int
    BY <1>1, <1>2, SMT
  <2>4. a(i) < n
    BY <2>1, <2>2, <2>3, <1>2
  <2>5. i < k => i * P < n
    <3>1. SUFFICES ASSUME i < k PROVE i * P < n
      OBVIOUS
    <3>2. i * P <= (k - 1) * P
      BY <1>1, <1>2, <3>1, TimesMonotonic, k - 1 \in Int, i <= k - 1
    <3>3. QED
      BY <3>2, <2>1, <2>3, <1>2
  <2>6. QED
    BY <2>1, <2>4, <2>5, <1>1 DEF Least
<1>4. q = [i \in 1..k |-> Data(lo + a(i), lo + b(i))]
  BY DEF Slices
<1>5. \A i \in 1..k : q[i] = [type |-> "data", lo |-> lo + a(i), hi |-> lo + b(i)]
  BY <1>4 DEF Data
<1>6. Len(q) = k /\ q \in Seq(Message)
  <2>1. \A i \in 1..k : Data(lo + a(i), lo + b(i)) \in Message
    BY <1>3 DEF Message, Data
  <2>2. q \in [1..k -> Message]
    BY <1>4, <2>1
  <2>3. QED
    BY <1>2, <2>2
<1>7. ASSUME NEW i \in 1..k, NEW j \in 1..k, i < j
      PROVE  b(i) <= a(j)
  <2>1. b(i) = i * P
    BY <1>2, <1>3, <1>7
  <2>2. i * P <= (j - 1) * P
    BY <1>1, <1>7, TimesMonotonic, j - 1 \in Int, i <= j - 1
  <2>3. QED
    BY <2>1, <2>2
<1>8. ASSUME NEW i \in 1..k - 1
      PROVE  b(i) = a(i + 1)
  BY <1>2, <1>3, <1>8, i \in 1..k, i < k, (i + 1) - 1 = i
<1>9. n = 0 => q = <<>>
  BY <1>2, <1>4
<1>10. n # 0 => q # <<>> /\ a(1) = 0 /\ b(k) = n
  <2>1. SUFFICES ASSUME n # 0 PROVE q # <<>> /\ a(1) = 0 /\ b(k) = n
    OBVIOUS
  <2>2. k \in 1..k /\ 1 \in 1..k
    BY <1>2, <2>1
  <2>3. q # <<>>
    BY <1>6, <2>2
  <2>4. k * P \in Int
    BY <1>1, <1>2, SMT
  <2>5. QED
    BY <1>1, <1>2, <2>3, <2>4, SMT DEF Least
<1>. HIDE DEF q, k, a, b
<1>50. ASSUME NEW i \in 1..k
       PROVE  q[i].lo = lo + a(i) /\ q[i].hi = lo + b(i)
  <2>1. q[i] = [type |-> "data", lo |-> lo + a(i), hi |-> lo + b(i)]
    BY <1>5, Zenon
  <2>2. QED
    BY <2>1
<1>11. Runs(q, lo, lo + n)
  <2>1. \A i \in 1..Len(q) : lo <= q[i].lo /\ q[i].lo <= q[i].hi /\ q[i].hi <= lo + n
    BY <1>3, <1>5, <1>6
  <2>2. \A i, j \in 1..Len(q) : i < j => q[i].hi <= q[j].lo
    BY <1>3, <1>5, <1>6, <1>7
  <2>3. \A i \in 1..Len(q) - 1 : q[i].hi = q[i + 1].lo
    <3>1. SUFFICES ASSUME NEW i \in 1..k - 1 PROVE q[i].hi = q[i + 1].lo
      BY <1>6
    <3>2. i \in 1..k /\ i + 1 \in 1..k
      BY <1>2
    <3>3. q[i].hi = lo + b(i) /\ q[i + 1].lo = lo + a(i + 1)
      BY <3>2, <1>50
    <3>4. QED
      BY <3>3, <1>8
  <2>4. IF q = <<>> THEN lo = lo + n ELSE q[1].lo = lo /\ q[Len(q)].hi = lo + n
    BY <1>2, <1>5, <1>6, <1>9, <1>10
  <2>5. QED
    BY <2>1, <2>2, <2>3, <2>4 DEF Runs
<1>12. \A i \in 1..Len(q) : q[i].type = "data" /\ q[i].lo < q[i].hi
  BY <1>3, <1>5, <1>6
<1>13. QED
  BY <1>6, <1>11, <1>12 DEF q

\* Taking the head of a queue.
LEMMA RunsTail ==
    ASSUME NEW q \in Seq(Message), NEW a \in Nat, NEW b \in Nat,
           q # <<>>, Runs(q, a, b)
    PROVE  /\ Head(q) = q[1] /\ q[1] \in Message /\ q[1].lo = a
           /\ a <= q[1].hi /\ q[1].hi <= b /\ 1 \in 1..Len(q)
           /\ Tail(q) \in Seq(Message) /\ Len(Tail(q)) = Len(q) - 1
           /\ \A i \in 1..Len(q) - 1 : Tail(q)[i] = q[i + 1]
           /\ Runs(Tail(q), q[1].hi, b)
<1>1. Len(q) \in Nat /\ Len(q) > 0 /\ \A i \in 1..Len(q) : q[i] \in Message
  OBVIOUS
<1>2. /\ Tail(q) \in Seq(Message) /\ Len(Tail(q)) = Len(q) - 1
      /\ \A i \in 1..Len(q) - 1 : Tail(q)[i] = q[i + 1]
  OBVIOUS
<1>3. q[1].lo = a /\ a <= q[1].hi /\ q[1].hi <= b
  BY <1>1 DEF Runs, Message
<1>. DEFINE t == Tail(q)
<1>20. /\ t \in Seq(Message) /\ Len(t) = Len(q) - 1
       /\ \A i \in 1..Len(q) - 1 : t[i] = q[i + 1]
  BY <1>2
<1>. HIDE DEF t
<1>4. Runs(t, q[1].hi, b)
  <2>0. /\ \A i \in 1..Len(q) : a <= q[i].lo /\ q[i].lo <= q[i].hi /\ q[i].hi <= b
        /\ \A i, j \in 1..Len(q) : i < j => q[i].hi <= q[j].lo
    BY DEF Runs
  <2>1. \A i \in 1..Len(t) : q[1].hi <= t[i].lo /\ t[i].lo <= t[i].hi /\ t[i].hi <= b
    <3>1. SUFFICES ASSUME NEW i \in 1..Len(t)
                   PROVE  q[1].hi <= t[i].lo /\ t[i].lo <= t[i].hi /\ t[i].hi <= b
      OBVIOUS
    <3>2. t[i] = q[i + 1] /\ i + 1 \in 1..Len(q) /\ 1 \in 1..Len(q) /\ 1 < i + 1
      BY <1>1, <1>20
    <3>3. q[1].hi <= q[i + 1].lo /\ q[i + 1].lo <= q[i + 1].hi /\ q[i + 1].hi <= b
      BY <3>2, <2>0
    <3>4. QED
      BY <3>2, <3>3
  <2>2. \A i, j \in 1..Len(t) : i < j => t[i].hi <= t[j].lo
    <3>1. SUFFICES ASSUME NEW i \in 1..Len(t), NEW j \in 1..Len(t), i < j
                   PROVE  t[i].hi <= t[j].lo
      OBVIOUS
    <3>2. /\ t[i] = q[i + 1] /\ i + 1 \in 1..Len(q) /\ t[j] = q[j + 1] /\ j + 1 \in 1..Len(q)
          /\ i + 1 < j + 1
      BY <1>1, <1>20, <3>1
    <3>3. q[i + 1].hi <= q[j + 1].lo
      BY <3>2, <2>0
    <3>4. QED
      BY <3>2, <3>3
  <2>3. \A i \in 1..Len(t) - 1 : t[i].hi = t[i + 1].lo
    <3>1. SUFFICES ASSUME NEW i \in 1..Len(t) - 1 PROVE t[i].hi = t[i + 1].lo
      OBVIOUS
    <3>2. i + 1 \in 1..Len(q) - 1
      BY <1>1, <1>20
    <3>3. t[i] = q[i + 1] /\ t[i + 1] = q[i + 1 + 1]
      BY <1>1, <1>20
    <3>4. QED
      BY <3>2, <3>3 DEF Runs
  <2>4. CASE Len(q) = 1
    <3>1. t = <<>>
      BY <1>20, <2>4
    <3>2. QED
      BY <3>1, <2>1, <2>4, <1>1, <1>3 DEF Runs
  <2>5. CASE Len(q) # 1
    <3>1. Len(t) >= 1
      BY <1>1, <1>20, <2>5
    <3>10. t # <<>>
      BY <3>1
    <3>2. t[1] = q[2] /\ t[Len(t)] = q[Len(q)]
      BY <1>1, <1>20, <2>5
    <3>29. Len(q) \in Nat /\ Len(q) > 0 /\ Len(q) # 1
      BY <1>1, <2>5
    <3>30. 1 \in 1..Len(q) - 1
      <4>1. ASSUME NEW n \in Nat, n > 0, n # 1
            PROVE  1 \in 1..n - 1
        BY <4>1
      <4>2. QED
        BY <3>29, <4>1, Zenon
    <3>31. q[1].hi = q[1 + 1].lo
      BY <3>30 DEF Runs
    <3>3. q[2].lo = q[1].hi /\ q[Len(q)].hi = b
      BY <3>31 DEF Runs
    <3>4. QED
      BY <3>1, <3>10, <3>2, <3>3, <2>1, <2>2, <2>3, <1>3 DEF Runs
  <2>6. QED
    BY <2>4, <2>5
<1>5. QED
  BY <1>1, <1>2, <1>3, <1>4 DEF t

\* Putting one queue behind another.
LEMMA RunsConcat ==
    ASSUME NEW q \in Seq(Message), NEW r \in Seq(Message),
           NEW a \in Nat, NEW b \in Nat, NEW c \in Nat,
           Runs(q, a, b), Runs(r, b, c)
    PROVE  /\ q \o r \in Seq(Message) /\ Len(q \o r) = Len(q) + Len(r)
           /\ \A i \in 1..Len(q) : (q \o r)[i] = q[i]
           /\ \A i \in 1..Len(r) : (q \o r)[Len(q) + i] = r[i]
           /\ \A i \in 1..Len(q \o r) : i \in 1..Len(q) \/ i - Len(q) \in 1..Len(r)
           /\ Runs(q \o r, a, c)
<1>. DEFINE s == q \o r
            m == Len(q)
            n == Len(r)
<1>1. m \in Nat /\ n \in Nat /\ s \in Seq(Message) /\ Len(s) = m + n
  OBVIOUS
<1>2. /\ \A i \in 1..m : s[i] = q[i]
      /\ \A i \in 1..n : s[m + i] = r[i]
  OBVIOUS
<1>3. \A i \in 1..(m + n) : i \in 1..m \/ (i - m \in 1..n /\ i = m + (i - m))
  BY <1>1
<1>4. /\ \A i \in 1..m : q[i] \in Message
      /\ \A i \in 1..n : r[i] \in Message
  OBVIOUS
<1>5. a <= b /\ b <= c
  BY DEF Runs
<1>6. /\ \A i \in 1..m : a <= q[i].lo /\ q[i].lo <= q[i].hi /\ q[i].hi <= b
      /\ \A i \in 1..n : b <= r[i].lo /\ r[i].lo <= r[i].hi /\ r[i].hi <= c
      /\ \A i \in 1..m : q[i].lo \in Nat /\ q[i].hi \in Nat
      /\ \A i \in 1..n : r[i].lo \in Nat /\ r[i].hi \in Nat
  BY <1>4 DEF Runs, Message
<1>7. /\ \A i, j \in 1..m : i < j => q[i].hi <= q[j].lo
      /\ \A i, j \in 1..n : i < j => r[i].hi <= r[j].lo
      /\ \A i \in 1..m - 1 : q[i].hi = q[i + 1].lo
      /\ \A i \in 1..n - 1 : r[i].hi = r[i + 1].lo
  BY DEF Runs
<1>8. /\ m = 0 => a = b
      /\ m # 0 => q[1].lo = a /\ q[m].hi = b
      /\ n = 0 => b = c
      /\ n # 0 => r[1].lo = b /\ r[n].hi = c
  BY DEF Runs
<1>9. s = <<>> <=> m + n = 0
  BY <1>1
<1>. HIDE DEF s, m, n
<1>10. Runs(s, a, c)
  <2>1. \A i \in 1..Len(s) : a <= s[i].lo /\ s[i].lo <= s[i].hi /\ s[i].hi <= c
    <3>1. SUFFICES ASSUME NEW i \in 1..(m + n)
                   PROVE  a <= s[i].lo /\ s[i].lo <= s[i].hi /\ s[i].hi <= c
      BY <1>1
    <3>2. CASE i \in 1..m
      BY <3>2, <1>2, <1>5, <1>6
    <3>3. CASE i - m \in 1..n /\ i = m + (i - m)
      <4>1. s[i] = r[i - m]
        BY <3>3, <1>2
      <4>2. QED
        BY <4>1, <3>3, <1>5, <1>6
    <3>4. QED
      BY <3>2, <3>3, <1>3
  <2>2. ASSUME NEW i \in 1..Len(s), NEW j \in 1..Len(s), i < j
        PROVE  s[i].hi <= s[j].lo
    <3>1. CASE j \in 1..m
      <4>1. i \in 1..m
        BY <2>2, <3>1, <1>1
      <4>2. s[i] = q[i] /\ s[j] = q[j]
        BY <4>1, <3>1, <1>2
      <4>3. QED
        BY <4>1, <4>2, <3>1, <2>2, <1>7
    <3>2. CASE i \in 1..m /\ j - m \in 1..n /\ j = m + (j - m)
      <4>1. s[i] = q[i] /\ s[j] = r[j - m]
        BY <3>2, <1>2
      <4>2. QED
        BY <4>1, <3>2, <1>6
    <3>3. CASE i - m \in 1..n /\ i = m + (i - m) /\ j - m \in 1..n /\ j = m + (j - m)
      <4>1. s[i] = r[i - m] /\ s[j] = r[j - m]
        BY <3>3, <1>2
      <4>2. i - m < j - m
        BY <2>2, <1>1
      <4>3. QED
        BY <4>1, <4>2, <3>3, <1>7
    <3>4. QED
      BY <3>1, <3>2, <3>3, <2>2, <1>1, <1>3
  <2>3. ASSUME NEW i \in 1..Len(s) - 1
        PROVE  s[i].hi = s[i + 1].lo
    <3>1. CASE i + 1 \in 1..m
      BY <3>1, <2>3, <1>1, <1>2, <1>7
    <3>2. CASE i = m
      <4>1. m # 0 /\ n # 0 /\ m \in 1..m /\ 1 \in 1..n
        BY <3>2, <2>3, <1>1
      <4>2. s[m] = q[m] /\ s[m + 1] = r[1]
        BY <4>1, <1>2
      <4>3. QED
        BY <3>2, <4>1, <4>2, <1>8
    <3>3. CASE i > m
      <4>1. i - m \in 1..n - 1 /\ i - m \in 1..n /\ i - m + 1 \in 1..n
        BY <3>3, <2>3, <1>1
      <4>2. s[i] = r[i - m] /\ s[i + 1] = r[i - m + 1]
        <5>1. i = m + (i - m) /\ i + 1 = m + (i - m + 1)
          BY <2>3, <1>1
        <5>2. s[m + (i - m)] = r[i - m] /\ s[m + (i - m + 1)] = r[i - m + 1]
          BY <4>1, <1>2
        <5>3. QED
          BY <5>1, <5>2
      <4>3. QED
        BY <4>1, <4>2, <1>7
    <3>4. QED
      BY <3>1, <3>2, <3>3, <2>3, <1>1
  <2>4. IF s = <<>> THEN a = c ELSE s[1].lo = a /\ s[Len(s)].hi = c
    <3>1. CASE m + n = 0
      BY <3>1, <1>1, <1>8, <1>9
    <3>2. CASE m + n # 0
      <4>1. s # <<>>
        BY <3>2, <1>9
      <4>2. s[1].lo = a
        <5>1. CASE m # 0
          BY <5>1, <1>1, <1>2, <1>8, 1 \in 1..m
        <5>2. CASE m = 0
          <6>1. n # 0 /\ 1 \in 1..n
            BY <3>2, <5>2, <1>1
          <6>2. s[1] = r[1]
            BY <6>1, <5>2, <1>2, m + 1 = 1
          <6>3. QED
            BY <6>1, <6>2, <5>2, <1>8
        <5>3. QED
          BY <5>1, <5>2
      <4>3. s[m + n].hi = c
        <5>1. CASE n # 0
          BY <5>1, <1>1, <1>2, <1>8, n \in 1..n
        <5>2. CASE n = 0
          <6>1. m # 0 /\ m \in 1..m /\ m + n = m
            BY <3>2, <5>2, <1>1
          <6>2. s[m + n] = q[m]
            BY <6>1, <1>2
          <6>3. QED
            BY <6>1, <6>2, <5>2, <1>8
        <5>3. QED
          BY <5>1, <5>2
      <4>4. QED
        BY <4>1, <4>2, <4>3, <1>1
    <3>3. QED
      BY <3>1, <3>2
  <2>5. QED
    BY <2>1, <2>2, <2>3, <2>4, <1>5 DEF Runs
<1>11. QED
  BY <1>1, <1>2, <1>3, <1>10 DEF s, m, n

\* A single message is a queue.
LEMMA RunsOne ==
    ASSUME NEW m \in Message, m.lo <= m.hi
    PROVE  <<m>> \in Seq(Message) /\ Runs(<<m>>, m.lo, m.hi)
BY DEF Runs, Message

\* Putting one message behind a queue.
LEMMA RunsAppend ==
    ASSUME NEW q \in Seq(Message), NEW m \in Message, NEW a \in Nat, NEW b \in Nat,
           Runs(q, a, b), m.lo = b, m.lo <= m.hi
    PROVE  /\ Append(q, m) \in Seq(Message) /\ Len(Append(q, m)) = Len(q) + 1
           /\ Append(q, m)[Len(q) + 1] = m
           /\ \A i \in 1..Len(q) : Append(q, m)[i] = q[i]
           /\ Runs(Append(q, m), a, m.hi)
<1>1. m.lo \in Nat /\ m.hi \in Nat
  BY DEF Message
<1>2. <<m>> \in Seq(Message) /\ Runs(<<m>>, b, m.hi)
  BY RunsOne
<1>3. Runs(q \o <<m>>, a, m.hi)
  BY <1>1, <1>2, RunsConcat
<1>4. q \o <<m>> = Append(q, m)
  OBVIOUS
<1>5. /\ Append(q, m) \in Seq(Message) /\ Len(Append(q, m)) = Len(q) + 1
      /\ Append(q, m)[Len(q) + 1] = m
      /\ \A i \in 1..Len(q) : Append(q, m)[i] = q[i]
  OBVIOUS
<1>6. Runs(Append(q, m), a, m.hi)
  BY <1>3, <1>4
<1>7. QED
  BY <1>5, <1>6

-----------------------------------------------------------------------------
\* The inductive invariant.
IInv ==
    /\ TypeOK /\ InOrder /\ CreditConserved /\ NothingLost /\ BoundedBuffer
    /\ LinkShape /\ BackShape /\ WriterState /\ CloseIsLast /\ ReaderState

\* What one run of _write() does on an open channel: it sends what the window
\* allows, in order, and keeps the rest.
LEMMA WriteEffect ==
    ASSUME IInv, outState = "open", NEW hi \in Nat, sent < hi,
           NEW win \in Nat, DoWrite(sent, hi, win, FALSE)
    PROVE  /\ sent' \in Nat /\ sent <= sent' /\ sent' <= hi
           /\ outWin' \in Nat /\ outWin' + sent' = win + sent
           /\ link' \in Seq(Message) /\ Runs(link', rcvd, sent')
           /\ \A i \in 1..Len(link') : link'[i].type = "data" /\ link'[i].lo < link'[i].hi
           /\ writing' = (sent' < hi)
           /\ waitWindow' = (sent' < hi)
           /\ chunk' \in [lo : Nat, hi : Nat]
           /\ sent' < hi => chunk'.lo = sent' /\ chunk'.hi = hi
<1>. DEFINE n == Least(hi - sent, win)
            r == Slices(sent, n)
<1>1. sent \in Nat /\ rcvd \in Nat /\ link \in Seq(Message) /\ chunk \in [lo : Nat, hi : Nat]
  BY DEF IInv, TypeOK
<1>2. n \in Nat /\ n <= hi - sent /\ n <= win
  BY <1>1 DEF Least
<1>3. /\ sent' = sent + n /\ outWin' = win - n /\ link' = link \o r
      /\ writing' = (n < hi - sent) /\ waitWindow' = (n < hi - sent)
      /\ chunk' = IF n < hi - sent THEN [lo |-> sent + n, hi |-> hi] ELSE chunk
  BY DEF DoWrite
<1>. HIDE DEF n
<1>4. /\ r \in Seq(Message) /\ Runs(r, sent, sent + n)
      /\ \A i \in 1..Len(r) : r[i].type = "data" /\ r[i].lo < r[i].hi
  BY <1>1, <1>2, SlicesRun
<1>. HIDE DEF r
<1>5. Runs(link, rcvd, sent) /\ sent + n \in Nat
  BY <1>1, <1>2 DEF IInv, InOrder
<1>6. /\ link \o r \in Seq(Message) /\ Len(link \o r) = Len(link) + Len(r)
      /\ \A i \in 1..Len(link) : (link \o r)[i] = link[i]
      /\ \A i \in 1..Len(r) : (link \o r)[Len(link) + i] = r[i]
      /\ \A i \in 1..Len(link \o r) : i \in 1..Len(link) \/ i - Len(link) \in 1..Len(r)
      /\ Runs(link \o r, rcvd, sent + n)
  BY <1>1, <1>4, <1>5, RunsConcat
<1>7. \A i \in 1..Len(link) : link[i].type = "data" /\ link[i].lo < link[i].hi
  BY DEF IInv, LinkShape
<1>8. ASSUME NEW i \in 1..Len(link \o r)
      PROVE  (link \o r)[i].type = "data" /\ (link \o r)[i].lo < (link \o r)[i].hi
  <2>1. CASE i \in 1..Len(link)
    BY <2>1, <1>6, <1>7
  <2>2. CASE i - Len(link) \in 1..Len(r)
    <3>1. Len(link) + (i - Len(link)) = i
      BY <1>1, <1>6
    <3>2. (link \o r)[i] = r[i - Len(link)]
      BY <3>1, <2>2, <1>6
    <3>3. QED
      BY <3>2, <2>2, <1>4
  <2>3. QED
    BY <2>1, <2>2, <1>6
<1>9. chunk' \in [lo : Nat, hi : Nat]
  BY <1>1, <1>2, <1>3, <1>5
<1>10. sent' < hi <=> n < hi - sent
  BY <1>1, <1>2, <1>3
<1>11. sent' < hi => chunk'.lo = sent' /\ chunk'.hi = hi
  BY <1>3, <1>10
<1>12. outWin' \in Nat /\ outWin' + sent' = win + sent
  BY <1>1, <1>2, <1>3
<1>13. QED
  BY <1>1, <1>2, <1>3, <1>5, <1>6, <1>8, <1>9, <1>10, <1>11, <1>12

\* What topping up the window, or not, does at the receiver.
LEMMA AdjustEffect ==
    ASSUME IInv, NEW win \in 0..MaxWindow,
           (WindowAdjust(win) /\ win <= Threshold) \/ NoAdjust(win)
    PROVE  /\ granted' \in Nat /\ granted <= granted'
           /\ inWin' \in 0..MaxWindow /\ inWin' + granted = win + granted'
           /\ back' \in Seq(Message) /\ Runs(back', credited, granted')
           /\ \A i \in 1..Len(back') :
                 \/ i \in 1..Len(back) /\ back'[i] = back[i]
                 \/ back'[i].type = "adjust" /\ Amount(back'[i]) >= MaxWindow - Threshold
<1>1. /\ granted \in Nat /\ credited \in Nat /\ back \in Seq(Message)
      /\ Runs(back, credited, granted)
  BY DEF IInv, TypeOK, CreditConserved
<1>2. CASE back' = back /\ granted' = granted /\ inWin' = win
  BY <1>1, <1>2
<1>3. CASE /\ inWin' = MaxWindow /\ win <= Threshold
           /\ back' = Append(back, Adjust(granted, granted + MaxWindow - win))
           /\ granted' = granted + MaxWindow - win
  <2>. DEFINE m == Adjust(granted, granted + MaxWindow - win)
  <2>1. /\ MaxWindow \in Nat /\ win \in Nat /\ win <= MaxWindow
        /\ granted + MaxWindow - win \in Nat /\ granted <= granted + MaxWindow - win
        /\ Threshold \in Nat
    BY <1>1, WindowAssumption DEF Threshold
  <2>2. /\ m \in Message /\ m.lo = granted /\ m.hi = granted + MaxWindow - win
        /\ m.type = "adjust"
    BY <1>1, <2>1 DEF Adjust, Message
  <2>3. Amount(m) >= MaxWindow - Threshold
    BY <1>1, <1>3, <2>1, <2>2 DEF Amount
  <2>4. back' = Append(back, m)
    BY <1>3
  <2>. HIDE DEF m
  <2>5. /\ Append(back, m) \in Seq(Message) /\ Len(Append(back, m)) = Len(back) + 1
        /\ Append(back, m)[Len(back) + 1] = m
        /\ \A i \in 1..Len(back) : Append(back, m)[i] = back[i]
        /\ Runs(Append(back, m), credited, m.hi)
    BY <1>1, <2>1, <2>2, RunsAppend
  <2>6. \A i \in 1..Len(back') : i \in 1..Len(back) \/ i = Len(back) + 1
    BY <1>1, <2>4, <2>5
  <2>7. QED
    BY <1>1, <1>3, <2>1, <2>2, <2>3, <2>4, <2>5, <2>6
<1>4. QED
  BY <1>2, <1>3 DEF WindowAdjust, NoAdjust

-----------------------------------------------------------------------------
\* A step of an open sender that runs _write(): a new write, or a blocked one
\* resumed by a WINDOW_ADJUST that brought credit.
LEMMA OpenSenderStep ==
    ASSUME IInv, outState = "open", outState' = "open", ~sGone, sGone' = sGone,
           UNCHANGED <<receiver, ending, finished, rcvd, consumed, lost, granted, aborted>>,
           accepted' \in Nat, credited' \in Nat, outWin' + sent' = credited', outWin' \in Nat,
           back' \in Seq(Message), Runs(back', credited', granted), BackShape',
           sent' \in Nat, sent <= sent', sent' <= accepted',
           link' \in Seq(Message), Runs(link', rcvd, sent'),
           \A i \in 1..Len(link') : link'[i].type = "data" /\ link'[i].lo < link'[i].hi,
           writing' = (sent' < accepted'), waitWindow' = (sent' < accepted'),
           chunk' \in [lo : Nat, hi : Nat],
           sent' < accepted' => chunk'.lo = sent' /\ chunk'.hi = accepted'
    PROVE  IInv'
<1>. USE DEF receiver
<1>1. sent' <= credited' /\ credited' <= granted /\ rcvd <= sent /\ rcvd \in Nat /\ sent \in Nat
  <2>1. rcvd \in Nat /\ sent \in Nat /\ rcvd <= sent
    BY DEF IInv, TypeOK, InOrder, Runs
  <2>2. credited' <= granted
    BY DEF Runs
  <2>3. ASSUME NEW c \in Nat, NEW x \in Nat, NEW w \in Nat, w + x = c
        PROVE  x <= c
    BY <2>3
  <2>4. sent' <= credited'
    BY <2>3, Zenon
  <2>5. QED
    BY <2>1, <2>2, <2>4, Zenon
<1>2. outWin' <= MaxWindow
  <2>1. inWin + rcvd = granted /\ granted \in Nat /\ inWin \in Nat /\ inWin <= MaxWindow
    BY WindowAssumption DEF IInv, TypeOK, CreditConserved
  <2>2. rcvd <= sent'
    BY <1>1
  <2>3. outWin' <= inWin
    <3>1. outWin' + sent' = credited' /\ outWin' \in Nat /\ sent' \in Nat /\ credited' \in Nat
      OBVIOUS
    <3>2. outWin' + sent' <= inWin + rcvd
      BY <3>1, <2>1, <1>1
    <3>3. ASSUME NEW o \in Nat, NEW x \in Nat, NEW i \in Nat, NEW r \in Nat,
                 o + x <= i + r, r <= x
          PROVE  o <= i
      BY <3>3
    <3>4. QED
      BY <3>1, <3>2, <3>3, <2>1, <2>2, <1>1, Zenon
  <2>4. QED
    BY <2>1, <2>3, WindowAssumption
<1>3. TypeOK'
  <2>1. waitWindow' \in BOOLEAN /\ writing' \in BOOLEAN /\ outState' \in States
    BY DEF States
  <2>2. ASSUME NEW w \in Nat, w <= MaxWindow
        PROVE  w \in 0..MaxWindow
    BY <2>2, WindowAssumption
  <2>3. outWin' \in 0..MaxWindow
    BY <1>2, <2>2, Zenon
  <2>4. QED
    BY <2>1, <2>3 DEF IInv, TypeOK
<1>4. InOrder' /\ NothingLost' /\ BoundedBuffer'
  BY DEF IInv, InOrder, NothingLost, BoundedBuffer
<1>5. CreditConserved'
  BY DEF IInv, CreditConserved
<1>6. LinkShape'
  BY DEF LinkShape
<1>7. WriterState'
  <2>1. CASE sent' < accepted'
    <3>1. writing' /\ waitWindow' /\ chunk'.lo = sent' /\ chunk'.hi = accepted'
      BY <2>1, Zenon
    <3>2. QED
      BY <1>1, <2>1, <3>1, Zenon DEF WriterState
  <2>2. CASE ~(sent' < accepted')
    <3>1. ~writing' /\ ~waitWindow'
      BY <2>2, Zenon
    <3>2. ASSUME NEW x \in Nat, NEW y \in Nat, x <= y, ~(x < y)
          PROVE  x = y
      BY <3>2
    <3>3. sent' = accepted'
      BY <2>2, <3>2, Zenon
    <3>4. QED
      BY <1>1, <3>1, <3>3, Zenon DEF WriterState
  <2>3. QED
    BY <2>1, <2>2
<1>8. CloseIsLast'
  BY DEF IInv, CloseIsLast
<1>9. ReaderState'
  BY DEF IInv, ReaderState
<1>10. QED
  BY <1>3, <1>4, <1>5, <1>6, <1>7, <1>8, <1>9 DEF IInv

\* The application writes.
LEMMA AppWriteStep ==
    ASSUME IInv, NEW n \in 1..MaxWrite, AppWrite(n)
    PROVE  IInv'
<1>. USE DEF AppWrite, receiver
<1>1. n \in Nat /\ n > 0 /\ accepted \in Nat /\ accepted + n \in Nat
  BY FlowAssumption DEF IInv, TypeOK
<1>2. CASE outState # "open"
  <2>1. TypeOK'
    BY <1>1, <1>2 DEF IInv, TypeOK
  <2>2. WriterState'
    BY <1>1, <1>2 DEF IInv, WriterState
  <2>3. InOrder' /\ CreditConserved' /\ NothingLost' /\ BoundedBuffer'
    BY <1>2 DEF IInv, InOrder, CreditConserved, NothingLost, BoundedBuffer
  <2>4. LinkShape' /\ BackShape' /\ CloseIsLast' /\ ReaderState'
    BY <1>2 DEF IInv, LinkShape, BackShape, CloseIsLast, ReaderState
  <2>5. QED
    BY <2>1, <2>2, <2>3, <2>4 DEF IInv
<1>3. CASE outState = "open"
  <2>1. sent = accepted /\ waitWindow = FALSE /\ ~sGone /\ outWin \in Nat
    BY <1>3, WindowAssumption DEF IInv, TypeOK, WriterState
  <2>2. PICK h \in Nat : h = accepted + n
    BY <1>1
  <2>3. PICK w \in Nat : w = outWin
    BY <2>1
  <2>4. DoWrite(sent, h, w, FALSE) /\ sent < h /\ accepted' = h
    BY <1>1, <1>3, <2>1, <2>2, <2>3 DEF DoWrite
  <2>5. /\ sent' \in Nat /\ sent <= sent' /\ sent' <= h
        /\ outWin' \in Nat /\ outWin' + sent' = w + sent
        /\ link' \in Seq(Message) /\ Runs(link', rcvd, sent')
        /\ \A i \in 1..Len(link') : link'[i].type = "data" /\ link'[i].lo < link'[i].hi
        /\ writing' = (sent' < h)
        /\ waitWindow' = (sent' < h)
        /\ chunk' \in [lo : Nat, hi : Nat]
        /\ sent' < h => chunk'.lo = sent' /\ chunk'.hi = h
    BY <1>3, <2>4, WriteEffect
  <2>7. w + sent = credited /\ credited \in Nat
    BY <2>1, <2>3 DEF IInv, TypeOK, CreditConserved
  <2>8. outWin' + sent' = credited
    BY <2>5, <2>7, Zenon
  <2>9. back' \in Seq(Message) /\ Runs(back', credited', granted) /\ BackShape'
    BY DEF IInv, TypeOK, CreditConserved, BackShape
  <2>10. UNCHANGED <<receiver, ending, finished, sGone, outState, rcvd, consumed, lost,
                     granted, aborted, credited>>
    OBVIOUS
  <2>. HIDE DEF AppWrite
  <2>11. QED
    BY <1>3, <2>1, <2>4, <2>5, <2>7, <2>8, <2>9, <2>10, OpenSenderStep, Zenon
<1>4. QED
  BY <1>2, <1>3

\* A WINDOW_ADJUST arrives.
LEMMA RcvAdjustStep ==
    ASSUME IInv, RcvAdjust
    PROVE  IInv'
<1>. USE DEF RcvAdjust, receiver
<1>. DEFINE amt == Amount(Head(back))
<1>1. /\ credited \in Nat /\ granted \in Nat /\ back \in Seq(Message) /\ back # <<>>
      /\ Runs(back, credited, granted)
  BY DEF IInv, TypeOK, CreditConserved
<1>2. /\ Head(back) = back[1] /\ back[1] \in Message /\ back[1].lo = credited
      /\ credited <= back[1].hi /\ back[1].hi <= granted
      /\ Tail(back) \in Seq(Message) /\ Len(Tail(back)) = Len(back) - 1
      /\ \A i \in 1..Len(back) - 1 : Tail(back)[i] = back[i + 1]
      /\ Runs(Tail(back), back[1].hi, granted)
  BY <1>1, RunsTail
<1>3. /\ back' = Tail(back) /\ credited' = back[1].hi /\ credited' \in Nat
      /\ amt + credited = credited' /\ amt \in Nat
  BY <1>1, <1>2 DEF Amount, Message
<1>4. back' \in Seq(Message) /\ Runs(back', credited', granted)
  BY <1>2, <1>3
<1>5. BackShape'
  <2>1. \A i \in 1..Len(back') : i + 1 \in 1..Len(back) /\ back'[i] = back[i + 1]
    BY <1>1, <1>2, <1>3
  <2>2. aborted' = aborted /\ inState' = inState
    OBVIOUS
  <2>3. QED
    BY <2>1, <2>2 DEF IInv, BackShape, Amount
<1>. HIDE DEF amt
<1>6. CASE ~sGone /\ waitWindow /\ outState = "open"
  <2>1. /\ writing /\ chunk.lo = sent /\ chunk.hi = accepted /\ sent < accepted
        /\ accepted \in Nat /\ sent \in Nat /\ outWin + sent = credited /\ outWin \in Nat
    BY <1>6, WindowAssumption DEF IInv, WriterState, TypeOK, CreditConserved
  <2>2. PICK h \in Nat : h = accepted
    BY <2>1
  <2>3. PICK w \in Nat : w = outWin + amt
    BY <2>1, <1>3
  <2>4. DoWrite(sent, h, w, FALSE) /\ sent < h /\ accepted' = h
    BY <1>6, <2>1, <2>2, <2>3 DEF DoWrite, amt
  <2>5. /\ sent' \in Nat /\ sent <= sent' /\ sent' <= h
        /\ outWin' \in Nat /\ outWin' + sent' = w + sent
        /\ link' \in Seq(Message) /\ Runs(link', rcvd, sent')
        /\ \A i \in 1..Len(link') : link'[i].type = "data" /\ link'[i].lo < link'[i].hi
        /\ writing' = (sent' < h)
        /\ waitWindow' = (sent' < h)
        /\ chunk' \in [lo : Nat, hi : Nat]
        /\ sent' < h => chunk'.lo = sent' /\ chunk'.hi = h
    BY <1>6, <2>4, WriteEffect
  <2>6. outWin' + sent' = credited'
    <3>1. outWin' + sent' = w + sent
      BY <2>5, Zenon
    <3>2. amt + credited = credited' /\ amt \in Nat /\ credited' \in Nat /\ credited \in Nat
      BY <1>1, <1>3, Zenon
    <3>3. w + sent = credited'
      BY <3>2, <2>1, <2>3
    <3>4. QED
      BY <3>1, <3>3, Zenon
  <2>7. UNCHANGED <<receiver, ending, finished, sGone, outState, rcvd, consumed, lost,
                    granted, aborted>>
    OBVIOUS
  <2>. HIDE DEF RcvAdjust
  <2>8. QED
    BY <1>3, <1>4, <1>5, <1>6, <2>4, <2>5, <2>6, <2>7, OpenSenderStep, Zenon
<1>7. CASE ~(~sGone /\ waitWindow /\ outState = "open")
  <2>1. UNCHANGED <<receiver, outState, ending, finished, sGone, link, chunk, writing, accepted,
                    sent, rcvd, consumed, lost, granted, aborted>>
    BY <1>7
  <2>2. /\ sGone => outWin' = outWin /\ waitWindow' = waitWindow
        /\ ~sGone => outWin' = outWin + amt /\ waitWindow' = FALSE
    BY <1>7 DEF amt
  <2>3. rcvd \in Nat /\ sent \in Nat /\ rcvd <= sent /\ sent <= credited
    BY DEF IInv, TypeOK, InOrder, Runs, WriterState
  <2>. HIDE DEF RcvAdjust
  <2>4. ~sGone => outWin' + sent' = credited' /\ outWin' \in 0..MaxWindow
    <3>1. amt + credited = credited' /\ amt \in Nat /\ credited' \in Nat /\ credited \in Nat
      BY <1>1, <1>3, Zenon
    <3>2. credited' <= granted /\ granted \in Nat
      BY <1>1, <1>2, <1>3, Zenon
    <3>3. inWin + rcvd = granted /\ inWin \in 0..MaxWindow /\ (~sGone => outWin + sent = credited)
      BY DEF IInv, CreditConserved, TypeOK
    <3>4. outWin \in Nat /\ inWin \in Nat
      BY WindowAssumption DEF IInv, TypeOK
    <3>5. ~sGone => outWin' \in Nat /\ outWin' + sent = credited'
      BY <2>2, <2>3, <3>1, <3>3, <3>4
    <3>6. ~sGone => outWin' <= inWin
      BY <3>5, <3>2, <3>3, <3>4, <2>3
    <3>7. sent' = sent
      BY <2>1
    <3>8. QED
      BY <3>3, <3>4, <3>5, <3>6, <3>7, WindowAssumption
  <2>5. outWin' \in 0..MaxWindow /\ waitWindow' \in BOOLEAN
    BY <2>2, <2>4 DEF IInv, TypeOK
  <2>6. TypeOK'
    BY <2>1, <2>5, <1>3, <1>4 DEF IInv, TypeOK
  <2>7. InOrder' /\ NothingLost' /\ BoundedBuffer'
    BY <2>1 DEF IInv, InOrder, NothingLost, BoundedBuffer
  <2>8. CreditConserved'
    BY <2>1, <2>4, <1>4 DEF IInv, CreditConserved
  <2>9. LinkShape' /\ CloseIsLast' /\ ReaderState'
    BY <2>1 DEF IInv, LinkShape, CloseIsLast, ReaderState
  <2>10. WriterState'
    <3>1. sent' <= credited'
      BY <2>1, <2>3, <1>1, <1>2, <1>3
    <3>2. outState = "open" => ~sGone
      BY DEF IInv, WriterState
    <3>3. outState' = "open" => ~writing' /\ ~waitWindow' /\ sent' = accepted'
      BY <1>7, <2>1, <2>2, <3>2 DEF IInv, WriterState
    <3>4. QED
      BY <2>1, <3>1, <3>3 DEF IInv, WriterState
  <2>11. QED
    BY <2>6, <2>7, <2>8, <2>9, <2>10, <1>5 DEF IInv
<1>8. QED
  BY <1>6, <1>7

\* A step by which the sender stops sending: it leaves "open" or "eof" and puts
\* the marks ms (EOF, CLOSE or both) behind what it sent.
LEMMA SenderStops ==
    ASSUME IInv, outState \in {"open", "eof"}, outState' \in {"eof", "closing", "closed"},
           NEW ms \in Seq(Message), link' = link \o ms, Runs(ms, sent, sent),
           \A i \in 1..Len(ms) :
              /\ ms[i].type \in {"eof", "close"} /\ ms[i].lo = sent /\ ms[i].hi = sent
              /\ ms[i].type = "close" => i = Len(ms) /\ outState' # "eof",
           UNCHANGED <<outWin, waitWindow, chunk, writing, receiver,
                       accepted, sent, rcvd, consumed, lost, credited, granted>>,
           finished' \in BOOLEAN, sGone' \in BOOLEAN, ending' \in BOOLEAN, aborted' \in BOOLEAN,
           sGone => sGone', sGone' => outState' = "closed", ending => ending', aborted => aborted',
           ~aborted' => sent = accepted /\ ending',
           back' \in Seq(Message), Runs(back', credited, granted), BackShape'
    PROVE  IInv'
<1>. USE DEF receiver
<1>1. link \in Seq(Message) /\ rcvd \in Nat /\ sent \in Nat /\ Runs(link, rcvd, sent)
  BY DEF IInv, TypeOK, InOrder
<1>2. /\ link' \in Seq(Message) /\ Len(link') = Len(link) + Len(ms)
      /\ \A i \in 1..Len(link) : link'[i] = link[i]
      /\ \A i \in 1..Len(ms) : link'[Len(link) + i] = ms[i]
      /\ \A i \in 1..Len(link') : i \in 1..Len(link) \/ i - Len(link) \in 1..Len(ms)
      /\ Runs(link', rcvd, sent)
  BY <1>1, RunsConcat
<1>3. ASSUME NEW i \in 1..Len(link')
      PROVE  \/ i \in 1..Len(link) /\ link'[i] = link[i]
             \/ /\ link'[i].type \in {"eof", "close"} /\ link'[i].lo = sent /\ link'[i].hi = sent
                /\ link'[i].type = "close" => i = Len(link') /\ outState' # "eof"
  <2>1. CASE i \in 1..Len(link)
    BY <2>1, <1>2
  <2>2. CASE i - Len(link) \in 1..Len(ms)
    <3>1. Len(link) \in Nat /\ Len(ms) \in Nat /\ Len(link) + (i - Len(link)) = i
      BY <1>1, <1>2
    <3>2. link'[i] = ms[i - Len(link)]
      BY <3>1, <2>2, <1>2
    <3>3. i - Len(link) = Len(ms) => i = Len(link')
      BY <3>1, <1>2
    <3>4. QED
      BY <3>2, <3>3, <2>2
  <2>3. QED
    BY <2>1, <2>2, <1>2
<1>4. inState # "closed" /\ \A i \in 1..Len(link) : link[i].type # "close"
  BY DEF IInv, CloseIsLast
<1>5. TypeOK'
  BY <1>2 DEF IInv, TypeOK, States
<1>6. InOrder' /\ NothingLost' /\ BoundedBuffer'
  BY <1>2 DEF IInv, InOrder, NothingLost, BoundedBuffer
<1>7. CreditConserved'
  BY DEF IInv, CreditConserved
<1>8. LinkShape'
  BY <1>3 DEF IInv, LinkShape
<1>9. WriterState'
  BY DEF IInv, WriterState
<1>10. CloseIsLast'
  BY <1>3, <1>4 DEF CloseIsLast
<1>11. ReaderState'
  BY DEF IInv, ReaderState
<1>12. QED
  BY <1>5, <1>6, <1>7, <1>8, <1>9, <1>10, <1>11 DEF IInv

\* The marks the sender puts on the wire.
LEMMA Marks ==
    ASSUME IInv
    PROVE  /\ EOF(sent) \in Message /\ CLOSE(sent) \in Message
           /\ EOF(sent).type = "eof" /\ EOF(sent).lo = sent /\ EOF(sent).hi = sent
           /\ CLOSE(sent).type = "close" /\ CLOSE(sent).lo = sent /\ CLOSE(sent).hi = sent
           /\ <<>> \in Seq(Message) /\ Runs(<<>>, sent, sent)
           /\ <<EOF(sent)>> \in Seq(Message) /\ Runs(<<EOF(sent)>>, sent, sent)
           /\ <<CLOSE(sent)>> \in Seq(Message) /\ Runs(<<CLOSE(sent)>>, sent, sent)
           /\ <<EOF(sent), CLOSE(sent)>> \in Seq(Message)
           /\ Runs(<<EOF(sent), CLOSE(sent)>>, sent, sent)
<1>1. sent \in Nat
  BY DEF IInv, TypeOK
<1>2. /\ EOF(sent) \in Message /\ CLOSE(sent) \in Message
      /\ EOF(sent).type = "eof" /\ EOF(sent).lo = sent /\ EOF(sent).hi = sent
      /\ CLOSE(sent).type = "close" /\ CLOSE(sent).lo = sent /\ CLOSE(sent).hi = sent
  BY <1>1 DEF EOF, CLOSE, Message
<1>3. ASSUME NEW x \in Nat
      PROVE  Runs(<<>>, x, x)
  BY DEF Runs
<1>4. ASSUME NEW x \in Nat, NEW m1 \in Message, NEW m2 \in Message,
             m1.lo = x, m1.hi = x, m2.lo = x, m2.hi = x
      PROVE  /\ <<m1>> \in Seq(Message) /\ Runs(<<m1>>, x, x)
             /\ <<m1, m2>> \in Seq(Message) /\ Runs(<<m1, m2>>, x, x)
  <2>1. /\ <<m1>> \in Seq(Message) /\ Len(<<m1>>) = 1 /\ <<m1>>[1] = m1 /\ <<m1>> # <<>>
        /\ <<m1, m2>> \in Seq(Message) /\ Len(<<m1, m2>>) = 2
        /\ <<m1, m2>>[1] = m1 /\ <<m1, m2>>[2] = m2 /\ <<m1, m2>> # <<>>
    OBVIOUS
  <2>2. Runs(<<m1>>, x, x)
    BY <1>4, <2>1 DEF Runs
  <2>3. Runs(<<m1, m2>>, x, x)
    BY <1>4, <2>1 DEF Runs
  <2>4. QED
    BY <2>1, <2>2, <2>3
<1>5. <<>> \in Seq(Message) /\ Runs(<<>>, sent, sent)
  BY <1>1, <1>3
<1>6. /\ <<EOF(sent)>> \in Seq(Message) /\ Runs(<<EOF(sent)>>, sent, sent)
      /\ <<EOF(sent), CLOSE(sent)>> \in Seq(Message)
      /\ Runs(<<EOF(sent), CLOSE(sent)>>, sent, sent)
  BY <1>1, <1>2, <1>4, Zenon
<1>7. <<CLOSE(sent)>> \in Seq(Message) /\ Runs(<<CLOSE(sent)>>, sent, sent)
  BY <1>1, <1>2, <1>4, Zenon
<1>8. QED
  BY <1>2, <1>5, <1>6, <1>7, Zenon

\* end() only takes note.
LEMMA AppEndStep ==
    ASSUME IInv, AppEnd
    PROVE  IInv'
<1>. USE DEF AppEnd, receiver, counts
<1>1. TypeOK'
  BY DEF IInv, TypeOK
<1>2. WriterState'
  BY DEF IInv, WriterState
<1>3. InOrder' /\ CreditConserved' /\ NothingLost' /\ BoundedBuffer'
  BY DEF IInv, InOrder, CreditConserved, NothingLost, BoundedBuffer
<1>4. LinkShape' /\ BackShape' /\ CloseIsLast' /\ ReaderState'
  BY DEF IInv, LinkShape, BackShape, CloseIsLast, ReaderState
<1>5. QED
  BY <1>1, <1>2, <1>3, <1>4 DEF IInv

\* The stream finishes: EOF, and CLOSE unless the channel is half-open.
LEMMA FinishStep ==
    ASSUME IInv, NEW half \in BOOLEAN, Finish(half)
    PROVE  IInv'
<1>. USE DEF Finish, receiver, counts
<1>1. CASE outState \notin {"open", "eof"}
  <2>1. link' = link /\ outState' = outState
    <3>1. link' = link \o <<>> /\ link \in Seq(Message)
      BY <1>1 DEF IInv, TypeOK
    <3>2. QED
      BY <3>1, <1>1
  <2>2. TypeOK'
    BY <2>1 DEF IInv, TypeOK
  <2>3. InOrder' /\ CreditConserved' /\ NothingLost' /\ BoundedBuffer' /\ WriterState'
    BY <2>1 DEF IInv, InOrder, CreditConserved, NothingLost, BoundedBuffer, WriterState
  <2>4. LinkShape' /\ BackShape' /\ CloseIsLast' /\ ReaderState'
    BY <2>1 DEF IInv, LinkShape, BackShape, CloseIsLast, ReaderState
  <2>5. QED
    BY <2>2, <2>3, <2>4 DEF IInv
<1>2. CASE outState \in {"open", "eof"}
  <2>. DEFINE ms == CASE outState = "open" /\ half  -> <<EOF(sent)>>
                      [] outState = "open" /\ ~half -> <<EOF(sent), CLOSE(sent)>>
                      [] outState = "eof" /\ ~half  -> <<CLOSE(sent)>>
                      [] OTHER                      -> <<>>
  <2>1. /\ link' = link \o ms
        /\ outState' = IF half THEN "eof" ELSE "closing"
        /\ finished' = TRUE
    BY <1>2
  <2>2. \/ half /\ ms = <<EOF(sent)>>
        \/ half /\ ms = <<>>
        \/ ~half /\ ms = <<EOF(sent), CLOSE(sent)>>
        \/ ~half /\ ms = <<CLOSE(sent)>>
    BY <1>2
  <2>3. /\ ms \in Seq(Message) /\ Runs(ms, sent, sent)
        /\ \A i \in 1..Len(ms) :
              /\ ms[i].type \in {"eof", "close"} /\ ms[i].lo = sent /\ ms[i].hi = sent
              /\ ms[i].type = "close" => i = Len(ms) /\ outState' # "eof"
    <3>. HIDE DEF ms, Finish
    <3>1. CASE half /\ ms = <<EOF(sent)>>
      BY <3>1, Marks
    <3>2. CASE half /\ ms = <<>>
      BY <3>2, Marks
    <3>3. CASE ~half /\ ms = <<EOF(sent), CLOSE(sent)>>
      BY <3>3, <2>1, Marks
    <3>4. CASE ~half /\ ms = <<CLOSE(sent)>>
      BY <3>4, <2>1, Marks
    <3>5. QED
      BY <2>2, <3>1, <3>2, <3>3, <3>4
  <2>4. sGone = FALSE /\ (~aborted => sent = accepted)
    BY <1>2 DEF IInv, TypeOK, WriterState
  <2>5. /\ back' \in Seq(Message) /\ Runs(back', credited, granted) /\ BackShape'
        /\ finished' \in BOOLEAN /\ sGone' \in BOOLEAN /\ ending' \in BOOLEAN
        /\ aborted' \in BOOLEAN /\ aborted' = aborted /\ sGone' = sGone /\ ending' = ending
        /\ ending
    BY DEF IInv, TypeOK, CreditConserved, BackShape
  <2>6. outState' \in {"eof", "closing", "closed"}
    BY <2>1
  <2>7. UNCHANGED <<outWin, waitWindow, chunk, writing, receiver,
                    accepted, sent, rcvd, consumed, lost, credited, granted>>
    OBVIOUS
  <2>. HIDE DEF ms, Finish, receiver, counts
  <2>8. PICK m \in Seq(Message) : m = ms
    BY <2>3
  <2>9. QED
    BY <1>2, <2>1, <2>3, <2>4, <2>5, <2>6, <2>7, <2>8, SenderStops, Zenon
<1>3. QED
  BY <1>1, <1>2

\* The writing application closes the channel.
LEMMA AppCloseStep ==
    ASSUME IInv, AppClose
    PROVE  IInv'
<1>. USE DEF AppClose, receiver
<1>1. PICK m \in Seq(Message) : m = <<CLOSE(sent)>>
  BY Marks
<1>2. link' = link \o m
  <2>1. link \in Seq(Message) /\ CLOSE(sent) \in Message /\ link' = Append(link, CLOSE(sent))
    BY Marks DEF IInv, TypeOK
  <2>2. QED
    BY <2>1, <1>1
<1>3. /\ Runs(m, sent, sent)
      /\ \A i \in 1..Len(m) :
            /\ m[i].type \in {"eof", "close"} /\ m[i].lo = sent /\ m[i].hi = sent
            /\ m[i].type = "close" => i = Len(m) /\ outState' # "eof"
  BY <1>1, Marks
<1>4. /\ back' \in Seq(Message) /\ Runs(back', credited, granted) /\ BackShape'
      /\ finished' \in BOOLEAN /\ sGone' = FALSE /\ sGone = FALSE /\ ending' \in BOOLEAN
      /\ aborted' \in BOOLEAN /\ (aborted => aborted') /\ ending' = ending
      /\ ~aborted' => sent = accepted /\ ending'
  BY DEF IInv, TypeOK, CreditConserved, BackShape, WriterState
<1>5. outState' \in {"eof", "closing", "closed"}
  BY Zenon
<1>6. UNCHANGED <<outWin, waitWindow, chunk, writing, receiver,
                  accepted, sent, rcvd, consumed, lost, credited, granted>>
  OBVIOUS
<1>7. outState \in {"open", "eof"}
  OBVIOUS
<1>. HIDE DEF AppClose, receiver
<1>8. QED
  BY <1>2, <1>3, <1>4, <1>5, <1>6, <1>7, SenderStops, Zenon

-----------------------------------------------------------------------------
\* A step of the receiver: it takes nothing from the sender but messages at
\* the head of the link.
LEMMA ReceiverStep ==
    ASSUME IInv, UNCHANGED <<sender, accepted, sent, credited>>,
           aborted' \in BOOLEAN, aborted => aborted',
           link' \in Seq(Message), Runs(link', rcvd', sent),
           \A i \in 1..Len(link') :
              \E j \in 1..Len(link) : link'[i] = link[j] /\ (j = Len(link) => i = Len(link')),
           back' \in Seq(Message), Runs(back', credited, granted'), BackShape',
           rcvd' \in Nat, consumed' \in Nat, buf' \in Nat, granted' \in Nat,
           inWin' \in 0..MaxWindow, inState' \in States, rOutState' \in States,
           waitDrain' \in BOOLEAN, reading' \in BOOLEAN, ended' \in BOOLEAN, endSeen' \in BOOLEAN,
           lost' = 0, inWin' + rcvd' = granted', rcvd' = consumed' + buf',
           buf' + inWin' < 2 * MaxWindow,
           inState' = "closed" => link' = <<>> /\ outState \notin {"open", "eof"},
           ended' => outState # "open" /\ rcvd' = sent,
           endSeen' => ended' /\ buf' = 0
    PROVE  IInv'
<1>. USE DEF sender
<1>1. TypeOK'
  BY DEF IInv, TypeOK
<1>2. InOrder' /\ NothingLost' /\ BoundedBuffer'
  BY DEF InOrder, NothingLost, BoundedBuffer
<1>3. CreditConserved'
  BY DEF IInv, CreditConserved
<1>4. LinkShape'
  <2>1. LinkShape /\ sent' = sent /\ outState' = outState
    BY DEF IInv
  <2>. SUFFICES ASSUME NEW i \in 1..Len(link')
                PROVE  /\ link'[i].type \in {"data", "eof", "close"}
                       /\ link'[i].type = "data" => link'[i].lo < link'[i].hi
                       /\ link'[i].type # "data" =>
                             link'[i].lo = link'[i].hi /\ link'[i].hi = sent /\ outState # "open"
    BY <2>1 DEF LinkShape
  <2>2. PICK j \in 1..Len(link) : link'[i] = link[j]
    OBVIOUS
  <2>. QED
    BY <2>1, <2>2 DEF LinkShape
<1>5. WriterState'
  BY DEF IInv, WriterState
<1>6. CloseIsLast'
  BY DEF IInv, CloseIsLast
<1>7. ReaderState'
  BY DEF ReaderState
<1>8. QED
  BY <1>1, <1>2, <1>3, <1>4, <1>5, <1>6, <1>7 DEF IInv

\* Taking the head of the link leaves the rest in place.
LEMMA LinkTail ==
    ASSUME IInv, link # <<>>, link' = Tail(link)
    PROVE  /\ Head(link) = link[1] /\ 1 \in 1..Len(link) /\ link[1] \in Message
           /\ link[1].lo = rcvd /\ link[1].hi \in Nat /\ rcvd <= link[1].hi /\ link[1].hi <= sent
           /\ link' \in Seq(Message) /\ Runs(link', link[1].hi, sent)
           /\ \A i \in 1..Len(link') :
                 \E j \in 1..Len(link) : link'[i] = link[j] /\ (j = Len(link) => i = Len(link'))
           /\ inState # "closed"
<1>1. rcvd \in Nat /\ sent \in Nat /\ link \in Seq(Message) /\ Runs(link, rcvd, sent)
  BY DEF IInv, TypeOK, InOrder
<1>2. /\ Head(link) = link[1] /\ link[1] \in Message /\ link[1].lo = rcvd
      /\ rcvd <= link[1].hi /\ link[1].hi <= sent /\ 1 \in 1..Len(link)
      /\ Tail(link) \in Seq(Message) /\ Len(Tail(link)) = Len(link) - 1
      /\ \A i \in 1..Len(link) - 1 : Tail(link)[i] = link[i + 1]
      /\ Runs(Tail(link), link[1].hi, sent)
  BY <1>1, RunsTail
<1>3. ASSUME NEW i \in 1..Len(link')
      PROVE  \E j \in 1..Len(link) : link'[i] = link[j] /\ (j = Len(link) => i = Len(link'))
  <2>1. Len(link) \in Nat
    BY <1>1
  <2>2. Len(link') = Len(link) - 1
    BY <1>2
  <2>3. i \in 1..Len(link) - 1 /\ i + 1 \in 1..Len(link) /\ (i + 1 = Len(link) => i = Len(link'))
    <3>1. ASSUME NEW n \in Nat, NEW k \in 1..n - 1
          PROVE  k + 1 \in 1..n /\ (k + 1 = n => k = n - 1)
      BY <3>1
    <3>2. i \in 1..Len(link) - 1
      BY <1>3, <2>2, Zenon
    <3>3. QED
      BY <2>1, <2>2, <3>1, <3>2, Zenon
  <2>4. link'[i] = link[i + 1]
    BY <1>2, <2>3
  <2>5. QED
    BY <2>3, <2>4
<1>4. inState # "closed"
  BY DEF IInv, CloseIsLast
<1>5. QED
  BY <1>2, <1>3, <1>4 DEF Message

\* An untouched link.
LEMMA LinkKept ==
    ASSUME IInv, link' = link
    PROVE  /\ link' \in Seq(Message) /\ Runs(link', rcvd, sent)
           /\ \A i \in 1..Len(link') :
                 \E j \in 1..Len(link) : link'[i] = link[j] /\ (j = Len(link) => i = Len(link'))
           /\ inState = "closed" => link' = <<>> /\ outState \notin {"open", "eof"}
BY DEF IInv, TypeOK, InOrder, CloseIsLast

\* WINDOW_ADJUSTs keep the shape of what is on the way back.
LEMMA BackGrows ==
    ASSUME IInv, aborted' = aborted, inState' = inState,
           \A i \in 1..Len(back') :
              \/ i \in 1..Len(back) /\ back'[i] = back[i]
              \/ back'[i].type = "adjust" /\ Amount(back'[i]) >= MaxWindow - Threshold
    PROVE  BackShape'
BY DEF IInv, BackShape, Amount

\* The receiver's CLOSE goes behind everything else on the way back.
LEMMA BackCloses ==
    ASSUME IInv, back' = Append(back, CLOSE(granted)), granted' = granted,
           aborted => aborted', inState = "closed" => inState' = "closed",
           aborted' \/ inState' = "closed"
    PROVE  back' \in Seq(Message) /\ Runs(back', credited, granted') /\ BackShape'
<1>1. /\ granted \in Nat /\ credited \in Nat /\ back \in Seq(Message)
      /\ Runs(back, credited, granted)
  BY DEF IInv, TypeOK, CreditConserved
<1>2. PICK m \in Message : m = CLOSE(granted) /\ m.type = "close" /\ m.lo = granted /\ m.hi = granted
  <2>1. granted \in Nat
    BY <1>1
  <2>2. /\ CLOSE(granted).type = "close" /\ CLOSE(granted).lo = granted /\ CLOSE(granted).hi = granted
    BY DEF CLOSE
  <2>3. CLOSE(granted) \in Message
    BY <2>1 DEF CLOSE, Message
  <2>. QED
    BY <2>2, <2>3
<1>3. /\ Append(back, m) \in Seq(Message) /\ Len(Append(back, m)) = Len(back) + 1
      /\ Append(back, m)[Len(back) + 1] = m
      /\ \A i \in 1..Len(back) : Append(back, m)[i] = back[i]
      /\ Runs(Append(back, m), credited, m.hi)
  BY <1>1, <1>2, RunsAppend
<1>4. \A i \in 1..Len(back') : i \in 1..Len(back) \/ i = Len(back) + 1
  BY <1>1, <1>2, <1>3
<1>5. \A i \in 1..Len(back') : (i \in 1..Len(back) /\ back'[i] = back[i]) \/ back'[i] = m
  BY <1>2, <1>3, <1>4
<1>6. BackShape'
  BY <1>2, <1>5 DEF IInv, BackShape, Amount
<1>7. QED
  BY <1>2, <1>3, <1>6

\* CHANNEL_DATA arrives: it always fits the window the receiver gave.
LEMMA RcvDataStep ==
    ASSUME IInv, RcvData
    PROVE  IInv'
<1>. USE DEF RcvData
<1>1. link # <<>> /\ link' = Tail(link)
  OBVIOUS
<1>2. /\ Head(link) = link[1] /\ 1 \in 1..Len(link) /\ link[1] \in Message
      /\ link[1].lo = rcvd /\ link[1].hi \in Nat /\ rcvd <= link[1].hi /\ link[1].hi <= sent
      /\ link' \in Seq(Message) /\ Runs(link', link[1].hi, sent)
      /\ \A i \in 1..Len(link') :
            \E j \in 1..Len(link) : link'[i] = link[j] /\ (j = Len(link) => i = Len(link'))
      /\ inState # "closed"
  BY <1>1, LinkTail
<1>3. PICK top \in Nat : top = link[1].hi
  BY <1>2
<1>4. rcvd' = top /\ rcvd < top /\ top <= sent
  BY <1>2, <1>3 DEF IInv, LinkShape
<1>5. /\ rcvd \in Nat /\ sent \in Nat /\ credited \in Nat /\ granted \in Nat /\ buf \in Nat
      /\ consumed \in Nat /\ inWin \in Nat /\ inWin <= MaxWindow /\ MaxWindow \in Nat
      /\ inWin + rcvd = granted /\ sent <= credited /\ credited <= granted
      /\ rcvd = consumed + buf /\ buf + inWin < 2 * MaxWindow
  BY WindowAssumption
  DEF IInv, TypeOK, CreditConserved, WriterState, ReaderState, BoundedBuffer, Runs
<1>6. PICK len \in Nat : len + rcvd = top
  BY <1>4, <1>5, top - rcvd \in Nat /\ (top - rcvd) + rcvd = top
<1>7. len = Amount(Head(link)) /\ len > 0 /\ len <= inWin
  BY <1>2, <1>3, <1>4, <1>5, <1>6 DEF Amount
<1>8. PICK win \in Nat : win + len = inWin
  BY <1>5, <1>7, inWin - len \in Nat /\ (inWin - len) + len = inWin
<1>9. win \in 0..MaxWindow /\ win = inWin - len /\ inWin # 0
  BY <1>5, <1>7, <1>8
<1>10. buf' = buf + len /\ reading' = FALSE /\ lost' = lost /\ Push(len)
  BY <1>2, <1>7, <1>9
<1>11. UNCHANGED <<sender, accepted, sent, credited, aborted, inState, rOutState, ended,
                   endSeen, consumed>>
  OBVIOUS
<1>. HIDE DEF RcvData
<1>12. /\ waitDrain' = (waitDrain \/ buf + len >= MaxWindow)
       /\ \/ WindowAdjust(win) /\ win <= Threshold /\ buf + len < MaxWindow
          \/ NoAdjust(win)
  BY <1>9, <1>10 DEF Push
<1>13. /\ granted' \in Nat /\ granted <= granted'
       /\ inWin' \in 0..MaxWindow /\ inWin' + granted = win + granted'
       /\ back' \in Seq(Message) /\ Runs(back', credited, granted')
       /\ \A i \in 1..Len(back') :
             \/ i \in 1..Len(back) /\ back'[i] = back[i]
             \/ back'[i].type = "adjust" /\ Amount(back'[i]) >= MaxWindow - Threshold
  BY <1>9, <1>12, AdjustEffect, Zenon
<1>14. BackShape'
  BY <1>11, <1>13, BackGrows, Zenon
<1>15. PICK g \in Nat, w \in Nat : g = granted' /\ w = inWin' /\ w <= MaxWindow
  BY <1>5, <1>13
<1>16. w + top = g
  <2>1. w + granted = win + g
    BY <1>13, <1>15, Zenon
  <2>2. QED
    BY <2>1, <1>5, <1>6, <1>8
<1>17. PICK b \in Nat : b = buf' /\ b = buf + len /\ top = consumed + b
  BY <1>5, <1>6, <1>10
<1>18. b + w < 2 * MaxWindow
  <2>1. CASE buf + len < MaxWindow
    <3>1. b < MaxWindow /\ w <= MaxWindow /\ MaxWindow \in Nat
      BY <2>1, <1>5, <1>15, <1>17, Zenon
    <3>2. QED
      BY <3>1
  <2>2. CASE ~(buf + len < MaxWindow)
    <3>1. inWin' = win
      BY <2>2, <1>12 DEF NoAdjust
    <3>2. QED
      BY <3>1, <1>5, <1>8, <1>15, <1>17
  <2>3. QED
    BY <2>1, <2>2
<1>19. ended = FALSE /\ endSeen = FALSE
  BY <1>4, <1>5 DEF IInv, ReaderState, TypeOK
<1>20. /\ waitDrain' \in BOOLEAN /\ reading' \in BOOLEAN /\ ended' = FALSE /\ endSeen' = FALSE
       /\ inState' \in States /\ rOutState' \in States /\ aborted' \in BOOLEAN
       /\ inState' # "closed" /\ aborted' = aborted /\ lost' = 0 /\ consumed' \in Nat
  <2>1. waitDrain' \in BOOLEAN
    BY <1>12
  <2>2. QED
    BY <2>1, <1>2, <1>10, <1>11, <1>19 DEF IInv, TypeOK, NothingLost
<1>21. /\ inWin' + rcvd' = granted' /\ rcvd' = consumed' + buf' /\ buf' + inWin' < 2 * MaxWindow
       /\ Runs(link', rcvd', sent) /\ rcvd' \in Nat /\ buf' \in Nat
       /\ UNCHANGED <<sender, accepted, sent, credited>>
  BY <1>2, <1>3, <1>4, <1>11, <1>15, <1>16, <1>17, <1>18, Zenon
<1>22. QED
  BY <1>2, <1>13, <1>14, <1>20, <1>21, ReceiverStep, Zenon

\* CHANNEL_EOF arrives: all that was sent is in.
LEMMA RcvEofStep ==
    ASSUME IInv, RcvEof
    PROVE  IInv'
<1>. USE DEF RcvEof, counts
<1>1. link # <<>> /\ link' = Tail(link)
  OBVIOUS
<1>2. /\ Head(link) = link[1] /\ 1 \in 1..Len(link) /\ link[1] \in Message
      /\ link[1].lo = rcvd /\ link[1].hi \in Nat /\ rcvd <= link[1].hi /\ link[1].hi <= sent
      /\ link' \in Seq(Message) /\ Runs(link', link[1].hi, sent)
      /\ \A i \in 1..Len(link') :
            \E j \in 1..Len(link) : link'[i] = link[j] /\ (j = Len(link) => i = Len(link'))
      /\ inState # "closed"
  BY <1>1, LinkTail
<1>3. link[1].hi = rcvd /\ rcvd = sent /\ outState # "open"
  BY <1>2 DEF IInv, LinkShape
<1>4. UNCHANGED <<sender, accepted, sent, credited, back, inWin, rOutState, waitDrain, buf,
                  reading, endSeen, rcvd, consumed, lost, granted, aborted>>
  OBVIOUS
<1>5. inState' \in States /\ inState' # "closed" /\ ended' \in BOOLEAN /\ (ended => ended')
  BY <1>2 DEF IInv, TypeOK, States
<1>. HIDE DEF RcvEof, counts
<1>6. BackShape'
  BY <1>2, <1>4, <1>5 DEF IInv, BackShape, Amount
<1>7. /\ back' \in Seq(Message) /\ Runs(back', credited, granted')
      /\ rcvd' \in Nat /\ consumed' \in Nat /\ buf' \in Nat /\ granted' \in Nat
      /\ inWin' \in 0..MaxWindow /\ rOutState' \in States /\ waitDrain' \in BOOLEAN
      /\ reading' \in BOOLEAN /\ endSeen' \in BOOLEAN /\ aborted' \in BOOLEAN
      /\ lost' = 0 /\ inWin' + rcvd' = granted' /\ rcvd' = consumed' + buf'
      /\ buf' + inWin' < 2 * MaxWindow /\ (endSeen' => ended' /\ buf' = 0)
      /\ aborted' = aborted /\ rcvd' = sent
  BY <1>3, <1>4, <1>5 DEF IInv, TypeOK, CreditConserved, NothingLost, BoundedBuffer, ReaderState
<1>8. Runs(link', rcvd', sent) /\ UNCHANGED <<sender, accepted, sent, credited>>
  BY <1>2, <1>3, <1>4
<1>9. QED
  BY <1>2, <1>3, <1>5, <1>6, <1>7, <1>8, ReceiverStep, Zenon

\* CHANNEL_CLOSE arrives at the receiver: it was the last message.
LEMMA RcvCloseStep ==
    ASSUME IInv, RcvClose
    PROVE  IInv'
<1>. USE DEF RcvClose, counts
<1>1. link # <<>> /\ link' = Tail(link)
  OBVIOUS
<1>2. /\ Head(link) = link[1] /\ 1 \in 1..Len(link) /\ link[1] \in Message
      /\ link[1].lo = rcvd /\ link[1].hi \in Nat /\ rcvd <= link[1].hi /\ link[1].hi <= sent
      /\ link' \in Seq(Message) /\ Runs(link', link[1].hi, sent)
      /\ \A i \in 1..Len(link') :
            \E j \in 1..Len(link) : link'[i] = link[j] /\ (j = Len(link) => i = Len(link'))
      /\ inState # "closed"
  BY <1>1, LinkTail
<1>3. link[1].hi = rcvd /\ rcvd = sent /\ outState \notin {"open", "eof"} /\ link' = <<>>
  <2>1. link[1].type = "close"
    BY <1>2
  <2>2. link[1].hi = rcvd /\ rcvd = sent
    BY <1>2, <2>1 DEF IInv, LinkShape
  <2>3. outState \notin {"open", "eof"} /\ Len(link) = 1
    BY <1>2, <2>1 DEF IInv, CloseIsLast
  <2>4. link' = <<>>
    BY <1>1, <2>3 DEF IInv, TypeOK
  <2>5. QED
    BY <2>2, <2>3, <2>4
<1>4. UNCHANGED <<sender, accepted, sent, credited, inWin, waitDrain, buf,
                  reading, endSeen, rcvd, consumed, lost, granted, aborted>>
  OBVIOUS
<1>5. /\ inState' = "closed" /\ rOutState' = "closed" /\ ended' = TRUE
      /\ inState' \in States /\ rOutState' \in States
      /\ back' = back \/ back' = Append(back, CLOSE(granted))
  BY DEF States
<1>. HIDE DEF RcvClose, counts
<1>6. back' \in Seq(Message) /\ Runs(back', credited, granted') /\ BackShape'
  <2>1. CASE back' = back
    <3>1. back' \in Seq(Message) /\ Runs(back', credited, granted')
      BY <2>1, <1>4 DEF IInv, TypeOK, CreditConserved
    <3>2. BackShape'
      BY <2>1, <1>4, <1>5 DEF IInv, BackShape, Amount
    <3>3. QED
      BY <3>1, <3>2
  <2>2. CASE back' = Append(back, CLOSE(granted))
    BY <2>2, <1>4, <1>5, BackCloses
  <2>3. QED
    BY <2>1, <2>2, <1>5
<1>7. /\ rcvd' \in Nat /\ consumed' \in Nat /\ buf' \in Nat /\ granted' \in Nat
      /\ inWin' \in 0..MaxWindow /\ waitDrain' \in BOOLEAN
      /\ reading' \in BOOLEAN /\ endSeen' \in BOOLEAN /\ aborted' \in BOOLEAN
      /\ lost' = 0 /\ inWin' + rcvd' = granted' /\ rcvd' = consumed' + buf'
      /\ buf' + inWin' < 2 * MaxWindow /\ (endSeen' => ended' /\ buf' = 0)
      /\ aborted' = aborted /\ rcvd' = sent /\ ended' \in BOOLEAN
  BY <1>3, <1>4, <1>5 DEF IInv, TypeOK, CreditConserved, NothingLost, BoundedBuffer, ReaderState
<1>8. /\ Runs(link', rcvd', sent) /\ outState # "open"
      /\ UNCHANGED <<sender, accepted, sent, credited>>
  BY <1>2, <1>3, <1>4
<1>9. QED
  BY <1>2, <1>3, <1>5, <1>6, <1>7, <1>8, ReceiverStep, Zenon

\* The reading application closes the channel.
LEMMA ReaderCloseStep ==
    ASSUME IInv, ReaderClose
    PROVE  IInv'
<1>. USE DEF ReaderClose
<1>1. /\ back' = Append(back, CLOSE(granted)) /\ granted' = granted /\ aborted' = TRUE
      /\ inState' = inState /\ rcvd' = rcvd /\ link' = link
  OBVIOUS
<1>2. back' \in Seq(Message) /\ Runs(back', credited, granted') /\ BackShape'
  BY <1>1, BackCloses
<1>3. /\ link' \in Seq(Message) /\ Runs(link', rcvd, sent)
      /\ \A i \in 1..Len(link') :
            \E j \in 1..Len(link) : link'[i] = link[j] /\ (j = Len(link) => i = Len(link'))
      /\ inState = "closed" => link' = <<>> /\ outState \notin {"open", "eof"}
  BY <1>1, LinkKept
<1>4. /\ rcvd' \in Nat /\ consumed' \in Nat /\ buf' \in Nat /\ granted' \in Nat
      /\ inWin' \in 0..MaxWindow /\ inState' \in States /\ rOutState' \in States
      /\ waitDrain' \in BOOLEAN /\ reading' \in BOOLEAN /\ ended' \in BOOLEAN
      /\ endSeen' \in BOOLEAN /\ aborted' \in BOOLEAN
      /\ lost' = 0 /\ inWin' + rcvd' = granted' /\ rcvd' = consumed' + buf'
      /\ buf' + inWin' < 2 * MaxWindow
      /\ (ended' => outState # "open" /\ rcvd' = sent) /\ (endSeen' => ended' /\ buf' = 0)
  BY DEF IInv, TypeOK, States, CreditConserved, NothingLost, BoundedBuffer, ReaderState
<1>5. UNCHANGED <<sender, accepted, sent, credited>>
  OBVIOUS
<1>. HIDE DEF ReaderClose
<1>6. QED
  BY <1>1, <1>2, <1>3, <1>4, <1>5, ReceiverStep, Zenon

\* A step in which only the consumer and _read() act: n bytes leave the buffer,
\* and the window is topped up only when that leaves less than a full buffer.
LEMMA ConsumerStep ==
    ASSUME IInv, NEW n \in Nat, n <= buf, buf' = buf - n, consumed' = consumed + n,
           \/ DoRead /\ buf - n < MaxWindow
           \/ UNCHANGED <<inWin, waitDrain, reading, back, granted>>,
           UNCHANGED <<sender, link, inState, rOutState, ended, endSeen,
                       accepted, sent, rcvd, lost, credited, aborted>>
    PROVE  IInv'
<1>1. /\ buf \in Nat /\ consumed \in Nat /\ rcvd \in Nat /\ granted \in Nat
      /\ inWin \in 0..MaxWindow /\ inWin \in Nat /\ MaxWindow \in Nat
      /\ inWin + rcvd = granted /\ rcvd = consumed + buf /\ buf + inWin < 2 * MaxWindow
  BY WindowAssumption DEF IInv, TypeOK, CreditConserved, ReaderState, BoundedBuffer
<1>2. /\ waitDrain' \in BOOLEAN /\ reading' \in BOOLEAN
      /\ (WindowAdjust(inWin) /\ inWin <= Threshold) \/ NoAdjust(inWin)
      /\ buf - n < MaxWindow \/ NoAdjust(inWin)
  BY DEF DoRead, NoAdjust, IInv, TypeOK
<1>3. PICK w \in 0..MaxWindow : w = inWin
  BY <1>1
<1>4. (WindowAdjust(w) /\ w <= Threshold) \/ NoAdjust(w)
  BY <1>2, <1>3
<1>5. /\ granted' \in Nat /\ granted <= granted'
      /\ inWin' \in 0..MaxWindow /\ inWin' + granted = w + granted'
      /\ back' \in Seq(Message) /\ Runs(back', credited, granted')
      /\ \A i \in 1..Len(back') :
            \/ i \in 1..Len(back) /\ back'[i] = back[i]
            \/ back'[i].type = "adjust" /\ Amount(back'[i]) >= MaxWindow - Threshold
  BY <1>4, AdjustEffect, Zenon
<1>6. /\ link' = link /\ inState' = inState /\ rcvd' = rcvd /\ aborted' = aborted
      /\ UNCHANGED <<sender, accepted, sent, credited>>
  OBVIOUS
<1>7. BackShape'
  BY <1>5, <1>6, BackGrows, Zenon
<1>8. /\ link' \in Seq(Message) /\ Runs(link', rcvd, sent)
      /\ \A i \in 1..Len(link') :
            \E j \in 1..Len(link) : link'[i] = link[j] /\ (j = Len(link) => i = Len(link'))
      /\ inState = "closed" => link' = <<>> /\ outState \notin {"open", "eof"}
  BY <1>6, LinkKept
<1>9. PICK v \in Nat, g \in Nat : v = inWin' /\ g = granted' /\ v <= MaxWindow
  BY <1>1, <1>5
<1>10. v + rcvd = g
  <2>1. v + granted = inWin + g
    BY <1>3, <1>5, <1>9, Zenon
  <2>2. QED
    BY <2>1, <1>1
<1>11. PICK b \in Nat, c \in Nat : b = buf' /\ c = consumed' /\ b = buf - n /\ c = consumed + n
  BY <1>1
<1>12. rcvd = c + b
  BY <1>1, <1>11
<1>13. b + v < 2 * MaxWindow
  <2>1. CASE b < MaxWindow
    <3>1. b < MaxWindow /\ v <= MaxWindow /\ MaxWindow \in Nat
      BY <2>1, <1>1, <1>9, Zenon
    <3>2. QED
      BY <3>1
  <2>2. CASE ~(b < MaxWindow)
    <3>1. inWin' = inWin
      BY <2>2, <1>2, <1>11 DEF NoAdjust
    <3>2. QED
      BY <3>1, <1>1, <1>9, <1>11
  <2>3. QED
    BY <2>1, <2>2
<1>14. /\ inState' \in States /\ rOutState' \in States /\ ended' \in BOOLEAN
       /\ endSeen' \in BOOLEAN /\ aborted' \in BOOLEAN /\ lost' = 0
       /\ (ended' => outState # "open" /\ rcvd' = sent)
  BY DEF IInv, TypeOK, NothingLost, ReaderState
<1>15. endSeen' => ended' /\ buf' = 0
  BY <1>1 DEF IInv, ReaderState
<1>16. /\ inWin' + rcvd' = granted' /\ rcvd' = consumed' + buf' /\ buf' + inWin' < 2 * MaxWindow
       /\ rcvd' \in Nat /\ consumed' \in Nat /\ buf' \in Nat
  BY <1>1, <1>6, <1>9, <1>10, <1>11, <1>12, <1>13, Zenon
<1>17. /\ Runs(link', rcvd', sent) /\ (aborted => aborted')
       /\ inState' = "closed" => link' = <<>> /\ outState \notin {"open", "eof"}
  BY <1>6, <1>8
<1>18. /\ link' \in Seq(Message) /\ UNCHANGED <<sender, accepted, sent, credited>>
       /\ \A i \in 1..Len(link') :
             \E j \in 1..Len(link) : link'[i] = link[j] /\ (j = Len(link) => i = Len(link'))
  BY <1>6, <1>8, Zenon
<1>19. QED
  BY <1>2, <1>5, <1>7, <1>14, <1>15, <1>16, <1>17, <1>18, ReceiverStep, Zenon

\* The consumer reads.
LEMMA ReadStep ==
    ASSUME IInv, NEW n \in 1..(2 * MaxWindow), Read(n)
    PROVE  IInv'
<1>1. n \in Nat
  BY WindowAssumption
<1>2. QED
  BY <1>1, ConsumerStep, Zenon DEF Read

\* Node reads ahead.
LEMMA ReadAheadStep ==
    ASSUME IInv, ReadAhead
    PROVE  IInv'
<1>1. /\ 0 \in Nat /\ 0 <= buf /\ buf' = buf - 0 /\ consumed' = consumed + 0
      /\ DoRead /\ buf - 0 < MaxWindow
  BY DEF IInv, TypeOK, ReadAhead
<1>2. UNCHANGED <<sender, link, inState, rOutState, ended, endSeen,
                  accepted, sent, rcvd, lost, credited, aborted>>
  BY DEF ReadAhead
<1>3. QED
  BY <1>1, <1>2, ConsumerStep, Zenon

\* The consumer sees 'end'.
LEMMA SeeEndStep ==
    ASSUME IInv, SeeEnd
    PROVE  IInv'
<1>. USE DEF SeeEnd, sender, counts
<1>1. TypeOK'
  BY DEF IInv, TypeOK
<1>2. InOrder' /\ CreditConserved' /\ NothingLost' /\ BoundedBuffer' /\ WriterState'
  BY DEF IInv, InOrder, CreditConserved, NothingLost, BoundedBuffer, WriterState
<1>3. LinkShape' /\ BackShape' /\ CloseIsLast' /\ ReaderState'
  BY DEF IInv, LinkShape, BackShape, CloseIsLast, ReaderState
<1>4. QED
  BY <1>1, <1>2, <1>3 DEF IInv

\* The receiver's CLOSE arrives at the sender.
LEMMA RcvCloseReplyStep ==
    ASSUME IInv, RcvCloseReply
    PROVE  IInv'
<1>. USE DEF RcvCloseReply, counts
<1>1. /\ credited \in Nat /\ granted \in Nat /\ back \in Seq(Message) /\ back # <<>>
      /\ Runs(back, credited, granted)
  BY DEF IInv, TypeOK, CreditConserved
<1>2. /\ Head(back) = back[1] /\ 1 \in 1..Len(back) /\ back[1].lo = credited
      /\ Tail(back) \in Seq(Message) /\ Len(Tail(back)) = Len(back) - 1
      /\ \A i \in 1..Len(back) - 1 : Tail(back)[i] = back[i + 1]
      /\ Runs(Tail(back), back[1].hi, granted)
  BY <1>1, RunsTail
<1>3. back[1].hi = credited /\ (aborted \/ inState = "closed")
  BY <1>2 DEF IInv, BackShape
<1>4. back' \in Seq(Message) /\ Runs(back', credited, granted)
  BY <1>2, <1>3
<1>5. BackShape'
  <2>1. \A i \in 1..Len(back') : i + 1 \in 1..Len(back) /\ back'[i] = back[i + 1]
    BY <1>1, <1>2
  <2>2. aborted' = aborted /\ inState' = inState
    BY DEF receiver
  <2>3. QED
    BY <2>1, <2>2 DEF IInv, BackShape, Amount
<1>6. CASE outState \in {"open", "eof"}
  <2>1. aborted = TRUE /\ aborted' = TRUE
    BY <1>3, <1>6 DEF IInv, CloseIsLast, TypeOK
  <2>2. PICK m \in Seq(Message) : m = <<CLOSE(sent)>>
    BY Marks
  <2>3. link' = link \o m
    <3>1. link \in Seq(Message) /\ CLOSE(sent) \in Message /\ link' = Append(link, CLOSE(sent))
      BY <1>6, Marks DEF IInv, TypeOK
    <3>2. QED
      BY <3>1, <2>2
  <2>4. /\ Runs(m, sent, sent)
        /\ \A i \in 1..Len(m) :
              /\ m[i].type \in {"eof", "close"} /\ m[i].lo = sent /\ m[i].hi = sent
              /\ m[i].type = "close" => i = Len(m) /\ outState' # "eof"
    BY <2>2, Marks
  <2>5. /\ finished' \in BOOLEAN /\ sGone' = TRUE /\ ending' = TRUE
        /\ outState' = "closed" /\ outState' \in {"eof", "closing", "closed"}
    BY DEF IInv, TypeOK
  <2>6. UNCHANGED <<outWin, waitWindow, chunk, writing, receiver,
                    accepted, sent, rcvd, consumed, lost, credited, granted>>
    OBVIOUS
  <2>. HIDE DEF RcvCloseReply, counts
  <2>7. QED
    BY <1>4, <1>5, <1>6, <2>1, <2>3, <2>4, <2>5, <2>6, SenderStops, Zenon
<1>7. CASE outState \notin {"open", "eof"}
  <2>. USE DEF receiver
  <2>1. TypeOK'
    BY <1>4, <1>7 DEF IInv, TypeOK, States
  <2>2. InOrder' /\ NothingLost' /\ BoundedBuffer' /\ WriterState'
    BY <1>7 DEF IInv, InOrder, NothingLost, BoundedBuffer, WriterState
  <2>3. CreditConserved'
    BY <1>4, <1>7 DEF IInv, CreditConserved
  <2>4. LinkShape' /\ CloseIsLast' /\ ReaderState'
    BY <1>7 DEF IInv, LinkShape, CloseIsLast, ReaderState
  <2>5. QED
    BY <2>1, <2>2, <2>3, <2>4, <1>5 DEF IInv
<1>8. QED
  BY <1>6, <1>7

-----------------------------------------------------------------------------
\* Every step of the channel keeps the inductive invariant.
LEMMA Inductive == IInv /\ [Next]_vars => IInv'
<1>1. SUFFICES ASSUME IInv, [Next]_vars PROVE IInv'
  OBVIOUS
<1>2. CASE UNCHANGED vars
  <2>. USE <1>2 DEF vars, sender, receiver, counts
  <2>1. TypeOK'
    BY <1>1 DEF IInv, TypeOK
  <2>2. InOrder' /\ CreditConserved' /\ NothingLost' /\ BoundedBuffer' /\ WriterState'
    BY <1>1 DEF IInv, InOrder, CreditConserved, NothingLost, BoundedBuffer, WriterState
  <2>3. LinkShape' /\ BackShape' /\ CloseIsLast' /\ ReaderState'
    BY <1>1 DEF IInv, LinkShape, BackShape, CloseIsLast, ReaderState
  <2>4. QED
    BY <2>1, <2>2, <2>3 DEF IInv
<1>3. ASSUME NEW n \in 1..MaxWrite, AppWrite(n)
      PROVE  IInv'
  BY <1>1, <1>3, AppWriteStep
<1>4. ASSUME NEW n \in 1..(2 * MaxWindow), Read(n)
      PROVE  IInv'
  BY <1>1, <1>4, ReadStep
<1>5. CASE AppEnd \/ (\E half \in BOOLEAN : Finish(half)) \/ AppClose \/ ReaderClose \/ ReadAhead \/ SeeEnd
  BY <1>1, <1>5, AppEndStep, FinishStep, AppCloseStep, ReaderCloseStep, ReadAheadStep,
     SeeEndStep, Zenon
<1>6. CASE Deliver
  BY <1>1, <1>6, RcvAdjustStep, RcvCloseReplyStep, RcvDataStep, RcvEofStep, RcvCloseStep, Zenon
  DEF Deliver
<1>7. QED
  BY <1>1, <1>2, <1>3, <1>4, <1>5, <1>6, Zenon DEF Next, Consume

\* A fresh channel satisfies the inductive invariant.
LEMMA Initial == Init => IInv
<1>1. SUFFICES ASSUME Init PROVE IInv
  OBVIOUS
<1>. USE WindowAssumption DEF Init
<1>2. TypeOK
  <2>1. chunk \in [lo : Nat, hi : Nat]
    BY <1>1
  <2>2. link \in Seq(Message) /\ back \in Seq(Message)
    BY <1>1
  <2>3. /\ outWin \in 0..MaxWindow /\ inWin \in 0..MaxWindow
        /\ outState \in States /\ inState \in States /\ rOutState \in States
        /\ buf \in Nat /\ accepted \in Nat /\ sent \in Nat /\ rcvd \in Nat /\ consumed \in Nat
        /\ lost \in Nat /\ credited \in Nat /\ granted \in Nat
    BY <1>1 DEF States
  <2>4. /\ waitWindow \in BOOLEAN /\ writing \in BOOLEAN /\ ending \in BOOLEAN
        /\ finished \in BOOLEAN /\ sGone \in BOOLEAN /\ waitDrain \in BOOLEAN
        /\ reading \in BOOLEAN /\ ended \in BOOLEAN /\ endSeen \in BOOLEAN /\ aborted \in BOOLEAN
    BY <1>1, Zenon
  <2>5. QED
    BY <2>1, <2>2, <2>3, <2>4, Zenon DEF TypeOK
<1>3. InOrder /\ CreditConserved
  BY <1>1 DEF InOrder, CreditConserved, Runs
<1>4. NothingLost /\ BoundedBuffer /\ WriterState /\ ReaderState
  BY <1>1 DEF NothingLost, BoundedBuffer, WriterState, ReaderState
<1>5. LinkShape /\ BackShape /\ CloseIsLast
  BY <1>1 DEF LinkShape, BackShape, CloseIsLast
<1>6. QED
  BY <1>2, <1>3, <1>4, <1>5 DEF IInv

\* The inductive invariant holds throughout.
THEOREM Invariance == Spec => []IInv
BY Initial, Inductive, PTL DEF Spec

\* A reader that saw 'end' read all there was.
LEMMA TruncationFree == IInv => NoTruncation
BY DEF IInv, TypeOK, WriterState, ReaderState, NoTruncation

\* Three adjustments are more than the window ever lets be outstanding.
LEMMA FewAdjusts == IInv => AdjustsInFlight
<1>1. SUFFICES ASSUME IInv,
                      NEW i \in 1..Len(back), NEW j \in 1..Len(back), NEW k \in 1..Len(back),
                      i < j, j < k, back[i].type = "adjust", back[j].type = "adjust",
                      back[k].type = "adjust"
               PROVE  FALSE
  BY DEF AdjustsInFlight
<1>2. back[i] \in Message /\ back[j] \in Message /\ back[k] \in Message
  BY <1>1 DEF IInv, TypeOK
<1>3. /\ back[i].lo \in Nat /\ back[i].hi \in Nat /\ back[j].lo \in Nat /\ back[j].hi \in Nat
      /\ back[k].lo \in Nat /\ back[k].hi \in Nat
  BY <1>2 DEF Message
<1>4. /\ credited <= back[i].lo /\ back[i].hi <= back[j].lo /\ back[j].hi <= back[k].lo
      /\ back[k].hi <= granted
  BY <1>1 DEF IInv, CreditConserved, Runs
<1>5. /\ back[i].hi - back[i].lo >= MaxWindow - Threshold
      /\ back[j].hi - back[j].lo >= MaxWindow - Threshold
      /\ back[k].hi - back[k].lo >= MaxWindow - Threshold
  BY <1>1 DEF IInv, BackShape, Amount
<1>6. /\ MaxWindow \in Nat /\ MaxWindow # 0 /\ Threshold \in Nat /\ 2 * Threshold <= MaxWindow
  BY WindowAssumption DEF Threshold
<1>7. /\ credited \in Nat /\ granted \in Nat /\ rcvd \in Nat /\ sent \in Nat /\ inWin \in Nat
      /\ rcvd <= sent /\ sent <= credited /\ inWin + rcvd = granted /\ inWin <= MaxWindow
  BY <1>1, <1>6 DEF IInv, TypeOK, InOrder, Runs, WriterState, CreditConserved
<1>8. granted <= credited + MaxWindow
  BY <1>6, <1>7
<1>9. PICK a1 \in Nat, b1 \in Nat : a1 = back[i].lo /\ b1 = back[i].hi
  BY <1>3
<1>10. PICK a2 \in Nat, b2 \in Nat : a2 = back[j].lo /\ b2 = back[j].hi
  BY <1>3
<1>11. PICK a3 \in Nat, b3 \in Nat : a3 = back[k].lo /\ b3 = back[k].hi
  BY <1>3
<1>12. /\ credited <= a1 /\ b1 <= a2 /\ b2 <= a3 /\ b3 <= granted
       /\ b1 - a1 >= MaxWindow - Threshold /\ b2 - a2 >= MaxWindow - Threshold
       /\ b3 - a3 >= MaxWindow - Threshold
  BY <1>4, <1>5, <1>9, <1>10, <1>11, Zenon
<1>13. QED
  BY <1>6, <1>7, <1>8, <1>12

\* The windows, states and counters of a channel keep their ranges.
THEOREM TypeCorrect == Spec => []TypeOK
BY Invariance, PTL DEF IInv

\* Bytes travel in order and exactly once, through any number of blocked writes.
THEOREM BytesInOrder == Spec => []InOrder
BY Invariance, PTL DEF IInv

\* Flow control conserves credit between the two ends.
THEOREM CreditIsConserved == Spec => []CreditConserved
BY Invariance, PTL DEF IInv

\* The receiver never throws data away.
THEOREM NoDataLost == Spec => []NothingLost
BY Invariance, PTL DEF IInv

\* The receiver buffers less than two windows of data.
THEOREM BufferIsBounded == Spec => []BoundedBuffer
BY Invariance, PTL DEF IInv

\* 'end' comes after every byte, unless a side closed the channel itself.
THEOREM EndAfterEveryByte == Spec => []NoTruncation
BY Invariance, TruncationFree, PTL

\* At most two WINDOW_ADJUSTs are ever under way.
THEOREM AdjustsBounded == Spec => []AdjustsInFlight
BY Invariance, FewAdjusts, PTL
=============================================================================
