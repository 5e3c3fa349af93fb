------------------------ MODULE PortAllocator_proofs ------------------------
(***************************************************************************)
(* Theorems about PortAllocator, for every size of the port space, base,   *)
(* number of cores and number of sessions.                                 *)
(***************************************************************************)
EXTENDS PortAllocator, SequenceTheorems, TLAPS

\* Remainders by a positive number lie below it.
LEMMA ModRange ==
  ASSUME NEW a \in Nat, NEW d \in Nat \ {0}
  PROVE  a % d \in 0 .. d - 1
OBVIOUS

\* A positive multiple of d is at least d.
LEMMA MultipleBound ==
  ASSUME NEW k \in Int, NEW d \in Nat, k >= 1
  PROVE  k * d >= d
<1>1. (k - 1) * d >= 0
  OBVIOUS
<1>2. k * d = (k - 1) * d + d
  OBVIOUS
<1> QED BY <1>1, <1>2

\* No multiple of d lies strictly between two neighbouring ones.
LEMMA NoneBetween ==
  ASSUME NEW k \in Int, NEW d \in Nat \ {0}
  PROVE  ~(0 < k * d /\ k * d < d) /\ ~(-d < k * d /\ k * d < 0)
<1>1. CASE k >= 1
  BY <1>1, MultipleBound
<1>2. CASE k = 0
  BY <1>2
<1>3. CASE k <= -1
  <2>1. (-k) * d >= d
    BY <1>3, MultipleBound
  <2>2. k * d = -((-k) * d)
    OBVIOUS
  <2> QED BY <2>1, <2>2
<1> QED BY <1>1, <1>2, <1>3

\* The range of ports is not empty and ends below the last port.
LEMMA RangePositive == port_range_ \in Nat \ {0} /\ base_port_ + port_range_ = Space - 1
BY PortAssumption DEF port_range_

\* Every port lies between the base and the last port.
LEMMA PortType ==
  ASSUME NEW n \in Nat
  PROVE  Port(n) \in base_port_ .. Space - 2
<1>1. (n + Mine) % port_range_ \in 0 .. port_range_ - 1
  BY RangePositive, PortAssumption, ModRange
<1> QED BY <1>1, RangePositive, PortAssumption DEF Port

\* One port comes from counters a multiple of the range apart.
LEMMA PortRepeats ==
  ASSUME NEW m \in Nat, NEW n \in Nat, Port(m) = Port(n)
  PROVE  \E k \in Int : m - n = k * port_range_
<1> DEFINE R == port_range_
           a == m + Mine
           b == n + Mine
<1>1. a \in Nat /\ b \in Nat /\ R \in Nat \ {0} /\ a - b = m - n
  BY PortAssumption, RangePositive
<1>2. a % R \in Nat /\ b % R \in Nat
  BY <1>1, ModRange
<1>3. a % R = b % R
  BY <1>2, PortAssumption DEF Port
<1> HIDE DEF a, b, R
<1>4. /\ a \div R \in Int /\ b \div R \in Int
      /\ a = R * (a \div R) + (a % R) /\ b = R * (b \div R) + (b % R)
  BY <1>1
<1>5. a - b = (a \div R - b \div R) * R /\ a \div R - b \div R \in Int
  BY <1>1, <1>2, <1>3, <1>4
<1>6. m - n = (a \div R - b \div R) * R
  BY <1>1, <1>5
<1> QED BY <1>5, <1>6 DEF R

\* f is what the counter may read once n sessions have been opened.
Reading(f, n) == \E q \in Int : f = n * Count - q * Space

\* Advancing the counter opens the next session.
LEMMA NextReading ==
  ASSUME NEW f \in 0 .. Space - 1, NEW n \in Nat, Reading(f, n)
  PROVE  Advance(f) \in 0 .. Space - 1 /\ Reading(Advance(f), n + 1)
<1>1. PICK q \in Int : f = n * Count - q * Space
  BY DEF Reading
<1>2. f + Count \in Nat /\ Space \in Nat \ {0} /\ Count \in Nat
  BY PortAssumption
<1>3. PICK g \in Nat : g = f + Count
  BY <1>2
<1>4. /\ g \div Space \in Int /\ g % Space \in 0 .. Space - 1
      /\ g = Space * (g \div Space) + (g % Space)
  BY <1>2, ModRange
<1>5. PICK w \in Int, r \in 0 .. Space - 1 : g = Space * w + r /\ r = g % Space
  BY <1>4
<1>6. r = (n + 1) * Count - (q + w) * Space
  BY <1>1, <1>2, <1>3, <1>5
<1>7. Advance(f) = r
  BY <1>3, <1>5 DEF Advance
<1> QED BY <1>6, <1>7 DEF Reading

\* Two sessions of one port are at least the rest of the space apart.
LEMMA Gap ==
  ASSUME NEW f \in 0 .. Space - 1, NEW g \in 0 .. Space - 1,
         NEW m \in Nat, NEW n \in Nat, Reading(f, m), Reading(g, n),
         m < n, Port(f) = Port(g)
  PROVE  (n - m) * Count >= Space % port_range_
<1> DEFINE R == port_range_
<1>1. Space \in Nat \ {0} /\ Count \in Nat \ {0} /\ R \in Nat \ {0} /\ R <= Space
  BY PortAssumption, RangePositive
<1> HIDE DEF R
<1>2. PICK p \in Int, q \in Int : f = m * Count - p * Space /\ g = n * Count - q * Space
  BY DEF Reading
<1>3. PICK d \in Int : d = (n - m) * Count
  BY <1>1
<1>4. d >= Count
  BY <1>1, <1>3, MultipleBound
<1>5. PICK k \in Int : g - f = d - k * Space
  <2>1. g - f = (n - m) * Count - (q - p) * Space
    BY <1>1, <1>2
  <2> QED BY <1>3, <2>1
<1>6. PICK j \in Int : g - f = j * R
  BY PortAssumption, PortRepeats DEF R
<1>7. PICK w \in Int, s \in 0 .. R - 1 : Space = R * w + s /\ s = Space % R
  <2>1. Space % R \in 0 .. R - 1
    BY <1>1, ModRange
  <2> QED BY <1>1, <2>1
<1>8. ASSUME d < s PROVE FALSE
  <2>1. 0 < d /\ d < R
    BY <1>1, <1>4, <1>7, <1>8
  <2>2. CASE k = 0
    <3>1. d = j * R
      BY <1>1, <1>5, <1>6, <2>2
    <3> QED BY <1>1, <2>1, <3>1, NoneBetween
  <2>3. CASE k = 1
    <3>1. d - s = (j + w) * R
      <4>1. g - f = d - Space
        BY <1>1, <1>5, <2>3
      <4>2. PICK x \in Int, y \in Int : x = j * R /\ y = R * w
        BY <1>1
      <4>3. Space = y + s /\ g - f = x
        BY <1>6, <1>7, <4>2
      <4>4. s \in Int /\ Space \in Int
        BY <1>1
      <4>5. d - s = x + y
        BY <4>1, <4>3, <4>4
      <4> QED BY <1>1, <4>2, <4>5
    <3>2. -R < d - s /\ d - s < 0
      BY <1>1, <1>7, <1>8, <2>1
    <3>3. j + w \in Int
      OBVIOUS
    <3> QED BY <1>1, <3>1, <3>2, <3>3, NoneBetween
  <2>4. CASE k >= 2
    <3>1. (k - 1) * Space >= Space
      BY <1>1, <2>4, MultipleBound
    <3>2. k * Space = (k - 1) * Space + Space
      BY <1>1
    <3>3. g - f > -Space
      BY <1>1
    <3> QED BY <1>1, <1>5, <2>1, <3>1, <3>2, <3>3
  <2>5. CASE k <= -1
    <3>1. (-k) * Space >= Space
      BY <1>1, <2>5, MultipleBound
    <3>2. k * Space = -((-k) * Space)
      BY <1>1
    <3>3. g - f < Space
      BY <1>1
    <3> QED BY <1>1, <1>5, <2>1, <3>1, <3>2, <3>3
  <2> QED BY <2>2, <2>3, <2>4, <2>5
<1> QED BY <1>3, <1>7, <1>8 DEF R

\* What a session that is removed leaves behind was there before.
LEMMA Removed ==
  ASSUME NEW S, NEW s \in Seq(S), NEW i \in DOMAIN s
  PROVE  /\ RemoveAt(s, i) \in Seq(S)
         /\ \A j \in DOMAIN RemoveAt(s, i) : \E k \in DOMAIN s : RemoveAt(s, i)[j] = s[k]
<1>1. PICK n \in Nat : n = Len(s) /\ DOMAIN s = 1 .. n
  BY LenProperties
<1>2. PICK p \in 1 .. n : p = i
  BY <1>1
<1>3. PICK h \in Nat, t \in Nat : h = p - 1 /\ t = n - p
  OBVIOUS
<1>4. PICK a \in Seq(S), b \in Seq(S) :
        /\ a = SubSeq(s, 1, p - 1) /\ b = SubSeq(s, p + 1, n)
        /\ Len(a) = h /\ Len(b) = t
        /\ \A j \in 1 .. h : a[j] = s[j]
        /\ \A j \in 1 .. t : b[j] = s[p + j]
  <2>1. \A j \in 1 .. n : s[j] \in S
    BY <1>1
  <2>2. /\ SubSeq(s, 1, p - 1) \in Seq(S) /\ Len(SubSeq(s, 1, p - 1)) = h
        /\ \A j \in 1 .. h : SubSeq(s, 1, p - 1)[j] = s[j]
    BY <1>1, <1>3, <2>1, SubSeqProperties
  <2>3. /\ SubSeq(s, p + 1, n) \in Seq(S) /\ Len(SubSeq(s, p + 1, n)) = t
        /\ \A j \in 1 .. t : SubSeq(s, p + 1, n)[j] = s[p + j]
    BY <1>1, <1>3, <2>1, SubSeqProperties
  <2> QED BY <2>2, <2>3
<1>5. PICK c \in Seq(S) :
        /\ c = RemoveAt(s, i) /\ Len(c) = h + t
        /\ \A j \in 1 .. h + t : c[j] = IF j <= h THEN a[j] ELSE b[j - h]
  <2>1. RemoveAt(s, i) = a \o b
    BY <1>1, <1>2, <1>4 DEF RemoveAt
  <2>2. PICK c \in Seq(S) : c = a \o b
    BY ConcatProperties
  <2>3. Len(c) = h + t
    BY <1>4, <2>2, ConcatProperties
  <2>4. \A j \in 1 .. h + t : c[j] = IF j <= h THEN a[j] ELSE b[j - h]
    <3>1. Len(a) = h /\ Len(b) = t
      BY <1>4
    <3> QED BY <2>2, <3>1, ConcatProperties
  <2> QED BY <2>1, <2>2, <2>3, <2>4
<1>6. ASSUME NEW j \in 1 .. h + t PROVE \E k \in 1 .. n : c[j] = s[k]
  <2>1. CASE j <= h
    <3>1. j \in 1 .. h /\ j \in 1 .. n
      BY <1>3, <2>1
    <3>2. c[j] = s[j]
      BY <1>4, <1>5, <2>1, <3>1
    <3> QED BY <3>1, <3>2
  <2>2. CASE ~(j <= h)
    <3>1. j - h \in 1 .. t /\ j + 1 \in 1 .. n /\ p + (j - h) = j + 1
      BY <1>3, <2>2
    <3>2. c[j] = b[j - h] /\ b[j - h] = s[j + 1]
      BY <1>4, <1>5, <2>2, <3>1
    <3> QED BY <3>1, <3>2
  <2> QED BY <2>1, <2>2
<1>7. DOMAIN c = 1 .. h + t
  BY <1>5
<1> QED BY <1>1, <1>5, <1>6, <1>7

\* Every counter is the one of its session's number.
Counted ==
  /\ Reading(port_, opened)
  /\ \A i \in DOMAIN open : Reading(open[i].from, open[i].nth)

\* At first the counter is 0 and nothing is open.
LEMMA CountedInit == Init => TypeOK /\ Counted
<1> SUFFICES ASSUME Init PROVE TypeOK /\ Counted
  OBVIOUS
<1>1. 0 \in Int /\ 0 = 0 * Count - 0 * Space
  BY PortAssumption
<1>2. Reading(0, 0)
  BY <1>1 DEF Reading
<1> QED BY <1>2, PortAssumption DEF Init, TypeOK, Counted

\* Opening and ending sessions keep it.
LEMMA CountedNext == TypeOK /\ Counted /\ [Next]_pvars => TypeOK' /\ Counted'
<1> SUFFICES ASSUME TypeOK, Counted, [Next]_pvars PROVE TypeOK' /\ Counted'
  OBVIOUS
<1>1. CASE NewSession
  <2>1. opened' = opened + 1 /\ opened \in Nat /\ opened' \in 1 .. MaxOpened
    BY <1>1, PortAssumption DEF NewSession, TypeOK
  <2>2. port_' \in 0 .. Space - 1 /\ Reading(port_', opened')
    BY <1>1, <2>1, NextReading DEF NewSession, TypeOK, Counted
  <2>3. PICK e \in Session : e = [nth |-> opened', from |-> port_']
    BY <2>1, <2>2 DEF Session
  <2>4. open' = Append(open, e) /\ open \in Seq(Session)
    BY <1>1, <2>3 DEF NewSession, TypeOK
  <2>5. PICK n \in Nat : n = Len(open) /\ DOMAIN open = 1 .. n
    BY <2>4, LenProperties
  <2>6. /\ open' \in Seq(Session) /\ DOMAIN open' = 1 .. n + 1
        /\ \A i \in 1 .. n : open'[i] = open[i]
        /\ open'[n + 1] = e
    BY <2>4, <2>5, AppendProperties
  <2>7. Reading(e.from, e.nth)
    BY <2>2, <2>3
  <2>8. ASSUME NEW i \in 1 .. n + 1 PROVE Reading(open'[i].from, open'[i].nth)
    <3>1. CASE i = n + 1
      BY <2>6, <2>7, <3>1
    <3>2. CASE i # n + 1
      <4>1. i \in 1 .. n
        BY <3>2
      <4> QED BY <2>5, <2>6, <4>1 DEF Counted
    <3> QED BY <3>1, <3>2
  <2> QED BY <2>1, <2>2, <2>6, <2>8 DEF TypeOK, Counted
<1>2. CASE EndSession
  <2>1. PICK i \in DOMAIN open : open' = RemoveAt(open, i)
    BY <1>2 DEF EndSession
  <2>2. /\ open' \in Seq(Session)
        /\ \A j \in DOMAIN open' : \E k \in DOMAIN open : open'[j] = open[k]
    BY <2>1, Removed DEF TypeOK
  <2> QED BY <1>2, <2>2 DEF EndSession, TypeOK, Counted
<1>3. CASE UNCHANGED pvars
  BY <1>3 DEF pvars, TypeOK, Counted
<1> QED BY <1>1, <1>2, <1>3 DEF Next, Finished

\* The state keeps its type: the counter stays a 16-bit number.
THEOREM TypeCorrect == Spec => []TypeOK
BY CountedInit, CountedNext, PTL DEF Spec

\* Every port lies in the dynamic range: the 16-bit sum never wraps around.
THEOREM PortsCorrect == Spec => []PortsInRange
<1>1. TypeOK => PortsInRange
  <2> SUFFICES ASSUME TypeOK, NEW i \in DOMAIN open
               PROVE  Port(open[i].from) \in base_port_ .. Space - 1
    BY DEF PortsInRange
  <2>1. open[i] \in Session
    BY DEF TypeOK
  <2>2. open[i].from \in Nat
    BY <2>1, PortAssumption DEF Session
  <2> QED BY <2>2, PortType, PortAssumption
<1> QED BY <1>1, TypeCorrect, PTL

\* Two open sessions share a port only if the counter advanced between them by
\* at least what the range leaves of the space, wherever it wrapped.
THEOREM ApartCorrect == Spec => []PortsKeptApart
<1>1. TypeOK /\ Counted => PortsKeptApart
  <2> SUFFICES ASSUME TypeOK, Counted, NEW i \in DOMAIN open, NEW j \in DOMAIN open,
                      open[i].nth < open[j].nth, Port(open[i].from) = Port(open[j].from)
               PROVE  (open[j].nth - open[i].nth) * Count >= Space % port_range_
    BY DEF PortsKeptApart
  <2>1. open[i] \in Session /\ open[j] \in Session
    BY DEF TypeOK
  <2>2. /\ open[i].from \in 0 .. Space - 1 /\ open[j].from \in 0 .. Space - 1
        /\ open[i].nth \in Nat /\ open[j].nth \in Nat
    BY <2>1, PortAssumption DEF Session
  <2> QED BY <2>2, Gap DEF Counted
<1> QED BY <1>1, CountedInit, CountedNext, PTL DEF Spec

=============================================================================
