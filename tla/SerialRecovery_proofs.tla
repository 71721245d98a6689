------------------------ MODULE SerialRecovery_proofs ------------------------
(***************************************************************************)
(* The proof that the laptop saves what came over the console line         *)
(* unharmed, whatever happened on the line before: for any JPEGs, which    *)
(* may hold a record's magic, any damage, truncation and other output, and *)
(* images that come a deadline apart.                                      *)
(***************************************************************************)
EXTENDS SerialLine_proofs

-----------------------------------------------------------------------------
(* Numbers and the units of a record *)

LEMMA Lesser ==
  ASSUME NEW a \in Nat, NEW b \in Nat
  PROVE  Min({a, b}) \in {a, b} /\ Min({a, b}) <= a /\ Min({a, b}) <= b
BY LeastNat

\* The longest gap is one of the gaps.
LEMMA LongestGap == Max(Gaps) \in Gaps /\ Max(Gaps) \in Nat
<1>0. Gaps \subseteq Nat /\ Gaps # {} /\ IsFiniteSet(Gaps)
  BY SerialLineAssumption
<1>1. PICK seq \in Seq(Gaps) : \A g \in Gaps : \E n \in 1 .. Len(seq) : seq[n] = g
  BY <1>0 DEF IsFiniteSet
<1>2. Len(seq) \in Nat /\ Len(seq) >= 1 /\ \A n \in 1 .. Len(seq) : seq[n] \in Gaps
  <2>1. Len(seq) \in Nat /\ \A n \in 1 .. Len(seq) : seq[n] \in Gaps
    OBVIOUS
  <2>2. PICK g : g \in Gaps
    BY <1>0
  <2>3. \E n \in 1 .. Len(seq) : seq[n] = g
    BY <1>1, <2>2
  <2>4. QED
    BY <2>1, <2>3
<1> DEFINE Bounded(j) == \E m \in Gaps : \A n \in 1 .. j : seq[n] <= m
           T == {j \in 1 .. Len(seq) : ~Bounded(j)}
<1>3. T = {}
  <2>1. SUFFICES ASSUME T # {} PROVE FALSE
    OBVIOUS
  <2>2. T \in SUBSET Nat
    OBVIOUS
  <2>3. PICK j \in T : \A n \in T : j <= n
    <3> HIDE DEF T
    <3>1. QED
      BY <2>1, <2>2, LeastNat
  <2>4. j \in 1 .. Len(seq) /\ seq[j] \in Gaps /\ seq[j] \in Nat
    BY <1>0, <1>2, <2>3
  <2>5. CASE j = 1
    <3>1. \A n \in 1 .. j : seq[n] <= seq[j]
      BY <2>4, <2>5
    <3>2. QED
      BY <2>3, <2>4, <3>1
  <2>6. CASE j # 1
    <3>1. j - 1 \in 1 .. Len(seq) /\ ~(j <= j - 1)
      BY <2>4, <2>6
    <3>2. PICK m \in Gaps : \A n \in 1 .. j - 1 : seq[n] <= m
      BY <2>3, <3>1
    <3>3. m \in Nat /\ \A n \in 1 .. j : (n = j \/ n \in 1 .. j - 1) /\ seq[n] \in Nat
      <4>1. \A n \in 1 .. j : n \in 1 .. Len(seq) /\ (n = j \/ n \in 1 .. j - 1)
        BY <1>2, <2>4
      <4>2. \A n \in 1 .. Len(seq) : seq[n] \in Nat
        BY <1>0, <1>2
      <4>3. QED
        BY <1>0, <3>2, <4>1, <4>2
    <3>4. CASE seq[j] <= m
      BY <2>3, <3>2, <3>3, <3>4
    <3>5. CASE m < seq[j]
      <4>1. \A n \in 1 .. j : seq[n] <= seq[j]
        BY <2>4, <3>2, <3>3, <3>5
      <4>2. QED
        BY <2>3, <2>4, <4>1
    <3>6. QED
      BY <2>4, <3>3, <3>4, <3>5
  <2>7. QED
    BY <2>5, <2>6
<1>4. PICK m \in Gaps : \A n \in 1 .. Len(seq) : seq[n] <= m
  <2>1. Len(seq) \in 1 .. Len(seq)
    BY <1>2
  <2>2. Bounded(Len(seq))
    BY <1>3, <2>1
  <2>3. QED
    BY <2>2
<1>5. \A g \in Gaps : m >= g
  BY <1>0, <1>1, <1>4
<1>6. Max(Gaps) = CHOOSE x \in Gaps : \A y \in Gaps : x >= y
  BY DEF Max
<1>7. Max(Gaps) \in Gaps
  BY <1>5, <1>6, Zenon
<1>8. QED
  BY <1>0, <1>7

LEMMA RecordUnits ==
  ASSUME NEW job \in Job
  PROVE  LET r == Server!Record(job)
             p == Payload[job.image]
         IN  /\ r \in Seq(Unit) /\ p \in Seq(Unit) /\ Len(p) \in Nat
             /\ Len(r) = 2 + Len(p)
             /\ r[1] = Laptop!Magic /\ r[2] = <<"head", job.image, job.seq>>
             /\ \A n \in 1 .. Len(p) : r[n + 2] = p[n]
             /\ \A n \in 1 .. Len(r) : r[n][1] = "head" => n = 2
<1> DEFINE h == <<"head", job.image, job.seq>>
           p == Payload[job.image]
           m == Server!Magic
<1>1. h \in Unit /\ m \in Unit
  BY Units, SerialLineAssumption DEF Unit, Job
<1>2. p \in Seq(Unit) /\ Len(p) \in Nat
  <2>1. p \in Seq(Unit)
    BY SerialLineAssumption DEF Job
  <2>2. QED
    BY <2>1
<1>3. Server!Record(job) = <<m, h>> \o p
  BY DEF Server!Record, Server!Header
<1>3a. m = Laptop!Magic
  BY DEF Server!Magic, Laptop!Magic
<1> HIDE DEF h, p, m
<1>4. <<m, h>> \in Seq(Unit) /\ Len(<<m, h>>) = 2 /\ <<m, h>>[1] = m /\ <<m, h>>[2] = h
  BY <1>1, Pairs
<1>5. /\ <<m, h>> \o p \in Seq(Unit) /\ Len(<<m, h>> \o p) = 2 + Len(p)
      /\ \A n \in 1 .. 2 + Len(p) :
           (<<m, h>> \o p)[n] = IF n <= 2 THEN <<m, h>>[n] ELSE p[n - 2]
  BY <1>2, <1>4, Joined
<1> DEFINE r == <<m, h>> \o p
<1>6. /\ r \in Seq(Unit) /\ Len(r) = 2 + Len(p)
      /\ \A n \in 1 .. 2 + Len(p) : r[n] = IF n <= 2 THEN <<m, h>>[n] ELSE p[n - 2]
  BY <1>5
<1> HIDE DEF r
<1>7. r[1] = m /\ r[2] = h
  BY <1>2, <1>4, <1>6
<1>8. ASSUME NEW n \in 1 .. Len(p)
      PROVE  r[n + 2] = p[n]
  <2>1. n + 2 \in 1 .. 2 + Len(p) /\ ~(n + 2 <= 2) /\ (n + 2) - 2 = n
    BY <1>2
  <2>2. QED
    BY <1>6, <2>1
<1>9. \A n \in 1 .. Len(r) : r[n][1] = "head" => n = 2
  <2>1. Server!Record(job) = r
    BY <1>3 DEF r
  <2>2. DOMAIN r = 1 .. Len(r)
    BY <1>6
  <2>3. QED
    BY <2>1, <2>2, Records
<1>10. QED
  BY <1>2, <1>3, <1>3a, <1>6, <1>7, <1>8, <1>9 DEF r, h, p

-----------------------------------------------------------------------------
(* The units that a turn of the parser leaves *)

\* The only header in s is its k-th unit.
HeadAt(s, k) == \A n \in 1 .. Len(s) : s[n][1] = "head" => n = k

Headless(s) == \A n \in 1 .. Len(s) : s[n][1] # "head"

LEMMA HeadRest ==
  ASSUME NEW s \in Seq(Unit), NEW c, NEW t, Rest(s, c, t)
  PROVE  /\ Headless(s) => Headless(t)
         /\ \A k \in Int : HeadAt(s, k) => HeadAt(t, k - c)
         /\ \A k \in Int : HeadAt(s, k) /\ k <= c => Headless(t)
<1>1. /\ c \in 0 .. Len(s) /\ Len(t) = Len(s) - c
      /\ \A n \in 1 .. Len(t) : n + c \in 1 .. Len(s) /\ t[n] = s[n + c]
  BY DEF Rest
<1>2. Headless(s) => Headless(t)
  BY <1>1 DEF Headless
<1>3. ASSUME NEW k \in Int, HeadAt(s, k), NEW n \in 1 .. Len(t), t[n][1] = "head"
      PROVE  n = k - c /\ ~(k <= c)
  <2>1. n + c = k
    BY <1>1, <1>3 DEF HeadAt
  <2>2. QED
    BY <1>1, <2>1
<1>4. QED
  BY <1>2, <1>3 DEF HeadAt, Headless

LEMMA HeadJoined ==
  ASSUME NEW s \in Seq(Unit), NEW t \in Seq(Unit), Headless(t)
  PROVE  /\ Headless(s) => Headless(s \o t)
         /\ \A k : HeadAt(s, k) => HeadAt(s \o t, k)
<1>1. /\ Len(s) \in Nat /\ Len(t) \in Nat /\ Len(s \o t) = Len(s) + Len(t)
      /\ \A n \in 1 .. Len(s) + Len(t) :
           (s \o t)[n] = IF n <= Len(s) THEN s[n] ELSE t[n - Len(s)]
  BY Joined
<1> DEFINE u == s \o t
<1>2. ASSUME NEW n \in 1 .. Len(u), u[n][1] = "head"
      PROVE  n \in 1 .. Len(s) /\ s[n][1] = "head"
  <2>1. CASE n <= Len(s)
    BY <1>1, <1>2, <2>1
  <2>2. CASE ~(n <= Len(s))
    <3>1. n - Len(s) \in 1 .. Len(t) /\ u[n] = t[n - Len(s)]
      BY <1>1, <2>2
    <3>2. QED
      BY <1>2, <3>1 DEF Headless
  <2>3. QED
    BY <2>1, <2>2
<1>3. QED
  BY <1>2 DEF Headless, HeadAt

LEMMA HeadlessPart ==
  ASSUME NEW s \in Seq(Unit), NEW n \in 0 .. Len(s), Headless(s)
  PROVE  Headless(SubSeq(s, 1, n)) /\ SubSeq(s, 1, n) \in Seq(Unit)
BY DEF Headless

\* The candidate is what follows from the first magic on.
LEMMA CandidateFirst ==
  ASSUME buffer \in Seq(Unit)
  PROVE  \E c \in 0 .. Len(buffer) :
           /\ Rest(buffer, c, Laptop!Candidate)
           /\ \A n \in 1 .. c : buffer[n] # Laptop!Magic
           /\ Laptop!Candidate # <<>> => Laptop!Candidate[1] = Laptop!Magic
<1> DEFINE M == Laptop!MagicAt
<1>0. Len(buffer) \in Nat /\ \A n : n \in M <=> n \in 1 .. Len(buffer) /\ buffer[n] = Laptop!Magic
  BY DEF Laptop!MagicAt
<1>1. CASE M = {}
  <2>1. Laptop!Candidate = <<>>
    BY <1>1 DEF Laptop!Candidate
  <2>2. Rest(buffer, Len(buffer), <<>>)
    BY DEF Rest
  <2>3. \A n \in 1 .. Len(buffer) : buffer[n] # Laptop!Magic
    BY <1>0, <1>1
  <2>4. QED
    BY <1>0, <2>1, <2>2, <2>3
<1>2. CASE M # {}
  <2> DEFINE m == (CHOOSE m \in M : \A n \in M : m <= n)
  <2>1. M \in SUBSET Nat
    BY <1>0
  <2>2. Laptop!Candidate = Laptop!From(buffer, m)
    BY <1>2 DEF Laptop!Candidate, Laptop!Min
  <2> HIDE DEF M
  <2>3. m \in M /\ \A n \in M : m <= n
    BY <1>2, <2>1, LeastNat DEF Min
  <2> HIDE DEF m
  <2>4. m \in 1 .. Len(buffer) /\ buffer[m] = Laptop!Magic
    BY <1>0, <2>3
  <2>5. m - 1 \in 0 .. Len(buffer) /\ (m - 1) + 1 = m
    BY <1>0, <2>4
  <2>6. Rest(buffer, m - 1, Laptop!Candidate)
    BY <2>2, <2>5, Suffixes
  <2>7. Laptop!Candidate[1] = Laptop!Magic
    <3>1. 1 \in 1 .. Len(Laptop!Candidate)
      BY <1>0, <2>4, <2>6 DEF Rest
    <3>2. Laptop!Candidate[1] = buffer[1 + (m - 1)]
      BY <2>6, <3>1 DEF Rest
    <3>3. 1 + (m - 1) = m
      BY <2>4
    <3>4. QED
      BY <2>4, <3>2, <3>3
  <2>8. ASSUME NEW n \in 1 .. m - 1
        PROVE  buffer[n] # Laptop!Magic
    <3>1. n \in 1 .. Len(buffer) /\ ~(m <= n)
      BY <1>0, <2>4
    <3>2. QED
      BY <1>0, <2>3, <3>1
  <2>9. QED
    BY <2>5, <2>6, <2>7, <2>8
<1>3. QED
  BY <1>1, <1>2

\* A turn of the parser's loop waits for more of the candidate, gives up its
\* first byte, or saves it.
LEMMA TurnResult ==
  ASSUME LineType, \A n \in 1 .. Len(buffer) : buffer[n][1] = "head" => buffer[n][2] \in Image,
         NEW then, Laptop!Turn(then)
  PROVE  LET units == Laptop!Candidate
             size == Laptop!RecordSize(units)
         IN  /\ UNCHANGED <<uart, started>>
             /\ units \in Seq(Unit) /\ Len(units) \in Nat /\ buffer' \in Seq(Unit)
             /\ \/ /\ Laptop!Waits(units) /\ buffer' = units /\ host' = then
                   /\ saved' = saved
                \/ /\ ~Laptop!Waits(units) /\ Len(units) >= 2 /\ Rest(units, 1, buffer')
                   /\ ~(Laptop!ValidHeader(units) /\ Laptop!ValidRecord(units))
                   /\ host' = host /\ saved' = saved
                \/ /\ Len(units) >= 2 /\ Laptop!ValidHeader(units) /\ host' = host
                   /\ size \in Nat /\ size >= 2 /\ Rest(units, size, buffer')
                   /\ saved' = Append(saved, [image |-> units[2][2], seq |-> units[2][3]])
<1> DEFINE units == Laptop!Candidate
           size == Laptop!RecordSize(units)
<1>1. PICK c \in 0 .. Len(buffer) : Rest(buffer, c, units)
  BY CandidateFirst DEF LineType
<1>2. /\ buffer \in Seq(Unit) /\ Len(buffer) \in Nat
      /\ units \in Seq(Unit) /\ Len(units) = Len(buffer) - c /\ Len(units) \in Nat
      /\ \A n \in 1 .. Len(units) : units[n] = buffer[n + c]
  BY <1>1 DEF Rest, LineType
<1>3. /\ UNCHANGED <<uart, started>>
      /\ \/ Laptop!Waits(units) /\ buffer' = units /\ host' = then /\ Laptop!Unsaved
         \/ /\ ~Laptop!Waits(units) /\ buffer' = Tail(units) /\ host' = host
            /\ ~(Laptop!ValidHeader(units) /\ Laptop!ValidRecord(units)) /\ Laptop!Unsaved
         \/ /\ ~Laptop!Waits(units) /\ Laptop!ValidHeader(units) /\ host' = host
            /\ buffer' = Laptop!From(units, size + 1)
            /\ Laptop!SaveRecord(units)
  BY DEF Laptop!Turn, Laptop!AfterBadRecord
<1> HIDE DEF units, size
<1>4. CASE Laptop!Waits(units) /\ buffer' = units /\ host' = then /\ Laptop!Unsaved
  BY <1>2, <1>3, <1>4 DEF units, Laptop!Unsaved
<1>5. CASE /\ ~Laptop!Waits(units) /\ buffer' = Tail(units) /\ host' = host
           /\ ~(Laptop!ValidHeader(units) /\ Laptop!ValidRecord(units)) /\ Laptop!Unsaved
  <2>1. Len(units) >= 2
    BY <1>2, <1>5 DEF Laptop!Waits, Laptop!HeaderSize
  <2>2. Rest(units, 1, buffer') /\ buffer' \in Seq(Unit)
    BY <1>2, <1>5, <2>1 DEF Rest
  <2>3. QED
    BY <1>2, <1>3, <1>5, <2>1, <2>2 DEF units, Laptop!Unsaved
<1>6. CASE /\ ~Laptop!Waits(units) /\ Laptop!ValidHeader(units) /\ host' = host
           /\ buffer' = Laptop!From(units, size + 1)
           /\ Laptop!SaveRecord(units)
  <2>1. Len(units) >= 2 /\ units[2][1] = "head" /\ ~(Len(units) < size)
    BY <1>6 DEF Laptop!Waits, Laptop!ValidHeader, Laptop!HeaderSize, size
  <2>2. units[2] = buffer[2 + c] /\ 2 + c \in 1 .. Len(buffer)
    BY <1>2, <2>1
  <2>3. Payload[units[2][2]] \in Seq(Unit)
    BY <2>1, <2>2, SerialLineAssumption
  <2>4. size \in Nat /\ size >= 2 /\ size <= Len(units)
    <3>1. Len(Payload[units[2][2]]) \in Nat
      BY <2>3
    <3>2. size = 2 + Len(Payload[units[2][2]])
      BY DEF size, Laptop!RecordSize, Laptop!HeaderSize
    <3>3. QED
      BY <1>2, <2>1, <3>1, <3>2
  <2>5. Rest(units, size, buffer')
    BY <1>2, <1>6, <2>4, Suffixes
  <2>6. buffer' \in Seq(Unit)
    BY <2>5 DEF Rest
  <2>7. saved' = Append(saved, [image |-> units[2][2], seq |-> units[2][3]])
    BY <1>6 DEF Laptop!SaveRecord
  <2>8. QED
    BY <1>2, <1>3, <1>6, <2>1, <2>4, <2>5, <2>6, <2>7 DEF units, size
<1>7. QED
  BY <1>3, <1>4, <1>5, <1>6

\* A header is found only behind a magic: without one in its place a turn
\* leaves none.
LEMMA TurnHeads ==
  ASSUME LineType, \A n \in 1 .. Len(buffer) : buffer[n][1] = "head" => buffer[n][2] \in Image,
         NEW then, Laptop!Turn(then), Headless(buffer) \/ HeadAt(buffer, 1)
  PROVE  Headless(buffer')
<1> DEFINE units == Laptop!Candidate
<1>0. buffer \in Seq(Unit) /\ Len(buffer) \in Nat
  BY DEF LineType
<1>1. PICK c \in 0 .. Len(buffer) :
         /\ Rest(buffer, c, units)
         /\ \A n \in 1 .. c : buffer[n] # Laptop!Magic
         /\ units # <<>> => units[1] = Laptop!Magic
  BY <1>0, CandidateFirst
<1>2. units \in Seq(Unit) /\ Len(units) = Len(buffer) - c
  BY <1>1 DEF Rest
<1>3. Headless(units)
  <2>1. CASE Headless(buffer)
    BY <1>0, <1>1, <2>1, HeadRest
  <2>2. CASE HeadAt(buffer, 1) /\ c >= 1
    BY <1>0, <1>1, <2>2, HeadRest
  <2>3. CASE HeadAt(buffer, 1) /\ c = 0
    <3>1. HeadAt(units, 1)
      BY <1>0, <1>1, <2>3, HeadRest
    <3>2. Laptop!Magic[1] # "head"
      BY DEF Laptop!Magic
    <3>3. ASSUME NEW n \in 1 .. Len(units), units[n][1] = "head" PROVE FALSE
      <4>1. n = 1 /\ units # <<>>
        BY <1>2, <3>1, <3>3 DEF HeadAt
      <4>2. QED
        BY <1>1, <3>2, <3>3, <4>1
    <3>4. QED
      BY <3>3 DEF Headless
  <2>4. QED
    BY <1>1, <2>1, <2>2, <2>3
<1>4. buffer' = units \/ Rest(units, 1, buffer') \/ Rest(units, Laptop!RecordSize(units), buffer')
  BY TurnResult
<1>5. QED
  BY <1>2, <1>3, <1>4, HeadRest

-----------------------------------------------------------------------------
(* What has come of a record *)

\* s has the first n units of the record of job behind its k-th unit, and no
\* header but that one.
Holds(s, job, k, n) ==
  /\ n <= Len(Server!Record(job)) /\ k + n <= Len(s)
  /\ \A i \in 1 .. n : s[k + i] = Server!Record(job)[i]
  /\ HeadAt(s, k + 2)

\* n units of the record of job have come, and if it is being written, nothing
\* behind them.
Arrives(s, job, n, last) ==
  \E k \in Nat : Holds(s, job, k, n) /\ (last => k + n = Len(s))

LEMMA HoldsRest ==
  ASSUME NEW s \in Seq(Unit), NEW c, NEW t, Rest(s, c, t), NEW job \in Job,
         NEW k \in Nat, NEW n \in Nat, Holds(s, job, k, n), c <= k
  PROVE  Holds(t, job, k - c, n) /\ k - c \in Nat /\ Len(t) = Len(s) - c
<1>1. /\ c \in 0 .. Len(s) /\ Len(t) = Len(s) - c /\ Len(s) \in Nat
      /\ \A i \in 1 .. Len(t) : t[i] = s[i + c]
  BY DEF Rest
<1>2. HeadAt(t, (k + 2) - c) /\ (k + 2) - c = (k - c) + 2
  BY <1>1, HeadRest DEF Holds
<1>3. ASSUME NEW i \in 1 .. n
      PROVE  t[(k - c) + i] = Server!Record(job)[i]
  <2>1. (k - c) + i \in 1 .. Len(t) /\ ((k - c) + i) + c = k + i
    BY <1>1 DEF Holds
  <2>2. QED
    BY <1>1, <2>1 DEF Holds
<1>4. QED
  BY <1>1, <1>2, <1>3 DEF Holds

LEMMA HoldsBehind ==
  ASSUME NEW s \in Seq(Unit), NEW t \in Seq(Unit), Headless(s), NEW job \in Job,
         NEW k \in Nat, NEW n \in Nat, Holds(t, job, k, n)
  PROVE  Holds(s \o t, job, Len(s) + k, n)
<1>1. /\ Len(s) \in Nat /\ Len(t) \in Nat /\ Len(s \o t) = Len(s) + Len(t)
      /\ \A i \in 1 .. Len(s) + Len(t) :
           (s \o t)[i] = IF i <= Len(s) THEN s[i] ELSE t[i - Len(s)]
  BY Joined
<1> DEFINE u == s \o t
<1>2. ASSUME NEW i \in 1 .. n
      PROVE  u[(Len(s) + k) + i] = Server!Record(job)[i]
  <2>1. /\ (Len(s) + k) + i \in 1 .. Len(s) + Len(t)
        /\ ~((Len(s) + k) + i <= Len(s)) /\ ((Len(s) + k) + i) - Len(s) = k + i
    BY <1>1 DEF Holds
  <2>2. QED
    BY <1>1, <2>1 DEF Holds
<1>3. ASSUME NEW i \in 1 .. Len(u), u[i][1] = "head"
      PROVE  i = (Len(s) + k) + 2
  <2>1. ~(i <= Len(s))
    BY <1>1, <1>3 DEF Headless
  <2>2. i - Len(s) \in 1 .. Len(t) /\ u[i] = t[i - Len(s)]
    BY <1>1, <2>1
  <2>3. i - Len(s) = k + 2
    BY <1>3, <2>2 DEF Holds, HeadAt
  <2>4. QED
    BY <1>1, <2>3
<1>4. QED
  BY <1>1, <1>2, <1>3 DEF Holds, HeadAt

\* The next unit of the record is appended.
LEMMA HoldsNext ==
  ASSUME NEW s \in Seq(Unit), NEW job \in Job, NEW k \in Nat, NEW n \in Nat,
         Holds(s, job, k, n), k + n = Len(s), n < Len(Server!Record(job)),
         NEW e \in Unit, e = Server!Record(job)[n + 1]
  PROVE  Holds(s \o <<e>>, job, k, n + 1) /\ k + (n + 1) = Len(s \o <<e>>)
<1>1. <<e>> \in Seq(Unit) /\ Len(<<e>>) = 1 /\ <<e>>[1] = e /\ Len(s) \in Nat
  OBVIOUS
<1> DEFINE u == s \o <<e>>
<1>2. /\ Len(u) = Len(s) + 1
      /\ \A i \in 1 .. Len(s) + 1 : u[i] = IF i <= Len(s) THEN s[i] ELSE e
  BY <1>1, Joined
<1> HIDE DEF u
<1>3. Len(Server!Record(job)) \in Nat /\ n + 1 \in 1 .. Len(Server!Record(job))
  BY RecordUnits
<1>4. ASSUME NEW i \in 1 .. n + 1
      PROVE  u[k + i] = Server!Record(job)[i]
  <2>1. CASE i = n + 1
    BY <1>2, <2>1
  <2>2. CASE i # n + 1
    <3>1. i \in 1 .. n /\ k + i \in 1 .. Len(s) + 1 /\ k + i <= Len(s)
      BY <2>2
    <3>2. QED
      BY <1>2, <3>1 DEF Holds
  <2>3. QED
    BY <2>1, <2>2
<1>5. ASSUME NEW i \in 1 .. Len(u), u[i][1] = "head"
      PROVE  i = k + 2
  <2>1. CASE i <= Len(s)
    <3>1. i \in 1 .. Len(s) /\ u[i] = s[i]
      BY <1>1, <1>2, <2>1
    <3>2. QED
      BY <1>5, <3>1 DEF Holds, HeadAt
  <2>2. CASE ~(i <= Len(s))
    <3>1. i = (k + n) + 1 /\ u[i] = e
      BY <1>1, <1>2, <2>2
    <3>2. n + 1 = 2
      BY <1>3, <1>5, <3>1, RecordUnits
    <3>3. QED
      BY <3>1, <3>2
  <2>3. QED
    BY <2>1, <2>2
<1>6. Holds(u, job, k, n + 1) /\ k + (n + 1) = Len(u)
  BY <1>1, <1>2, <1>3, <1>4, <1>5 DEF Holds, HeadAt
<1>7. QED
  BY <1>6 DEF u

\* What comes behind a record does it no harm.
LEMMA HoldsBefore ==
  ASSUME NEW s \in Seq(Unit), NEW t \in Seq(Unit), Headless(t), NEW job \in Job,
         NEW k \in Nat, NEW n \in Nat, Holds(s, job, k, n)
  PROVE  Holds(s \o t, job, k, n)
<1>1. /\ Len(s) \in Nat /\ Len(t) \in Nat /\ Len(s \o t) = Len(s) + Len(t)
      /\ \A i \in 1 .. Len(s) + Len(t) :
           (s \o t)[i] = IF i <= Len(s) THEN s[i] ELSE t[i - Len(s)]
  BY Joined
<1> DEFINE u == s \o t
<1>2. ASSUME NEW i \in 1 .. n
      PROVE  u[k + i] = Server!Record(job)[i]
  <2>1. k + i \in 1 .. Len(s) + Len(t) /\ k + i <= Len(s)
    BY <1>1 DEF Holds
  <2>2. QED
    BY <1>1, <2>1 DEF Holds
<1>3. HeadAt(u, k + 2)
  BY HeadJoined DEF Holds
<1>4. QED
  BY <1>1, <1>2, <1>3 DEF Holds

Saved(job) == \E n \in DOMAIN saved : saved[n] = job

\* A record that has come whole is saved by the turn that looks at it; until
\* then a turn leaves what has come of it.
LEMMA RecordFed ==
  ASSUME LineType, \A n \in 1 .. Len(buffer) : buffer[n][1] = "head" => buffer[n][2] \in Image,
         NEW then, Laptop!Turn(then),
         NEW job \in Job, NEW n \in Nat, NEW last \in BOOLEAN,
         last \/ n = Len(Server!Record(job)), Arrives(Wire, job, n, last)
  PROVE  Saved(job)' \/ Arrives(Wire', job, n, last)
<1> DEFINE units == Laptop!Candidate
           size == Laptop!RecordSize(units)
           r == Server!Record(job)
<1>0. /\ buffer \in Seq(Unit) /\ uart \in Seq(Unit)
      /\ Len(buffer) \in Nat /\ Len(uart) \in Nat
      /\ Wire \in Seq(Unit) /\ Len(Wire) = Len(buffer) + Len(uart)
      /\ \A i \in 1 .. Len(buffer) : i \in 1 .. Len(Wire) /\ Wire[i] = buffer[i]
  <2>1. buffer \in Seq(Unit) /\ uart \in Seq(Unit) /\ Len(buffer) \in Nat /\ Len(uart) \in Nat
    BY DEF LineType
  <2>2. /\ Wire \in Seq(Unit) /\ Len(Wire) = Len(buffer) + Len(uart)
        /\ \A i \in 1 .. Len(buffer) + Len(uart) :
             Wire[i] = IF i <= Len(buffer) THEN buffer[i] ELSE uart[i - Len(buffer)]
    BY <2>1, Joined DEF Wire
  <2>3. \A i \in 1 .. Len(buffer) : i \in 1 .. Len(buffer) + Len(uart) /\ i <= Len(buffer)
    BY <2>1
  <2>4. QED
    BY <2>1, <2>2, <2>3
<1>1. PICK k \in Nat : Holds(Wire, job, k, n) /\ (last => k + n = Len(Wire))
  BY DEF Arrives
<1>2. /\ Len(r) \in Nat /\ Len(r) >= 2 /\ Len(Payload[job.image]) \in Nat
      /\ Len(r) = 2 + Len(Payload[job.image])
      /\ r[1] = Laptop!Magic /\ r[2] = <<"head", job.image, job.seq>>
      /\ \A i \in 1 .. Len(Payload[job.image]) : r[i + 2] = Payload[job.image][i]
  BY RecordUnits
<1>3. PICK c \in 0 .. Len(buffer) :
         /\ Rest(buffer, c, units)
         /\ \A i \in 1 .. c : buffer[i] # Laptop!Magic
         /\ units # <<>> => units[1] = Laptop!Magic
  BY <1>0, CandidateFirst
<1> HIDE DEF r
<1>4. /\ units \in Seq(Unit) /\ Len(units) = Len(buffer) - c /\ Len(units) \in Nat
      /\ \A i \in 1 .. Len(units) : i + c \in 1 .. Len(Wire) /\ units[i] = Wire[i + c]
  <2>1. /\ units \in Seq(Unit) /\ Len(units) = Len(buffer) - c /\ Len(units) \in Nat
        /\ \A i \in 1 .. Len(units) : units[i] = buffer[i + c]
    BY <1>3 DEF Rest
  <2>2. \A i \in 1 .. Len(units) : i + c \in 1 .. Len(buffer)
    BY <1>0, <2>1
  <2>3. QED
    BY <1>0, <2>1, <2>2
<1>5. /\ n <= Len(r) /\ k + n <= Len(Wire) /\ HeadAt(Wire, k + 2)
      /\ \A i \in 1 .. n : Wire[k + i] = r[i]
  BY <1>1 DEF Holds, r
<1>6. last \/ n = Len(r)
  BY DEF r
\* The search stops at the record's magic.
<1>7. c <= k
  <2>1. SUFFICES ASSUME k < c PROVE FALSE
    BY <1>0
  <2>2. n >= 1
    BY <1>0, <1>1, <1>2, <1>6, <2>1
  <2>3. Wire[k + 1] = Laptop!Magic /\ k + 1 \in 1 .. c
    BY <1>0, <1>2, <1>5, <2>1, <2>2
  <2>4. k + 1 \in 1 .. Len(buffer)
    BY <1>0, <2>3
  <2>5. QED
    BY <1>0, <1>3, <2>3, <2>4
<1>8. ASSUME NEW j \in 0 .. k - c, Rest(units, j, buffer')
      PROVE  Arrives(Wire', job, n, last)
  <2>1. Rest(buffer, c + j, buffer') /\ uart' = uart /\ buffer' \in Seq(Unit)
    <3>1. Rest(buffer, c + j, buffer')
      BY <1>0, <1>3, <1>8, RestOfRest
    <3>2. QED
      BY <3>1, TurnResult DEF Rest
  <2>2. Rest(Wire, c + j, Wire')
    BY <1>0, <2>1, RestJoined DEF Wire
  <2>3. /\ Holds(Wire', job, k - (c + j), n) /\ k - (c + j) \in Nat
        /\ Len(Wire') = Len(Wire) - (c + j)
    <3>1. c + j <= k
      BY <1>7
    <3>2. QED
      BY <1>0, <1>1, <2>2, <3>1, HoldsRest
  <2>4. last => (k - (c + j)) + n = Len(Wire')
    BY <1>0, <1>1, <2>3
  <2>5. QED
    BY <2>3, <2>4 DEF Arrives
\* With the record at the front, its header is seen.
<1>9. ASSUME c = k, Len(units) >= 2
      PROVE  /\ Laptop!ValidHeader(units) /\ size = Len(r)
             /\ units[2] = <<"head", job.image, job.seq>>
  <2>1. n >= 2
    BY <1>0, <1>1, <1>2, <1>4, <1>6, <1>9
  <2>2. units[1] = Wire[k + 1] /\ units[2] = Wire[k + 2]
    BY <1>4, <1>9
  <2>3. Wire[k + 1] = r[1] /\ Wire[k + 2] = r[2]
    BY <1>5, <2>1
  <2>4. units[2] = <<"head", job.image, job.seq>> /\ units[1] = Laptop!Magic
    BY <1>2, <2>2, <2>3
  <2>5. Laptop!ValidHeader(units)
    BY <1>9, <2>4 DEF Laptop!ValidHeader, Laptop!HeaderSize
  <2>6. size = Len(r)
    BY <1>2, <2>4 DEF Laptop!RecordSize, Laptop!HeaderSize
  <2>7. QED
    BY <2>4, <2>5, <2>6
<1> DEFINE newjob == [image |-> units[2][2], seq |-> units[2][3]]
<1>10. \/ Laptop!Waits(units) /\ buffer' = units
       \/ /\ ~Laptop!Waits(units) /\ Len(units) >= 2 /\ Rest(units, 1, buffer')
          /\ ~(Laptop!ValidHeader(units) /\ Laptop!ValidRecord(units))
       \/ /\ Len(units) >= 2 /\ Laptop!ValidHeader(units)
          /\ saved' = Append(saved, newjob)
  BY TurnResult
<1>11. CASE Laptop!Waits(units) /\ buffer' = units
  <2>1. Rest(units, 0, buffer')
    BY <1>4, <1>11 DEF Rest
  <2>2. 0 \in 0 .. k - c
    BY <1>7
  <2>3. QED
    BY <1>8, <2>1, <2>2
<1>12. CASE /\ ~Laptop!Waits(units) /\ Len(units) >= 2 /\ Rest(units, 1, buffer')
            /\ ~(Laptop!ValidHeader(units) /\ Laptop!ValidRecord(units))
  <2>1. CASE c < k
    <3>1. 1 \in 0 .. k - c
      BY <2>1
    <3>2. QED
      BY <1>8, <1>12, <3>1
  <2>2. CASE c = k
    <3>1. Laptop!ValidHeader(units) /\ size = Len(r) /\ units[2][2] = job.image
      BY <1>9, <1>12, <2>2
    <3>2. Len(units) >= Len(r)
      BY <1>2, <1>4, <1>12, <3>1 DEF Laptop!Waits
    <3>3. n = Len(r)
      <4>1. CASE last
        <5>1. k + n = Len(Wire) /\ Len(Wire) >= k + Len(units)
          BY <1>0, <1>1, <1>4, <2>2, <4>1
        <5>2. n >= Len(units)
          BY <1>4, <5>1
        <5>3. QED
          BY <1>2, <1>4, <1>5, <3>2, <5>2
      <4>2. QED
        BY <1>6, <4>1
    <3>4. SubSeq(units, 3, Len(r)) = Payload[job.image]
      <4> DEFINE p == Payload[job.image]
                 q == SubSeq(units, 3, Len(r))
      <4>1. p \in Seq(Unit)
        BY RecordUnits
      <4>2. q \in Seq(Unit) /\ Len(q) = Len(p) /\ \A i \in 1 .. Len(p) : q[i] = units[i + 2]
        BY <1>2, <1>4, <3>2
      <4>3. ASSUME NEW i \in 1 .. Len(p)
            PROVE  q[i] = p[i]
        <5>1. i + 2 \in 1 .. Len(r) /\ i + 2 \in 1 .. Len(units)
          BY <1>2, <1>4, <3>2
        <5>2. units[i + 2] = Wire[k + (i + 2)]
          BY <1>4, <2>2, <5>1
        <5>3. Wire[k + (i + 2)] = r[i + 2]
          BY <1>5, <3>3, <5>1
        <5>4. QED
          BY <1>2, <4>2, <5>2, <5>3
      <4> HIDE DEF p, q
      <4>4. q = p
        BY <4>1, <4>2, <4>3, SeqEqual
      <4>5. QED
        BY <4>4 DEF p, q
    <3>5. Laptop!ValidRecord(units)
      BY <3>1, <3>4 DEF Laptop!ValidRecord, Laptop!HeaderSize
    <3>6. QED
      BY <1>12, <3>1, <3>5
  <2>3. QED
    BY <1>0, <1>7, <2>1, <2>2
<1>13. CASE /\ Len(units) >= 2 /\ Laptop!ValidHeader(units)
            /\ saved' = Append(saved, newjob)
  <2>1. units[2][1] = "head" /\ 2 + c \in 1 .. Len(Wire) /\ units[2] = Wire[2 + c]
    BY <1>4, <1>13 DEF Laptop!ValidHeader
  <2>2. c = k
    BY <1>0, <1>5, <2>1 DEF HeadAt
  <2>3. newjob = job
    BY <1>9, <1>13, <2>2 DEF Job
  <2>4. saved \in Seq(Job)
    BY DEF LineType
  <2>5. Len(saved) + 1 \in DOMAIN saved' /\ saved'[Len(saved) + 1] = job
    BY <1>13, <2>3, <2>4
  <2>6. QED
    BY <2>5 DEF Saved
<1>14. QED
  BY <1>10, <1>11, <1>12, <1>13

-----------------------------------------------------------------------------
(* The laptop's loop and its deadline *)

\* What the parser has fed on starts with a magic and waits for the rest of its
\* record; the timer runs while a header has come whose JPEG has not.
LaptopInv ==
  /\ host \in {"read", "feed", "deadline", "rest", "again"}
  /\ started \in Nat \cup {NoTimer}
  /\ host \in {"read", "deadline", "again"} =>
       /\ buffer # <<>> => buffer[1] = Laptop!Magic
       /\ Len(buffer) < 2 \/ Laptop!Incomplete
  /\ host = "read" => (started = NoTimer <=> ~Laptop!Incomplete)
  /\ host \in {"rest", "again"} => started \in Nat

HeadsName == \A n \in 1 .. Len(buffer) : buffer[n][1] = "head" => buffer[n][2] \in Image

LEMMA LaptopInit == Init => LaptopInv
BY DEF Init, Laptop!HostInit, LaptopInv, Laptop!Incomplete, Laptop!ValidHeader,
  Laptop!HeaderSize

LEMMA Waiting ==
  ASSUME LineType, HeadsName, NEW then, Laptop!Turn(then), Laptop!Waits(Laptop!Candidate),
         buffer' = Laptop!Candidate
  PROVE  /\ buffer' # <<>> => buffer'[1] = Laptop!Magic
         /\ Len(buffer') < 2 \/ Laptop!Incomplete'
<1>1. PICK c \in 0 .. Len(buffer) :
        Laptop!Candidate # <<>> => Laptop!Candidate[1] = Laptop!Magic
  BY CandidateFirst DEF LineType
<1>2. Laptop!Waits(buffer')
  OBVIOUS
<1>3. QED
  BY <1>1, <1>2 DEF Laptop!Waits, Laptop!HeaderSize, Laptop!Incomplete, Laptop!ValidHeader,
    Laptop!RecordSize

LEMMA TimerRuns ==
  ASSUME LaptopInv, Laptop!ReadNothing
  PROVE  /\ started = NoTimer => started' = NoTimer
         /\ started # NoTimer => /\ started \in Nat /\ started' \in Nat
                                 /\ started' \in {started + 1, Timeout}
                                 /\ started' <= started + 1 /\ started' <= Timeout
<1>1. Timeout \in Nat
  BY SerialLineAssumption
<1>2. CASE started # NoTimer
  <2>1. started \in Nat /\ started + 1 \in Nat
    BY <1>2 DEF LaptopInv
  <2>2. started' = Min({started + 1, Timeout})
    BY <1>2 DEF Laptop!ReadNothing, Laptop!Min, Min
  <2>3. QED
    BY <1>1, <1>2, <2>1, <2>2, Lesser
<1>3. QED
  BY <1>2 DEF Laptop!ReadNothing

LEMMA LaptopInvNext ==
  ASSUME LineType, HeadsName, LaptopInv,
         Laptop!HostSteps \/ Laptop!ReadNothing \/ UNCHANGED hostVars
  PROVE  LaptopInv'
<1>0. NoTimer \notin Nat
  BY SerialLineAssumption
<1>1. CASE Laptop!Read
  BY <1>1 DEF Laptop!Read, LaptopInv
<1>2. ASSUME NEW then, Laptop!Turn(then),
             \/ host = "feed" /\ then = "deadline"
             \/ host = "rest" /\ then = "again"
      PROVE  LaptopInv'
  <2>1. started' = started
    BY <1>2 DEF Laptop!Turn
  <2>2. CASE host' = host
    BY <1>2, <2>1, <2>2 DEF LaptopInv
  <2>3. CASE Laptop!Waits(Laptop!Candidate) /\ buffer' = Laptop!Candidate /\ host' = then
    <3>1. /\ buffer' # <<>> => buffer'[1] = Laptop!Magic
          /\ Len(buffer') < 2 \/ Laptop!Incomplete'
      BY <1>2, <2>3, Waiting
    <3>2. QED
      BY <1>2, <2>1, <2>3, <3>1 DEF LaptopInv, Laptop!Magic
  <2>4. QED
    BY <1>2, <2>2, <2>3, TurnResult DEF HeadsName
<1>3. CASE Laptop!Observe
  <2>1. CASE UNCHANGED buffer /\ host' = "read"
    <3>1. Laptop!Incomplete' <=> Laptop!Incomplete
      BY <2>1 DEF Laptop!Incomplete, Laptop!ValidHeader, Laptop!RecordSize
    <3>2. started' = NoTimer <=> ~Laptop!Incomplete
      BY <1>0, <1>3, <2>1 DEF Laptop!Observe
    <3>3. started' \in Nat \cup {NoTimer}
      BY <1>3 DEF Laptop!Observe, LaptopInv
    <3>4. QED
      BY <1>3, <2>1, <3>1, <3>2, <3>3 DEF Laptop!Observe, LaptopInv, Laptop!Magic
  <2>2. CASE host' = "rest" /\ started' = 0
    BY <2>2 DEF LaptopInv
  <2>3. QED
    BY <1>3, <2>1, <2>2 DEF Laptop!Observe
<1>4. CASE Laptop!ObserveAgain
  <2>1. Laptop!Incomplete' <=> Laptop!Incomplete
    BY <1>4 DEF Laptop!ObserveAgain, Laptop!Incomplete, Laptop!ValidHeader, Laptop!RecordSize
  <2>2. started' = NoTimer <=> ~Laptop!Incomplete
    BY <1>0, <1>4 DEF Laptop!ObserveAgain, LaptopInv
  <2>3. QED
    BY <1>4, <2>1, <2>2 DEF Laptop!ObserveAgain, LaptopInv, Laptop!Magic
<1>5. CASE Laptop!ReadNothing
  <2>1. Laptop!Incomplete' <=> Laptop!Incomplete
    BY <1>5 DEF Laptop!ReadNothing, Laptop!Incomplete, Laptop!ValidHeader, Laptop!RecordSize
  <2>2. started' \in Nat \cup {NoTimer}
    BY <1>5, TimerRuns
  <2>3. QED
    BY <1>5, <2>1, <2>2 DEF Laptop!ReadNothing, LaptopInv, Laptop!Magic
<1>6. CASE UNCHANGED hostVars
  BY <1>6 DEF hostVars, LaptopInv, Laptop!Incomplete, Laptop!ValidHeader, Laptop!RecordSize
<1>7. CASE Laptop!Feed
  BY <1>2, <1>7 DEF Laptop!Feed
<1>8. CASE Laptop!FeedRest
  BY <1>2, <1>8 DEF Laptop!FeedRest
<1>9. QED
  BY <1>1, <1>3, <1>4, <1>5, <1>6, <1>7, <1>8 DEF Laptop!HostSteps

-----------------------------------------------------------------------------
(* The gaps between the images and the record being written *)

\* The gateway has one slot, the images come a deadline apart, and a record
\* does not take that long.
ApartEnough == SlotCount = 1 /\ Timeout >= 2 /\ \A gap \in Gaps : gap >= Timeout

\* A record starts when the line has been still for the deadline; after it the
\* line has not been still at all until the slot is given back.
GapInv ==
  /\ quiet \in Nat
  /\ callback # NoJob \/ pendingSlots # <<>> \/ Server!Writing => quiet >= Timeout
  /\ writer # NoJob /\ ~Server!Writing => quiet = 0

\* What has been sent of the record being written, in units
SentOf(job) ==
  Len(Server!Record(job)) - (IF Server!Writing THEN Len(writer.left) ELSE 0)

LeftInv ==
  Server!Writing => Rest(Server!Record(writer.job), SentOf(writer.job), writer.left)

LEMMA GapInit == Init => GapInv /\ LeftInv
BY LongestGap DEF Init, Server!OutputInit, GapInv, LeftInv, Server!Writing

\* With one slot there is one image at a time.
LEMMA OneImage ==
  ASSUME ApartEnough, GatewayInv
  PROVE  /\ writer # NoJob => callback = NoJob /\ pendingSlots = <<>> /\ ~(free > 0)
         /\ free > 0 => writer = NoJob
<1>1. /\ free \in Nat /\ pendingSlots \in Seq(Job) /\ Len(pendingSlots) \in Nat
      /\ free + Busy(callback) + Len(pendingSlots) + Busy(writer) = 1
  BY DEF GatewayInv, OutputType, Accounts, SlotsKept, ApartEnough
<1>2. writer # NoJob => callback = NoJob /\ Len(pendingSlots) = 0 /\ free = 0
  BY <1>1 DEF Busy
<1>3. Len(pendingSlots) = 0 => pendingSlots = <<>>
  BY <1>1
<1>4. QED
  BY <1>1, <1>2, <1>3

LEMMA GapNext ==
  ASSUME ApartEnough, GatewayInv, GatewayInv', GapInv, [Next]_vars
  PROVE  GapInv'
<1>0. /\ Timeout \in Nat /\ Timeout >= 2 /\ quiet \in Nat
      /\ \A gap \in Gaps : gap >= Timeout
      /\ OutputType
  BY SerialLineAssumption DEF ApartEnough, GapInv, GatewayInv
<1>1. CASE ImageCompletes
  <2>1. UNCHANGED <<pendingSlots, writer, quiet>>
    BY <1>1 DEF ImageCompletes, Server!DropImage, Server!TakeSlot, lineVars
  <2>2. CASE Server!DropImage
    BY <2>1, <2>2 DEF Server!DropImage, GapInv, Server!Writing
  <2>3. CASE Server!TakeSlot
    <3>1. writer = NoJob
      BY <2>3, OneImage DEF Server!TakeSlot
    <3>2. quiet >= Timeout
      BY <1>0, <1>1, <3>1 DEF ImageCompletes
    <3>3. QED
      BY <1>0, <2>1, <3>1, <3>2 DEF GapInv, Server!Writing
  <2>4. QED
    BY <1>1, <2>2, <2>3 DEF ImageCompletes
<1>2. CASE CallbackContinues
  <2>1. UNCHANGED <<writer, quiet>> /\ callback # NoJob
    BY <1>2 DEF CallbackContinues, Server!RaiseFlag, Server!QueueSlot, lineVars
  <2>2. QED
    BY <1>0, <2>1 DEF GapInv, Server!Writing
<1>3. CASE WriterStarts
  <2>1. /\ quiet' = quiet /\ pendingSlots # <<>> /\ writer'.pc = "write"
    BY <1>3 DEF WriterStarts, Server!TakeJob
  <2>2. QED
    BY <1>0, <2>1 DEF GapInv, Server!Writing
<1>4. CASE ByteSent
  <2>1. PICK sent \in SentUnits : Server!WriteUnit(sent)
    BY <1>4 DEF ByteSent, SentUnits
  <2>2. quiet' = quiet /\ Server!Writing
    BY <1>4, <2>1 DEF ByteSent, Server!WriteUnit
  <2>3. writer' \in WriterTask /\ writer'.pc = "write"
    <3>1. writer \in WriterTask /\ writer.pc = "write"
      BY <1>0, <2>2 DEF Server!Writing, OutputType
    <3>2. writer'.pc = writer.pc
      BY <2>1, <3>1 DEF Server!WriteUnit, WriterTask
    <3>3. QED
      BY <1>0, <2>1, <3>1, <3>2, WriterWrites
  <2>4. QED
    BY <1>0, <2>2, <2>3 DEF GapInv, Server!Writing
<1>5. CASE WriteReturns
  <2>1. quiet' = 0 /\ Server!FinishWrite /\ UNCHANGED <<pendingSlots, callback>>
    BY <1>5 DEF WriteReturns, Server!FinishWrite
  <2>2. writer \in WriterTask /\ writer # NoJob /\ callback = NoJob /\ pendingSlots = <<>>
    BY <1>0, <2>1, WriterWrites, OneImage
  <2>3. ~Server!Writing'
    BY <2>1, <2>2 DEF Server!FinishWrite, Server!Writing, WriterTask
  <2>4. QED
    BY <2>1, <2>2, <2>3 DEF GapInv
<1>6. CASE WriterContinues
  <2>1. UNCHANGED <<pendingSlots, callback, quiet>>
    BY <1>6 DEF WriterContinues, Server!ReportDrops, Server!ReturnSlot, lineVars
  <2>2. writer # NoJob /\ ~Server!Writing
    BY <1>6 DEF WriterContinues, Server!ReportDrops, Server!ReturnSlot, Server!Writing
  <2>3. ~Server!Writing'
    <3>1. CASE Server!ReportDrops
      <4>1. writer \in WriterTask
        BY <1>0, <2>2 DEF OutputType
      <4>2. QED
        BY <3>1, <4>1 DEF Server!ReportDrops, Server!Writing, WriterTask
    <3>2. CASE Server!ReturnSlot
      BY <3>2 DEF Server!ReturnSlot, Server!Writing
    <3>3. QED
      BY <1>6, <3>1, <3>2 DEF WriterContinues
  <2>4. QED
    BY <1>0, <2>1, <2>2, <2>3 DEF GapInv
<1>7. CASE Tick
  <2>1. /\ callback' = NoJob /\ pendingSlots' = <<>> /\ writer' = writer
        /\ writer = NoJob \/ Server!Writing
    BY <1>7 DEF Tick, serverOnly
  <2>2. CASE Server!Writing
    <3>1. quiet' = quiet
      BY <1>7, <2>2 DEF Tick
    <3>2. QED
      BY <1>0, <2>1, <2>2, <3>1 DEF GapInv, Server!Writing
  <2>3. CASE ~Server!Writing
    <3>1. quiet' = Min({quiet + 1, Max(Gaps)}) /\ quiet + 1 \in Nat
      BY <1>0, <1>7, <2>3 DEF Tick
    <3>2. quiet' \in Nat
      BY <3>1, Lesser, LongestGap
    <3>3. QED
      BY <2>1, <2>3, <3>2 DEF GapInv, Server!Writing
  <2>4. QED
    BY <2>2, <2>3
<1>8. CASE OtherOutput \/ LaptopWorks \/ UNCHANGED vars
  <2>1. UNCHANGED <<pendingSlots, callback, writer, quiet>>
    BY <1>8 DEF OtherOutput, Server!WriteLog, LaptopWorks, serverOnly, lineVars, vars
  <2>2. QED
    BY <1>0, <2>1 DEF GapInv, Server!Writing
<1>9. QED
  BY <1>1, <1>2, <1>3, <1>4, <1>5, <1>6, <1>7, <1>8 DEF Next

\* A byte sent is the next of the record.
LEMMA UnitSent ==
  ASSUME GatewayInv, LeftInv, NEW sent \in SentUnits, Server!WriteUnit(sent)
  PROVE  /\ Server!Writing /\ Server!Writing' /\ writer \in WriterTask /\ writer.job \in Job
         /\ writer'.job = writer.job
         /\ SentOf(writer.job) \in Nat
         /\ SentOf(writer.job) < Len(Server!Record(writer.job))
         /\ SentOf(writer.job)' = SentOf(writer.job) + 1
         /\ Head(writer.left) \in Unit
         /\ Head(writer.left) = Server!Record(writer.job)[SentOf(writer.job) + 1]
         /\ Rest(Server!Record(writer.job), SentOf(writer.job) + 1, writer'.left)
         /\ writer'.whole = (writer.whole /\ sent = <<Head(writer.left)>>)
<1>1. writer \in WriterTask /\ Server!Writing /\ writer.left # <<>> /\ writer.job \in Job
  BY DEF Server!WriteUnit, Server!Writing, GatewayInv, OutputType, WriterTask
<1>2. /\ writer'.job = writer.job /\ writer'.pc = "write"
      /\ writer'.left = Tail(writer.left)
      /\ writer'.whole = (writer.whole /\ sent = <<Head(writer.left)>>)
  BY <1>1 DEF Server!WriteUnit, WriterTask, Server!Writing
<1>3. writer' # NoJob
  <2>1. writer' \in WriterTask
    BY WriterWrites DEF GatewayInv
  <2>2. QED
    BY <2>1, Jobs
<1>4. Server!Writing'
  BY <1>2, <1>3 DEF Server!Writing
<1> DEFINE r == Server!Record(writer.job)
<1>5. /\ r \in Seq(Unit) /\ Len(r) \in Nat
      /\ writer.left \in Seq(Unit) /\ Len(writer.left) \in Nat /\ Len(writer.left) >= 1
      /\ Head(writer.left) = writer.left[1] /\ Head(writer.left) \in Unit
  <2>1. r \in Seq(Unit) /\ writer.left \in Seq(Unit)
    BY <1>1, RecordUnits DEF WriterTask
  <2>2. QED
    BY <1>1, <2>1
<1> HIDE DEF r
<1>6. /\ SentOf(writer.job) = Len(r) - Len(writer.left)
      /\ Rest(r, SentOf(writer.job), writer.left)
  BY <1>1 DEF SentOf, LeftInv, r
<1>7. SentOf(writer.job) \in 0 .. Len(r) /\ writer.left[1] = r[1 + SentOf(writer.job)]
  <2> DEFINE k == SentOf(writer.job)
             t == writer.left
  <2>1. Rest(r, k, t) /\ Len(t) \in Nat /\ Len(t) >= 1
    BY <1>5, <1>6
  <2> HIDE DEF k, t
  <2>2. k \in 0 .. Len(r) /\ \A n \in 1 .. Len(t) : t[n] = r[n + k]
    BY <2>1 DEF Rest
  <2>3. 1 \in 1 .. Len(t)
    BY <2>1
  <2>4. k \in 0 .. Len(r) /\ t[1] = r[1 + k]
    BY <2>2, <2>3
  <2>5. QED
    BY <2>4 DEF k, t
<1>8. Rest(writer.left, 1, writer'.left) /\ Len(writer'.left) = Len(writer.left) - 1
  BY <1>2, <1>5 DEF Rest
<1>9. Rest(r, SentOf(writer.job) + 1, writer'.left)
  BY <1>5, <1>6, <1>8, RestOfRest
<1>10. SentOf(writer.job)' = Len(r) - Len(writer'.left)
  BY <1>2, <1>4 DEF SentOf, r, Server!Record, Server!Header, Server!Magic
<1>11. /\ SentOf(writer.job) \in Nat /\ SentOf(writer.job) < Len(r)
       /\ SentOf(writer.job)' = SentOf(writer.job) + 1
       /\ 1 + SentOf(writer.job) = SentOf(writer.job) + 1
  BY <1>5, <1>6, <1>7, <1>8, <1>10
<1>12. QED
  BY <1>1, <1>2, <1>4, <1>5, <1>7, <1>9, <1>11 DEF r

LEMMA LeftInvNext ==
  ASSUME GatewayInv, GatewayInv', LeftInv, [Next]_vars
  PROVE  LeftInv'
<1>1. CASE WriterStarts
  <2>1. PICK job \in Job : job = Head(pendingSlots)
    BY <1>1 DEF WriterStarts, Server!TakeJob, GatewayInv, OutputType
  <2>2. /\ writer'.job = job /\ writer'.left = Server!Record(job)
    BY <1>1, <2>1 DEF WriterStarts, Server!TakeJob
  <2>3. Server!Record(job) \in Seq(Unit) /\ Len(Server!Record(job)) \in Nat
    BY RecordUnits
  <2>4. Rest(Server!Record(job), 0, Server!Record(job))
    BY <2>3 DEF Rest
  <2>5. Server!Writing' => SentOf(writer.job)' = Len(Server!Record(job)) - Len(Server!Record(job))
    BY <2>2 DEF SentOf, Server!Record, Server!Header, Server!Magic
  <2>6. QED
    BY <2>2, <2>3, <2>4, <2>5 DEF LeftInv, Server!Record, Server!Header, Server!Magic
<1>2. ASSUME NEW sent \in SentUnits, Server!WriteUnit(sent)
      PROVE  LeftInv'
  <2>1. /\ Rest(Server!Record(writer.job), SentOf(writer.job) + 1, writer'.left)
        /\ SentOf(writer.job)' = SentOf(writer.job) + 1 /\ writer'.job = writer.job
    BY <1>2, UnitSent
  <2>2. QED
    BY <2>1 DEF LeftInv, Server!Record, Server!Header, Server!Magic
<1>3. CASE WriteReturns \/ WriterContinues
  <2>1. ~Server!Writing'
    <3>1. CASE Server!FinishWrite \/ Server!ReportDrops
      <4>1. writer \in WriterTask
        BY <3>1
        DEF Server!FinishWrite, Server!ReportDrops, Server!Writing, GatewayInv, OutputType
      <4>2. QED
        BY <3>1, <4>1
        DEF Server!FinishWrite, Server!ReportDrops, Server!Writing, WriterTask
    <3>2. CASE Server!ReturnSlot
      BY <3>2 DEF Server!ReturnSlot, Server!Writing
    <3>3. QED
      BY <1>3, <3>1, <3>2 DEF WriteReturns, WriterContinues
  <2>2. QED
    BY <2>1 DEF LeftInv
<1>4. CASE UNCHANGED writer
  BY <1>4 DEF LeftInv, SentOf, Server!Writing, Server!Record, Server!Header, Server!Magic
<1>5. CASE ImageCompletes \/ CallbackContinues \/ OtherOutput \/ LaptopWorks \/ Tick
           \/ UNCHANGED vars
  <2>1. UNCHANGED writer
    BY <1>5 DEF ImageCompletes, Server!DropImage, Server!TakeSlot, CallbackContinues,
      Server!RaiseFlag, Server!QueueSlot, OtherOutput, Server!WriteLog, LaptopWorks, Tick,
      serverOnly, vars
  <2>2. QED
    BY <1>4, <2>1
<1>6. CASE ByteSent
  BY <1>2, <1>6 DEF ByteSent, SentUnits
<1>7. QED
  BY <1>1, <1>3, <1>5, <1>6 DEF Next

-----------------------------------------------------------------------------
(* Before, while and after a record comes *)

OwnAt(s, seq) == \A n \in 1 .. Len(s) : s[n][1] = "head" => s[n][3] = seq

\* A record is being written, or has been and the line has not been still since.
Settling == Server!Writing \/ quiet = 0

\* The unharmed records that the laptop may yet have to save
Awaited ==
  IF Server!Writing THEN IF writer.whole THEN {writer.job} ELSE {}
  ELSE tally.intact \cup IF writer # NoJob /\ writer.pc = "report" /\ writer.whole
                         THEN {writer.job} ELSE {}

\* The first byte of a record has been given up; its header is of no use now.
Rejected == host \in {"feed", "rest"} /\ HeadAt(buffer, 1)

\* A record cut short waits at the front; its timer has run at least as long
\* as the line has been still.
Stale ==
  /\ host \in {"read", "feed", "deadline"}
  /\ Laptop!ValidHeader(buffer) /\ HeadAt(buffer, 2)
  /\ started \in Nat
  /\ started >= quiet \/ started >= Timeout
  /\ host # "deadline" => started < Timeout

\* Its timer has run out.
Expiring ==
  /\ host = "deadline" /\ Laptop!Incomplete /\ HeadAt(buffer, 2)
  /\ started \in Nat /\ started >= Timeout

\* The laptop has no record to wait for, or is giving up the last one.
Forgotten == Headless(buffer) \/ Rejected \/ Expiring

\* The timer has not run for longer than the one record.
Calm ==
  /\ host \in {"read", "feed", "deadline"}
  /\ started \in {NoTimer, 0} \/ (started = 1 /\ (paced \/ ~Server!Writing))

\* The units s are those of the last record, and if it is unharmed it is saved
\* or complete in them so far.
Good(s) ==
  /\ OwnAt(s, LastTaken)
  /\ \A job \in Awaited : Saved(job) \/ Arrives(s, job, SentOf(job), Server!Writing)

RecordComing == (Forgotten /\ Good(uart)) \/ (Calm /\ Good(Wire))

LineStill == Headless(uart) /\ (Headless(buffer) \/ Rejected \/ Stale)

OldSaved == Server!Writing \/ quiet > 0 => \A job \in tally.intact : Saved(job)

RecoveryInv ==
  /\ LaptopInv /\ GapInv /\ LeftInv /\ OldSaved
  /\ IF Settling THEN RecordComing ELSE LineStill

-----------------------------------------------------------------------------

LEMMA AwaitedJobs ==
  ASSUME GatewayInv, LeftInv
  PROVE  /\ Awaited \subseteq Job
         /\ \A job \in Awaited : /\ SentOf(job) \in Nat
                                 /\ Server!Writing \/ SentOf(job) = Len(Server!Record(job))
<1>1. /\ tally.intact \subseteq Job
      /\ writer # NoJob => writer \in WriterTask /\ writer.job \in Job
  BY DEF GatewayInv, OutputType, Tally, WriterTask
<1>2. Server!Writing => writer # NoJob
  BY DEF Server!Writing
<1>3. Awaited \subseteq Job
  BY <1>1, <1>2 DEF Awaited
<1>4. CASE Server!Writing
  <2>1. SentOf(writer.job) \in 0 .. Len(Server!Record(writer.job))
    BY <1>4 DEF LeftInv, Rest
  <2>2. Len(Server!Record(writer.job)) \in Nat
    BY <1>1, <1>2, <1>4, RecordUnits
  <2>3. Awaited \subseteq {writer.job}
    BY <1>4 DEF Awaited
  <2>4. QED
    BY <1>3, <1>4, <2>1, <2>2, <2>3
<1>5. CASE ~Server!Writing
  <2>1. ASSUME NEW job \in Awaited
        PROVE  SentOf(job) \in Nat /\ SentOf(job) = Len(Server!Record(job))
    <3>1. Len(Server!Record(job)) \in Nat
      BY <1>3, RecordUnits
    <3>2. SentOf(job) = Len(Server!Record(job)) - 0
      BY <1>5 DEF SentOf
    <3>3. QED
      BY <3>1, <3>2
  <2>2. QED
    BY <1>3, <2>1
<1>6. QED
  BY <1>4, <1>5

LEMMA SavedStays ==
  ASSUME LineType, HeadsName, Laptop!HostSteps \/ Laptop!ReadNothing, NEW job, Saved(job)
  PROVE  Saved(job)'
<1>1. saved' = saved \/ \E e : saved' = Append(saved, e)
  BY HostStepMoves DEF HeadsName, HostMove, Laptop!Unsaved
<1>2. saved \in Seq(Job)
  BY DEF LineType
<1>3. CASE saved' = saved
  BY <1>3 DEF Saved
<1>4. ASSUME NEW e, saved' = Append(saved, e)
      PROVE  Saved(job)'
  <2>1. PICK n \in 1 .. Len(saved) : saved[n] = job
    BY <1>2 DEF Saved
  <2>2. n \in DOMAIN saved' /\ saved'[n] = saved[n]
    BY <1>2, <1>4
  <2>3. QED
    BY <2>1, <2>2 DEF Saved
<1>5. QED
  BY <1>1, <1>3, <1>4

LEMMA OwnRest ==
  ASSUME NEW s \in Seq(Unit), NEW c, NEW t, Rest(s, c, t), NEW seq, OwnAt(s, seq)
  PROVE  OwnAt(t, seq)
<1>1. \A n \in 1 .. Len(t) : n + c \in 1 .. Len(s) /\ t[n] = s[n + c]
  BY DEF Rest
<1>2. QED
  BY <1>1 DEF OwnAt

LEMMA OwnBehind ==
  ASSUME NEW s \in Seq(Unit), NEW t \in Seq(Unit), Headless(s), NEW seq, OwnAt(t, seq)
  PROVE  OwnAt(s \o t, seq)
<1>1. /\ Len(s) \in Nat /\ Len(t) \in Nat /\ Len(s \o t) = Len(s) + Len(t)
      /\ \A i \in 1 .. Len(s) + Len(t) :
           (s \o t)[i] = IF i <= Len(s) THEN s[i] ELSE t[i - Len(s)]
  BY Joined
<1>2. ASSUME NEW i \in 1 .. Len(s \o t), (s \o t)[i][1] = "head"
      PROVE  (s \o t)[i][3] = seq
  <2>1. ~(i <= Len(s))
    BY <1>1, <1>2 DEF Headless
  <2>2. i - Len(s) \in 1 .. Len(t) /\ (s \o t)[i] = t[i - Len(s)]
    BY <1>1, <2>1
  <2>3. QED
    BY <1>2, <2>2 DEF OwnAt
<1>3. QED
  BY <1>2 DEF OwnAt

LEMMA OwnMore ==
  ASSUME NEW s \in Seq(Unit), NEW e \in Unit, NEW seq, OwnAt(s, seq),
         e[1] = "head" => e[3] = seq
  PROVE  OwnAt(s \o <<e>>, seq)
<1>1. <<e>> \in Seq(Unit) /\ Len(<<e>>) = 1 /\ <<e>>[1] = e /\ Len(s) \in Nat
  OBVIOUS
<1>2. /\ Len(s \o <<e>>) = Len(s) + 1
      /\ \A i \in 1 .. Len(s) + 1 : (s \o <<e>>)[i] = IF i <= Len(s) THEN s[i] ELSE e
  BY <1>1, Joined
<1>3. QED
  BY <1>1, <1>2 DEF OwnAt

\* A record behind units without a header
LEMMA GoodBehind ==
  ASSUME GatewayInv, LeftInv, LineType, Headless(buffer), Good(uart)
  PROVE  Good(Wire)
<1>0. buffer \in Seq(Unit) /\ uart \in Seq(Unit) /\ Len(buffer) \in Nat
      /\ Len(Wire) = Len(buffer) + Len(uart) /\ Len(uart) \in Nat
  BY Joined DEF LineType, Wire
<1>1. OwnAt(Wire, LastTaken)
  BY <1>0, OwnBehind DEF Good, Wire
<1>2. ASSUME NEW job \in Awaited, Arrives(uart, job, SentOf(job), Server!Writing)
      PROVE  Arrives(Wire, job, SentOf(job), Server!Writing)
  <2>1. PICK k \in Nat : /\ Holds(uart, job, k, SentOf(job))
                         /\ Server!Writing => k + SentOf(job) = Len(uart)
    BY <1>2 DEF Arrives
  <2>2. job \in Job /\ SentOf(job) \in Nat
    BY AwaitedJobs
  <2>3. Holds(Wire, job, Len(buffer) + k, SentOf(job))
    BY <1>0, <2>1, <2>2, HoldsBehind DEF Wire
  <2>4. Len(buffer) + k \in Nat
        /\ (k + SentOf(job) = Len(uart) => (Len(buffer) + k) + SentOf(job) = Len(Wire))
    BY <1>0, <2>2
  <2>5. QED
    BY <2>1, <2>3, <2>4 DEF Arrives
<1>3. QED
  BY <1>1, <1>2 DEF Good

LEMMA ServerSame ==
  ASSUME UNCHANGED serverOnly
  PROVE  /\ UNCHANGED <<LastTaken, Awaited, tally, writer>>
         /\ Server!Writing' <=> Server!Writing
         /\ \A job : SentOf(job)' = SentOf(job)
<1>1. UNCHANGED <<nextSeq, callback, pendingSlots, writer, tally>>
  BY DEF serverOnly
<1>2. Server!Writing' <=> Server!Writing
  BY <1>1 DEF Server!Writing
<1>3. UNCHANGED <<LastTaken, Awaited>>
  BY <1>1, <1>2 DEF LastTaken, Busy, Awaited
<1>4. \A job : SentOf(job)' = SentOf(job)
  BY <1>1, <1>2 DEF SentOf, Server!Record, Server!Header, Server!Magic
<1>5. QED
  BY <1>1, <1>2, <1>3, <1>4

-----------------------------------------------------------------------------
(* The steps of the laptop *)

\* While the line is still, the laptop gets over a record cut short.
LEMMA StillLaptop ==
  ASSUME LineType, HeadsName, LaptopInv, LineStill, Laptop!HostSteps,
         UNCHANGED quiet
  PROVE  LineStill'
<1>0. /\ buffer \in Seq(Unit) /\ uart \in Seq(Unit) /\ Len(buffer) \in Nat
      /\ NoTimer \notin Nat /\ Timeout \in Nat
      /\ Headless(uart)
  BY SerialLineAssumption DEF LineType, LineStill
<1>1. CASE Laptop!Read
  <2>1. PICK n \in 1 .. Len(uart) :
           /\ buffer' = buffer \o SubSeq(uart, 1, n)
           /\ uart' = Laptop!From(uart, n + 1)
    BY <1>1 DEF Laptop!Read
  <2>2. n \in 0 .. Len(uart)
    OBVIOUS
  <2>3. Headless(SubSeq(uart, 1, n)) /\ SubSeq(uart, 1, n) \in Seq(Unit)
    BY <1>0, <2>2, HeadlessPart
  <2>4. Headless(uart')
    BY <1>0, <2>1, <2>2, Suffixes, HeadRest
  <2>5. CASE Headless(buffer)
    BY <1>0, <2>1, <2>3, <2>4, <2>5, HeadJoined DEF LineStill
  <2>6. CASE Stale
    <3>1. HeadAt(buffer', 2)
      BY <1>0, <2>1, <2>3, <2>6, HeadJoined DEF Stale
    <3>2. Laptop!ValidHeader(buffer')
      <4>1. Len(buffer) >= 2 /\ buffer[1] = Laptop!Magic /\ buffer[2][1] = "head"
        BY <2>6 DEF Stale, Laptop!ValidHeader, Laptop!HeaderSize
      <4>2. Len(buffer') >= 2 /\ buffer'[1] = buffer[1] /\ buffer'[2] = buffer[2]
        BY <1>0, <2>1, <2>3, <4>1, Joined
      <4>3. QED
        BY <4>1, <4>2 DEF Laptop!ValidHeader, Laptop!HeaderSize
    <3>3. Stale'
      BY <1>1, <2>6, <3>1, <3>2 DEF Stale, Laptop!Read, Laptop!ValidHeader, Laptop!Magic
    <3>4. QED
      BY <2>4, <3>3 DEF LineStill
  <2>7. ~Rejected
    BY <1>1 DEF Laptop!Read, Rejected
  <2>8. QED
    BY <2>5, <2>6, <2>7 DEF LineStill
<1>2. ASSUME NEW then, Laptop!Turn(then), Headless(buffer) \/ Rejected
      PROVE  LineStill'
  <2>1. Headless(buffer')
    BY <1>2, TurnHeads DEF HeadsName, Rejected
  <2>2. uart' = uart
    BY <1>2 DEF Laptop!Turn
  <2>3. QED
    BY <1>0, <2>1, <2>2 DEF LineStill
<1>3. ASSUME Laptop!Turn("deadline"), Stale, host = "feed"
      PROVE  LineStill'
  <2> DEFINE units == Laptop!Candidate
  <2>1. PICK c \in 0 .. Len(buffer) :
           Rest(buffer, c, units) /\ \A n \in 1 .. c : buffer[n] # Laptop!Magic
    BY <1>0, CandidateFirst
  <2>2. /\ Len(buffer) >= 2 /\ buffer[1] = Laptop!Magic /\ buffer[2][1] = "head"
        /\ HeadAt(buffer, 2)
    BY <1>3 DEF Stale, Laptop!ValidHeader, Laptop!HeaderSize
  <2>3. c = 0
    BY <1>0, <2>1, <2>2
  <2>4. /\ units \in Seq(Unit) /\ Len(units) = Len(buffer)
        /\ units[1] = buffer[1] /\ units[2] = buffer[2]
        /\ HeadAt(units, 2)
    <3>1. /\ units \in Seq(Unit) /\ Len(units) = Len(buffer) - 0
          /\ \A n \in 1 .. Len(units) : units[n] = buffer[n + 0]
      BY <2>1, <2>3 DEF Rest
    <3>2. HeadAt(units, 2 - 0)
      BY <1>0, <2>1, <2>2, <2>3, HeadRest
    <3>3. QED
      BY <1>0, <2>2, <3>1, <3>2
  <2>5. /\ UNCHANGED <<uart, started>>
        /\ \/ /\ Laptop!Waits(units) /\ buffer' = units /\ host' = "deadline"
           \/ /\ Rest(units, 1, buffer') /\ host' = host
           \/ /\ Laptop!RecordSize(units) >= 2 /\ Laptop!RecordSize(units) \in Nat
              /\ Rest(units, Laptop!RecordSize(units), buffer')
    BY <1>3, TurnResult DEF HeadsName
  <2> HIDE DEF units
  <2>6. CASE buffer' = units /\ host' = "deadline"
    <3>1. Laptop!ValidHeader(buffer') /\ HeadAt(buffer', 2)
      BY <2>2, <2>4, <2>6 DEF Laptop!ValidHeader, Laptop!HeaderSize
    <3>2. Stale'
      BY <1>3, <2>5, <2>6, <3>1 DEF Stale, Laptop!ValidHeader, Laptop!Magic
    <3>3. QED
      BY <1>0, <2>5, <3>2 DEF LineStill
  <2>7. CASE Rest(units, 1, buffer') /\ host' = host
    <3>1. HeadAt(buffer', 2 - 1)
      BY <2>4, <2>7, HeadRest
    <3>2. Rejected'
      BY <1>3, <2>7, <3>1 DEF Rejected
    <3>3. QED
      BY <1>0, <2>5, <3>2 DEF LineStill
  <2>8. CASE /\ Laptop!RecordSize(units) >= 2 /\ Laptop!RecordSize(units) \in Nat
             /\ Rest(units, Laptop!RecordSize(units), buffer')
    <3>1. Headless(buffer')
      BY <2>4, <2>8, HeadRest
    <3>2. QED
      BY <1>0, <2>5, <3>1 DEF LineStill
  <2>9. QED
    BY <2>5, <2>6, <2>7, <2>8
<1>4. CASE Laptop!Feed
  BY <1>2, <1>3, <1>4 DEF Laptop!Feed, LineStill
<1>5. CASE Laptop!FeedRest
  BY <1>2, <1>5 DEF Laptop!FeedRest, LineStill, Stale
<1>6. ASSUME UNCHANGED <<buffer, uart>>, Headless(buffer)
      PROVE  LineStill'
  BY <1>0, <1>6 DEF LineStill
<1>7. CASE Laptop!Observe
  <2>1. uart' = uart
    BY <1>7 DEF Laptop!Observe
  <2>2. CASE Headless(buffer)
    <3>1. ~Laptop!Incomplete
      BY <2>2 DEF Headless, Laptop!Incomplete, Laptop!ValidHeader, Laptop!HeaderSize
    <3>2. QED
      BY <1>6, <1>7, <2>2, <3>1 DEF Laptop!Observe
  <2>3. CASE Stale
    <3>1. Laptop!Incomplete /\ started \in Nat /\ started # NoTimer /\ host = "deadline"
      <4>1. host = "deadline" /\ Len(buffer) >= 2 /\ started \in Nat
        BY <1>7, <2>3 DEF Laptop!Observe, Stale, Laptop!ValidHeader, Laptop!HeaderSize
      <4>2. QED
        BY <1>0, <4>1 DEF LaptopInv
    <3>2. CASE started >= Timeout
      <4>1. host' = "rest" /\ buffer' = Tail(buffer)
        BY <1>7, <3>1, <3>2 DEF Laptop!Observe, Laptop!Due
      <4>2. Rest(buffer, 1, buffer')
        BY <1>0, <2>3, <4>1 DEF Rest, Stale, Laptop!ValidHeader, Laptop!HeaderSize
      <4>3. HeadAt(buffer', 2 - 1)
        BY <1>0, <2>3, <4>2, HeadRest DEF Stale
      <4>4. QED
        BY <1>0, <2>1, <4>1, <4>3 DEF LineStill, Rejected
    <3>3. CASE ~(started >= Timeout)
      <4>1. host' = "read" /\ UNCHANGED <<started, buffer>> /\ started < Timeout
        BY <1>0, <1>7, <3>1, <3>3 DEF Laptop!Observe, Laptop!Due
      <4>2. Stale'
        BY <2>3, <4>1 DEF Stale, Laptop!ValidHeader, Laptop!Magic
      <4>3. QED
        BY <1>0, <2>1, <4>2 DEF LineStill
    <3>4. QED
      BY <3>2, <3>3
  <2>4. ~Rejected
    BY <1>7 DEF Laptop!Observe, Rejected
  <2>5. QED
    BY <2>2, <2>3, <2>4 DEF LineStill
<1>8. CASE Laptop!ObserveAgain
  <2>1. Headless(buffer)
    BY <1>8 DEF Laptop!ObserveAgain, LineStill, Stale, Rejected
  <2>2. QED
    BY <1>6, <1>8, <2>1 DEF Laptop!ObserveAgain
<1>9. QED
  BY <1>1, <1>4, <1>5, <1>7, <1>8 DEF Laptop!HostSteps

LEMMA GoodRest ==
  ASSUME GatewayInv, LeftInv, LineType, HeadsName, Laptop!HostSteps \/ Laptop!ReadNothing,
         UNCHANGED serverOnly, Good(uart), uart' = uart
  PROVE  Good(uart)'
<1>1. /\ UNCHANGED <<LastTaken, Awaited>> /\ (Server!Writing' <=> Server!Writing)
      /\ \A job : SentOf(job)' = SentOf(job)
  BY ServerSame
<1>2. \A job : Saved(job) => Saved(job)'
  BY SavedStays
<1>3. ASSUME NEW job, Arrives(uart, job, SentOf(job), Server!Writing)
      PROVE  Arrives(uart, job, SentOf(job), Server!Writing)'
  BY <1>1, <1>3 DEF Arrives, Holds, HeadAt, Server!Record, Server!Header, Server!Magic
<1>4. OwnAt(uart, LastTaken)'
  BY <1>1 DEF Good, OwnAt
<1>5. QED
  BY <1>1, <1>2, <1>3, <1>4 DEF Good

\* While a record comes, the laptop neither expires it nor loses its front, and
\* gives up no byte of it before it is saved.
LEMMA ComingLaptop ==
  ASSUME ApartEnough, GatewayInv, LeftInv, LineType, HeadsName, LaptopInv,
         RecordComing, LaptopWorks
  PROVE  RecordComing'
<1>0. /\ buffer \in Seq(Unit) /\ uart \in Seq(Unit) /\ Len(buffer) \in Nat
      /\ NoTimer \notin Nat /\ Timeout \in Nat /\ Timeout >= 2
      /\ Wire \in Seq(Unit)
  BY SerialLineAssumption, Joined DEF LineType, ApartEnough, Wire
<1>1. /\ Laptop!HostSteps /\ UNCHANGED serverOnly /\ paced' = paced
      /\ UNCHANGED <<LastTaken, Awaited>> /\ (Server!Writing' <=> Server!Writing)
      /\ \A job : SentOf(job)' = SentOf(job)
  BY ServerSame DEF LaptopWorks, lineVars
<1>2. \A job : Saved(job) => Saved(job)'
  BY <1>1, SavedStays
<1>3. Headless(buffer) => ~Laptop!Incomplete
  BY DEF Headless, Laptop!Incomplete, Laptop!ValidHeader, Laptop!HeaderSize
<1>4. ASSUME Good(Wire), Wire' = Wire
      PROVE  Good(Wire)'
  <2>1. OwnAt(Wire, LastTaken)'
    BY <1>1, <1>4 DEF Good, OwnAt
  <2>2. ASSUME NEW job, Arrives(Wire, job, SentOf(job), Server!Writing)
        PROVE  Arrives(Wire, job, SentOf(job), Server!Writing)'
    BY <1>1, <1>4, <2>2 DEF Arrives, Holds, HeadAt, Server!Record, Server!Header, Server!Magic
  <2>3. QED
    BY <1>1, <1>2, <1>4, <2>1, <2>2 DEF Good
<1>5. CASE Laptop!Read
  <2>1. PICK n \in 1 .. Len(uart) :
           /\ buffer' = buffer \o SubSeq(uart, 1, n)
           /\ uart' = Laptop!From(uart, n + 1)
    BY <1>5 DEF Laptop!Read
  <2>2. n \in 0 .. Len(uart)
    OBVIOUS
  <2>3. Wire' = Wire
    BY <1>0, <2>1, <2>2, Moved DEF Wire
  <2>4. Good(Wire) /\ Calm
    <3>1. CASE Forgotten /\ Good(uart)
      <4>1. Headless(buffer)
        BY <1>5, <3>1 DEF Forgotten, Rejected, Expiring, Laptop!Read
      <4>2. started = NoTimer
        BY <1>3, <1>5, <4>1 DEF Laptop!Read, LaptopInv
      <4>3. Calm
        BY <1>5, <4>2 DEF Calm, Laptop!Read
      <4>4. QED
        BY <3>1, <4>1, <4>3, GoodBehind
    <3>2. QED
      BY <3>1 DEF RecordComing
  <2>5. Calm'
    BY <1>1, <1>5, <2>4 DEF Calm, Laptop!Read
  <2>6. QED
    BY <1>4, <2>3, <2>4, <2>5 DEF RecordComing
<1>6. ASSUME NEW then, Laptop!Turn(then),
             \/ host = "feed" /\ then = "deadline"
             \/ host = "rest" /\ then = "again"
      PROVE  RecordComing'
  <2>1. /\ UNCHANGED <<uart, started>> /\ buffer' \in Seq(Unit)
        /\ host' \in {host, then}
    BY <1>6, TurnResult DEF HeadsName
  <2>2. CASE Forgotten /\ Good(uart)
    <3>1. Headless(buffer) \/ HeadAt(buffer, 1)
      BY <1>6, <2>2 DEF Forgotten, Rejected, Expiring
    <3>2. Headless(buffer')
      BY <1>6, <3>1, TurnHeads DEF HeadsName
    <3>3. Good(uart)'
      BY <1>1, <2>1, <2>2, GoodRest
    <3>4. QED
      BY <3>2, <3>3 DEF RecordComing, Forgotten, Headless
  <2>3. CASE Calm /\ Good(Wire)
    <3>1. Calm'
      BY <1>1, <1>6, <2>1, <2>3 DEF Calm
    <3>2. OwnAt(Wire, LastTaken)'
      <4>1. PICK k \in Nat : Rest(buffer, k, buffer')
        BY <1>6, TurnMoves DEF HostMove, HeadsName
      <4>2. Rest(Wire, k, Wire')
        BY <1>0, <2>1, <4>1, RestJoined DEF Wire
      <4>3. OwnAt(Wire', LastTaken)
        BY <1>0, <2>3, <4>2, OwnRest DEF Good
      <4>4. QED
        BY <1>1, <4>3
    <3>3. ASSUME NEW job \in Awaited,
                 Arrives(Wire, job, SentOf(job), Server!Writing)
          PROVE  Saved(job)' \/ Arrives(Wire', job, SentOf(job), Server!Writing)
      <4>1. /\ job \in Job /\ SentOf(job) \in Nat
            /\ Server!Writing \/ SentOf(job) = Len(Server!Record(job))
        BY AwaitedJobs
      <4>2. Server!Writing \in BOOLEAN
        BY DEF Server!Writing
      <4>3. QED
        BY <1>6, <3>3, <4>1, <4>2, RecordFed DEF HeadsName
    <3>4. \A job \in Awaited' :
             Saved(job)' \/ Arrives(Wire', job, SentOf(job)', Server!Writing')
      <4>1. Server!Writing' = Server!Writing
        BY <1>1 DEF Server!Writing
      <4>2. ASSUME NEW job \in Awaited
            PROVE  Saved(job)' \/ Arrives(Wire', job, SentOf(job), Server!Writing)
        BY <1>2, <2>3, <3>3 DEF Good
      <4>3. QED
        BY <1>1, <4>1, <4>2
    <3>5. Good(Wire)'
      BY <3>2, <3>4 DEF Good
    <3>6. QED
      BY <3>1, <3>5 DEF RecordComing
  <2>4. QED
    BY <2>2, <2>3 DEF RecordComing
<1>7. CASE Laptop!Feed
  BY <1>6, <1>7 DEF Laptop!Feed
<1>8. CASE Laptop!FeedRest
  BY <1>6, <1>8 DEF Laptop!FeedRest
<1>9. CASE Laptop!Observe
  <2>1. uart' = uart /\ host = "deadline"
    BY <1>9 DEF Laptop!Observe
  <2>2. CASE Forgotten /\ Good(uart)
    <3>1. Good(uart)'
      BY <1>1, <2>1, <2>2, GoodRest
    <3>2. Forgotten'
      <4>1. CASE Headless(buffer)
        BY <1>3, <1>9, <4>1 DEF Laptop!Observe, Forgotten, Headless
      <4>2. CASE Expiring
        <5>1. host' = "rest" /\ buffer' = Tail(buffer)
          BY <1>0, <1>9, <4>2 DEF Laptop!Observe, Laptop!Due, Expiring
        <5>2. Rest(buffer, 1, buffer')
          BY <1>0, <4>2, <5>1
          DEF Rest, Expiring, Laptop!Incomplete, Laptop!ValidHeader, Laptop!HeaderSize
        <5>3. HeadAt(buffer', 2 - 1)
          BY <1>0, <4>2, <5>2, HeadRest DEF Expiring
        <5>4. QED
          BY <5>1, <5>3 DEF Forgotten, Rejected
      <4>3. QED
        BY <2>1, <2>2, <4>1, <4>2 DEF Forgotten, Rejected
    <3>3. QED
      BY <3>1, <3>2 DEF RecordComing
  <2>3. CASE Calm /\ Good(Wire)
    <3>1. started = NoTimer \/ ~Laptop!Due(started)
      BY <1>0, <2>3 DEF Calm, Laptop!Due
    <3>2. host' = "read" /\ buffer' = buffer /\ started' \in {NoTimer, 0, started}
      BY <1>9, <3>1 DEF Laptop!Observe
    <3>3. Wire' = Wire
      BY <2>1, <3>2 DEF Wire
    <3>4. Calm'
      BY <1>1, <2>3, <3>2 DEF Calm
    <3>5. QED
      BY <1>4, <2>3, <3>3, <3>4 DEF RecordComing
  <2>4. QED
    BY <2>2, <2>3 DEF RecordComing
<1>10. CASE Laptop!ObserveAgain
  <2>1. UNCHANGED <<buffer, uart>> /\ ~Calm /\ ~Rejected /\ ~Expiring
    BY <1>10 DEF Laptop!ObserveAgain, Calm, Rejected, Expiring
  <2>2. Headless(buffer) /\ Good(uart)
    BY <2>1 DEF RecordComing, Forgotten
  <2>3. Good(uart)'
    BY <1>1, <2>1, <2>2, GoodRest
  <2>4. QED
    BY <2>1, <2>2, <2>3 DEF RecordComing, Forgotten, Headless
<1>11. QED
  BY <1>1, <1>5, <1>7, <1>8, <1>9, <1>10 DEF Laptop!HostSteps

-----------------------------------------------------------------------------
(* The steps of the gateway, and time *)

LEMMA ArrivesNext ==
  ASSUME NEW s \in Seq(Unit), NEW job \in Job, NEW n \in Nat,
         n < Len(Server!Record(job)), NEW e \in Unit, e = Server!Record(job)[n + 1],
         Arrives(s, job, n, TRUE)
  PROVE  Arrives(s \o <<e>>, job, n + 1, TRUE)
<1>1. PICK k \in Nat : Holds(s, job, k, n) /\ k + n = Len(s)
  BY DEF Arrives
<1>2. Holds(s \o <<e>>, job, k, n + 1) /\ k + (n + 1) = Len(s \o <<e>>)
  BY <1>1, HoldsNext
<1>3. QED
  BY <1>2 DEF Arrives

LEMMA ArrivesBefore ==
  ASSUME NEW s \in Seq(Unit), NEW t \in Seq(Unit), Headless(t), NEW job \in Job,
         NEW n \in Nat, Arrives(s, job, n, FALSE)
  PROVE  Arrives(s \o t, job, n, FALSE)
BY HoldsBefore DEF Arrives

LEMMA NoiseUnit ==
  /\ Server!Noise \in Unit /\ Server!Noise[1] # "head"
  /\ <<Server!Noise>> \in Seq(Unit) /\ Headless(<<Server!Noise>>)
<1>1. Server!Noise \in Unit /\ Server!Noise[1] # "head"
  BY Units DEF Server!Noise
<1>2. Len(<<Server!Noise>>) = 1 /\ <<Server!Noise>>[1] = Server!Noise
  OBVIOUS
<1>3. QED
  BY <1>1, <1>2 DEF Headless

\* What is sent now reaches the front or the back of the record alike, whether
\* or not the laptop has forgotten what was before it.
LEMMA ComingGrows ==
  ASSUME LineType, RecordComing, NEW sent \in Seq(Unit), uart' = uart \o sent,
         UNCHANGED <<buffer, host, started>>, Calm => Calm',
         \A s \in Seq(Unit) : Good(s) => Good(s \o sent)'
  PROVE  RecordComing'
<1>1. uart \in Seq(Unit) /\ buffer \in Seq(Unit) /\ Wire \in Seq(Unit)
      /\ Wire' = Wire \o sent
  BY Associative, Joined DEF LineType, Wire
<1>2. ASSUME NEW s \in Seq(Unit), NEW t, Good(s), t = s \o sent
      PROVE  Good(t)'
  BY <1>2
<1>3. CASE Forgotten /\ Good(uart)
  <2>1. Good(uart)'
    BY <1>1, <1>2, <1>3 DEF Good
  <2>2. Forgotten'
    BY <1>3 DEF Forgotten, Headless, Rejected, Expiring, HeadAt, Laptop!Incomplete,
      Laptop!ValidHeader, Laptop!RecordSize
  <2>3. QED
    BY <2>1, <2>2 DEF RecordComing
<1>4. CASE Calm /\ Good(Wire)
  <2>1. Good(Wire)'
    BY <1>1, <1>2, <1>4 DEF Good
  <2>2. QED
    BY <1>4, <2>1 DEF RecordComing
<1>5. QED
  BY <1>3, <1>4 DEF RecordComing

LEMMA ComingByte ==
  ASSUME GatewayInv, GatewayInv', LeftInv, LineType, RecordComing, ByteSent
  PROVE  RecordComing'
<1>1. PICK sent \in SentUnits : Server!WriteUnit(sent)
  BY DEF ByteSent, SentUnits
<1>2. PICK J \in Job, n \in Nat, e \in Unit :
        J = writer.job /\ n = SentOf(J) /\ e = Head(writer.left)
  BY <1>1, UnitSent
<1>3. /\ Server!Writing /\ Server!Writing' /\ writer'.job = J
      /\ n < Len(Server!Record(J)) /\ e = Server!Record(J)[n + 1]
      /\ writer'.whole = (writer.whole /\ sent = <<e>>)
  BY <1>1, <1>2, UnitSent
<1>4. SentOf(J)' = n + 1
  BY <1>1, <1>2, <1>3, UnitSent
  DEF SentOf, Server!Record, Server!Header, Server!Magic
<1>5. uart' = uart \o sent /\ UNCHANGED <<buffer, host, started, saved, paced>>
  BY <1>1 DEF Server!WriteUnit, ByteSent, hostVars
<1>6. LastTaken' = LastTaken
  <2>1. OutputStep /\ ~Server!TakeJob
    BY <1>1, <1>3 DEF OutputStep, Server!TakeJob, Server!Writing
  <2>2. QED
    BY <2>1, LastTakenNext
<1>7. e[1] = "head" => e[3] = LastTaken
  <2>1. n + 1 \in 1 .. Len(Server!Record(J))
    BY <1>3, RecordUnits
  <2>2. e[1] = "head" => e = <<"head", J.image, J.seq>>
    BY <1>3, <2>1, RecordUnits
  <2>3. J.seq = LastTaken
    BY <1>2, <1>3 DEF Server!Writing, GatewayInv, Accounts, InOrder
  <2>4. QED
    BY <2>2, <2>3
<1>8. sent \in Seq(Unit) /\ (sent = <<e>> \/ sent = <<Server!Noise>> \/ sent = <<>>)
  <2>1. <<e>> \in Seq(Unit) /\ <<Server!Noise>> \in Seq(Unit) /\ <<>> \in Seq(Unit)
    BY NoiseUnit
  <2>2. QED
    BY <1>2, <2>1 DEF SentUnits
<1>9. \A job \in Awaited' : job = J /\ J \in Awaited /\ sent = <<e>>
  BY <1>2, <1>3 DEF Awaited
<1>10. \A job : Saved(job) => Saved(job)'
  BY <1>5 DEF Saved
<1>11. ASSUME NEW s \in Seq(Unit), OwnAt(s, LastTaken)
       PROVE  OwnAt(s \o sent, LastTaken')
  <2>1. CASE sent = <<e>>
    BY <1>6, <1>7, <1>11, <2>1, OwnMore
  <2>2. CASE sent = <<Server!Noise>>
    BY <1>6, <1>11, <2>2, NoiseUnit, OwnMore
  <2>3. CASE sent = <<>>
    <3>1. s \o sent = s
      BY <1>11, <2>3, ConcatProperties
    <3>2. QED
      BY <1>6, <1>11, <3>1
  <2>4. QED
    BY <1>8, <2>1, <2>2, <2>3
<1>12. Server!Writing = TRUE /\ Server!Writing' = TRUE
  BY <1>3 DEF Server!Writing
<1>13. ASSUME NEW s \in Seq(Unit), Good(s)
       PROVE  Good(s \o sent)'
  <2>1. OwnAt(s \o sent, LastTaken')
    BY <1>11, <1>13 DEF Good
  <2>2. ASSUME NEW job \in Awaited'
        PROVE  Saved(job)' \/ Arrives(s \o sent, job, SentOf(job)', TRUE)
    <3>1. job = J /\ sent = <<e>> /\ J \in Awaited
      BY <1>9, <2>2
    <3>2. Saved(J) \/ Arrives(s, J, n, TRUE)
      BY <1>2, <1>12, <1>13, <3>1 DEF Good
    <3>3. Saved(J)' \/ Arrives(s \o sent, J, n + 1, TRUE)
      BY <1>3, <1>10, <3>1, <3>2, ArrivesNext
    <3>4. QED
      BY <1>4, <3>1, <3>3
  <2>3. QED
    BY <1>12, <2>1, <2>2 DEF Good
<1>14. Calm => Calm'
  BY <1>5, <1>12 DEF Calm
<1>15. QED
  BY <1>5, <1>8, <1>13, <1>14, ComingGrows

\* Other output is noise to the parser, whether a record comes or not.
LEMMA ComingLog ==
  ASSUME GatewayInv, LeftInv, LineType, RecordComing, OtherOutput
  PROVE  RecordComing'
<1>1. /\ ~Server!Writing /\ UNCHANGED <<buffer, host, started, saved, paced>>
      /\ UNCHANGED serverOnly /\ uart \in Seq(Unit)
      /\ uart' = uart \o <<Server!Noise>>
  <2>1. /\ ~Server!Writing /\ UNCHANGED <<buffer, host, started, saved, paced>>
        /\ UNCHANGED serverOnly /\ uart \in Seq(Unit)
        /\ uart' = Append(uart, Server!Noise)
    BY DEF OtherOutput, Server!WriteLog, hostVars, serverOnly, LineType
  <2>2. QED
    BY <2>1, NoiseUnit, AppendIsConcat
<1>2. /\ UNCHANGED <<LastTaken, Awaited>> /\ (Server!Writing' <=> Server!Writing)
      /\ \A job : SentOf(job)' = SentOf(job)
  BY <1>1, ServerSame
<1>3. Server!Writing = FALSE /\ Server!Writing' = FALSE
  BY <1>1, <1>2 DEF Server!Writing
<1>4. \A job : Saved(job) => Saved(job)'
  BY <1>1 DEF Saved
<1>5. ASSUME NEW s \in Seq(Unit), Good(s)
      PROVE  Good(s \o <<Server!Noise>>)'
  <2>1. OwnAt(s \o <<Server!Noise>>, LastTaken')
    BY <1>2, <1>5, NoiseUnit, OwnMore DEF Good
  <2>2. ASSUME NEW job \in Awaited
        PROVE  Saved(job)' \/ Arrives(s \o <<Server!Noise>>, job, SentOf(job), FALSE)
    <3>1. Saved(job) \/ Arrives(s, job, SentOf(job), FALSE)
      BY <1>3, <1>5 DEF Good
    <3>2. job \in Job /\ SentOf(job) \in Nat
      BY AwaitedJobs
    <3>3. QED
      BY <1>4, <3>1, <3>2, NoiseUnit, ArrivesBefore
  <2>3. Server!Noise' = Server!Noise
    BY DEF Server!Noise
  <2>4. QED
    BY <1>2, <1>3, <2>1, <2>2, <2>3 DEF Good
<1>6. Calm => Calm'
  BY <1>1, <1>3 DEF Calm
<1>7. QED
  <2>1. <<Server!Noise>> \in Seq(Unit) /\ Server!Noise' = Server!Noise
    BY NoiseUnit DEF Server!Noise
  <2>2. PICK sent \in Seq(Unit) : sent = <<Server!Noise>>
    BY <2>1
  <2>3. ASSUME NEW s \in Seq(Unit), Good(s)
        PROVE  Good(s \o sent)'
    BY <1>5, <2>1, <2>2, <2>3 DEF Good
  <2>4. QED
    BY <1>1, <1>6, <2>2, <2>3, ComingGrows

LEMMA StillLog ==
  ASSUME LineType, LineStill, OtherOutput
  PROVE  LineStill'
<1>1. /\ UNCHANGED <<buffer, host, started, quiet>> /\ uart \in Seq(Unit)
      /\ uart' = uart \o <<Server!Noise>>
  <2>1. /\ UNCHANGED <<buffer, host, started, quiet>> /\ uart \in Seq(Unit)
        /\ uart' = Append(uart, Server!Noise)
    BY DEF OtherOutput, Server!WriteLog, hostVars, LineType
  <2>2. QED
    BY <2>1, NoiseUnit, AppendIsConcat
<1>2. Headless(uart')
  BY <1>1, NoiseUnit, HeadJoined DEF LineStill
<1>3. Headless(buffer) \/ Rejected \/ Stale => (Headless(buffer) \/ Rejected \/ Stale)'
  BY <1>1 DEF Headless, Rejected, Stale, HeadAt, Laptop!ValidHeader, Laptop!Magic
<1>4. QED
  BY <1>2, <1>3 DEF LineStill

\* When the writer returns, what has come of an unharmed record is all of it.
LEMMA ComingReturns ==
  ASSUME GatewayInv, GatewayInv', LeftInv, LineType, OldSaved, RecordComing, WriteReturns
  PROVE  RecordComing'
<1>1. /\ Server!Writing /\ writer \in WriterTask /\ writer # NoJob
      /\ Server!FinishWrite
      /\ writer' \in WriterTask /\ writer' # NoJob
      /\ writer'.pc = "report" /\ writer'.job = writer.job
      /\ writer'.whole = (writer.whole /\ writer.left = <<>>)
      /\ UNCHANGED <<buffer, host, started, saved, uart, tally>>
  <2>1. Server!FinishWrite /\ UNCHANGED <<buffer, host, started, saved, uart, tally>>
    BY DEF WriteReturns, hostVars, Server!FinishWrite
  <2>2. writer \in WriterTask /\ writer' \in WriterTask
    BY <2>1, WriterWrites DEF GatewayInv
  <2>3. QED
    BY <2>1, <2>2, Jobs DEF Server!FinishWrite, Server!Writing, WriterTask
<1>2. Server!Writing = TRUE /\ Server!Writing' = FALSE
  BY <1>1 DEF Server!Writing
<1>3. LastTaken' = LastTaken
  <2>1. OutputStep /\ ~Server!TakeJob
    BY <1>1 DEF OutputStep, Server!TakeJob
  <2>2. QED
    BY <2>1, LastTakenNext
<1>4. \A job : Saved(job) => Saved(job)'
  BY <1>1 DEF Saved
<1>5. PICK J \in Job : J = writer.job
  BY <1>1 DEF WriterTask
<1>6. SentOf(J)' = Len(Server!Record(J)) /\ Len(Server!Record(J)) \in Nat
  <2>1. Len(Server!Record(J)) \in Nat
    BY RecordUnits
  <2>2. SentOf(J)' = Len(Server!Record(J)) - 0
    BY <1>2 DEF SentOf, Server!Record, Server!Header, Server!Magic
  <2>3. QED
    BY <2>1, <2>2
<1>7. writer.left = <<>> => SentOf(J) = Len(Server!Record(J))
  BY <1>2, <1>5, <1>6 DEF SentOf
<1>8. ASSUME NEW job \in Awaited'
      PROVE  Saved(job)' \/ (job = J /\ J \in Awaited /\ writer.left = <<>>)
  <2>1. CASE job \in tally.intact
    BY <1>2, <1>4, <2>1 DEF OldSaved
  <2>2. CASE job \notin tally.intact
    BY <1>1, <1>2, <1>5, <1>8, <2>2 DEF Awaited
  <2>3. QED
    BY <2>1, <2>2
<1>9. ASSUME NEW s \in Seq(Unit), Good(s)
      PROVE  Good(s)'
  <2>1. OwnAt(s, LastTaken')
    BY <1>3, <1>9 DEF Good
  <2>2. ASSUME NEW job \in Awaited'
        PROVE  Saved(job)' \/ Arrives(s, job, SentOf(job)', FALSE)
    <3>1. CASE job = J /\ J \in Awaited /\ writer.left = <<>>
      <4>1. Saved(J) \/ Arrives(s, J, SentOf(J), TRUE)
        BY <1>2, <1>9, <3>1 DEF Good
      <4>2. Saved(J)' \/ Arrives(s, J, SentOf(J)', TRUE)
        BY <1>4, <1>6, <1>7, <3>1, <4>1
      <4>3. QED
        BY <3>1, <4>2 DEF Arrives
    <3>2. QED
      BY <1>8, <2>2, <3>1
  <2>3. QED
    BY <1>2, <2>1, <2>2 DEF Good
<1>10. Calm => Calm'
  BY <1>1, <1>2 DEF Calm
<1>11. <<>> \in Seq(Unit) /\ uart' = uart \o <<>>
       /\ \A s \in Seq(Unit) : s \o <<>> = s
  BY <1>1, ConcatProperties DEF LineType
<1>12. ASSUME NEW s \in Seq(Unit), Good(s)
       PROVE  Good(s \o <<>>)'
  BY <1>9, <1>11, <1>12
<1>13. UNCHANGED <<buffer, host, started>>
  BY <1>1
<1>14. QED
  BY <1>10, <1>11, <1>12, <1>13, ComingGrows

\* Steps of the gateway's tasks that do not reach the line
LEMMA ComingSame ==
  ASSUME RecordComing, UNCHANGED <<buffer, host, started, saved, uart, paced>>,
         LastTaken' = LastTaken, Server!Writing' <=> Server!Writing,
         Awaited' \subseteq Awaited, \A job \in Awaited' : SentOf(job)' = SentOf(job)
  PROVE  RecordComing'
<1>1. Wire' = Wire
  BY DEF Wire
<1>2. Server!Writing' = Server!Writing
  BY DEF Server!Writing
<1>3. \A job : Saved(job) => Saved(job)'
  BY DEF Saved
<1>4. ASSUME NEW s, Good(s)
      PROVE  Good(s)'
  <2>1. OwnAt(s, LastTaken')
    BY <1>4 DEF Good
  <2>2. ASSUME NEW job \in Awaited'
        PROVE  Saved(job)' \/ Arrives(s, job, SentOf(job)', Server!Writing')
    BY <1>2, <1>3, <1>4, <2>2 DEF Good
  <2>3. QED
    BY <2>1, <2>2 DEF Good
<1>5. Calm => Calm'
  BY <1>2 DEF Calm
<1>6. Forgotten => Forgotten'
  BY DEF Forgotten, Headless, Rejected, Expiring, HeadAt, Laptop!Incomplete,
    Laptop!ValidHeader, Laptop!RecordSize
<1>7. Good(Wire) => Good(Wire)'
  BY <1>1, <1>4 DEF Good
<1>8. Good(uart) => Good(uart)'
  BY <1>4 DEF Good
<1>9. QED
  BY <1>5, <1>6, <1>7, <1>8 DEF RecordComing

LEMMA StillSame ==
  ASSUME LineStill, UNCHANGED <<buffer, host, started, uart, quiet>>
  PROVE  LineStill'
BY DEF LineStill, Headless, Rejected, Stale, HeadAt, Laptop!ValidHeader, Laptop!Magic

LEMMA JobTaken ==
  ASSUME GatewayInv, Server!TakeJob
  PROVE  /\ writer' # NoJob
         /\ \E job \in Job : writer' = [job |-> job, pc |-> "write",
                                      left |-> Server!Record(job), whole |-> TRUE]
<1>1. PICK job \in Job : job = Head(pendingSlots)
  BY DEF Server!TakeJob, GatewayInv, OutputType
<1>2. writer' = [job |-> job, pc |-> "write", left |-> Server!Record(job), whole |-> TRUE]
  BY <1>1 DEF Server!TakeJob
<1>3. Server!Record(job) \in Seq(Unit)
  BY RecordUnits
<1>4. writer' \in WriterTask
  BY <1>2, <1>3 DEF WriterTask
<1>5. QED
  BY <1>2, <1>4, Jobs

\* An image or its callback: the writer's record is the same one.
LEMMA RecoveryCallback ==
  ASSUME GatewayInv, GatewayInv', RecoveryInv, ImageCompletes \/ CallbackContinues
  PROVE  OldSaved' /\ IF Settling' THEN RecordComing' ELSE LineStill'
<1>1. UNCHANGED <<buffer, host, started, saved, uart, quiet, paced, writer>>
      /\ tally'.intact = tally.intact
  BY DEF ImageCompletes, CallbackContinues, Server!DropImage, Server!TakeSlot,
    Server!RaiseFlag, Server!QueueSlot, hostVars, lineVars, GatewayInv, OutputType, Tally
<1>2. LastTaken' = LastTaken
  <2>1. OutputStep
    BY DEF ImageCompletes, CallbackContinues, OutputStep
  <2>2. ~Server!TakeJob
    BY <1>1, JobTaken DEF Server!TakeJob
  <2>3. QED
    BY <2>1, <2>2, LastTakenNext
<1>3. /\ Server!Writing' <=> Server!Writing
      /\ Awaited' = Awaited /\ \A job : SentOf(job)' = SentOf(job)
  BY <1>1 DEF Server!Writing, Awaited, SentOf, Server!Record, Server!Header, Server!Magic
<1>4. Settling' <=> Settling
  BY <1>1, <1>3 DEF Settling
<1>5. OldSaved'
  BY <1>1, <1>3 DEF RecoveryInv, OldSaved, Saved
<1>6. CASE Settling
  BY <1>1, <1>2, <1>3, <1>4, <1>5, <1>6, ComingSame DEF RecoveryInv
<1>7. CASE ~Settling
  BY <1>1, <1>4, <1>5, <1>7, StillSame DEF RecoveryInv
<1>8. QED
  BY <1>6, <1>7

\* After the record, the report of drops and the slot
LEMMA RecoveryContinues ==
  ASSUME GatewayInv, GatewayInv', RecoveryInv, WriterContinues
  PROVE  OldSaved' /\ IF Settling' THEN RecordComing' ELSE LineStill'
<1>1. /\ UNCHANGED <<buffer, host, started, saved, uart, quiet, paced>>
      /\ writer # NoJob /\ writer \in WriterTask /\ ~Server!Writing
      /\ Server!ReportDrops \/ Server!ReturnSlot
  BY DEF WriterContinues, Server!ReportDrops, Server!ReturnSlot, Server!Writing,
    hostVars, lineVars, GatewayInv, OutputType
<1>2. quiet = 0 /\ Settling
  BY <1>1 DEF RecoveryInv, GapInv, Settling
<1>3. ~Server!Writing' /\ Awaited' \subseteq Awaited
  <2>1. CASE Server!ReportDrops
    <3>1. writer'.pc = "return"
      BY <1>1, <2>1 DEF Server!ReportDrops, WriterTask
    <3>2. ~Server!Writing'
      BY <3>1 DEF Server!Writing
    <3>3. tally'.intact \subseteq tally.intact \cup IF writer.whole THEN {writer.job} ELSE {}
      <4>1. tally \in Tally
        BY DEF GatewayInv, OutputType
      <4>2. tally'.intact = IF writer.whole THEN tally.intact \cup {writer.job}
                                            ELSE tally.intact
        BY <2>1, <4>1 DEF Server!ReportDrops, Tally
      <4>3. QED
        BY <4>2
    <3>4. writer # NoJob /\ writer.pc = "report"
      BY <2>1 DEF Server!ReportDrops
    <3>5. Awaited = tally.intact \cup IF writer.whole THEN {writer.job} ELSE {}
      BY <1>1, <3>4 DEF Awaited
    <3>6. Awaited' = tally'.intact
      BY <3>1, <3>2 DEF Awaited
    <3>7. QED
      BY <3>2, <3>3, <3>5, <3>6
  <2>2. CASE Server!ReturnSlot
    <3>1. writer' = NoJob /\ tally' = tally
      BY <2>2 DEF Server!ReturnSlot
    <3>2. QED
      BY <1>1, <3>1 DEF Server!Writing, Awaited
  <2>3. QED
    BY <1>1, <2>1, <2>2
<1>4. \A job : SentOf(job)' = SentOf(job)
  BY <1>1, <1>3 DEF SentOf, Server!Record, Server!Header, Server!Magic
<1>5. LastTaken' = LastTaken
  <2>1. OutputStep /\ ~Server!TakeJob
    BY <1>1 DEF OutputStep, Server!TakeJob
  <2>2. QED
    BY <2>1, LastTakenNext
<1>6. RecordComing'
  BY <1>1, <1>2, <1>3, <1>4, <1>5, ComingSame DEF RecoveryInv
<1>7. Settling' /\ OldSaved'
  BY <1>1, <1>2, <1>3 DEF Settling, OldSaved
<1>8. QED
  BY <1>6, <1>7

\* A record starts when the laptop has got over what was before it, or is just
\* about to.
LEMMA RecoveryStarts ==
  ASSUME ApartEnough, GatewayInv, GatewayInv', LineType, RecoveryInv, WriterStarts
  PROVE  OldSaved' /\ IF Settling' THEN RecordComing' ELSE LineStill'
<1>0. /\ Timeout \in Nat /\ Timeout >= 2 /\ NoTimer \notin Nat /\ quiet \in Nat
      /\ uart \in Seq(Unit) /\ Len(uart) \in Nat
  BY SerialLineAssumption DEF ApartEnough, RecoveryInv, GapInv, LineType
<1>1. /\ UNCHANGED <<buffer, host, started, saved, uart, quiet, tally>>
      /\ writer = NoJob /\ pendingSlots # <<>> /\ Server!TakeJob
  BY DEF WriterStarts, Server!TakeJob, hostVars
<1>2. PICK J \in Job :
         writer' = [job |-> J, pc |-> "write", left |-> Server!Record(J), whole |-> TRUE]
  BY <1>1, JobTaken
<1>3. Server!Writing' = TRUE
  BY <1>1, <1>2, JobTaken DEF Server!Writing
<1>4. quiet >= Timeout /\ quiet > 0 /\ ~Settling
  BY <1>0, <1>1 DEF RecoveryInv, GapInv, Settling, Server!Writing
<1>5. LineStill /\ LaptopInv /\ \A job \in tally.intact : Saved(job)
  BY <1>4 DEF RecoveryInv, OldSaved
<1>6. Forgotten
  <2>1. CASE Stale
    <3>1. started \in Nat /\ started >= Timeout
      BY <1>0, <1>4, <2>1 DEF Stale
    <3>2. host = "deadline" /\ Len(buffer) >= 2
      BY <1>0, <2>1, <3>1 DEF Stale, Laptop!ValidHeader, Laptop!HeaderSize
    <3>3. Laptop!Incomplete
      BY <1>5, <2>1, <3>2 DEF LaptopInv, Stale, Laptop!Incomplete
    <3>4. QED
      BY <2>1, <3>1, <3>2, <3>3 DEF Forgotten, Expiring, Stale
  <2>2. QED
    BY <1>5, <2>1 DEF LineStill, Forgotten
<1>7. Forgotten'
  BY <1>1, <1>6 DEF Forgotten, Headless, Rejected, Expiring, HeadAt, Laptop!Incomplete,
    Laptop!ValidHeader, Laptop!RecordSize
<1>8. Awaited' = {J} /\ SentOf(J)' = 0
  <2>1. Len(Server!Record(J)) \in Nat
    BY RecordUnits
  <2>2. SentOf(J)' = Len(Server!Record(J)) - Len(Server!Record(J))
    BY <1>2, <1>3 DEF SentOf, Server!Record, Server!Header, Server!Magic
  <2>3. QED
    BY <1>2, <1>3, <2>1, <2>2 DEF Awaited
<1>9. Holds(uart, J, Len(uart), 0)
  <2>1. HeadAt(uart, Len(uart) + 2)
    BY <1>5 DEF LineStill, Headless, HeadAt
  <2>2. Len(Server!Record(J)) \in Nat
    BY RecordUnits
  <2>3. QED
    BY <1>0, <2>1, <2>2 DEF Holds
<1>10. Arrives(uart, J, 0, TRUE)
  BY <1>0, <1>9 DEF Arrives
<1>11. OwnAt(uart, LastTaken')
  BY <1>5 DEF LineStill, Headless, OwnAt
<1>12. Good(uart)'
  <2>1. \A job \in Awaited' : Arrives(uart, job, SentOf(job)', Server!Writing')
    BY <1>3, <1>8, <1>10
  <2>2. QED
    BY <1>1, <1>11, <2>1 DEF Good
<1>13. OldSaved' /\ Settling'
  BY <1>1, <1>3, <1>5 DEF OldSaved, Saved, Settling
<1>14. QED
  BY <1>7, <1>12, <1>13 DEF RecordComing

\* When the line is still after a record, what came unharmed is saved: nothing
\* of it is left on the line, and the parser does not wait for more of it.
LEMMA CaughtUp ==
  ASSUME GatewayInv, LeftInv, LineType, LaptopInv, RecordComing, ~Server!Writing,
         host = "read", uart = <<>>, NEW job \in Awaited
  PROVE  Saved(job)
<1>0. /\ buffer \in Seq(Unit) /\ Len(buffer) \in Nat /\ Wire = buffer
      /\ job \in Job /\ SentOf(job) = Len(Server!Record(job))
  BY AwaitedJobs, ConcatProperties DEF LineType, Wire
<1>1. /\ Len(Server!Record(job)) \in Nat /\ Len(Server!Record(job)) >= 2
      /\ Len(Server!Record(job)) = 2 + Len(Payload[job.image])
      /\ Server!Record(job)[2] = <<"head", job.image, job.seq>>
  BY <1>0, RecordUnits
<1> DEFINE r == Server!Record(job)
<1> HIDE DEF r
<1>2. CASE Forgotten /\ Good(uart)
  <2>1. SUFFICES ASSUME Arrives(uart, job, Len(r), FALSE) PROVE FALSE
    BY <1>0, <1>2 DEF Good, Server!Writing, r
  <2>2. PICK k \in Nat : k + Len(r) <= Len(uart)
    BY <2>1 DEF Arrives, Holds, r
  <2>3. QED
    BY <1>1, <2>2 DEF r
<1>3. CASE Calm /\ Good(Wire)
  <2>1. SUFFICES ASSUME Arrives(buffer, job, Len(r), FALSE) PROVE FALSE
    BY <1>0, <1>3 DEF Good, Server!Writing, r
  <2>2. PICK k \in Nat : Holds(buffer, job, k, Len(r))
    BY <2>1 DEF Arrives
  <2>3. /\ k + Len(r) <= Len(buffer) /\ HeadAt(buffer, k + 2)
        /\ \A i \in 1 .. Len(r) : buffer[k + i] = r[i]
    BY <2>2 DEF Holds, r
  <2>4. Len(r) \in Nat /\ Len(r) >= 2 /\ r[2] = <<"head", job.image, job.seq>>
        /\ Len(r) = 2 + Len(Payload[job.image])
    BY <1>1 DEF r
  <2>5. Len(buffer) >= 2 /\ Laptop!Incomplete
    BY <1>0, <2>3, <2>4 DEF LaptopInv
  <2>6. buffer[2][1] = "head" /\ Len(buffer) < Laptop!RecordSize(buffer)
    BY <2>5 DEF Laptop!Incomplete, Laptop!ValidHeader
  <2>7. k = 0
    BY <1>0, <2>3, <2>5, <2>6 DEF HeadAt
  <2>8. buffer[2] = r[2]
    <3>1. 2 \in 1 .. Len(r) /\ k + 2 = 2
      BY <2>4, <2>7
    <3>2. QED
      BY <2>3, <3>1
  <2>9. Laptop!RecordSize(buffer) = Len(r)
    BY <2>4, <2>8 DEF Laptop!RecordSize, Laptop!HeaderSize
  <2>10. QED
    BY <1>0, <2>3, <2>4, <2>6, <2>7, <2>9
<1>4. QED
  BY <1>2, <1>3 DEF RecordComing

\* Two headers in the buffer would have one number.
LEMMA OneHead ==
  ASSUME LineInv, OwnAt(Wire, LastTaken), Len(buffer) >= 2, buffer[2][1] = "head"
  PROVE  HeadAt(buffer, 2)
<1>1. /\ LineType /\ Rising(Wire, lastSeq, LastSent)
  BY DEF LineInv, LineOrder
<1>2. /\ buffer \in Seq(Unit) /\ uart \in Seq(Unit) /\ Len(buffer) \in Nat
      /\ Len(uart) \in Nat /\ Wire \in Seq(Unit) /\ Len(Wire) = Len(buffer) + Len(uart)
      /\ \A n \in 1 .. Len(buffer) + Len(uart) :
           Wire[n] = IF n <= Len(buffer) THEN buffer[n] ELSE uart[n - Len(buffer)]
  BY <1>1, Joined DEF LineType, Wire
<1>3. \A n \in 1 .. Len(buffer) : n \in 1 .. Len(Wire) /\ Wire[n] = buffer[n]
                                  /\ Wire[n][3] \in Nat
  <2>1. ASSUME NEW n \in 1 .. Len(buffer)
        PROVE  n \in 1 .. Len(Wire) /\ Wire[n] = buffer[n]
    BY <1>2
  <2>2. ASSUME NEW n \in 1 .. Len(Wire)
        PROVE  Wire[n][3] \in Nat
    <3>1. Wire[n] \in Unit
      BY <1>2
    <3>2. QED
      BY <3>1 DEF Unit
  <2>3. QED
    BY <2>1, <2>2
<1>4. SUFFICES ASSUME NEW n \in 1 .. Len(buffer), buffer[n][1] = "head", n # 2
               PROVE  FALSE
  BY DEF HeadAt
<1>5. 2 \in 1 .. Len(buffer)
  BY <1>2
<1>6. Wire[n][3] = LastTaken /\ Wire[2][3] = LastTaken
  BY <1>3, <1>4, <1>5 DEF OwnAt
<1>7. n < 2 \/ 2 < n
  BY <1>4
<1>8. Wire[n][3] # Wire[2][3]
  BY <1>1, <1>3, <1>4, <1>5, <1>7 DEF Rising
<1>9. QED
  BY <1>6, <1>8

\* A tick while a record is being written: it is the only one.
LEMMA TickWriting ==
  ASSUME ApartEnough, LineType, RecoveryInv, Tick, Server!Writing
  PROVE  OldSaved' /\ IF Settling' THEN RecordComing' ELSE LineStill'
<1>0. Timeout \in Nat /\ Timeout >= 2 /\ NoTimer \notin Nat
  BY SerialLineAssumption DEF ApartEnough
<1>1. /\ host = "read" /\ host' = "deadline" /\ UNCHANGED <<uart, buffer, saved, quiet>>
      /\ UNCHANGED serverOnly /\ Laptop!ReadNothing
      /\ ~paced /\ paced' = TRUE
  BY DEF Tick, Laptop!ReadNothing, Server!Writing
<1>2. /\ UNCHANGED <<LastTaken, Awaited, tally>> /\ (Server!Writing' <=> Server!Writing)
      /\ \A job : SentOf(job)' = SentOf(job)
  BY <1>1, ServerSame
<1>3. Server!Writing = TRUE /\ Server!Writing' = TRUE
  BY <1>2 DEF Server!Writing
<1>4. Settling /\ Settling' /\ OldSaved' /\ RecordComing
  BY <1>1, <1>2, <1>3 DEF Settling, RecoveryInv, OldSaved, Saved
<1>5. \A job : Saved(job) => Saved(job)'
  BY <1>1 DEF Saved
<1>6. ASSUME NEW s, Good(s)
      PROVE  Good(s)'
  <2>1. OwnAt(s, LastTaken')
    BY <1>2, <1>6 DEF Good
  <2>2. ASSUME NEW job \in Awaited'
        PROVE  Saved(job)' \/ Arrives(s, job, SentOf(job)', TRUE)
    BY <1>2, <1>3, <1>5, <1>6, <2>2 DEF Good
  <2>3. QED
    BY <1>3, <2>1, <2>2 DEF Good
<1>7. CASE Forgotten /\ Good(uart)
  <2>1. Headless(buffer')
    BY <1>1, <1>7 DEF Forgotten, Rejected, Expiring
  <2>2. Good(uart)'
    BY <1>1, <1>6, <1>7 DEF Good
  <2>3. QED
    BY <1>4, <2>1, <2>2 DEF RecordComing, Forgotten, Headless
<1>8. CASE Calm /\ Good(Wire)
  <2>1. started = NoTimer \/ started = 0
    BY <1>1, <1>3, <1>8 DEF Calm
  <2>2. started' = NoTimer \/ started' = 1
    <3>1. LaptopInv
      BY DEF RecoveryInv
    <3>2. CASE started = NoTimer
      BY <1>1, <3>1, <3>2, TimerRuns
    <3>3. CASE started = 0
      <4>1. started' \in {started + 1, Timeout} /\ started' <= started + 1
        BY <1>0, <1>1, <3>1, <3>3, TimerRuns
      <4>2. QED
        BY <1>0, <3>3, <4>1
    <3>4. QED
      BY <2>1, <3>2, <3>3
  <2>3. Calm'
    BY <1>1, <2>2 DEF Calm
  <2>4. Wire' = Wire
    BY <1>1 DEF Wire
  <2>5. Good(Wire)'
    BY <1>6, <1>8, <2>4 DEF Good
  <2>6. QED
    BY <1>4, <2>3, <2>5 DEF RecordComing
<1>9. QED
  BY <1>4, <1>7, <1>8 DEF RecordComing

\* The first tick after a record
LEMMA TickAfter ==
  ASSUME ApartEnough, GatewayInv, LineInv, RecoveryInv, Tick, ~Server!Writing, quiet = 0
  PROVE  OldSaved' /\ IF Settling' THEN RecordComing' ELSE LineStill'
<1>0. /\ Timeout \in Nat /\ Timeout >= 2 /\ NoTimer \notin Nat
      /\ \A gap \in Gaps : gap >= Timeout
      /\ LineType /\ LaptopInv /\ LeftInv
  BY SerialLineAssumption DEF ApartEnough, LineInv, RecoveryInv
<1>1. /\ host = "read" /\ host' = "deadline" /\ uart = <<>>
      /\ UNCHANGED <<uart, buffer, saved>>
      /\ UNCHANGED serverOnly /\ Laptop!ReadNothing
      /\ quiet' = Min({quiet + 1, Max(Gaps)})
  BY DEF Tick, Laptop!ReadNothing
<1>2. UNCHANGED tally /\ ~Server!Writing'
  BY <1>1, ServerSame
<1>3. quiet' = 1
  <2>1. Max(Gaps) \in Nat /\ Max(Gaps) >= 2
    BY <1>0, LongestGap
  <2>2. Min({1, Max(Gaps)}) \in {1, Max(Gaps)} /\ Min({1, Max(Gaps)}) <= 1
    BY <2>1, Lesser
  <2>3. Min({1, Max(Gaps)}) = 1
    BY <2>1, <2>2
  <2>4. QED
    BY <1>1, <2>3
<1>4. RecordComing
  BY DEF RecoveryInv, Settling
<1>5. \A job \in tally.intact : Saved(job)
  <2>1. tally.intact \subseteq Awaited
    BY DEF Awaited
  <2>2. QED
    BY <1>0, <1>1, <1>4, <2>1, CaughtUp
<1>6. OldSaved' /\ ~Settling'
  BY <1>1, <1>2, <1>3, <1>5 DEF OldSaved, Saved, Settling
<1>7. Headless(buffer) \/ Stale'
  <2>1. CASE Forgotten
    BY <1>1, <2>1 DEF Forgotten, Rejected, Expiring
  <2>2. CASE Good(Wire) /\ ~Laptop!Incomplete
    <3>1. Len(buffer) < 2 /\ (buffer # <<>> => buffer[1] = Laptop!Magic)
      BY <1>0, <1>1, <2>2 DEF LaptopInv
    <3>2. buffer \in Seq(Unit) /\ Laptop!Magic[1] # "head"
      BY <1>0 DEF LineType, Laptop!Magic
    <3>3. ASSUME NEW n \in 1 .. Len(buffer)
          PROVE  buffer[n][1] # "head"
      <4>1. n = 1 /\ buffer # <<>>
        BY <3>1, <3>2
      <4>2. QED
        BY <3>1, <3>2, <4>1
    <3>4. QED
      BY <3>3 DEF Headless
  <2>3. CASE Good(Wire) /\ Laptop!Incomplete
    <3>1. Laptop!ValidHeader(buffer)
      BY <2>3 DEF Laptop!Incomplete
    <3>2. HeadAt(buffer, 2)
      <4>1. Len(buffer) >= 2 /\ buffer[2][1] = "head"
        BY <3>1 DEF Laptop!ValidHeader, Laptop!HeaderSize
      <4>2. OwnAt(Wire, LastTaken)
        BY <2>3 DEF Good
      <4>3. QED
        BY <4>1, <4>2, OneHead
    <3>3. started' \in Nat /\ (started' >= 1 \/ started' >= Timeout)
      <4>1. started # NoTimer /\ started \in Nat
        BY <1>0, <1>1, <2>3 DEF LaptopInv
      <4>2. started' \in {started + 1, Timeout}
        BY <1>0, <1>1, <4>1, TimerRuns
      <4>3. QED
        BY <1>0, <4>1, <4>2
    <3>4. Laptop!ValidHeader(buffer') /\ HeadAt(buffer', 2)
      BY <1>1, <3>1, <3>2
    <3>5. QED
      BY <1>1, <1>3, <3>3, <3>4 DEF Stale, Laptop!ValidHeader, Laptop!Magic
  <2>4. QED
    BY <1>4, <2>1, <2>2, <2>3 DEF RecordComing
<1>8. LineStill'
  <2>1. Headless(uart')
    BY <1>1 DEF Headless
  <2>2. QED
    BY <1>1, <1>7, <2>1 DEF LineStill, Headless
<1>9. QED
  BY <1>6, <1>8

\* A later tick: the timer of what waits runs on.
LEMMA TickLater ==
  ASSUME ApartEnough, LineType, RecoveryInv, Tick, ~Server!Writing, quiet # 0
  PROVE  OldSaved' /\ IF Settling' THEN RecordComing' ELSE LineStill'
<1>0. /\ Timeout \in Nat /\ Timeout >= 2 /\ NoTimer \notin Nat
      /\ \A gap \in Gaps : gap >= Timeout
      /\ LaptopInv /\ LineStill /\ quiet \in Nat /\ quiet > 0
      /\ \A job \in tally.intact : Saved(job)
  BY SerialLineAssumption DEF ApartEnough, RecoveryInv, Settling, GapInv, OldSaved
<1>1. /\ host = "read" /\ host' = "deadline"
      /\ UNCHANGED <<uart, buffer, saved>>
      /\ UNCHANGED serverOnly /\ Laptop!ReadNothing
      /\ quiet' = Min({quiet + 1, Max(Gaps)})
  BY DEF Tick, Laptop!ReadNothing
<1>2. UNCHANGED tally /\ ~Server!Writing'
  BY <1>1, ServerSame
<1>3. quiet' \in Nat /\ quiet' > 0 /\ quiet' <= quiet + 1
  <2>1. Max(Gaps) \in Nat /\ Max(Gaps) >= 2
    BY <1>0, LongestGap
  <2>2. PICK q \in Nat : q = quiet + 1
    BY <1>0
  <2>3. Min({q, Max(Gaps)}) \in {q, Max(Gaps)} /\ Min({q, Max(Gaps)}) <= q
    BY <2>1, Lesser
  <2>4. QED
    BY <1>0, <1>1, <2>1, <2>2, <2>3
<1>4. OldSaved' /\ ~Settling'
  BY <1>0, <1>1, <1>2, <1>3 DEF OldSaved, Saved, Settling
<1>5. CASE Stale
  <2>1. started \in Nat /\ started < Timeout /\ started >= quiet
    BY <1>0, <1>1, <1>5 DEF Stale
  <2>2. started' \in Nat /\ started' \in {started + 1, Timeout}
    BY <1>0, <1>1, <2>1, TimerRuns
  <2>3. started' >= quiet' \/ started' >= Timeout
    BY <1>0, <1>3, <2>1, <2>2
  <2>4. Laptop!ValidHeader(buffer') /\ HeadAt(buffer', 2)
    BY <1>1, <1>5 DEF Stale
  <2>5. Stale'
    BY <1>1, <2>2, <2>3, <2>4 DEF Stale, Laptop!ValidHeader, Laptop!Magic
  <2>6. QED
    BY <1>0, <1>1, <1>4, <2>5 DEF LineStill, Headless
<1>6. CASE Headless(buffer)
  BY <1>0, <1>1, <1>4, <1>6 DEF LineStill, Headless
<1>7. QED
  BY <1>0, <1>1, <1>5, <1>6 DEF LineStill, Rejected

LEMMA RecoveryTick ==
  ASSUME ApartEnough, GatewayInv, LineInv, RecoveryInv, Tick
  PROVE  OldSaved' /\ IF Settling' THEN RecordComing' ELSE LineStill'
<1>1. LineType
  BY DEF LineInv
<1>2. CASE Server!Writing
  BY <1>1, <1>2, TickWriting
<1>3. CASE ~Server!Writing /\ quiet = 0
  BY <1>3, TickAfter
<1>4. CASE ~Server!Writing /\ quiet # 0
  BY <1>1, <1>4, TickLater
<1>5. QED
  BY <1>2, <1>3, <1>4

-----------------------------------------------------------------------------
(* The invariant, and what it is for *)

LEMMA HeadsNamed == LineInv => HeadsName
<1> SUFFICES ASSUME LineInv PROVE HeadsName
  OBVIOUS
<1>1. /\ buffer \in Seq(Unit) /\ uart \in Seq(Unit) /\ Rising(Wire, lastSeq, LastSent)
  BY DEF LineInv, LineType, LineOrder
<1>2. /\ Len(buffer) \in Nat /\ Len(uart) \in Nat /\ Len(Wire) = Len(buffer) + Len(uart)
      /\ \A n \in 1 .. Len(buffer) + Len(uart) :
           Wire[n] = IF n <= Len(buffer) THEN buffer[n] ELSE uart[n - Len(buffer)]
  BY <1>1, Joined DEF Wire
<1>3. ASSUME NEW n \in 1 .. Len(buffer)
      PROVE  n \in 1 .. Len(Wire) /\ Wire[n] = buffer[n]
  BY <1>2
<1>4. QED
  BY <1>1, <1>3 DEF Rising, HeadsName

LEMMA RecoveryInit == Init => RecoveryInv
<1> SUFFICES ASSUME Init PROVE RecoveryInv
  OBVIOUS
<1>1. LaptopInv /\ GapInv /\ LeftInv
  BY LaptopInit, GapInit
<1>2. uart = <<>> /\ buffer = <<>> /\ host = "read" /\ saved = <<>> /\ writer = NoJob
      /\ tally.intact = {} /\ started = NoTimer /\ ~Server!Writing
  BY DEF Init, Server!OutputInit, Laptop!HostInit, Server!Writing
<1>3. OldSaved
  BY <1>2 DEF OldSaved
<1>4. Headless(uart) /\ Headless(buffer)
  BY <1>2 DEF Headless
<1>5. Awaited = {} /\ OwnAt(uart, LastTaken)
  BY <1>2 DEF Awaited, OwnAt
<1>6. RecordComing /\ LineStill
  BY <1>4, <1>5 DEF RecordComing, Forgotten, Good, LineStill
<1>7. QED
  BY <1>1, <1>3, <1>6 DEF RecoveryInv

LEMMA RecoveryNext ==
  ASSUME ApartEnough, GatewayInv, GatewayInv', LineInv, RecoveryInv, [Next]_vars
  PROVE  RecoveryInv'
<1>1. /\ LineType /\ HeadsName /\ LaptopInv /\ GapInv /\ LeftInv /\ OldSaved
      /\ IF Settling THEN RecordComing ELSE LineStill
  BY HeadsNamed DEF LineInv, RecoveryInv
<1>2. GapInv' /\ LeftInv'
  BY <1>1, GapNext, LeftInvNext
<1>3. LaptopInv'
  <2>1. CASE LaptopWorks \/ Tick
    BY <1>1, <2>1, LaptopInvNext DEF LaptopWorks, Tick
  <2>2. CASE \/ ImageCompletes \/ CallbackContinues \/ WriterStarts \/ ByteSent
             \/ WriteReturns \/ WriterContinues \/ OtherOutput \/ UNCHANGED vars
    <3>1. UNCHANGED hostVars
      BY <2>2 DEF ImageCompletes, CallbackContinues, WriterStarts, ByteSent, WriteReturns,
        WriterContinues, OtherOutput, vars
    <3>2. QED
      BY <1>1, <3>1, LaptopInvNext
  <2>3. QED
    BY <2>1, <2>2 DEF Next
<1>4. OldSaved' /\ IF Settling' THEN RecordComing' ELSE LineStill'
  <2>1. CASE ImageCompletes \/ CallbackContinues
    BY <2>1, RecoveryCallback
  <2>2. CASE WriterStarts
    BY <1>1, <2>2, RecoveryStarts
  <2>3. CASE ByteSent
    <3>1. PICK sent \in SentUnits : Server!WriteUnit(sent)
      BY <2>3 DEF ByteSent, SentUnits
    <3>2. Server!Writing /\ Server!Writing'
      BY <1>1, <3>1, UnitSent
    <3>3. RecordComing'
      BY <1>1, <2>3, <3>2, ComingByte DEF Settling
    <3>4. UNCHANGED <<tally, saved>>
      BY <2>3, <3>1 DEF ByteSent, Server!WriteUnit, hostVars
    <3>5. QED
      BY <1>1, <3>2, <3>3, <3>4 DEF Settling, OldSaved, Saved
  <2>4. CASE WriteReturns
    <3>1. Server!Writing /\ quiet' = 0
      BY <2>4 DEF WriteReturns, Server!FinishWrite
    <3>2. ~Server!Writing'
      <4>1. writer \in WriterTask /\ writer'.pc = "report"
        BY <2>4 DEF WriteReturns, Server!FinishWrite, Server!Writing, GatewayInv,
          OutputType, WriterTask
      <4>2. QED
        BY <4>1 DEF Server!Writing
    <3>3. RecordComing'
      BY <1>1, <2>4, <3>1, ComingReturns DEF Settling
    <3>4. QED
      BY <3>1, <3>2, <3>3 DEF Settling, OldSaved
  <2>5. CASE WriterContinues
    BY <2>5, RecoveryContinues
  <2>6. CASE OtherOutput
    <3>1. UNCHANGED <<quiet, tally, writer, saved>>
      BY <2>6 DEF OtherOutput, Server!WriteLog, hostVars
    <3>2. (Settling' <=> Settling) /\ OldSaved'
      BY <1>1, <3>1 DEF Settling, OldSaved, Saved, Server!Writing
    <3>3. QED
      BY <1>1, <2>6, <3>2, ComingLog, StillLog
  <2>7. CASE LaptopWorks
    <3>1. UNCHANGED <<quiet, tally, writer>> /\ Laptop!HostSteps
      BY <2>7 DEF LaptopWorks, serverOnly, lineVars
    <3>2. \A job : Saved(job) => Saved(job)'
      BY <1>1, <3>1, SavedStays
    <3>3. (Settling' <=> Settling) /\ OldSaved'
      BY <1>1, <3>1, <3>2 DEF Settling, OldSaved, Server!Writing
    <3>4. QED
      BY <1>1, <2>7, <3>1, <3>3, ComingLaptop, StillLaptop
  <2>8. CASE Tick
    BY <2>8, RecoveryTick
  <2>9. CASE UNCHANGED vars
    <3>1. /\ UNCHANGED <<buffer, host, started, saved, uart, quiet, paced, tally, writer>>
          /\ UNCHANGED serverOnly
      BY <2>9 DEF vars, serverOnly, hostVars, lineVars
    <3>2. /\ UNCHANGED <<LastTaken, Awaited>> /\ (Server!Writing' <=> Server!Writing)
          /\ \A job : SentOf(job)' = SentOf(job)
      BY <3>1, ServerSame
    <3>3. (Settling' <=> Settling) /\ OldSaved'
      BY <1>1, <3>1, <3>2 DEF Settling, OldSaved, Saved
    <3>4. QED
      BY <1>1, <3>1, <3>2, <3>3, ComingSame, StillSame
  <2>10. QED
    BY <2>1, <2>2, <2>3, <2>4, <2>5, <2>6, <2>7, <2>8, <2>9 DEF Next
<1>5. QED
  BY <1>2, <1>3, <1>4 DEF RecoveryInv

\* If the images come a deadline apart, a record that came over the line
\* unharmed is saved when the line is still and the parser waits for nothing:
\* whatever was damaged, cut short or logged before it is out of the parser's
\* way when it starts, or goes without a byte of it, and the deadline does not
\* run out on the record itself (feed, expire_incomplete_record,
\* PartialRecordDeadline.observe).
THEOREM IntactAreSaved ==
  ASSUME ApartEnough
  PROVE  Spec => []IntactSaved
<1>1. GatewayInv /\ LineInv /\ RecoveryInv => IntactSaved
  <2> SUFFICES ASSUME GatewayInv, LineInv, RecoveryInv,
                      host = "read", uart = <<>>, writer = NoJob,
                      NEW job \in tally.intact
               PROVE  \E n \in DOMAIN saved : saved[n] = job
    BY DEF IntactSaved
  <2>1. ~Server!Writing /\ quiet \in Nat
    BY DEF Server!Writing, RecoveryInv, GapInv
  <2>2. CASE quiet > 0
    BY <2>2 DEF RecoveryInv, OldSaved, Saved
  <2>3. CASE quiet = 0
    <3>1. RecordComing /\ LineType /\ LaptopInv /\ LeftInv
      BY <2>3 DEF RecoveryInv, Settling, LineInv
    <3>2. job \in Awaited
      BY <2>1 DEF Awaited
    <3>3. Saved(job)
      BY <2>1, <3>1, <3>2, CaughtUp
    <3>4. QED
      BY <3>3 DEF Saved
  <2>4. QED
    BY <2>1, <2>2, <2>3
<1>2. GatewayInv /\ GatewayInv' /\ LineInv /\ RecoveryInv /\ [Next]_vars => RecoveryInv'
  BY RecoveryNext
<1>3. QED
  BY <1>1, <1>2, RecoveryInit, LineInit, LineNext, GatewayInvariant, PTL DEF Spec
=============================================================================
