--------------------- MODULE CertificateSubmitterProofs ---------------------
(***************************************************************************)
(* Proofs about CertificateSubmitter: one certificate is generated at a    *)
(* time, and the signatures that are collected are those of the chain.     *)
(***************************************************************************)
EXTENDS CertificateSubmitter, TLAPS

IsSeq(q) == \E S : q \in Seq(S)

----------------------------------------------------------------------------
(* Sequences *)

\* A message that is added comes last.
LEMMA Added ==
    ASSUME NEW q, IsSeq(q), NEW m
    PROVE  /\ IsSeq(Append(q, m))
           /\ Len(q) \in Nat /\ Len(Append(q, m)) = Len(q) + 1
           /\ DOMAIN q = 1 .. Len(q) /\ DOMAIN Append(q, m) = 1 .. Len(q) + 1
           /\ \A i \in 1 .. Len(q) : Append(q, m)[i] = q[i]
           /\ Append(q, m)[Len(q) + 1] = m
<1>1. PICK S : q \in Seq(S)
  BY DEF IsSeq
<1>2. q \in Seq(S \cup {m})
  BY <1>1
<1>3. Append(q, m) \in Seq(S \cup {m})
  BY <1>2
<1>4. IsSeq(Append(q, m))
  BY <1>3, Zenon DEF IsSeq
<1>5. Len(q) \in Nat /\ Len(Append(q, m)) = Len(q) + 1 /\ DOMAIN q = 1 .. Len(q)
  BY <1>2
<1>6. DOMAIN Append(q, m) = 1 .. Len(q) + 1
  BY <1>3, <1>5
<1>7. /\ \A i \in 1 .. Len(q) : Append(q, m)[i] = q[i]
      /\ Append(q, m)[Len(q) + 1] = m
  BY <1>2
<1> QED
  BY <1>4, <1>5, <1>6, <1>7

\* What is left when the first message is taken.
LEMMA Taken ==
    ASSUME NEW q, IsSeq(q), q # << >>
    PROVE  /\ IsSeq(Tail(q))
           /\ Len(q) \in Nat \ {0} /\ Len(Tail(q)) = Len(q) - 1
           /\ DOMAIN q = 1 .. Len(q) /\ DOMAIN Tail(q) = 1 .. Len(q) - 1
           /\ \A i \in 1 .. Len(q) - 1 : Tail(q)[i] = q[i + 1]
<1>1. PICK S : q \in Seq(S)
  BY DEF IsSeq
<1>2. Tail(q) \in Seq(S)
  BY <1>1
<1>3. IsSeq(Tail(q))
  BY <1>2, Zenon DEF IsSeq
<1>4. Len(q) \in Nat \ {0} /\ Len(Tail(q)) = Len(q) - 1 /\ DOMAIN q = 1 .. Len(q)
  BY <1>1
<1>5. DOMAIN Tail(q) = 1 .. Len(q) - 1
  BY <1>2, <1>4
<1>6. \A i \in 1 .. Len(q) - 1 : Tail(q)[i] = q[i + 1]
  BY <1>1
<1> QED
  BY <1>3, <1>4, <1>5, <1>6

\* One sequence after another.
LEMMA Joined ==
    ASSUME NEW q, IsSeq(q), NEW r, IsSeq(r)
    PROVE  /\ IsSeq(q \o r)
           /\ Len(q) \in Nat /\ Len(r) \in Nat /\ Len(q \o r) = Len(q) + Len(r)
           /\ DOMAIN q = 1 .. Len(q) /\ DOMAIN r = 1 .. Len(r)
           /\ \A i \in 1 .. Len(q) : (q \o r)[i] = q[i]
           /\ \A i \in Len(q) + 1 .. Len(q) + Len(r) : (q \o r)[i] = r[i - Len(q)]
<1>1. PICK S : q \in Seq(S)
  BY DEF IsSeq
<1>2. PICK T : r \in Seq(T)
  BY DEF IsSeq
<1>3. q \in Seq(S \cup T) /\ r \in Seq(S \cup T)
  BY <1>1, <1>2
<1>4. q \o r \in Seq(S \cup T)
  BY <1>3
<1>5. IsSeq(q \o r)
  BY <1>4, Zenon DEF IsSeq
<1>6. Len(q) \in Nat /\ Len(r) \in Nat /\ Len(q \o r) = Len(q) + Len(r)
      /\ DOMAIN q = 1 .. Len(q) /\ DOMAIN r = 1 .. Len(r)
  BY <1>3
<1>7. \A i \in 1 .. Len(q) : (q \o r)[i] = q[i]
  BY <1>3
<1>8. \A i \in Len(q) + 1 .. Len(q) + Len(r) : (q \o r)[i] = r[i - Len(q)]
  BY <1>3
<1> QED
  BY <1>5, <1>6, <1>7, <1>8

\* A sequence without one of its elements.
LEMMA LeftOut ==
    ASSUME NEW q, IsSeq(q), NEW k \in 1 .. Len(q)
    PROVE  /\ IsSeq(Without(q, k))
           /\ Len(q) \in Nat /\ Len(Without(q, k)) = Len(q) - 1
           /\ \A i \in 1 .. Len(q) - 1 : Without(q, k)[i] = IF i < k THEN q[i] ELSE q[i + 1]
<1>1. PICK S : q \in Seq(S)
  BY DEF IsSeq
<1>2. Len(q) \in Nat
  BY <1>1
<1>3. SubSeq(q, 1, k - 1) \in Seq(S) /\ SubSeq(q, k + 1, Len(q)) \in Seq(S)
  BY <1>1, <1>2
<1>4. Len(SubSeq(q, 1, k - 1)) = k - 1 /\ Len(SubSeq(q, k + 1, Len(q))) = Len(q) - k
  BY <1>1, <1>2
<1>5. /\ \A i \in 1 .. k - 1 : SubSeq(q, 1, k - 1)[i] = q[i]
      /\ \A i \in 1 .. Len(q) - k : SubSeq(q, k + 1, Len(q))[i] = q[k + i]
  BY <1>1, <1>2
<1> DEFINE a == SubSeq(q, 1, k - 1)
<1> DEFINE b == SubSeq(q, k + 1, Len(q))
<1>6. IsSeq(a) /\ IsSeq(b)
  BY <1>3, Zenon DEF IsSeq
<1>7. Without(q, k) = a \o b
  BY Zenon DEF Without
<1> HIDE DEF a, b
<1>9. IsSeq(Without(q, k)) /\ Len(a \o b) = Len(a) + Len(b)
      /\ (\A i \in 1 .. Len(a) : (a \o b)[i] = a[i])
      /\ (\A i \in Len(a) + 1 .. Len(a) + Len(b) : (a \o b)[i] = b[i - Len(a)])
  BY <1>6, <1>7, Joined, Zenon
<1>10. Len(a) = k - 1 /\ Len(b) = Len(q) - k
       /\ (\A i \in 1 .. k - 1 : a[i] = q[i]) /\ (\A i \in 1 .. Len(q) - k : b[i] = q[k + i])
  BY <1>4, <1>5, Zenon DEF a, b
<1>11. Len(Without(q, k)) = Len(q) - 1
  BY <1>2, <1>7, <1>9, <1>10
<1>12. ASSUME NEW i \in 1 .. Len(q) - 1
       PROVE  Without(q, k)[i] = IF i < k THEN q[i] ELSE q[i + 1]
  <2>1. CASE i < k
    <3>1. i \in 1 .. k - 1 /\ i \in 1 .. Len(a)
      BY <2>1, <1>2, <1>10
    <3> QED
      BY <3>1, <2>1, <1>7, <1>9, <1>10
  <2>2. CASE ~(i < k)
    <3>1. i \in Len(a) + 1 .. Len(a) + Len(b) /\ i - Len(a) \in 1 .. Len(q) - k
          /\ k + (i - Len(a)) = i + 1
      BY <2>2, <1>2, <1>10
    <3>2. (a \o b)[i] = b[i - Len(a)]
      BY <3>1, <1>9, Zenon
    <3>3. b[i - Len(a)] = q[k + (i - Len(a))]
      BY <3>1, <1>10, Zenon
    <3> QED
      BY <3>1, <3>2, <3>3, <2>2, <1>7
  <2> QED
    BY <2>1, <2>2
<1> QED
  BY <1>2, <1>9, <1>11, <1>12

----------------------------------------------------------------------------
(* The mailbox: all messages have the same priority. *)

\* The mailbox is a queue.
LEMMA FirstIsNext ==
    ASSUME IsSeq(mailbox), mailbox # << >>
    PROVE  Message = mailbox[1] /\ Rest = Tail(mailbox)
<1>1. Len(mailbox) \in Nat \ {0} /\ DOMAIN mailbox = 1 .. Len(mailbox)
      /\ Len(Tail(mailbox)) = Len(mailbox) - 1
      /\ DOMAIN Tail(mailbox) = 1 .. Len(mailbox) - 1
      /\ \A i \in 1 .. Len(mailbox) - 1 : Tail(mailbox)[i] = mailbox[i + 1]
  BY Taken, Zenon
<1>2. NextInLine = 1
  BY <1>1 DEF NextInLine, Priority
<1>3. Message = mailbox[1]
  BY <1>2, Zenon DEF Message
<1>4. Rest = [i \in 1 .. Len(mailbox) - 1 |-> mailbox[i + 1]]
  BY <1>1, <1>2 DEF Rest
<1>5. PICK S : mailbox \in Seq(S)
  BY DEF IsSeq
<1>6. Tail(mailbox) = [i \in 1 .. Len(mailbox) - 1 |-> mailbox[i + 1]]
  <2> DEFINE r == Tail(mailbox)
  <2>1. r \in Seq(S)
    BY <1>5
  <2>2. DOMAIN r = 1 .. Len(mailbox) - 1 /\ \A i \in 1 .. Len(mailbox) - 1 : r[i] = mailbox[i + 1]
    BY <1>1
  <2> HIDE DEF r
  <2>3. PICK n \in Nat : r \in [1 .. n -> S]
    BY <2>1
  <2>4. r = [i \in DOMAIN r |-> r[i]]
    BY <2>3
  <2>5. r = [i \in 1 .. Len(mailbox) - 1 |-> mailbox[i + 1]]
    BY <2>2, <2>4, Zenon
  <2> QED
    BY <2>5 DEF r
<1> QED
  BY <1>3, <1>4, <1>6

----------------------------------------------------------------------------
(* The announcements of certificate generations *)

Event(m) == m.type \in {"CertificateSubmissionStarted", "CertificateSubmissionStopped"}
Starts(m) == m.type = "CertificateSubmissionStarted"
Generates(m) == m.type = "TryToGenerateCertificate"

\* certGenerationState will say that a certificate is generated, when the first k
\* messages of the mailbox are handled.
Announced(q, g, k) ==
    \/ g /\ \A j \in 1 .. k : ~Event(q[j])
    \/ \E i \in 1 .. k : Starts(q[i]) /\ \A j \in i + 1 .. k : ~Event(q[j])

\* No message is an event or of the timer after the first k.
Quiet(q, k) == \A j \in k + 1 .. Len(q) : ~Event(q[j]) /\ ~Generates(q[j])

NoneGenerates(q, k) == \A j \in 1 .. k : ~Generates(q[j])

\* The timer, from when it is set to when its message is handled, stands for an
\* announced generation; its message is in the mailbox exactly when it has fired.
Attended(q, g, t, n) ==
    /\ t \in {"off", "on", "fired"} /\ n \in {0, 1} /\ g \in BOOLEAN
    /\ t = "off" => NoneGenerates(q, Len(q))
    /\ t = "on" => NoneGenerates(q, Len(q)) /\ Announced(q, g, Len(q))
    /\ t = "fired" => \E k \in 1 .. Len(q) : /\ Generates(q[k]) /\ NoneGenerates(q, k - 1)
                                             /\ Announced(q, g, k - 1) /\ Quiet(q, k)
    /\ t # "off" => n = 0
    /\ n = 1 => g /\ \A j \in 1 .. Len(q) : ~Event(q[j])

Neutral(m) == ~Event(m) /\ ~Generates(m)

\* Announced for a message fewer.
LEMMA AnnouncedTaken ==
    ASSUME NEW q, IsSeq(q), q # << >>, NEW g \in BOOLEAN, NEW k \in 1 .. Len(q), Announced(q, g, k),
           NEW h \in BOOLEAN,
           (Neutral(q[1]) /\ h = g) \/ (Event(q[1]) /\ h = Starts(q[1]))
    PROVE  Announced(Tail(q), h, k - 1)
<1>1. /\ Len(q) \in Nat \ {0}
      /\ \A i \in 1 .. Len(q) - 1 : Tail(q)[i] = q[i + 1]
  BY Taken, Zenon
<1> DEFINE r == Tail(q)
<1>2. \A i \in 1 .. Len(q) - 1 : r[i] = q[i + 1]
  BY <1>1
<1>3. Starts(q[1]) => Event(q[1])
  BY Zenon DEF Starts, Event
<1> HIDE DEF r
<1>4. CASE g /\ \A j \in 1 .. k : ~Event(q[j])
  <2>1. ~Event(q[1])
    BY <1>4, <1>1
  <2>2. h = g
    BY <2>1, Zenon
  <2>3. \A j \in 1 .. k - 1 : ~Event(r[j])
    BY <1>4, <1>1, <1>2
  <2>4. Announced(r, h, k - 1)
    BY <1>4, <2>2, <2>3, Zenon DEF Announced
  <2> QED
    BY <2>4 DEF r
<1>5. CASE \E i \in 1 .. k : Starts(q[i]) /\ \A j \in i + 1 .. k : ~Event(q[j])
  <2>1. PICK i \in 1 .. k : Starts(q[i]) /\ \A j \in i + 1 .. k : ~Event(q[j])
    BY <1>5, Zenon
  <2>2. CASE i = 1
    <3>1. h = TRUE
      BY <2>1, <2>2, <1>3, Zenon DEF Neutral
    <3>2. \A j \in 1 .. k - 1 : ~Event(r[j])
      BY <2>1, <2>2, <1>1, <1>2
    <3>3. Announced(r, h, k - 1)
      BY <3>1, <3>2, Zenon DEF Announced
    <3> QED
      BY <3>3 DEF r
  <2>3. CASE i # 1
    <3>1. i - 1 \in 1 .. k - 1 /\ r[i - 1] = q[i]
      BY <2>3, <1>1, <1>2
    <3>2. Starts(r[i - 1])
      BY <3>1, <2>1, Zenon
    <3>3. \A j \in (i - 1) + 1 .. k - 1 : ~Event(r[j])
      BY <2>1, <2>3, <1>1, <1>2
    <3>4. Announced(r, h, k - 1)
      BY <3>1, <3>2, <3>3, Zenon DEF Announced
    <3> QED
      BY <3>4 DEF r
  <2> QED
    BY <2>2, <2>3, Zenon
<1> QED
  BY <1>4, <1>5, Zenon DEF Announced

\* Announced depends on the first k messages only.
LEMMA AnnouncedSame ==
    ASSUME NEW q, NEW r, NEW g, NEW k \in Nat, \A j \in 1 .. k : r[j] = q[j], Announced(q, g, k)
    PROVE  Announced(r, g, k)
<1>1. CASE g /\ \A j \in 1 .. k : ~Event(q[j])
  <2>1. \A j \in 1 .. k : ~Event(r[j])
    BY <1>1, Zenon
  <2> QED
    BY <1>1, <2>1, Zenon DEF Announced
<1>2. CASE \E i \in 1 .. k : Starts(q[i]) /\ \A j \in i + 1 .. k : ~Event(q[j])
  <2>1. PICK i \in 1 .. k : Starts(q[i]) /\ \A j \in i + 1 .. k : ~Event(q[j])
    BY <1>2, Zenon
  <2>2. Starts(r[i])
    BY <2>1, Zenon
  <2>3. \A j \in i + 1 .. k : j \in 1 .. k
    BY <2>1
  <2>4. \A j \in i + 1 .. k : ~Event(r[j])
    BY <2>1, <2>3, Zenon
  <2> QED
    BY <2>1, <2>2, <2>4, Zenon DEF Announced
<1> QED
  BY <1>1, <1>2, Zenon DEF Announced

\* Announced for more messages.
LEMMA AnnouncedLonger ==
    ASSUME NEW q, NEW g, NEW k \in Nat, NEW l \in Nat, k <= l, Announced(q, g, k),
           \A j \in k + 1 .. l : ~Event(q[j])
    PROVE  Announced(q, g, l)
<1>1. CASE g /\ \A j \in 1 .. k : ~Event(q[j])
  <2>1. \A j \in 1 .. l : j \in 1 .. k \/ j \in k + 1 .. l
    OBVIOUS
  <2>2. \A j \in 1 .. l : ~Event(q[j])
    BY <1>1, <2>1, Zenon
  <2> QED
    BY <1>1, <2>2, Zenon DEF Announced
<1>2. CASE \E i \in 1 .. k : Starts(q[i]) /\ \A j \in i + 1 .. k : ~Event(q[j])
  <2>1. PICK i \in 1 .. k : Starts(q[i]) /\ \A j \in i + 1 .. k : ~Event(q[j])
    BY <1>2, Zenon
  <2>2. i \in 1 .. l /\ \A j \in i + 1 .. l : j \in i + 1 .. k \/ j \in k + 1 .. l
    OBVIOUS
  <2>3. \A j \in i + 1 .. l : ~Event(q[j])
    BY <2>1, <2>2, Zenon
  <2> QED
    BY <2>1, <2>2, <2>3, Zenon DEF Announced
<1> QED
  BY <1>1, <1>2, Zenon DEF Announced

\* Neutral messages after the others leave the others in order.
LEMMA MoreNeutral ==
    ASSUME NEW q, NEW r, Len(q) \in Nat, Len(r) \in Nat, Len(q) <= Len(r),
           \A i \in 1 .. Len(q) : r[i] = q[i], \A i \in Len(q) + 1 .. Len(r) : Neutral(r[i]),
           NEW g, NEW t, NEW n, Attended(q, g, t, n)
    PROVE  Attended(r, g, t, n)
<1>1. \A i \in Len(q) + 1 .. Len(r) : ~Event(r[i]) /\ ~Generates(r[i])
  BY Zenon DEF Neutral
<1>2. \A j \in 1 .. Len(r) : j \in 1 .. Len(q) \/ j \in Len(q) + 1 .. Len(r)
  OBVIOUS
<1>3. NoneGenerates(q, Len(q)) => NoneGenerates(r, Len(r))
  BY <1>1, <1>2, Zenon DEF NoneGenerates
<1>4. Announced(q, g, Len(q)) => Announced(r, g, Len(r))
  <2> SUFFICES ASSUME Announced(q, g, Len(q)) PROVE Announced(r, g, Len(r))
    OBVIOUS
  <2>1. Announced(r, g, Len(q))
    BY AnnouncedSame, Zenon
  <2> QED
    BY <2>1, <1>1, AnnouncedLonger, Zenon
<1>5. (\A j \in 1 .. Len(q) : ~Event(q[j])) => \A j \in 1 .. Len(r) : ~Event(r[j])
  BY <1>1, <1>2, Zenon
<1>6. ASSUME NEW k \in 1 .. Len(q), Generates(q[k]), NoneGenerates(q, k - 1), Announced(q, g, k - 1),
             Quiet(q, k)
      PROVE  /\ k \in 1 .. Len(r) /\ Generates(r[k]) /\ NoneGenerates(r, k - 1)
             /\ Announced(r, g, k - 1) /\ Quiet(r, k)
  <2>1. k \in 1 .. Len(r) /\ k - 1 \in Nat /\ \A j \in 1 .. k - 1 : j \in 1 .. Len(q)
    OBVIOUS
  <2>2. Generates(r[k])
    BY <1>6, Zenon
  <2>3. \A j \in 1 .. k - 1 : r[j] = q[j]
    BY <2>1, Zenon
  <2>4. NoneGenerates(r, k - 1)
    BY <1>6, <2>3, Zenon DEF NoneGenerates
  <2>5. Announced(r, g, k - 1)
    BY <1>6, <2>1, <2>3, AnnouncedSame, Zenon
  <2>6. \A j \in k + 1 .. Len(r) : (j \in k + 1 .. Len(q) /\ j \in 1 .. Len(q)) \/ j \in Len(q) + 1 .. Len(r)
    OBVIOUS
  <2>7. Quiet(r, k)
    BY <1>1, <1>6, <2>6, Zenon DEF Quiet
  <2> QED
    BY <2>1, <2>2, <2>4, <2>5, <2>7, Zenon
<1> QED
  BY <1>3, <1>4, <1>5, <1>6, Zenon DEF Attended

\* A neutral message is added.
LEMMA AddNeutral ==
    ASSUME NEW q, IsSeq(q), NEW g, NEW t, NEW n, Attended(q, g, t, n), NEW m, Neutral(m)
    PROVE  Attended(Append(q, m), g, t, n)
<1> DEFINE r == Append(q, m)
<1>1. /\ Len(q) \in Nat /\ Len(r) = Len(q) + 1
      /\ \A i \in 1 .. Len(q) : r[i] = q[i]
      /\ r[Len(q) + 1] = m
  BY Added, SMT
<1> HIDE DEF r
<1>2. Len(r) \in Nat /\ Len(q) <= Len(r) /\ \A i \in Len(q) + 1 .. Len(r) : Neutral(r[i])
  BY <1>1
<1>3. Attended(r, g, t, n)
  BY <1>1, <1>2, MoreNeutral, Zenon
<1> QED
  BY <1>3 DEF r

\* Neutral messages are added.
LEMMA JoinNeutral ==
    ASSUME NEW q, IsSeq(q), NEW g, NEW t, NEW n, Attended(q, g, t, n), NEW s, IsSeq(s),
           \A i \in 1 .. Len(s) : Neutral(s[i])
    PROVE  Attended(q \o s, g, t, n)
<1> DEFINE r == q \o s
<1>1. /\ Len(q) \in Nat /\ Len(s) \in Nat /\ Len(r) = Len(q) + Len(s)
      /\ \A i \in 1 .. Len(q) : r[i] = q[i]
      /\ \A i \in Len(q) + 1 .. Len(q) + Len(s) : r[i] = s[i - Len(q)]
  BY Joined, SMT
<1> HIDE DEF r
<1>2. \A i \in Len(q) + 1 .. Len(q) + Len(s) : i - Len(q) \in 1 .. Len(s)
  BY <1>1
<1>3. Len(r) \in Nat /\ Len(q) <= Len(r) /\ \A i \in Len(q) + 1 .. Len(r) : Neutral(r[i])
  BY <1>1, <1>2
<1>4. Attended(r, g, t, n)
  BY <1>1, <1>3, MoreNeutral, Zenon
<1> QED
  BY <1>4 DEF r

\* The messages after the first, when the first is not the timer's.
LEMMA TakeMessage ==
    ASSUME NEW q, IsSeq(q), q # << >>, NEW g, NEW t, NEW n, Attended(q, g, t, n), NEW h \in BOOLEAN,
           (Neutral(q[1]) /\ h = g) \/ (Event(q[1]) /\ h = Starts(q[1]))
    PROVE  Attended(Tail(q), h, t, n)
<1> DEFINE r == Tail(q)
<1>1. /\ Len(q) \in Nat \ {0} /\ Len(r) = Len(q) - 1
      /\ \A i \in 1 .. Len(q) - 1 : r[i] = q[i + 1]
  BY Taken, Zenon
<1>2. \A k \in 1 .. Len(q) : Announced(q, g, k) => Announced(r, h, k - 1)
  <2>1. g \in BOOLEAN
    BY Zenon DEF Attended
  <2> QED
    BY <2>1, AnnouncedTaken, Zenon
<1> HIDE DEF r
<1>3. \A j \in 1 .. Len(r) : j + 1 \in 1 .. Len(q) /\ r[j] = q[j + 1]
  BY <1>1
<1>4. NoneGenerates(q, Len(q)) => NoneGenerates(r, Len(r))
  BY <1>3, Zenon DEF NoneGenerates
<1>5. Announced(q, g, Len(q)) => Announced(r, h, Len(r))
  BY <1>1, <1>2
<1>6. ~Generates(q[1])
  BY Zenon DEF Neutral, Event, Generates
<1>7. n = 1 => h = g
  <2>1. 1 \in 1 .. Len(q)
    BY <1>1
  <2> QED
    BY <2>1, Zenon DEF Attended
<1>8. (\A j \in 1 .. Len(q) : ~Event(q[j])) => \A j \in 1 .. Len(r) : ~Event(r[j])
  BY <1>3, Zenon
<1>9. ASSUME NEW k \in 1 .. Len(q), Generates(q[k]), NoneGenerates(q, k - 1), Announced(q, g, k - 1),
             Quiet(q, k)
      PROVE  \E l \in 1 .. Len(r) : /\ Generates(r[l]) /\ NoneGenerates(r, l - 1)
                                    /\ Announced(r, h, l - 1) /\ Quiet(r, l)
  <2>1. k # 1
    BY <1>6, <1>9, Zenon
  <2>2. k - 1 \in 1 .. Len(r) /\ k - 1 \in 1 .. Len(q) /\ r[k - 1] = q[k]
    BY <2>1, <1>1
  <2>3. Generates(r[k - 1])
    BY <2>2, <1>9, Zenon
  <2>4. \A j \in 1 .. (k - 1) - 1 : j \in 1 .. Len(r) /\ j + 1 \in 1 .. k - 1
    BY <2>2, <1>1
  <2>5. NoneGenerates(r, (k - 1) - 1)
    BY <2>4, <1>3, <1>9, Zenon DEF NoneGenerates
  <2>6. Announced(r, h, (k - 1) - 1)
    BY <2>2, <1>2, <1>9, Zenon
  <2>7. \A j \in (k - 1) + 1 .. Len(r) : j \in 1 .. Len(r) /\ j + 1 \in k + 1 .. Len(q)
    BY <1>1
  <2>8. Quiet(r, k - 1)
    BY <2>7, <1>3, <1>9, Zenon DEF Quiet
  <2> QED
    BY <2>2, <2>3, <2>5, <2>6, <2>8, Zenon
<1>10. Attended(r, h, t, n)
  BY <1>4, <1>5, <1>7, <1>8, <1>9, Zenon DEF Attended
<1> QED
  BY <1>10 DEF r

\* The handler of the timer's message takes it, and nothing about a generation is
\* left in the mailbox; the flag says that one is under way.
LEMMA TakeTimer ==
    ASSUME NEW q, IsSeq(q), q # << >>, NEW g, NEW t, NEW n, Attended(q, g, t, n), Generates(q[1])
    PROVE  /\ Attended(Tail(q), g, "off", n)
           /\ n = 0 /\ g /\ \A j \in 1 .. Len(Tail(q)) : ~Event(Tail(q)[j])
<1> DEFINE r == Tail(q)
<1>1. /\ Len(q) \in Nat \ {0} /\ Len(r) = Len(q) - 1
      /\ \A i \in 1 .. Len(q) - 1 : r[i] = q[i + 1]
  BY Taken, SMT
<1> HIDE DEF r
<1>2. 1 \in 1 .. Len(q)
  BY <1>1
<1>3. t = "fired"
  BY <1>2, Zenon DEF Attended, NoneGenerates
<1>4. PICK k \in 1 .. Len(q) : /\ Generates(q[k]) /\ NoneGenerates(q, k - 1)
                               /\ Announced(q, g, k - 1) /\ Quiet(q, k)
  BY <1>3, Zenon DEF Attended
<1>5. k = 1
  <2>1. k # 1 => 1 \in 1 .. k - 1
    BY <1>1
  <2> QED
    BY <1>4, <2>1, Zenon DEF NoneGenerates
<1>6. g
  BY <1>4, <1>5 DEF Announced
<1>7. \A j \in 1 .. Len(r) : r[j] = q[j + 1] /\ j + 1 \in k + 1 .. Len(q)
  BY <1>1, <1>5
<1>8. \A j \in 1 .. Len(r) : ~Event(r[j]) /\ ~Generates(r[j])
  BY <1>4, <1>7, Zenon DEF Quiet
<1>9. n = 0 /\ g \in BOOLEAN
  BY <1>3, Zenon DEF Attended
<1>10. Attended(r, g, "off", n)
  BY <1>8, <1>9 DEF Attended, NoneGenerates
<1> QED
  BY <1>6, <1>8, <1>9, <1>10, ZenonT(30) DEF r

\* A generation is announced when none is, and none of its messages is left.
LEMMA AddStarted ==
    ASSUME NEW q, IsSeq(q), NEW g, Attended(q, g, "off", 0), NEW m, Starts(m)
    PROVE  Attended(Append(q, m), g, "on", 0)
<1> DEFINE r == Append(q, m)
<1>1. /\ Len(q) \in Nat /\ Len(r) = Len(q) + 1
      /\ \A i \in 1 .. Len(q) : r[i] = q[i]
      /\ r[Len(q) + 1] = m
  BY Added, SMT
<1> HIDE DEF r
<1>2. ~Generates(m)
  BY DEF Generates, Starts
<1>3. \A j \in 1 .. Len(r) : j \in 1 .. Len(q) \/ j = Len(q) + 1
  BY <1>1
<1>4. NoneGenerates(r, Len(r))
  BY <1>1, <1>2, <1>3, Zenon DEF NoneGenerates, Attended
<1>5. Len(r) \in 1 .. Len(r) /\ Starts(r[Len(r)]) /\ \A j \in Len(r) + 1 .. Len(r) : ~Event(r[j])
  BY <1>1
<1>6. Announced(r, g, Len(r))
  BY <1>5, Zenon DEF Announced
<1>7. g \in BOOLEAN
  BY Zenon DEF Attended
<1>8. Attended(r, g, "on", 0)
  BY <1>4, <1>6, <1>7 DEF Attended
<1> QED
  BY <1>8 DEF r

\* The message of the timer is the only one, and comes after the announcement.
LEMMA AddTimer ==
    ASSUME NEW q, IsSeq(q), NEW g, NEW n, Attended(q, g, "on", n), NEW m, Generates(m)
    PROVE  Attended(Append(q, m), g, "fired", n)
<1> DEFINE r == Append(q, m)
<1>1. /\ Len(q) \in Nat /\ Len(r) = Len(q) + 1
      /\ \A i \in 1 .. Len(q) : r[i] = q[i]
      /\ r[Len(q) + 1] = m
  BY Added, SMT
<1> HIDE DEF r
<1>2. n = 0 /\ g \in BOOLEAN /\ NoneGenerates(q, Len(q)) /\ Announced(q, g, Len(q))
  BY DEF Attended
<1>3. Announced(r, g, Len(q))
  BY <1>1, <1>2, AnnouncedSame, Zenon
<1>4. NoneGenerates(r, Len(q))
  BY <1>1, <1>2, Zenon DEF NoneGenerates
<1>5. Quiet(r, Len(q) + 1)
  BY <1>1 DEF Quiet
<1>6. Len(q) + 1 \in 1 .. Len(r) /\ (Len(q) + 1) - 1 = Len(q)
  BY <1>1
<1>7. \E k \in 1 .. Len(r) : /\ Generates(r[k]) /\ NoneGenerates(r, k - 1)
                             /\ Announced(r, g, k - 1) /\ Quiet(r, k)
  <2>1. Generates(r[Len(q) + 1]) /\ NoneGenerates(r, (Len(q) + 1) - 1) /\ Announced(r, g, (Len(q) + 1) - 1)
    BY <1>1, <1>3, <1>4, <1>6
  <2> QED
    BY <2>1, <1>5, <1>6, Zenon
<1>8. Attended(r, g, "fired", n)
  BY <1>2, <1>7 DEF Attended
<1> QED
  BY <1>8 DEF r

\* An announcement of the end, when the timer is off and no thread runs.
LEMMA AddStopped ==
    ASSUME NEW q, IsSeq(q), NEW g \in BOOLEAN, NoneGenerates(q, Len(q)), NEW m, ~Generates(m)
    PROVE  Attended(Append(q, m), g, "off", 0)
<1> DEFINE r == Append(q, m)
<1>1. /\ Len(q) \in Nat /\ Len(r) = Len(q) + 1
      /\ \A i \in 1 .. Len(q) : r[i] = q[i]
      /\ r[Len(q) + 1] = m
  BY Added, SMT
<1> HIDE DEF r
<1>2. \A j \in 1 .. Len(r) : j \in 1 .. Len(q) \/ j = Len(q) + 1
  BY <1>1
<1>3. NoneGenerates(r, Len(r))
  BY <1>1, <1>2, Zenon DEF NoneGenerates
<1>4. Attended(r, g, "off", 0)
  BY <1>3 DEF Attended
<1> QED
  BY <1>4 DEF r

\* After the timer is cancelled its message is not in the mailbox any more.
LEMMA CancelTimer ==
    ASSUME NEW q, IsSeq(q), NEW g, NEW t, NEW n, Attended(q, g, t, n)
    PROVE  /\ IsSeq(WithoutTimerMessage(q))
           /\ NoneGenerates(WithoutTimerMessage(q), Len(WithoutTimerMessage(q)))
           /\ \A i \in 1 .. Len(WithoutTimerMessage(q)) :
                  \E j \in 1 .. Len(q) : WithoutTimerMessage(q)[i] = q[j]
<1>1. DOMAIN q = 1 .. Len(q) /\ Len(q) \in Nat
  BY DEF IsSeq
<1>2. CASE TimerMessages(q) = {}
  <2>1. WithoutTimerMessage(q) = q
    BY <1>2, Zenon DEF WithoutTimerMessage
  <2>2. NoneGenerates(q, Len(q))
    BY <1>1, <1>2, Zenon DEF NoneGenerates, TimerMessages, Generates
  <2> QED
    BY <2>1, <2>2, Zenon
<1>3. CASE TimerMessages(q) # {}
  <2> DEFINE c == CHOOSE i \in TimerMessages(q) : TRUE
  <2>1. c \in TimerMessages(q)
    BY <1>3, Zenon
  <2>2. WithoutTimerMessage(q) = Without(q, c)
    BY <1>3, Zenon DEF WithoutTimerMessage
  <2> HIDE DEF c
  <2>3. c \in 1 .. Len(q) /\ Generates(q[c])
    BY <2>1, <1>1, Zenon DEF TimerMessages, Generates
  <2>4. t = "fired"
    BY <2>3, Zenon DEF Attended, NoneGenerates
  <2>5. PICK k \in 1 .. Len(q) : Generates(q[k]) /\ NoneGenerates(q, k - 1) /\ Quiet(q, k)
    BY <2>4, Zenon DEF Attended
  <2>6. \A j \in 1 .. Len(q) : Generates(q[j]) => j = k
    <3>1. \A j \in 1 .. Len(q) : j \in 1 .. k - 1 \/ j = k \/ j \in k + 1 .. Len(q)
      BY <1>1
    <3> QED
      BY <3>1, <2>5, Zenon DEF NoneGenerates, Quiet
  <2>7. c = k
    BY <2>3, <2>6, Zenon
  <2> DEFINE r == Without(q, c)
  <2>8. IsSeq(r) /\ Len(r) = Len(q) - 1
        /\ \A i \in 1 .. Len(q) - 1 : r[i] = IF i < c THEN q[i] ELSE q[i + 1]
    BY <2>3, LeftOut, SMT
  <2> HIDE DEF r
  <2>9. \A i \in 1 .. Len(r) : \E j \in 1 .. Len(q) : r[i] = q[j] /\ j # c
    BY <2>8, <2>3, <1>1
  <2>10. NoneGenerates(r, Len(r))
    BY <2>9, <2>6, <2>7, Zenon DEF NoneGenerates
  <2>11. WithoutTimerMessage(q) = r
    BY <2>2 DEF r
  <2> QED
    BY <2>8, <2>9, <2>10, <2>11, Zenon
<1> QED
  BY <1>2, <1>3, Zenon

----------------------------------------------------------------------------
(* The signatures the actor sends to itself *)

\* The number of any of the signers' keys is a number (as their set is finite).
SignersAreCounted == \A keys \in SUBSET Signer : Cardinality(keys) \in Nat

\* The signatures of a set of keys, one message each.
LEMMA SignaturesOfAre ==
    ASSUME NEW keys, Cardinality(keys) \in Nat, NEW m
    PROVE  /\ IsSeq(SignaturesOf(keys, m))
           /\ \A i \in 1 .. Len(SignaturesOf(keys, m)) :
                  SignaturesOf(keys, m)[i].type = "LocallyGeneratedSignature"
<1> DEFINE n == Cardinality(keys)
<1> DEFINE at(k) == CHOOSE i \in keys : Cardinality({j \in keys : j < i}) = k - 1
<1> DEFINE S == {LocalSignature(at(k), m) : k \in 1 .. n}
<1>1. n \in Nat
  OBVIOUS
<1>2. SignaturesOf(keys, m) = [k \in 1 .. n |-> LocalSignature(at(k), m)]
  BY Zenon DEF SignaturesOf
<1> HIDE DEF n, at
<1>3. [k \in 1 .. n |-> LocalSignature(at(k), m)] \in [1 .. n -> S]
  BY Zenon
<1> HIDE DEF S
<1>4. SignaturesOf(keys, m) \in Seq(S) /\ Len(SignaturesOf(keys, m)) = n
  BY <1>1, <1>2, <1>3, SMT
<1>5. \A i \in 1 .. n : SignaturesOf(keys, m)[i] = LocalSignature(at(i), m)
  BY <1>2, Zenon
<1>6. \A i \in 1 .. n : LocalSignature(at(i), m).type = "LocallyGeneratedSignature"
  BY DEF LocalSignature
<1>7. IsSeq(SignaturesOf(keys, m))
  BY <1>4, Zenon DEF IsSeq
<1> QED
  BY <1>4, <1>5, <1>6, <1>7

\* calculateSignatures: every message is a signature.
LEMMA SignaturesAre ==
    ASSUME SignersAreCounted, NEW part \in SUBSET EnclaveKeys, NEW m
    PROVE  /\ IsSeq(Signatures(part, m))
           /\ \A i \in 1 .. Len(Signatures(part, m)) :
                  Signatures(part, m)[i].type = "LocallyGeneratedSignature"
<1>1. Cardinality(part) \in Nat /\ Cardinality(WalletKeys) \in Nat
  BY SubmitterAssumption DEF SignersAreCounted
<1> DEFINE a == SignaturesOf(part, m)
<1> DEFINE b == SignaturesOf(WalletKeys, m)
<1>2. /\ IsSeq(a) /\ \A i \in 1 .. Len(a) : a[i].type = "LocallyGeneratedSignature"
      /\ IsSeq(b) /\ \A i \in 1 .. Len(b) : b[i].type = "LocallyGeneratedSignature"
  BY <1>1, SignaturesOfAre, Zenon
<1>3. Signatures(part, m) = a \o b
  BY Zenon DEF Signatures
<1> HIDE DEF a, b
<1> DEFINE r == a \o b
<1>4. /\ IsSeq(r) /\ Len(a) \in Nat /\ Len(b) \in Nat /\ Len(r) = Len(a) + Len(b)
      /\ \A i \in 1 .. Len(a) : r[i] = a[i]
      /\ \A i \in Len(a) + 1 .. Len(a) + Len(b) : r[i] = b[i - Len(a)]
  BY <1>2, Joined, SMT
<1> HIDE DEF r
<1>5. ASSUME NEW i \in 1 .. Len(r)
      PROVE  r[i].type = "LocallyGeneratedSignature"
  <2>1. i \in 1 .. Len(a) \/ (i \in Len(a) + 1 .. Len(a) + Len(b) /\ i - Len(a) \in 1 .. Len(b))
    BY <1>4
  <2> QED
    BY <2>1, <1>2, <1>4, Zenon
<1> QED
  BY <1>3, <1>4, <1>5 DEF r

----------------------------------------------------------------------------
(* One certificate is generated at a time. *)

\* The inductive invariant: announcements, timer and thread fit together.
SubmissionInv ==
    /\ IsSeq(mailbox) /\ IsSeq(threads)
    /\ Attended(mailbox, generating, timer, Len(threads))

\* The threads that lose the shared signatures are the same threads.
LEMMA DetachedAre ==
    ASSUME NEW ts, IsSeq(ts)
    PROVE  IsSeq(Detached(ts)) /\ Len(Detached(ts)) = Len(ts)
<1> DEFINE f(n) == [ts[n] EXCEPT !.shared = FALSE, !.status = Seen(ts[n])]
<1> DEFINE S == {f(n) : n \in DOMAIN ts}
<1>1. Len(ts) \in Nat /\ DOMAIN ts = 1 .. Len(ts)
  BY DEF IsSeq
<1>2. Detached(ts) = [n \in DOMAIN ts |-> f(n)]
  BY Zenon DEF Detached
<1> HIDE DEF f
<1>3. [n \in DOMAIN ts |-> f(n)] \in [DOMAIN ts -> S]
  BY Zenon
<1> HIDE DEF S
<1>4. Detached(ts) \in Seq(S) /\ Len(Detached(ts)) = Len(ts)
  BY <1>1, <1>2, <1>3, SMT
<1> QED
  BY <1>4, Zenon DEF IsSeq

\* The message that is handled and those that are left.
LEMMA ReceivedIs ==
    ASSUME NEW type, IsSeq(mailbox), Receives(type)
    PROVE  /\ mailbox # << >> /\ mailbox[1].type = type
           /\ Message = mailbox[1] /\ Rest = Tail(mailbox) /\ IsSeq(Tail(mailbox))
BY FirstIsNext, Taken, Zenon DEF Receives

\* Messages that are neither an announcement nor the timer's.
LEMMA NeutralTypes ==
    ASSUME NEW m, m.type \notin {"CertificateSubmissionStarted", "CertificateSubmissionStopped",
                                 "TryToGenerateCertificate"}
    PROVE  Neutral(m)
BY Zenon DEF Neutral, Event, Generates

\* The first message is handled, if it is neutral.
LEMMA HandleNeutral ==
    ASSUME SubmissionInv, NEW type, Receives(type),
           type \notin {"CertificateSubmissionStarted", "CertificateSubmissionStopped",
                        "TryToGenerateCertificate"}
    PROVE  /\ Rest = Tail(mailbox) /\ IsSeq(Rest) /\ Message = mailbox[1] /\ mailbox # << >>
           /\ Attended(Rest, generating, timer, Len(threads))
<1>1. /\ mailbox # << >> /\ mailbox[1].type = type
      /\ Message = mailbox[1] /\ Rest = Tail(mailbox) /\ IsSeq(Tail(mailbox))
  BY ReceivedIs, Zenon DEF SubmissionInv
<1>2. Neutral(mailbox[1])
  BY <1>1, NeutralTypes, Zenon
<1>3. generating \in BOOLEAN
  BY Zenon DEF SubmissionInv, Attended
<1>4. Attended(Tail(mailbox), generating, timer, Len(threads))
  BY <1>1, <1>2, <1>3, TakeMessage, Zenon DEF SubmissionInv
<1> QED
  BY <1>1, <1>4, Zenon

\* A thread that ends announces the end.
LEMMA ThreadStop ==
    ASSUME SubmissionInv, NEW n \in DOMAIN threads, threadStops(n), UNCHANGED <<generating, timer>>
    PROVE  SubmissionInv'
<1>1. DOMAIN threads = 1 .. Len(threads) /\ IsSeq(threads) /\ IsSeq(mailbox)
  BY DEF SubmissionInv, IsSeq
<1>2. Len(threads) \in {0, 1} /\ generating \in BOOLEAN
  BY Zenon DEF SubmissionInv, Attended
<1>3. Len(threads) = 1
  BY <1>1, <1>2
<1>4. timer = "off" /\ NoneGenerates(mailbox, Len(mailbox))
  BY <1>3 DEF SubmissionInv, Attended
<1>5. IsSeq(Without(threads, n)) /\ Len(Without(threads, n)) = Len(threads) - 1
  <2>1. n \in 1 .. Len(threads)
    BY <1>1, Zenon
  <2> DEFINE ts == threads
  <2>2. IsSeq(ts) /\ n \in 1 .. Len(ts)
    BY <1>1, <2>1
  <2> HIDE DEF ts
  <2>3. IsSeq(Without(ts, n)) /\ Len(Without(ts, n)) = Len(ts) - 1
    BY <2>2, LeftOut, SMT
  <2> QED
    BY <2>3 DEF ts
<1>6. IsSeq(threads') /\ Len(threads') = 0
  BY <1>3, <1>5, SMT DEF threadStops
<1>7. ~Generates(Plain("CertificateSubmissionStopped"))
  BY DEF Generates, Plain
<1>8. Attended(Append(mailbox, Plain("CertificateSubmissionStopped")), generating, "off", 0)
  BY <1>1, <1>2, <1>4, <1>7, AddStopped, Zenon
<1>9. IsSeq(Append(mailbox, Plain("CertificateSubmissionStopped")))
  BY <1>1, Added, Zenon
<1>10. mailbox' = Append(mailbox, Plain("CertificateSubmissionStopped"))
  BY Zenon DEF threadStops
<1>11. generating' = generating /\ timer' = "off"
  BY <1>4, Zenon
<1> QED
  BY <1>6, <1>8, <1>9, <1>10, <1>11, Zenon DEF SubmissionInv

\* A thread that fails while it makes the request announces nothing.
LEMMA ThreadFails ==
    ASSUME SubmissionInv, NEW n \in DOMAIN threads, createRequestFails(n)
    PROVE  SubmissionInv'
<1>1. DOMAIN threads = 1 .. Len(threads) /\ IsSeq(threads) /\ IsSeq(mailbox)
  BY DEF SubmissionInv, IsSeq
<1>2. Len(threads) \in {0, 1} /\ generating \in BOOLEAN
  BY Zenon DEF SubmissionInv, Attended
<1>3. Len(threads) = 1
  BY <1>1, <1>2
<1>4. timer = "off" /\ NoneGenerates(mailbox, Len(mailbox))
  BY <1>3 DEF SubmissionInv, Attended
<1>5. IsSeq(Without(threads, n)) /\ Len(Without(threads, n)) = Len(threads) - 1
  <2>1. n \in 1 .. Len(threads)
    BY <1>1, Zenon
  <2> DEFINE ts == threads
  <2>2. IsSeq(ts) /\ n \in 1 .. Len(ts)
    BY <1>1, <2>1
  <2> HIDE DEF ts
  <2>3. IsSeq(Without(ts, n)) /\ Len(Without(ts, n)) = Len(ts) - 1
    BY <2>2, LeftOut, SMT
  <2> QED
    BY <2>3 DEF ts
<1>6. IsSeq(threads') /\ Len(threads') = 0
  BY <1>3, <1>5, SMT DEF createRequestFails
<1>7. Attended(mailbox, generating, "off", 0)
  BY <1>2, <1>4 DEF Attended
<1>8. mailbox' = mailbox /\ generating' = generating /\ timer' = "off"
  BY <1>4, Zenon DEF createRequestFails
<1> QED
  BY <1>1, <1>6, <1>7, <1>8, Zenon DEF SubmissionInv

\* A message comes from outside, and the actor's state is as it was.
LEMMA Arrives ==
    ASSUME SubmissionInv, NEW m, Neutral(m), Send(m), UNCHANGED <<generating, timer, threads>>
    PROVE  SubmissionInv'
<1>1. mailbox' = Append(mailbox, m)
  BY Zenon DEF Send
<1>2. Attended(Append(mailbox, m), generating, timer, Len(threads))
  BY AddNeutral, Zenon DEF SubmissionInv
<1>3. IsSeq(Append(mailbox, m))
  BY Added, Zenon DEF SubmissionInv
<1>4. generating' = generating /\ timer' = timer /\ threads' = threads
  BY Zenon
<1> QED
  BY <1>1, <1>2, <1>3, <1>4, Zenon DEF SubmissionInv

\* Every step keeps the invariant.
LEMMA SubmissionStep ==
    ASSUME SignersAreCounted, SubmissionInv, [Next]_vars
    PROVE  SubmissionInv'
<1> DEFINE n == Len(threads)
<1>0. IsSeq(mailbox) /\ IsSeq(threads) /\ Attended(mailbox, generating, timer, n)
      /\ generating \in BOOLEAN
  BY Zenon DEF SubmissionInv, Attended
<1> HIDE DEF n
<1>k. ASSUME NEW q, IsSeq(q), Attended(q, generating, timer, n), mailbox' = q,
             UNCHANGED <<generating, timer>>, IsSeq(threads'), Len(threads') = n
      PROVE  SubmissionInv'
  BY <1>k, Zenon DEF SubmissionInv
<1>t. threads' = threads => IsSeq(threads') /\ Len(threads') = n
  BY <1>0, Zenon DEF n
<1>d. threads' = Detached(threads) => IsSeq(threads') /\ Len(threads') = n
  BY <1>0, DetachedAre, Zenon DEF n
<1>s. \A type : Receives(type) /\ type \notin {"CertificateSubmissionStarted",
                    "CertificateSubmissionStopped", "TryToGenerateCertificate"} =>
          IsSeq(Rest) /\ Attended(Rest, generating, timer, n)
  BY HandleNeutral, Zenon DEF n
<1>p. \A q : IsSeq(q) /\ Attended(q, generating, timer, n) =>
          LET r == Append(q, Plain("TryToScheduleCertificateGeneration"))
          IN  IsSeq(r) /\ Attended(r, generating, timer, n)
  <2>1. Neutral(Plain("TryToScheduleCertificateGeneration"))
    BY DEF Neutral, Event, Generates, Plain
  <2> QED
    BY <2>1, AddNeutral, Added, Zenon
<1>b. Receives("SemanticallySuccessfulModifier") =>
          IsSeq(Rest) /\ Attended(Rest, generating, timer, n)
  BY <1>s, Zenon
<1>1. CASE newBlockUnknown
  <2>1. Receives("SemanticallySuccessfulModifier") /\ mailbox' = Rest
        /\ UNCHANGED <<generating, timer, threads>>
    BY <1>1, Zenon DEF newBlockUnknown
  <2> QED
    BY <2>1, <1>b, <1>k, <1>t, Zenon
<1>2. CASE newBlockInWindow
  <2>1. Receives("SemanticallySuccessfulModifier") /\ UNCHANGED <<generating, timer>>
    BY <1>2, Zenon DEF newBlockInWindow
  <2>2. threads' = threads \/ threads' = Detached(threads)
    BY <1>2, Zenon DEF newBlockInWindow
  <2>3. mailbox' = Rest \/ \E m : \E part \in SUBSET EnclaveKeys : mailbox' = Rest \o Signatures(part, m)
    BY <1>2, Zenon DEF newBlockInWindow
  <2>4. CASE mailbox' = Rest
    BY <2>1, <2>2, <2>4, <1>b, <1>k, <1>t, <1>d, Zenon
  <2>5. ASSUME NEW part \in SUBSET EnclaveKeys, NEW m, mailbox' = Rest \o Signatures(part, m)
        PROVE  SubmissionInv'
    <3> DEFINE s == Signatures(part, m)
    <3>1. IsSeq(s) /\ \A i \in 1 .. Len(s) : s[i].type = "LocallyGeneratedSignature"
      BY SignaturesAre, Zenon
    <3> HIDE DEF s
    <3>2. \A i \in 1 .. Len(s) : Neutral(s[i])
      BY <3>1 DEF Neutral, Event, Generates
    <3>3. Attended(Rest \o s, generating, timer, n) /\ IsSeq(Rest \o s)
      BY <3>1, <3>2, <2>1, <1>b, JoinNeutral, Joined, Zenon
    <3>4. mailbox' = Rest \o s
      BY <2>5 DEF s
    <3> QED
      BY <3>3, <3>4, <2>1, <2>2, <1>k, <1>t, <1>d, Zenon
  <2> QED
    BY <2>3, <2>4, <2>5, Zenon
<1>3. CASE newBlockOutsideWindow
  <2>1. Receives("SemanticallySuccessfulModifier") /\ UNCHANGED generating
        /\ timer' = "off" /\ threads' = Detached(threads)
    BY <1>3, Zenon DEF newBlockOutsideWindow
  <2>2. CASE timer = "off"
    <3>1. mailbox' = Rest
      BY <1>3, <2>2, Zenon DEF newBlockOutsideWindow
    <3>2. timer' = timer
      BY <2>1, <2>2
    <3> QED
      BY <3>1, <3>2, <2>1, <1>b, <1>k, <1>d, Zenon
  <2>3. CASE timer # "off"
    <3> DEFINE q == WithoutTimerMessage(Rest)
    <3> DEFINE m == Plain("CertificateSubmissionStopped")
    <3>1. mailbox' = Append(q, m)
      BY <1>3, <2>3, Zenon DEF newBlockOutsideWindow
    <3>2. IsSeq(q) /\ NoneGenerates(q, Len(q))
      BY <2>1, <1>b, CancelTimer, Zenon
    <3>3. ~Generates(m)
      BY DEF Generates, Plain
    <3> HIDE DEF q, m
    <3>4. Attended(Append(q, m), generating, "off", 0) /\ IsSeq(Append(q, m))
      BY <3>2, <3>3, <1>0, AddStopped, Added, Zenon
    <3>5. n = 0
      BY <1>0, <2>3, Zenon DEF Attended
    <3>6. IsSeq(threads') /\ Len(threads') = 0
      BY <3>5, <2>1, <1>d, Zenon
    <3>7. generating' = generating
      BY <2>1, Zenon
    <3> QED
      BY <3>1, <3>4, <3>6, <3>7, <2>1, Zenon DEF SubmissionInv
  <2> QED
    BY <2>2, <2>3, Zenon
<1>4. CASE locallyGeneratedSignature
  <2>1. Receives("LocallyGeneratedSignature") /\ UNCHANGED <<generating, timer, threads>>
    BY <1>4, Zenon DEF locallyGeneratedSignature
  <2>2. mailbox' = Rest \/ mailbox' = Append(Rest, Plain("TryToScheduleCertificateGeneration"))
    BY <1>4, Zenon DEF locallyGeneratedSignature
  <2>3. IsSeq(Rest) /\ Attended(Rest, generating, timer, n)
    BY <2>1, <1>s, Zenon
  <2> QED
    BY <2>1, <2>2, <2>3, <1>p, <1>k, <1>t, Zenon
<1>5. CASE signatureFromRemote
  <2>1. Receives("SignatureFromRemote") /\ UNCHANGED <<generating, timer, threads>>
    BY <1>5, Zenon DEF signatureFromRemote
  <2>2. mailbox' = Rest \/ mailbox' = Append(Rest, Plain("TryToScheduleCertificateGeneration"))
    BY <1>5, Zenon DEF signatureFromRemote
  <2>3. IsSeq(Rest) /\ Attended(Rest, generating, timer, n)
    BY <2>1, <1>s, Zenon
  <2> QED
    BY <2>1, <2>2, <2>3, <1>p, <1>k, <1>t, Zenon
<1>6. CASE tryToScheduleCertificateGeneration
  <2>1. Receives("TryToScheduleCertificateGeneration") /\ UNCHANGED <<generating, threads>>
    BY <1>6, Zenon DEF tryToScheduleCertificateGeneration
  <2>2. \/ mailbox' = Rest /\ UNCHANGED timer
        \/ /\ ~generating /\ timer = "off" /\ timer' = "on"
           /\ mailbox' = Append(Rest, Plain("CertificateSubmissionStarted"))
    BY <1>6, Zenon DEF tryToScheduleCertificateGeneration
  <2>3. IsSeq(Rest) /\ Attended(Rest, generating, timer, n)
    BY <2>1, <1>s, Zenon
  <2>4. CASE mailbox' = Rest /\ UNCHANGED timer
    BY <2>1, <2>3, <2>4, <1>k, <1>t, Zenon
  <2>5. CASE /\ ~generating /\ timer = "off" /\ timer' = "on"
             /\ mailbox' = Append(Rest, Plain("CertificateSubmissionStarted"))
    <3>1. n = 0
      BY <1>0, <2>5, Zenon DEF Attended
    <3>2. Starts(Plain("CertificateSubmissionStarted"))
      BY DEF Starts, Plain
    <3>3. Attended(Rest, generating, "off", 0)
      BY <2>3, <2>5, <3>1, Zenon
    <3>4. /\ Attended(Append(Rest, Plain("CertificateSubmissionStarted")), generating, "on", 0)
          /\ IsSeq(Append(Rest, Plain("CertificateSubmissionStarted")))
      BY <2>3, <3>2, <3>3, AddStarted, Added, Zenon
    <3>5. IsSeq(threads') /\ Len(threads') = 0
      BY <3>1, <2>1, <1>t, Zenon
    <3> QED
      BY <3>4, <3>5, <2>1, <2>5, Zenon DEF SubmissionInv
  <2> QED
    BY <2>2, <2>4, <2>5, Zenon
<1>7. CASE tryToGenerateCertificate
  <2>1. /\ Receives("TryToGenerateCertificate") /\ timer' = "off" /\ UNCHANGED generating
        /\ \/ \E t : threads' = Append(threads, t) /\ mailbox' = Rest
           \/ UNCHANGED threads /\ mailbox' = Append(Rest, Plain("CertificateSubmissionStopped"))
    BY <1>7, Zenon DEF tryToGenerateCertificate
  <2>2. mailbox # << >> /\ Generates(mailbox[1]) /\ Rest = Tail(mailbox) /\ IsSeq(Rest)
    BY <2>1, <1>0, ReceivedIs, Zenon DEF Generates
  <2>3. /\ Attended(Rest, generating, "off", n)
        /\ n = 0 /\ generating /\ \A j \in 1 .. Len(Rest) : ~Event(Rest[j])
    BY <2>2, <1>0, TakeTimer, Zenon
  <2>4. generating' = generating
    BY <2>1, Zenon
  <2>5. ASSUME NEW t, threads' = Append(threads, t), mailbox' = Rest
        PROVE  SubmissionInv'
    <3>1. IsSeq(threads') /\ Len(threads') = n + 1
      <4> DEFINE ts == threads
      <4>1. IsSeq(ts)
        BY <1>0
      <4> HIDE DEF ts
      <4>2. IsSeq(Append(ts, t)) /\ Len(Append(ts, t)) = Len(ts) + 1
        BY <4>1, Added, SMT
      <4> QED
        BY <4>2, <2>5 DEF ts, n
    <3>2. Len(threads') = 1
      BY <3>1, <2>3
    <3>3. Attended(Rest, generating, "off", 1)
      BY <2>3 DEF Attended
    <3> QED
      BY <3>1, <3>2, <3>3, <2>1, <2>2, <2>4, <2>5, Zenon DEF SubmissionInv
  <2>6. CASE UNCHANGED threads /\ mailbox' = Append(Rest, Plain("CertificateSubmissionStopped"))
    <3>1. ~Generates(Plain("CertificateSubmissionStopped"))
      BY DEF Generates, Plain
    <3>2. NoneGenerates(Rest, Len(Rest))
      BY <2>3, Zenon DEF Attended
    <3>3. /\ Attended(Append(Rest, Plain("CertificateSubmissionStopped")), generating, "off", 0)
          /\ IsSeq(Append(Rest, Plain("CertificateSubmissionStopped")))
      BY <3>1, <3>2, <2>2, <1>0, AddStopped, Added, Zenon
    <3>4. IsSeq(threads') /\ Len(threads') = 0
      BY <2>3, <2>6, <1>t, Zenon
    <3> QED
      BY <3>3, <3>4, <2>1, <2>4, <2>6, Zenon DEF SubmissionInv
  <2> QED
    BY <2>1, <2>5, <2>6, Zenon
<1>8. CASE onCertificateSubmissionEvent
  <2>1. PICK type \in {"CertificateSubmissionStarted", "CertificateSubmissionStopped"} : Receives(type)
    BY <1>8, Zenon DEF onCertificateSubmissionEvent
  <2>2. generating' = (Message.type = "CertificateSubmissionStarted") /\ mailbox' = Rest
        /\ UNCHANGED <<timer, threads>>
    BY <1>8, Zenon DEF onCertificateSubmissionEvent
  <2>3. mailbox # << >> /\ mailbox[1].type = type /\ Message = mailbox[1] /\ Rest = Tail(mailbox)
        /\ IsSeq(Rest)
    BY <2>1, <1>0, ReceivedIs, Zenon
  <2>4. Event(mailbox[1])
    BY <2>1, <2>3, Zenon DEF Event
  <2> DEFINE h == Starts(mailbox[1])
  <2>5. generating' = h /\ h \in BOOLEAN
    BY <2>2, <2>3 DEF Starts
  <2> HIDE DEF h
  <2>6. Attended(Rest, h, timer, n)
    <3>1. h = Starts(mailbox[1])
      BY DEF h
    <3> QED
      BY <3>1, <2>3, <2>4, <2>5, <1>0, TakeMessage, Zenon
  <2>7. timer' = timer /\ IsSeq(threads') /\ Len(threads') = n
    BY <2>2, <1>t, Zenon
  <2>8. Attended(Rest, generating', timer', Len(threads'))
    BY <2>5, <2>6, <2>7, Zenon
  <2> QED
    BY <2>2, <2>3, <2>7, <2>8, Zenon DEF SubmissionInv
<1>9. CASE submitterStatus
  <2>1. PICK type \in {"EnableSubmitter", "DisableSubmitter"} : Receives(type)
    BY <1>9, Zenon DEF submitterStatus
  <2>2. UNCHANGED <<generating, timer, threads>>
        /\ (mailbox' = Rest \/ mailbox' = Append(Rest, Plain("TryToScheduleCertificateGeneration")))
    BY <1>9, Zenon DEF submitterStatus
  <2>3. type \notin {"CertificateSubmissionStarted", "CertificateSubmissionStopped",
                     "TryToGenerateCertificate"}
    BY <2>1
  <2>4. IsSeq(Rest) /\ Attended(Rest, generating, timer, n)
    BY <2>1, <2>3, <1>s, Zenon
  <2> QED
    BY <2>2, <2>4, <1>p, <1>k, <1>t, Zenon
<1>10. CASE signerStatus
  <2>1. PICK type \in {"EnableCertificateSigner", "DisableCertificateSigner"} : Receives(type)
    BY <1>10, Zenon DEF signerStatus
  <2>2. UNCHANGED <<generating, timer, threads>> /\ mailbox' = Rest
    BY <1>10, Zenon DEF signerStatus
  <2>3. type \notin {"CertificateSubmissionStarted", "CertificateSubmissionStopped",
                     "TryToGenerateCertificate"}
    BY <2>1
  <2>4. IsSeq(Rest) /\ Attended(Rest, generating, timer, n)
    BY <2>1, <2>3, <1>s, Zenon
  <2> QED
    BY <2>2, <2>4, <1>k, <1>t, Zenon
<1>11. CASE TimerFires
  <2>1. timer = "on" /\ timer' = "fired" /\ UNCHANGED <<generating, threads>>
        /\ mailbox' = Append(mailbox, Plain("TryToGenerateCertificate"))
    BY <1>11, Zenon DEF TimerFires
  <2>2. Generates(Plain("TryToGenerateCertificate"))
    BY DEF Generates, Plain
  <2>3. /\ Attended(Append(mailbox, Plain("TryToGenerateCertificate")), generating, "fired", n)
        /\ IsSeq(Append(mailbox, Plain("TryToGenerateCertificate")))
    <3>1. Attended(mailbox, generating, "on", n)
      BY <1>0, <2>1, Zenon
    <3> QED
      BY <3>1, <2>2, <1>0, AddTimer, Added, Zenon
  <2> QED
    BY <2>1, <2>3, <1>t, Zenon DEF SubmissionInv
<1>12. CASE ThreadStep
  <2>1. PICK k \in DOMAIN threads : \/ generateProof(k) \/ createRequestFails(k)
                                    \/ checkBeforeSending(k) \/ sendCertificate(k)
    BY <1>12, Zenon DEF ThreadStep
  <2>2. UNCHANGED <<generating, timer>>
    BY <2>1, Zenon DEF generateProof, createRequestFails, checkBeforeSending, sendCertificate
  <2>3. \/ threadStops(k) \/ createRequestFails(k)
        \/ UNCHANGED mailbox /\ threads' = [threads EXCEPT ![k].pc = "proved"]
        \/ UNCHANGED mailbox /\ \E a \in Answer :
              threads' = [threads EXCEPT ![k].pc = "sending", ![k].answer = a]
    BY <2>1, Zenon DEF generateProof, checkBeforeSending, sendCertificate
  <2>4. CASE threadStops(k)
    BY <2>1, <2>2, <2>4, ThreadStop, Zenon
  <2>8. CASE createRequestFails(k)
    BY <2>1, <2>8, ThreadFails, Zenon
  <2>5. ASSUME NEW x, UNCHANGED mailbox, threads' = [threads EXCEPT ![k] = x]
        PROVE  SubmissionInv'
    <3>1. PICK S : threads \in Seq(S)
      BY <1>0, Zenon DEF IsSeq
    <3>2. threads \in Seq(S \cup {x})
      BY <3>1
    <3>3. threads' \in Seq(S \cup {x}) /\ Len(threads') = Len(threads)
      BY <3>2, <2>1, <2>5
    <3>4. IsSeq(threads') /\ Len(threads') = n
      BY <3>3, Zenon DEF IsSeq, n
    <3> QED
      BY <3>4, <2>2, <2>5, <1>0, <1>k, Zenon
  <2>6. CASE UNCHANGED mailbox /\ threads' = [threads EXCEPT ![k].pc = "proved"]
    <3>1. threads' = [threads EXCEPT ![k] = [threads[k] EXCEPT !.pc = "proved"]]
      BY <2>6, Zenon
    <3> QED
      BY <3>1, <2>5, <2>6, Zenon
  <2>7. ASSUME NEW a \in Answer, UNCHANGED mailbox,
               threads' = [threads EXCEPT ![k].pc = "sending", ![k].answer = a]
        PROVE  SubmissionInv'
    <3>1. threads' = [threads EXCEPT ![k] = [[threads[k] EXCEPT !.pc = "sending"] EXCEPT !.answer = a]]
      BY <2>1, <2>7, <1>0, ZenonT(30) DEF IsSeq
    <3> QED
      BY <3>1, <2>5, <2>7, Zenon
  <2> QED
    BY <2>3, <2>4, <2>6, <2>7, <2>8, Zenon
<1>13. CASE ChainGrows \/ ChainSwitches
  <2>1. Send(Block(tip')) /\ UNCHANGED <<generating, timer, threads>>
    BY <1>13, Zenon DEF ChainGrows, ChainSwitches
  <2>2. Neutral(Block(tip'))
    BY DEF Neutral, Event, Generates, Block
  <2> DEFINE m == Block(tip')
  <2>3. Neutral(m) /\ Send(m)
    BY <2>1, <2>2, Zenon
  <2> HIDE DEF m
  <2>4. mailbox' = Append(mailbox, m)
    BY <2>3, Zenon DEF Send
  <2>5. Attended(Append(mailbox, m), generating, timer, n) /\ IsSeq(Append(mailbox, m))
    BY <2>3, <1>0, AddNeutral, Added, Zenon
  <2> QED
    BY <2>1, <2>4, <2>5, <1>k, <1>t, Zenon
<1>14. CASE PeerSends
  <2>1. UNCHANGED <<generating, timer, threads>>
        /\ \E i, m, s : Send(RemoteSignature(i, m, s))
    BY <1>14, Zenon DEF PeerSends, Call
  <2>2. PICK i, m, s : Send(RemoteSignature(i, m, s))
    BY <2>1, Zenon
  <2>3. Neutral(RemoteSignature(i, m, s))
    BY DEF Neutral, Event, Generates, RemoteSignature
  <2> QED
    BY <2>1, <2>2, <2>3, Arrives, Zenon
<1>15. CASE ApiCalls
  <2>1. UNCHANGED <<generating, timer, threads>>
        /\ \E c \in {"EnableSubmitter", "DisableSubmitter", "EnableCertificateSigner",
                     "DisableCertificateSigner"} : Send(Plain(c))
    BY <1>15, Zenon DEF ApiCalls, Call
  <2>2. PICK c \in {"EnableSubmitter", "DisableSubmitter", "EnableCertificateSigner",
                    "DisableCertificateSigner"} : Send(Plain(c))
    BY <2>1, Zenon
  <2>3. Neutral(Plain(c))
    BY <2>2 DEF Neutral, Event, Generates, Plain
  <2> QED
    BY <2>1, <2>2, <2>3, Arrives, Zenon
<1>16. CASE OtherCertificate \/ UNCHANGED vars
  <2>1. UNCHANGED <<mailbox, generating, timer, threads>>
    BY <1>16, Zenon DEF OtherCertificate, vars
  <2> QED
    BY <2>1, <1>0, <1>k, <1>t, Zenon
<1> QED
  BY <1>1, <1>2, <1>3, <1>4, <1>5, <1>6, <1>7, <1>8, <1>9, <1>10, <1>11, <1>12, <1>13, <1>14, <1>15,
     <1>16, Zenon DEF Next, Handle

----------------------------------------------------------------------------
(* The signatures are collected for the chain. *)

IsBlock(m) == m.type = "SemanticallySuccessfulModifier"

NoBlock(q) == \A i \in 1 .. Len(q) : ~IsBlock(q[i])

AllIn(q) == \A i \in 1 .. Len(q) : IsBlock(q[i]) => q[i].in

BlockTyped(m) == m.epoch \in 0 .. MaxEpoch /\ m.in \in BOOLEAN /\ (m.in => m.epoch \in 1 .. MaxEpoch)

BlocksTyped(q) == \A i \in 1 .. Len(q) : IsBlock(q[i]) => BlockTyped(q[i])

\* The last block in the mailbox is the tip.
LastIs(q, e, in) ==
    \A i \in 1 .. Len(q) : IsBlock(q[i]) /\ (\A j \in i + 1 .. Len(q) : ~IsBlock(q[j])) =>
        q[i].epoch = e /\ q[i].in = in

Matches(s, e, in) == IF in THEN s.epoch = e ELSE s = NoStatus

Fresh(s, v) == s # NoStatus => s.message = <<s.epoch, v[s.epoch]>>

StatusTyped(s) ==
    /\ s = [epoch |-> s.epoch, message |-> s.message, known |-> s.known]
    /\ s = NoStatus \/ s.epoch \in 1 .. MaxEpoch

\* When all blocks are handled the status is the one of the tip, and its message
\* is up to date unless a block outside the window is still to be handled.
Followed(q, e, in, s, v) ==
    /\ BlocksTyped(q) /\ LastIs(q, e, in) /\ StatusTyped(s)
    /\ NoBlock(q) => Matches(s, e, in)
    /\ AllIn(q) => Fresh(s, v)

\* Messages that are no blocks come after the others.
LEMMA FollowMore ==
    ASSUME NEW q, NEW r, Len(q) \in Nat, Len(r) \in Nat, Len(q) <= Len(r),
           \A i \in 1 .. Len(q) : r[i] = q[i], \A i \in Len(q) + 1 .. Len(r) : ~IsBlock(r[i]),
           NEW e, NEW in, NEW s, NEW v, Followed(q, e, in, s, v)
    PROVE  Followed(r, e, in, s, v)
<1>1. \A i \in 1 .. Len(r) : IsBlock(r[i]) => i \in 1 .. Len(q) /\ r[i] = q[i]
  <2>1. \A i \in 1 .. Len(r) : i \in 1 .. Len(q) \/ i \in Len(q) + 1 .. Len(r)
    OBVIOUS
  <2> QED
    BY <2>1, Zenon
<1>2. \A i \in 1 .. Len(q) : i \in 1 .. Len(r) /\ r[i] = q[i]
  OBVIOUS
<1>3. BlocksTyped(r)
  BY <1>1, Zenon DEF BlocksTyped, Followed
<1>4. NoBlock(r) => NoBlock(q)
  BY <1>2, Zenon DEF NoBlock
<1>5. AllIn(r) => AllIn(q)
  BY <1>2, Zenon DEF AllIn
<1>6. LastIs(r, e, in)
  <2> SUFFICES ASSUME NEW i \in 1 .. Len(r), IsBlock(r[i]), \A j \in i + 1 .. Len(r) : ~IsBlock(r[j])
               PROVE  r[i].epoch = e /\ r[i].in = in
    BY Zenon DEF LastIs
  <2>1. i \in 1 .. Len(q) /\ r[i] = q[i]
    BY <1>1, Zenon
  <2>2. \A j \in i + 1 .. Len(q) : j \in i + 1 .. Len(r) /\ r[j] = q[j]
    BY <2>1
  <2>3. \A j \in i + 1 .. Len(q) : ~IsBlock(q[j])
    BY <2>2, Zenon
  <2> QED
    BY <2>1, <2>3, Zenon DEF LastIs, Followed
<1> QED
  BY <1>3, <1>4, <1>5, <1>6, Zenon DEF Followed

\* What is left when the k-th message is gone.
Shorter(q, r, k) ==
    /\ Len(q) \in Nat /\ k \in 1 .. Len(q) /\ Len(r) = Len(q) - 1
    /\ \A i \in 1 .. Len(q) - 1 : r[i] = IF i < k THEN q[i] ELSE q[i + 1]

\* The messages that are left are those of before, in their order.
LEMMA ShorterIs ==
    ASSUME NEW q, NEW r, NEW k, Shorter(q, r, k)
    PROVE  /\ \A i \in 1 .. Len(r) : \E j \in 1 .. Len(q) : r[i] = q[j]
           /\ \A j \in 1 .. Len(q) : j # k => \E i \in 1 .. Len(r) : r[i] = q[j]
           /\ \A i \in 1 .. Len(r) :
                  (\A l \in i + 1 .. Len(r) : ~IsBlock(r[l])) /\ (~IsBlock(q[k]) \/ k = 1) =>
                  \E j \in 1 .. Len(q) : r[i] = q[j] /\ \A l \in j + 1 .. Len(q) : ~IsBlock(q[l])
<1>1. Len(q) \in Nat /\ k \in 1 .. Len(q) /\ Len(r) = Len(q) - 1
  BY Zenon DEF Shorter
<1>2. \A i \in 1 .. Len(r) : IF i < k THEN r[i] = q[i] ELSE r[i] = q[i + 1]
  BY <1>1 DEF Shorter
<1>3. \A i \in 1 .. Len(r) : \E j \in 1 .. Len(q) : r[i] = q[j]
  BY <1>1, <1>2
<1>4. ASSUME NEW j \in 1 .. Len(q), j # k
      PROVE  \E i \in 1 .. Len(r) : r[i] = q[j]
  <2>1. CASE j < k
    <3>1. j \in 1 .. Len(r) /\ r[j] = q[j]
      BY <1>1, <1>2, <2>1
    <3> QED
      BY <3>1, Zenon
  <2>2. CASE ~(j < k)
    <3>1. j - 1 \in 1 .. Len(r) /\ r[j - 1] = q[j]
      BY <1>1, <1>2, <1>4, <2>2
    <3> QED
      BY <3>1, Zenon
  <2> QED
    BY <2>1, <2>2, Zenon
<1>5. ASSUME NEW i \in 1 .. Len(r), \A l \in i + 1 .. Len(r) : ~IsBlock(r[l]), ~IsBlock(q[k]) \/ k = 1
      PROVE  \E j \in 1 .. Len(q) : r[i] = q[j] /\ \A l \in j + 1 .. Len(q) : ~IsBlock(q[l])
  <2>1. CASE i < k
    <3>1. i \in 1 .. Len(q) /\ r[i] = q[i] /\ k # 1
      BY <1>1, <1>2, <2>1
    <3>2. ASSUME NEW l \in i + 1 .. Len(q)
          PROVE  ~IsBlock(q[l])
      <4>1. CASE l < k
        <5>1. l \in i + 1 .. Len(r) /\ r[l] = q[l]
          BY <1>1, <1>2, <4>1
        <5> QED
          BY <5>1, <1>5, Zenon
      <4>2. CASE l = k
        BY <4>2, <3>1, <1>5, Zenon
      <4>3. CASE l > k
        <5>1. l - 1 \in i + 1 .. Len(r) /\ r[l - 1] = q[l]
          BY <1>1, <1>2, <4>3, <2>1
        <5> QED
          BY <5>1, <1>5, Zenon
      <4> QED
        BY <1>1, <4>1, <4>2, <4>3
    <3> QED
      BY <3>1, <3>2, Zenon
  <2>2. CASE ~(i < k)
    <3>1. i + 1 \in 1 .. Len(q) /\ r[i] = q[i + 1]
      BY <1>1, <1>2, <2>2
    <3>2. ASSUME NEW l \in (i + 1) + 1 .. Len(q)
          PROVE  ~IsBlock(q[l])
      <4>1. l - 1 \in i + 1 .. Len(r) /\ r[l - 1] = q[l]
        BY <1>1, <1>2, <2>2
      <4> QED
        BY <4>1, <1>5, Zenon
    <3> QED
      BY <3>1, <3>2, Zenon
  <2> QED
    BY <2>1, <2>2, Zenon
<1> QED
  BY <1>3, <1>4, <1>5, Zenon

\* The blocks that are left, when a message is gone.
LEMMA BlocksLeft ==
    ASSUME NEW q, NEW r, NEW k, Shorter(q, r, k), ~IsBlock(q[k]) \/ k = 1,
           NEW e, NEW in, BlocksTyped(q), LastIs(q, e, in)
    PROVE  BlocksTyped(r) /\ LastIs(r, e, in)
<1>0. /\ \A i \in 1 .. Len(r) : \E j \in 1 .. Len(q) : r[i] = q[j]
      /\ \A j \in 1 .. Len(q) : j # k => \E i \in 1 .. Len(r) : r[i] = q[j]
  <2>1. \A i \in 1 .. Len(r) : \E j \in 1 .. Len(q) : r[i] = q[j]
    BY ShorterIs, SMT
  <2>2. \A j \in 1 .. Len(q) : j # k => \E i \in 1 .. Len(r) : r[i] = q[j]
    BY ShorterIs, SMT
  <2> QED
    BY <2>1, <2>2, Zenon
<1>1. BlocksTyped(r)
  BY <1>0, Zenon DEF BlocksTyped
<1>2. LastIs(r, e, in)
  <2> SUFFICES ASSUME NEW i \in 1 .. Len(r), IsBlock(r[i]), \A j \in i + 1 .. Len(r) : ~IsBlock(r[j])
               PROVE  r[i].epoch = e /\ r[i].in = in
    BY Zenon DEF LastIs
  <2>1. PICK j \in 1 .. Len(q) : r[i] = q[j] /\ \A l \in j + 1 .. Len(q) : ~IsBlock(q[l])
    BY ShorterIs
  <2> QED
    BY <2>1, Zenon DEF LastIs
<1> QED
  BY <1>1, <1>2, Zenon

\* A message that is no block is gone.
LEMMA FollowLess ==
    ASSUME NEW q, NEW r, NEW k, Shorter(q, r, k), ~IsBlock(q[k]),
           NEW e, NEW in, NEW s, NEW v, Followed(q, e, in, s, v)
    PROVE  Followed(r, e, in, s, v)
<1>0. /\ \A i \in 1 .. Len(r) : \E j \in 1 .. Len(q) : r[i] = q[j]
      /\ \A j \in 1 .. Len(q) : j # k => \E i \in 1 .. Len(r) : r[i] = q[j]
  <2>1. \A i \in 1 .. Len(r) : \E j \in 1 .. Len(q) : r[i] = q[j]
    BY ShorterIs, SMT
  <2>2. \A j \in 1 .. Len(q) : j # k => \E i \in 1 .. Len(r) : r[i] = q[j]
    BY ShorterIs, SMT
  <2> QED
    BY <2>1, <2>2, Zenon
<1>1. BlocksTyped(r) /\ LastIs(r, e, in)
  BY BlocksLeft, Zenon DEF Followed
<1>2. NoBlock(r) => NoBlock(q)
  BY <1>0, Zenon DEF NoBlock
<1>3. AllIn(r) => AllIn(q)
  BY <1>0, Zenon DEF AllIn
<1> QED
  BY <1>1, <1>2, <1>3, Zenon DEF Followed

\* The first message is gone.
LEMMA TailShorter ==
    ASSUME NEW q, IsSeq(q), q # << >>
    PROVE  Shorter(q, Tail(q), 1)
<1> DEFINE r == Tail(q)
<1>1. /\ Len(q) \in Nat \ {0} /\ Len(r) = Len(q) - 1
      /\ \A i \in 1 .. Len(q) - 1 : r[i] = q[i + 1]
  BY Taken, SMT
<1> HIDE DEF r
<1>2. Shorter(q, r, 1)
  BY <1>1 DEF Shorter
<1> QED
  BY <1>2 DEF r

\* A message of the mailbox that is no block is handled.
LEMMA FollowTail ==
    ASSUME NEW q, IsSeq(q), q # << >>, ~IsBlock(q[1]),
           NEW e, NEW in, NEW s, NEW v, Followed(q, e, in, s, v)
    PROVE  Followed(Tail(q), e, in, s, v)
BY TailShorter, FollowLess, Zenon

\* A message that is no block is added.
LEMMA FollowAppend ==
    ASSUME NEW q, IsSeq(q), NEW m, ~IsBlock(m),
           NEW e, NEW in, NEW s, NEW v, Followed(q, e, in, s, v)
    PROVE  Followed(Append(q, m), e, in, s, v)
<1> DEFINE r == Append(q, m)
<1>1. /\ Len(q) \in Nat /\ Len(r) = Len(q) + 1
      /\ \A i \in 1 .. Len(q) : r[i] = q[i]
      /\ r[Len(q) + 1] = m
  BY Added, SMT
<1> HIDE DEF r
<1>2. Len(r) \in Nat /\ Len(q) <= Len(r) /\ \A i \in Len(q) + 1 .. Len(r) : ~IsBlock(r[i])
  BY <1>1
<1>3. Followed(r, e, in, s, v)
  BY <1>1, <1>2, FollowMore, Zenon
<1> QED
  BY <1>3 DEF r

\* Messages that are no blocks are added.
LEMMA FollowJoin ==
    ASSUME NEW q, IsSeq(q), NEW p, IsSeq(p), \A i \in 1 .. Len(p) : ~IsBlock(p[i]),
           NEW e, NEW in, NEW s, NEW v, Followed(q, e, in, s, v)
    PROVE  Followed(q \o p, e, in, s, v)
<1> DEFINE r == q \o p
<1>1. /\ Len(q) \in Nat /\ Len(p) \in Nat /\ Len(r) = Len(q) + Len(p)
      /\ \A i \in 1 .. Len(q) : r[i] = q[i]
      /\ \A i \in Len(q) + 1 .. Len(q) + Len(p) : r[i] = p[i - Len(q)]
  BY Joined, SMT
<1> HIDE DEF r
<1>2. \A i \in Len(q) + 1 .. Len(q) + Len(p) : i - Len(q) \in 1 .. Len(p)
  BY <1>1
<1>3. Len(r) \in Nat /\ Len(q) <= Len(r) /\ \A i \in Len(q) + 1 .. Len(r) : ~IsBlock(r[i])
  BY <1>1, <1>2
<1>4. Followed(r, e, in, s, v)
  BY <1>1, <1>3, FollowMore, Zenon
<1> QED
  BY <1>4 DEF r

\* The message of the timer is no block.
LEMMA FollowCancel ==
    ASSUME NEW q, IsSeq(q), NEW e, NEW in, NEW s, NEW v, Followed(q, e, in, s, v)
    PROVE  Followed(WithoutTimerMessage(q), e, in, s, v)
<1>1. DOMAIN q = 1 .. Len(q) /\ Len(q) \in Nat
  BY DEF IsSeq
<1>2. CASE TimerMessages(q) = {}
  BY <1>2, Zenon DEF WithoutTimerMessage
<1>3. CASE TimerMessages(q) # {}
  <2> DEFINE c == CHOOSE i \in TimerMessages(q) : TRUE
  <2>1. c \in TimerMessages(q)
    BY <1>3, Zenon
  <2>2. WithoutTimerMessage(q) = Without(q, c)
    BY <1>3, Zenon DEF WithoutTimerMessage
  <2> HIDE DEF c
  <2>3. c \in 1 .. Len(q) /\ ~IsBlock(q[c])
    BY <2>1, <1>1 DEF TimerMessages, IsBlock
  <2> DEFINE r == Without(q, c)
  <2>4. Len(r) = Len(q) - 1 /\ \A i \in 1 .. Len(q) - 1 : r[i] = IF i < c THEN q[i] ELSE q[i + 1]
    BY <2>3, LeftOut, SMT
  <2> HIDE DEF r
  <2>5. Shorter(q, r, c)
    BY <2>3, <2>4, <1>1, Zenon DEF Shorter
  <2>6. Followed(r, e, in, s, v)
    BY <2>3, <2>5, FollowLess, Zenon
  <2> QED
    BY <2>2, <2>6 DEF r
<1> QED
  BY <1>2, <1>3, Zenon

\* A block is handled: the status is then the one of that block, and if it is the
\* one of before no end of the window was in between.
LEMMA FollowBlock ==
    ASSUME NEW q, IsSeq(q), q # << >>, IsBlock(q[1]),
           NEW e, NEW in, NEW s, NEW v, Followed(q, e, in, s, v),
           NEW x, StatusTyped(x), Matches(x, q[1].epoch, q[1].in), Fresh(x, v) \/ (x = s /\ q[1].in)
    PROVE  Followed(Tail(q), e, in, x, v)
<1> DEFINE r == Tail(q)
<1>1. /\ Len(q) \in Nat \ {0} /\ Len(r) = Len(q) - 1
      /\ \A i \in 1 .. Len(q) - 1 : r[i] = q[i + 1]
  BY Taken, SMT
<1>2. Shorter(q, r, 1)
  BY TailShorter, Zenon
<1> HIDE DEF r
<1>3. BlocksTyped(r) /\ LastIs(r, e, in)
  BY <1>2, BlocksLeft, Zenon DEF Followed
<1>4. \A i \in 1 + 1 .. Len(q) : i - 1 \in 1 .. Len(r) /\ r[i - 1] = q[i]
  BY <1>1
<1>5. 1 \in 1 .. Len(q)
  BY <1>1
<1>6. NoBlock(r) => Matches(x, e, in)
  <2> SUFFICES ASSUME NoBlock(r) PROVE Matches(x, e, in)
    OBVIOUS
  <2>1. \A i \in 1 + 1 .. Len(q) : ~IsBlock(q[i])
    BY <1>4, Zenon DEF NoBlock
  <2>2. q[1].epoch = e /\ q[1].in = in
    BY <2>1, <1>5, Zenon DEF Followed, LastIs
  <2> QED
    BY <2>2, Zenon
<1>7. AllIn(r) => Fresh(x, v)
  <2> SUFFICES ASSUME AllIn(r), x = s, q[1].in PROVE Fresh(x, v)
    BY Zenon
  <2>1. ASSUME NEW i \in 1 .. Len(q), IsBlock(q[i])
        PROVE  q[i].in
    <3>1. i = 1 \/ i \in 1 + 1 .. Len(q)
      BY <1>1
    <3> QED
      BY <3>1, <2>1, <1>4, Zenon DEF AllIn
  <2>2. AllIn(q)
    BY <2>1, Zenon DEF AllIn
  <2> QED
    BY <2>2, Zenon DEF Followed
<1>8. Followed(r, e, in, x, v)
  BY <1>3, <1>6, <1>7, Zenon DEF Followed
<1> QED
  BY <1>8 DEF r

\* A signature is learnt.
LEMMA FollowLearn ==
    ASSUME NEW q, NEW e, NEW in, NEW s, NEW v, Followed(q, e, in, s, v), s # NoStatus,
           NEW x, StatusTyped(x), x # NoStatus, x.epoch = s.epoch, x.message = s.message
    PROVE  Followed(q, e, in, x, v)
<1>1. Matches(s, e, in) => Matches(x, e, in)
  BY Zenon DEF Matches
<1>2. Fresh(s, v) => Fresh(x, v)
  BY Zenon DEF Fresh
<1> QED
  BY <1>1, <1>2, Zenon DEF Followed

\* The chain has another tip: the message of the status may be out of date only
\* when a block outside the window comes.
LEMMA FollowTip ==
    ASSUME NEW q, IsSeq(q), NEW e, NEW in, NEW s, NEW v, Followed(q, e, in, s, v),
           NEW m, IsBlock(m), BlockTyped(m), NEW w, w = v \/ ~m.in
    PROVE  Followed(Append(q, m), m.epoch, m.in, s, w)
<1> DEFINE r == Append(q, m)
<1>1. /\ Len(q) \in Nat /\ Len(r) = Len(q) + 1
      /\ \A i \in 1 .. Len(q) : r[i] = q[i]
      /\ r[Len(q) + 1] = m
  BY Added, SMT
<1> HIDE DEF r
<1>2. \A i \in 1 .. Len(r) : (i \in 1 .. Len(q) /\ Len(q) + 1 \in i + 1 .. Len(r)) \/ i = Len(q) + 1
  BY <1>1
<1>3. Len(q) + 1 \in 1 .. Len(r) /\ \A i \in 1 .. Len(q) : i \in 1 .. Len(r)
  BY <1>1
<1>4. BlocksTyped(r)
  BY <1>1, <1>2, Zenon DEF BlocksTyped, Followed
<1>5. LastIs(r, m.epoch, m.in)
  BY <1>1, <1>2, Zenon DEF LastIs
<1>6. ~NoBlock(r)
  BY <1>1, <1>3, Zenon DEF NoBlock
<1>7. AllIn(r) => AllIn(q) /\ m.in
  BY <1>1, <1>3, Zenon DEF AllIn
<1>8. Followed(r, m.epoch, m.in, s, w)
  BY <1>4, <1>5, <1>6, <1>7, Zenon DEF Followed
<1> QED
  BY <1>8 DEF r

TipTyped ==
    /\ tip = [epoch |-> tip.epoch, in |-> tip.in]
    /\ tip.epoch \in 0 .. MaxEpoch /\ tip.in \in BOOLEAN /\ (tip.in => tip.epoch \in 1 .. MaxEpoch)

\* What holds of the status as long as no request fails.
Follows ==
    /\ Followed(mailbox, tip.epoch, tip.in, status, version)
    /\ status = NoStatus => timer = "off"

\* The inductive invariant.
ChainInv == SubmissionInv /\ TipTyped /\ (~failures => Follows)

\* A status that is begun, or none, and one with another signature.
LEMMA StatusesTyped ==
    /\ StatusTyped(NoStatus) /\ \A v : Fresh(NoStatus, v)
    /\ \A e \in 1 .. MaxEpoch : /\ StatusTyped(NewStatus(e)) /\ NewStatus(e) # NoStatus
                                /\ NewStatus(e).epoch = e /\ Fresh(NewStatus(e), version)
    /\ \A k : StatusTyped(status) /\ status # NoStatus =>
            /\ StatusTyped(Learn(k)) /\ Learn(k) # NoStatus
            /\ Learn(k).epoch = status.epoch /\ Learn(k).message = status.message
<1>1. StatusTyped(NoStatus) /\ \A v : Fresh(NoStatus, v)
  BY DEF StatusTyped, NoStatus, Fresh
<1>2. ASSUME NEW e \in 1 .. MaxEpoch
      PROVE  /\ StatusTyped(NewStatus(e)) /\ NewStatus(e) # NoStatus
             /\ NewStatus(e).epoch = e /\ Fresh(NewStatus(e), version)
  <2> DEFINE s == NewStatus(e)
  <2>1. s = [epoch |-> e, message |-> <<e, version[e]>>, known |-> << >>]
    BY Zenon DEF NewStatus, MessageToSign
  <2> HIDE DEF s
  <2>2. s.epoch = e /\ s.message = <<e, version[e]>> /\ s.known = << >>
    BY <2>1
  <2>3. NoStatus.epoch = 0
    BY DEF NoStatus
  <2>4. e # 0
    BY SubmitterAssumption
  <2>5. s # NoStatus
    BY <2>2, <2>3, <2>4, Zenon
  <2>6. StatusTyped(s)
    BY <2>1, <2>2, Zenon DEF StatusTyped
  <2>7. Fresh(s, version)
    BY <2>2, Zenon DEF Fresh
  <2> QED
    BY <2>2, <2>5, <2>6, <2>7 DEF s
<1>3. ASSUME NEW k, StatusTyped(status), status # NoStatus
      PROVE  /\ StatusTyped(Learn(k)) /\ Learn(k) # NoStatus
             /\ Learn(k).epoch = status.epoch /\ Learn(k).message = status.message
  <2> DEFINE s == status
  <2> DEFINE x == Learn(k)
  <2>1. s = [epoch |-> s.epoch, message |-> s.message, known |-> s.known] /\ s.epoch \in 1 .. MaxEpoch
    BY <1>3, Zenon DEF StatusTyped
  <2>2. x = [s EXCEPT !.known = Append(s.known, k)]
    BY Zenon DEF Learn
  <2> HIDE DEF s, x
  <2>3. x = [epoch |-> s.epoch, message |-> s.message, known |-> Append(s.known, k)]
    BY <2>1, <2>2, SMTT(30)
  <2>4. x.epoch = s.epoch /\ x.message = s.message /\ x.known = Append(s.known, k)
    BY <2>3
  <2>5. NoStatus.epoch = 0 /\ s.epoch # 0
    BY <2>1, SubmitterAssumption DEF NoStatus
  <2>6. x # NoStatus
    BY <2>4, <2>5, Zenon
  <2>7. StatusTyped(x)
    BY <2>1, <2>3, <2>4, Zenon DEF StatusTyped
  <2> QED
    BY <2>4, <2>6, <2>7 DEF s, x
<1> QED
  BY <1>1, <1>2, <1>3, Zenon

\* The first message is handled, if it is no block.
LEMMA FollowHandled ==
    ASSUME SubmissionInv, Follows, NEW type, Receives(type), type # "SemanticallySuccessfulModifier"
    PROVE  /\ IsSeq(Rest) /\ Followed(Rest, tip.epoch, tip.in, status, version)
           /\ \A m : ~IsBlock(m) => /\ IsSeq(Append(Rest, m))
                                    /\ Followed(Append(Rest, m), tip.epoch, tip.in, status, version)
<1>1. /\ mailbox # << >> /\ mailbox[1].type = type /\ IsSeq(mailbox)
      /\ Rest = Tail(mailbox) /\ IsSeq(Tail(mailbox))
  BY ReceivedIs, Zenon DEF SubmissionInv
<1>2. ~IsBlock(mailbox[1])
  BY <1>1, Zenon DEF IsBlock
<1>3. Followed(Rest, tip.epoch, tip.in, status, version)
  BY <1>1, <1>2, FollowTail, Zenon DEF Follows
<1> QED
  BY <1>1, <1>3, FollowAppend, Added, Zenon

\* No message but the event of a block is a block.
LEMMA NotBlocks ==
    /\ \A type : type # "SemanticallySuccessfulModifier" => ~IsBlock(Plain(type))
    /\ \A i, m, s : ~IsBlock(RemoteSignature(i, m, s))
<1>1. \A type : Plain(type).type = type
  BY DEF Plain
<1>2. \A i, m, s : RemoteSignature(i, m, s).type = "SignatureFromRemote"
  BY DEF RemoteSignature
<1>3. "SignatureFromRemote" # "SemanticallySuccessfulModifier"
  OBVIOUS
<1> QED
  BY <1>1, <1>2, <1>3, Zenon DEF IsBlock

\* A step that handles a message that is no block, or adds one, and leaves tip,
\* chain and status.
LEMMA FollowQuiet ==
    ASSUME NEW q, Followed(q, tip.epoch, tip.in, status, version), mailbox' = q,
           UNCHANGED <<tip, version, status>>, status = NoStatus => timer' = "off"
    PROVE  Follows'
BY Zenon DEF Follows

\* newBlockArrived, in the window.
LEMMA FollowInWindow ==
    ASSUME SignersAreCounted, SubmissionInv, Follows, ~failures, newBlockInWindow
    PROVE  Follows'
<1>1. /\ Receives("SemanticallySuccessfulModifier") /\ Message.in
      /\ UNCHANGED <<tip, version, timer>>
  BY Zenon DEF newBlockInWindow, surroundings, chainVars
<1>2. /\ mailbox # << >> /\ mailbox[1].type = "SemanticallySuccessfulModifier"
      /\ Message = mailbox[1] /\ Rest = Tail(mailbox) /\ IsSeq(Rest) /\ IsSeq(mailbox)
  BY <1>1, ReceivedIs, Zenon DEF SubmissionInv
<1>3. Followed(mailbox, tip.epoch, tip.in, status, version) /\ StatusTyped(status)
  BY Zenon DEF Follows, Followed
<1>4. IsBlock(mailbox[1]) /\ mailbox[1].in /\ mailbox[1].epoch \in 1 .. MaxEpoch
  <2>1. 1 \in 1 .. Len(mailbox)
    BY <1>2, Taken
  <2>2. IsBlock(mailbox[1])
    BY <1>2, Zenon DEF IsBlock
  <2>3. BlockTyped(mailbox[1])
    BY <1>3, <2>1, <2>2, Zenon DEF Followed, BlocksTyped
  <2> QED
    BY <2>2, <2>3, <1>1, <1>2, Zenon DEF BlockTyped
<1> DEFINE e == mailbox[1].epoch
<1>5. CASE status.epoch = e /\ mailbox' = Rest /\ UNCHANGED status
  <2>1. Matches(status, e, mailbox[1].in)
    BY <1>4, <1>5, Zenon DEF Matches
  <2>2. Followed(Rest, tip.epoch, tip.in, status, version)
    BY <2>1, <1>2, <1>3, <1>4, FollowBlock, Zenon
  <2> QED
    BY <2>2, <1>1, <1>5, FollowQuiet, Zenon DEF Follows
<1>6. ASSUME NEW p, IsSeq(p), \A i \in 1 .. Len(p) : ~IsBlock(p[i]),
             status' = NewStatus(e), mailbox' = Rest \/ mailbox' = Rest \o p
      PROVE  Follows'
  <2> DEFINE x == NewStatus(e)
  <2>1. StatusTyped(x) /\ x # NoStatus /\ x.epoch = e /\ Fresh(x, version)
    BY <1>4, StatusesTyped, Zenon
  <2> HIDE DEF x
  <2>2. Matches(x, e, mailbox[1].in)
    BY <2>1, <1>4, Zenon DEF Matches
  <2>3. Followed(Rest, tip.epoch, tip.in, x, version)
    BY <2>1, <2>2, <1>2, <1>3, <1>4, FollowBlock, Zenon
  <2>4. Followed(Rest \o p, tip.epoch, tip.in, x, version)
    BY <2>3, <1>2, <1>6, FollowJoin, Zenon
  <2>5. status' = x
    BY <1>6 DEF x
  <2>6. Followed(mailbox', tip.epoch, tip.in, status', version)
    BY <2>3, <2>4, <2>5, <1>6, Zenon
  <2>7. status' # NoStatus
    BY <2>1, <2>5, Zenon
  <2>8. tip' = tip /\ version' = version /\ timer' = timer
    BY <1>1, Zenon
  <2>9. Followed(mailbox', tip'.epoch, tip'.in, status', version')
    BY <2>6, <2>8, Zenon
  <2> QED
    BY <2>7, <2>9, Zenon DEF Follows
<1>7. \/ status.epoch = e /\ mailbox' = Rest /\ UNCHANGED status
      \/ status' = NewStatus(e) /\ mailbox' = Rest
      \/ \E part \in SUBSET EnclaveKeys :
            status' = NewStatus(e) /\ mailbox' = Rest \o Signatures(part, MessageToSign(e))
  BY <1>2, Zenon DEF newBlockInWindow
<1>8. CASE status' = NewStatus(e) /\ mailbox' = Rest
  <2>1. << >> \in Seq({}) /\ Len(<< >>) = 0
    OBVIOUS
  <2>2. IsSeq(<< >>) /\ \A i \in 1 .. Len(<< >>) : ~IsBlock(<< >>[i])
    BY <2>1 DEF IsSeq
  <2> QED
    BY <2>2, <1>6, <1>8, Zenon
<1>9. ASSUME NEW part \in SUBSET EnclaveKeys, status' = NewStatus(e),
             mailbox' = Rest \o Signatures(part, MessageToSign(e))
      PROVE  Follows'
  <2> DEFINE m == MessageToSign(e)
  <2> HIDE DEF m
  <2> DEFINE p == Signatures(part, m)
  <2>1. IsSeq(p) /\ \A i \in 1 .. Len(p) : p[i].type = "LocallyGeneratedSignature"
    BY SignaturesAre, Zenon
  <2>2. mailbox' = Rest \o p
    BY <1>9 DEF m
  <2> HIDE DEF p
  <2>3. \A i \in 1 .. Len(p) : ~IsBlock(p[i])
    BY <2>1 DEF IsBlock
  <2> QED
    BY <2>1, <2>2, <2>3, <1>6, <1>9, Zenon
<1> QED
  BY <1>5, <1>7, <1>8, <1>9, Zenon

\* newBlockArrived, outside the window.
LEMMA FollowOutside ==
    ASSUME SubmissionInv, Follows, newBlockOutsideWindow
    PROVE  Follows'
<1>1. /\ Receives("SemanticallySuccessfulModifier") /\ ~Message.in
      /\ tip' = tip /\ version' = version /\ timer' = "off" /\ status' = NoStatus
      /\ \/ mailbox' = Rest
         \/ mailbox' = Append(WithoutTimerMessage(Rest), Plain("CertificateSubmissionStopped"))
  BY Zenon DEF newBlockOutsideWindow, surroundings, chainVars
<1>2. /\ mailbox # << >> /\ mailbox[1].type = "SemanticallySuccessfulModifier"
      /\ Message = mailbox[1] /\ Rest = Tail(mailbox) /\ IsSeq(Rest) /\ IsSeq(mailbox)
  BY <1>1, ReceivedIs, Zenon DEF SubmissionInv
<1>3. Followed(mailbox, tip.epoch, tip.in, status, version)
  BY Zenon DEF Follows
<1>4. IsBlock(mailbox[1])
  BY <1>2, Zenon DEF IsBlock
<1>5. Matches(NoStatus, mailbox[1].epoch, mailbox[1].in)
  BY <1>1, <1>2, Zenon DEF Matches
<1>6. Followed(Rest, tip.epoch, tip.in, NoStatus, version)
  BY <1>2, <1>3, <1>4, <1>5, StatusesTyped, FollowBlock, Zenon
<1>7. IsSeq(WithoutTimerMessage(Rest))
  <2>1. Attended(Rest, generating, timer, Len(threads))
    BY <1>1, HandleNeutral, Zenon
  <2> QED
    BY <2>1, <1>2, CancelTimer, Zenon
<1>8. Followed(WithoutTimerMessage(Rest), tip.epoch, tip.in, NoStatus, version)
  BY <1>2, <1>6, FollowCancel, Zenon
<1>9. ~IsBlock(Plain("CertificateSubmissionStopped"))
  BY DEF IsBlock, Plain
<1>10. Followed(Append(WithoutTimerMessage(Rest), Plain("CertificateSubmissionStopped")),
                tip.epoch, tip.in, NoStatus, version)
  BY <1>7, <1>8, <1>9, FollowAppend, Zenon
<1>11. Followed(mailbox', tip'.epoch, tip'.in, status', version')
  BY <1>1, <1>6, <1>10, Zenon
<1> QED
  BY <1>1, <1>11, Zenon DEF Follows

\* A signature of this node or of a peer.
LEMMA FollowSignature ==
    ASSUME SubmissionInv, Follows, locallyGeneratedSignature \/ signatureFromRemote
    PROVE  Follows'
<1>1. tip' = tip /\ version' = version /\ timer' = timer
  BY Zenon DEF locallyGeneratedSignature, signatureFromRemote, surroundings, chainVars
<1>2. \E type : Receives(type) /\ type # "SemanticallySuccessfulModifier"
  <2>1. "LocallyGeneratedSignature" # "SemanticallySuccessfulModifier"
        /\ "SignatureFromRemote" # "SemanticallySuccessfulModifier"
    OBVIOUS
  <2> QED
    BY <2>1, Zenon DEF locallyGeneratedSignature, signatureFromRemote
<1>3. /\ IsSeq(Rest) /\ Followed(Rest, tip.epoch, tip.in, status, version)
      /\ \A m : ~IsBlock(m) => Followed(Append(Rest, m), tip.epoch, tip.in, status, version)
  BY <1>2, FollowHandled, Zenon
<1>4. \/ mailbox' = Rest /\ status' = status
      \/ /\ status # NoStatus /\ \E k : status' = Learn(k)
         /\ mailbox' = Append(Rest, Plain("TryToScheduleCertificateGeneration"))
  BY Zenon DEF locallyGeneratedSignature, signatureFromRemote, Acceptable
<1>5. CASE mailbox' = Rest /\ status' = status
  <2>1. Followed(mailbox', tip'.epoch, tip'.in, status', version')
    BY <1>1, <1>3, <1>5, Zenon
  <2> QED
    BY <2>1, <1>1, <1>5, Zenon DEF Follows
<1>6. CASE /\ status # NoStatus /\ \E k : status' = Learn(k)
           /\ mailbox' = Append(Rest, Plain("TryToScheduleCertificateGeneration"))
  <2>1. PICK k : status' = Learn(k)
    BY <1>6, Zenon
  <2>2. StatusTyped(status)
    BY Zenon DEF Follows, Followed
  <2> DEFINE x == Learn(k)
  <2>3. StatusTyped(x) /\ x # NoStatus /\ x.epoch = status.epoch /\ x.message = status.message
    BY <2>2, <1>6, StatusesTyped, Zenon
  <2>4. status' = x
    BY <2>1
  <2> HIDE DEF x
  <2>5. Followed(mailbox', tip.epoch, tip.in, status, version)
    BY <1>3, <1>6, NotBlocks
  <2>6. Followed(mailbox', tip.epoch, tip.in, x, version)
    BY <2>3, <2>5, <1>6, FollowLearn, Zenon
  <2>7. Followed(mailbox', tip'.epoch, tip'.in, status', version')
    BY <2>4, <2>6, <1>1, Zenon
  <2> QED
    BY <2>3, <2>4, <2>7, Zenon DEF Follows
<1> QED
  BY <1>4, <1>5, <1>6, Zenon

\* The chain grows or is switched.
LEMMA FollowChain ==
    ASSUME SubmissionInv, TipTyped, ChainGrows \/ ChainSwitches
    PROVE  TipTyped' /\ (Follows => Follows')
<1>1. mailbox' = Append(mailbox, Block(tip')) /\ status' = status /\ timer' = timer
  BY Zenon DEF ChainGrows, ChainSwitches, Send
<1> DEFINE t == tip
<1> DEFINE u == tip'
<1>2. /\ t = [epoch |-> t.epoch, in |-> t.in]
      /\ t.epoch \in 0 .. MaxEpoch /\ t.in \in BOOLEAN /\ (t.in => t.epoch \in 1 .. MaxEpoch)
  BY Zenon DEF TipTyped
<1>3. \/ t.in /\ u = t /\ version' = version
      \/ t.in /\ u = [t EXCEPT !.in = FALSE] /\ version' = version
      \/ ~t.in /\ t.epoch < MaxEpoch /\ u = [epoch |-> t.epoch + 1, in |-> TRUE] /\ version' = version
      \/ t.in /\ u = [epoch |-> t.epoch - 1, in |-> FALSE]
  BY Zenon DEF ChainGrows, ChainSwitches
<1>4. mailbox' = Append(mailbox, Block(u))
  BY <1>1
<1> HIDE DEF t, u
<1>5. /\ u = [epoch |-> u.epoch, in |-> u.in]
      /\ u.epoch \in 0 .. MaxEpoch /\ u.in \in BOOLEAN /\ (u.in => u.epoch \in 1 .. MaxEpoch)
      /\ version' = version \/ ~u.in
  <2>1. CASE t.in /\ u = t /\ version' = version
    BY <2>1, <1>2, Zenon
  <2>2. CASE t.in /\ u = [t EXCEPT !.in = FALSE] /\ version' = version
    <3>1. u = [epoch |-> t.epoch, in |-> FALSE]
      BY <2>2, <1>2, ZenonT(30)
    <3> QED
      BY <3>1, <1>2
  <2>3. CASE ~t.in /\ t.epoch < MaxEpoch /\ u = [epoch |-> t.epoch + 1, in |-> TRUE] /\ version' = version
    BY <2>3, <1>2, SubmitterAssumption
  <2>4. CASE t.in /\ u = [epoch |-> t.epoch - 1, in |-> FALSE]
    BY <2>4, <1>2, SubmitterAssumption
  <2> QED
    BY <1>3, <2>1, <2>2, <2>3, <2>4, Zenon
<1>6. TipTyped'
  BY <1>5, Zenon DEF TipTyped, u
<1> DEFINE m == Block(u)
<1>7. IsBlock(m) /\ m.epoch = u.epoch /\ m.in = u.in
  BY DEF IsBlock, Block
<1>8. mailbox' = Append(mailbox, m)
  BY <1>4
<1> HIDE DEF m
<1>9. BlockTyped(m)
  BY <1>5, <1>7, Zenon DEF BlockTyped
<1>10. Follows => Follows'
  <2> SUFFICES ASSUME Follows PROVE Follows'
    OBVIOUS
  <2> DEFINE w == version'
  <2>1. w = version \/ ~m.in
    BY <1>5, <1>7, Zenon
  <2> HIDE DEF w
  <2>2. Followed(Append(mailbox, m), m.epoch, m.in, status, w)
    BY <2>1, <1>7, <1>9, FollowTip, Zenon DEF Follows, SubmissionInv
  <2>3. Followed(mailbox', tip'.epoch, tip'.in, status', version')
    BY <2>2, <1>1, <1>7, <1>8, Zenon DEF u, w
  <2> QED
    BY <2>3, <1>1, Zenon DEF Follows
<1> QED
  BY <1>6, <1>10, Zenon

\* Every step keeps the invariant.
LEMMA ChainStep ==
    ASSUME SignersAreCounted, ChainInv, [Next]_vars
    PROVE  ChainInv'
<1>1. SubmissionInv /\ SubmissionInv' /\ TipTyped
  BY SubmissionStep, Zenon DEF ChainInv
<1>2. CASE ChainGrows \/ ChainSwitches
  <2>1. failures' = failures
    BY <1>2, Zenon DEF ChainGrows, ChainSwitches
  <2> QED
    BY <2>1, <1>1, <1>2, FollowChain, Zenon DEF ChainInv
<1>3. CASE ~(ChainGrows \/ ChainSwitches)
  <2>1. failures' = failures /\ tip' = tip /\ version' = version
    <3>1. Handle => UNCHANGED <<failures, tip, version>>
      BY Zenon DEF Handle, newBlockUnknown, newBlockInWindow, newBlockOutsideWindow,
            locallyGeneratedSignature, signatureFromRemote, tryToScheduleCertificateGeneration,
            tryToGenerateCertificate, onCertificateSubmissionEvent, submitterStatus, signerStatus,
            surroundings, chainVars
    <3>2. TimerFires \/ ThreadStep => UNCHANGED <<failures, tip, version>>
      BY Zenon DEF TimerFires, ThreadStep, generateProof, createRequestFails, checkBeforeSending,
            sendCertificate, surroundings, chainVars
    <3>3. PeerSends \/ ApiCalls \/ OtherCertificate => UNCHANGED <<failures, tip, version>>
      BY Zenon DEF PeerSends, ApiCalls, OtherCertificate, surroundings, chainVars
    <3>4. UNCHANGED vars => UNCHANGED <<failures, tip, version>>
      BY Zenon DEF vars
    <3> QED
      BY <3>1, <3>2, <3>3, <3>4, <1>3, Zenon DEF Next
  <2>2. TipTyped'
    BY <2>1, <1>1, Zenon DEF TipTyped
  <2> SUFFICES ASSUME ~failures PROVE Follows'
    BY <2>1, <2>2, <1>1, Zenon DEF ChainInv
  <2>3. Follows /\ Followed(mailbox, tip.epoch, tip.in, status, version)
    BY Zenon DEF ChainInv, Follows
  <2>k. ASSUME NEW q, Followed(q, tip.epoch, tip.in, status, version), mailbox' = q, status' = status,
               status = NoStatus => timer' = "off"
        PROVE  Follows'
    BY <2>k, <2>1, FollowQuiet, Zenon
  <2>a. \A m : ~IsBlock(m) => Followed(Append(mailbox, m), tip.epoch, tip.in, status, version)
    BY <2>3, <1>1, FollowAppend, Zenon DEF SubmissionInv
  <2>h. \A type : Receives(type) /\ type # "SemanticallySuccessfulModifier" =>
            /\ Followed(Rest, tip.epoch, tip.in, status, version)
            /\ \A m : ~IsBlock(m) => Followed(Append(Rest, m), tip.epoch, tip.in, status, version)
    BY <2>3, <1>1, FollowHandled, Zenon
  <2>t. status = NoStatus => timer = "off"
    BY <2>3, Zenon DEF Follows
  <2>p. \A type \in {"TryToScheduleCertificateGeneration", "CertificateSubmissionStarted",
                     "CertificateSubmissionStopped", "TryToGenerateCertificate", "EnableSubmitter",
                     "DisableSubmitter", "EnableCertificateSigner", "DisableCertificateSigner"} :
            type # "SemanticallySuccessfulModifier" /\ ~IsBlock(Plain(type))
    BY NotBlocks
  <2>4. CASE newBlockInWindow
    BY <2>3, <2>4, <1>1, FollowInWindow, Zenon
  <2>5. CASE newBlockOutsideWindow
    BY <2>3, <2>5, <1>1, FollowOutside, Zenon
  <2>6. CASE locallyGeneratedSignature \/ signatureFromRemote
    BY <2>3, <2>6, <1>1, FollowSignature, Zenon
  <2>7. CASE tryToScheduleCertificateGeneration
    <3>1. /\ Receives("TryToScheduleCertificateGeneration") /\ status' = status
          /\ \/ mailbox' = Rest /\ timer' = timer
             \/ mailbox' = Append(Rest, Plain("CertificateSubmissionStarted")) /\ status # NoStatus
      BY <2>7, Zenon DEF tryToScheduleCertificateGeneration
    <3> QED
      BY <3>1, <2>h, <2>k, <2>p, <2>t, Zenon
  <2>8. CASE tryToGenerateCertificate
    <3>1. /\ Receives("TryToGenerateCertificate") /\ status' = status /\ timer' = "off"
          /\ \/ mailbox' = Rest
             \/ mailbox' = Append(Rest, Plain("CertificateSubmissionStopped"))
      BY <2>8, Zenon DEF tryToGenerateCertificate
    <3> QED
      BY <3>1, <2>h, <2>k, <2>p, Zenon
  <2>9. CASE onCertificateSubmissionEvent \/ signerStatus
    <3>1. /\ \/ Receives("CertificateSubmissionStarted") \/ Receives("CertificateSubmissionStopped")
             \/ Receives("EnableCertificateSigner") \/ Receives("DisableCertificateSigner")
          /\ mailbox' = Rest /\ status' = status /\ timer' = timer
      BY <2>9, Zenon DEF onCertificateSubmissionEvent, signerStatus
    <3> QED
      BY <3>1, <2>h, <2>k, <2>p, <2>t, Zenon
  <2>10. CASE submitterStatus
    <3>1. /\ Receives("EnableSubmitter") \/ Receives("DisableSubmitter")
          /\ status' = status /\ timer' = timer
          /\ \/ mailbox' = Rest
             \/ mailbox' = Append(Rest, Plain("TryToScheduleCertificateGeneration"))
      BY <2>10, Zenon DEF submitterStatus
    <3> QED
      BY <3>1, <2>h, <2>k, <2>p, <2>t, Zenon
  <2>11. CASE TimerFires
    <3>1. timer = "on" /\ status' = status /\ mailbox' = Append(mailbox, Plain("TryToGenerateCertificate"))
      BY <2>11, Zenon DEF TimerFires
    <3>2. status # NoStatus
      BY <3>1, <2>t
    <3> QED
      BY <3>1, <3>2, <2>a, <2>k, <2>p, Zenon
  <2>12. CASE ThreadStep
    <3>1. /\ status' = status /\ timer' = timer
          /\ \/ mailbox' = mailbox
             \/ mailbox' = Append(mailbox, Plain("CertificateSubmissionStopped"))
      BY <2>12, Zenon DEF ThreadStep, generateProof, createRequestFails, checkBeforeSending,
            sendCertificate, threadStops
    <3> QED
      BY <3>1, <2>3, <2>a, <2>k, <2>p, <2>t, Zenon
  <2>13. CASE PeerSends
    <3>1. status' = status /\ timer' = timer
          /\ \E i, m, s : mailbox' = Append(mailbox, RemoteSignature(i, m, s))
      BY <2>13, Zenon DEF PeerSends, Call, Send
    <3> QED
      BY <3>1, <2>a, <2>k, <2>t, NotBlocks, Zenon
  <2>14. CASE ApiCalls
    <3>1. status' = status /\ timer' = timer
          /\ \E c \in {"EnableSubmitter", "DisableSubmitter", "EnableCertificateSigner",
                       "DisableCertificateSigner"} : mailbox' = Append(mailbox, Plain(c))
      BY <2>14, Zenon DEF ApiCalls, Call, Send
    <3> QED
      BY <3>1, <2>a, <2>k, <2>p, <2>t, Zenon
  <2>15. CASE OtherCertificate \/ UNCHANGED vars
    <3>1. mailbox' = mailbox /\ status' = status /\ timer' = timer
      BY <2>15, Zenon DEF OtherCertificate, vars
    <3> QED
      BY <3>1, <2>3, <2>k, <2>t, Zenon
  <2>16. ~newBlockUnknown
    BY Zenon DEF newBlockUnknown
  <2> QED
    BY <1>3, <2>4, <2>5, <2>6, <2>7, <2>8, <2>9, <2>10, <2>11, <2>12, <2>13, <2>14, <2>15, <2>16,
       Zenon DEF Next, Handle
<1> QED
  BY <1>2, <1>3, Zenon

----------------------------------------------------------------------------
(* The theorems *)

FST == INSTANCE FiniteSetTheorems

\* The set of signers is finite.
LEMMA SignersCounted == SignersAreCounted
<1> SUFFICES ASSUME NEW keys \in SUBSET Signer PROVE Cardinality(keys) \in Nat
  BY Zenon DEF SignersAreCounted
<1>1. IsFiniteSet(Signer)
  BY SubmitterAssumption
<1>2. FST!IsFiniteSet(Signer)
  BY <1>1, Zenon DEF IsFiniteSet, FST!IsFiniteSet
<1>3. FST!IsFiniteSet(keys)
  BY <1>2, FST!FS_Subset
<1>4. FST!Cardinality(keys) \in Nat
  BY <1>3, FST!FS_CardinalityType
<1> QED
  BY <1>4, Zenon DEF Cardinality, FST!Cardinality

\* A certificate is scheduled or generated once at a time, and the flag is set
\* while it is: tryToScheduleCertificateGeneration looks at the flag and at the
\* timer, and the announcements cannot be overtaken by the timer's message.
THEOREM OneSubmission == Spec => []OneSubmissionAtATime
<1>1. Init => SubmissionInv
  <2> SUFFICES ASSUME Init PROVE SubmissionInv
    OBVIOUS
  <2>1. mailbox = << >> /\ threads = << >> /\ generating = FALSE /\ timer = "off"
    BY Zenon DEF Init
  <2>2. << >> \in Seq({}) /\ Len(<< >>) = 0
    OBVIOUS
  <2>3. IsSeq(<< >>)
    BY <2>2, Zenon DEF IsSeq
  <2>4. Attended(<< >>, FALSE, "off", 0)
    BY <2>2 DEF Attended, NoneGenerates
  <2> QED
    BY <2>1, <2>2, <2>3, <2>4, Zenon DEF SubmissionInv
<1>2. SubmissionInv /\ [Next]_vars => SubmissionInv'
  BY SubmissionStep, SignersCounted
<1>3. SubmissionInv => OneSubmissionAtATime
  <2> SUFFICES ASSUME SubmissionInv PROVE OneSubmissionAtATime
    OBVIOUS
  <2>1. Len(threads) \in {0, 1} /\ (timer # "off" => Len(threads) = 0) /\ (Len(threads) = 1 => generating)
    BY Zenon DEF SubmissionInv, Attended
  <2>2. threads # << >> => Len(threads) # 0
    <3>1. PICK S : threads \in Seq(S)
      BY Zenon DEF SubmissionInv, IsSeq
    <3> QED
      BY <3>1
  <2> DEFINE scheduled == IF timer = "off" THEN 0 ELSE 1
  <2> DEFINE n == Len(threads)
  <2>3. n \in 0 .. 1 /\ scheduled \in 0 .. 1 /\ (n = 0 \/ scheduled = 0)
    BY <2>1
  <2> HIDE DEF scheduled, n
  <2>4. n + scheduled <= 1
    BY <2>3
  <2>5. threads # << >> => generating
    BY <2>1, <2>2
  <2> QED
    BY <2>4, <2>5 DEF OneSubmissionAtATime, scheduled, n
<1> QED
  BY <1>1, <1>2, <1>3, PTL DEF Spec

\* Once the events of all blocks are handled the signatures are collected for the
\* message of the active chain, or none are outside the window, whatever the order
\* of blocks, chain switches, signatures and timer, as long as no request failed:
\* newBlockArrived compares epochs only, and a switch that makes a message out of
\* date leaves a block outside the window in the mailbox.
THEOREM StatusIsOfChain == Spec => []StatusFollowsChain
<1>1. Init => ChainInv
  <2> SUFFICES ASSUME Init PROVE ChainInv
    OBVIOUS
  <2>1. mailbox = << >> /\ threads = << >> /\ generating = FALSE /\ timer = "off"
        /\ tip = [epoch |-> 0, in |-> FALSE] /\ status = NoStatus
    BY Zenon DEF Init
  <2>2. << >> \in Seq({}) /\ Len(<< >>) = 0
    OBVIOUS
  <2>3. IsSeq(<< >>)
    BY <2>2, Zenon DEF IsSeq
  <2>4. Attended(<< >>, FALSE, "off", 0)
    BY <2>2 DEF Attended, NoneGenerates
  <2>5. SubmissionInv
    BY <2>1, <2>2, <2>3, <2>4, Zenon DEF SubmissionInv
  <2>6. TipTyped /\ tip.in = FALSE
    BY <2>1, SubmitterAssumption DEF TipTyped
  <2>7. Matches(NoStatus, tip.epoch, tip.in)
    BY <2>6, Zenon DEF Matches
  <2>8. Followed(<< >>, tip.epoch, tip.in, NoStatus, version)
    <3>1. \A i \in 1 .. Len(<< >>) : FALSE
      BY <2>2
    <3>2. BlocksTyped(<< >>) /\ LastIs(<< >>, tip.epoch, tip.in)
      BY <3>1, Zenon DEF BlocksTyped, LastIs
    <3> QED
      BY <3>2, <2>7, StatusesTyped, Zenon DEF Followed
  <2> QED
    BY <2>1, <2>5, <2>6, <2>8, Zenon DEF ChainInv, Follows
<1>2. ChainInv /\ [Next]_vars => ChainInv'
  BY ChainStep, SignersCounted
<1>3. ChainInv => StatusFollowsChain
  <2> SUFFICES ASSUME ChainInv, ~failures, ~Pending("SemanticallySuccessfulModifier")
               PROVE  IF tip.in THEN status.epoch = tip.epoch /\ status.message = MessageToSign(tip.epoch)
                      ELSE status = NoStatus /\ timer = "off"
    BY Zenon DEF StatusFollowsChain
  <2>1. IsSeq(mailbox) /\ TipTyped /\ Follows /\ Followed(mailbox, tip.epoch, tip.in, status, version)
    BY Zenon DEF ChainInv, SubmissionInv, Follows
  <2>2. DOMAIN mailbox = 1 .. Len(mailbox)
    BY <2>1 DEF IsSeq
  <2>3. NoBlock(mailbox) /\ AllIn(mailbox)
    BY <2>2, Zenon DEF NoBlock, AllIn, Pending, IsBlock
  <2>4. Matches(status, tip.epoch, tip.in) /\ Fresh(status, version)
    BY <2>1, <2>3, Zenon DEF Followed
  <2>5. CASE tip.in
    <3>1. status.epoch = tip.epoch
      BY <2>4, <2>5, Zenon DEF Matches
    <3>2. tip.epoch # 0 /\ NoStatus.epoch = 0
      BY <2>1, <2>5, SubmitterAssumption DEF TipTyped, NoStatus
    <3>3. status # NoStatus
      BY <3>1, <3>2, Zenon
    <3>4. status.message = <<tip.epoch, version[tip.epoch]>>
      BY <3>1, <3>3, <2>4, Zenon DEF Fresh
    <3> QED
      BY <3>1, <3>4, <2>5, Zenon DEF MessageToSign
  <2>6. CASE ~tip.in
    BY <2>1, <2>4, <2>6, Zenon DEF Matches, Follows
  <2> QED
    BY <2>5, <2>6, Zenon
<1> QED
  BY <1>1, <1>2, <1>3, PTL DEF Spec

=============================================================================
