----------------------------- MODULE QueueFacts -----------------------------
(***************************************************************************)
(* Facts about finite sequences used as queues and logs, in the form the   *)
(* proofs about the island, the record queue and the history need them:    *)
(* what happens to the positions and to the contents when an element joins *)
(* or leaves.                                                              *)
(***************************************************************************)
EXTENDS Naturals, Sequences, SequenceTheorems, TLAPS

(* The first element leaves: all others move up by one. *)
LEMMA TailFacts ==
    ASSUME NEW S, NEW q \in Seq(S), q # <<>>
    PROVE  /\ Head(q) \in S /\ Tail(q) \in Seq(S) /\ 1 \in DOMAIN q /\ Head(q) = q[1]
           /\ Len(Tail(q)) = Len(q) - 1
           /\ \A i \in DOMAIN Tail(q) : i \in Nat /\ i > 0 /\ i + 1 \in DOMAIN q
                                        /\ Tail(q)[i] = q[i + 1]
           /\ \A i \in DOMAIN q : i = 1 \/ (i - 1 \in DOMAIN Tail(q) /\ Tail(q)[i - 1] = q[i])
<1>1. /\ Head(q) \in S /\ Tail(q) \in Seq(S) /\ Len(Tail(q)) = Len(q) - 1
      /\ \A i \in 1 .. Len(Tail(q)) : Tail(q)[i] = q[i + 1]
  BY HeadTailProperties
<1>2. /\ Len(q) \in Nat \ {0} /\ DOMAIN q = 1 .. Len(q)
      /\ DOMAIN Tail(q) = 1 .. (Len(q) - 1)
  BY <1>1, EmptySeq, LenProperties
<1>3. \A i \in DOMAIN Tail(q) : i \in Nat /\ i > 0 /\ i + 1 \in DOMAIN q /\ Tail(q)[i] = q[i + 1]
  BY <1>1, <1>2
<1>4. \A i \in DOMAIN q : i = 1 \/ (i - 1 \in DOMAIN Tail(q) /\ Tail(q)[i - 1] = q[i])
  BY <1>1, <1>2
<1>5. 1 \in DOMAIN q /\ Head(q) = q[1]
  BY <1>2
<1> QED
  BY <1>1, <1>3, <1>4, <1>5

(* An element joins at the end: no other moves. *)
LEMMA AppendFacts ==
    ASSUME NEW S, NEW q \in Seq(S), NEW e \in S
    PROVE  /\ Append(q, e) \in Seq(S) /\ Len(Append(q, e)) = Len(q) + 1
           /\ \A i \in DOMAIN q : i \in DOMAIN Append(q, e) /\ Append(q, e)[i] = q[i]
           /\ Len(q) + 1 \in DOMAIN Append(q, e) /\ Append(q, e)[Len(q) + 1] = e
           /\ \A i \in DOMAIN Append(q, e) : i = Len(q) + 1 \/ i \in DOMAIN q
           /\ \A i \in DOMAIN q : i \in Nat /\ i < Len(q) + 1
           /\ Len(q) \in Nat
           /\ Range(Append(q, e)) = Range(q) \cup {e}
<1>1. /\ Append(q, e) \in Seq(S) /\ Len(Append(q, e)) = Len(q) + 1
      /\ \A i \in 1 .. Len(q) : Append(q, e)[i] = q[i]
      /\ Append(q, e)[Len(q) + 1] = e
  BY AppendProperties
<1>2. Len(q) \in Nat /\ DOMAIN q = 1 .. Len(q) /\ DOMAIN Append(q, e) = 1 .. (Len(q) + 1)
  BY <1>1, LenProperties
<1>3. \A i \in DOMAIN q : i \in DOMAIN Append(q, e) /\ Append(q, e)[i] = q[i]
  BY <1>1, <1>2
<1>4. Len(q) + 1 \in DOMAIN Append(q, e)
  BY <1>2
<1>5. \A i \in DOMAIN Append(q, e) : i = Len(q) + 1 \/ i \in DOMAIN q
  BY <1>2
<1>6. \A i \in DOMAIN q : i \in Nat /\ i < Len(q) + 1
  BY <1>2
<1>7. Range(Append(q, e)) = Range(q) \cup {e}
  BY <1>1, <1>3, <1>4, <1>5 DEF Range
<1> QED
  BY <1>1, <1>2, <1>3, <1>4, <1>5, <1>6, <1>7

(* The first n elements of one log are written at the end of another. *)
LEMMA WriteFacts ==
    ASSUME NEW S, NEW log \in Seq(S), NEW b \in Seq(S), NEW n \in 0 .. Len(b)
    PROVE  LET w == log \o SubSeq(b, 1, n)
           IN /\ w \in Seq(S) /\ Len(w) = Len(log) + n /\ Len(log) \in Nat
              /\ \A i \in DOMAIN log : i \in Nat /\ i <= Len(log) /\ i \in DOMAIN w /\ w[i] = log[i]
              /\ \A i \in DOMAIN w : i \in Nat /\ (i \in DOMAIN log \/
                    (i > Len(log) /\ i - Len(log) \in DOMAIN b /\ w[i] = b[i - Len(log)]))
              /\ Range(log) \subseteq Range(w)
              /\ Range(w) \subseteq Range(log) \cup Range(b)
<1> DEFINE p == SubSeq(b, 1, n)
<1> DEFINE w == log \o p
<1>0. Len(log) \in Nat /\ Len(b) \in Nat /\ DOMAIN log = 1 .. Len(log) /\ DOMAIN b = 1 .. Len(b)
  BY LenProperties
<1>1. \A i \in 1 .. n : b[i] \in S /\ i \in DOMAIN b
  BY <1>0, ElementOfSeq
<1>2. p \in Seq(S) /\ Len(p) = n /\ \A i \in 1 .. n : p[i] = b[i]
  BY <1>0, <1>1, SubSeqProperties
<1> HIDE DEF p
<1>3. /\ w \in Seq(S) /\ Len(w) = Len(log) + n
      /\ \A i \in 1 .. Len(log) + n : w[i] = IF i <= Len(log) THEN log[i] ELSE p[i - Len(log)]
  BY <1>2, ConcatProperties
<1>4. DOMAIN w = 1 .. Len(log) + n
  BY <1>3, LenProperties
<1> HIDE DEF w
<1>5. \A i \in DOMAIN log : i \in Nat /\ i <= Len(log) /\ i \in DOMAIN w /\ w[i] = log[i]
  BY <1>0, <1>3, <1>4
<1>6. ASSUME NEW i \in DOMAIN w
      PROVE  i \in Nat /\ (i \in DOMAIN log \/
                (i > Len(log) /\ i - Len(log) \in DOMAIN b /\ w[i] = b[i - Len(log)]))
  <2>1. CASE i <= Len(log)
    BY <1>0, <1>4, <2>1
  <2>2. CASE i > Len(log)
    <3>1. i - Len(log) \in 1 .. n /\ i \in 1 .. Len(log) + n
      BY <1>0, <1>4, <2>2
    <3> QED
      BY <1>0, <1>1, <1>2, <1>3, <2>2, <3>1
  <2> QED
    BY <1>0, <1>4, <2>1, <2>2
<1>7. Range(log) \subseteq Range(w) /\ Range(w) \subseteq Range(log) \cup Range(b)
  BY <1>5, <1>6 DEF Range
<1> QED
  BY <1>0, <1>3, <1>5, <1>6, <1>7 DEF w, p

(* The element at position k leaves: those behind it move up by one. *)
LEMMA RemoveFacts ==
    ASSUME NEW S, NEW q \in Seq(S), NEW k \in DOMAIN q
    PROVE  LET w == SubSeq(q, 1, k - 1) \o SubSeq(q, k + 1, Len(q))
           IN /\ w \in Seq(S) /\ k \in Nat /\ DOMAIN w \subseteq Nat
              /\ \A i \in DOMAIN w : IF i < k THEN i \in DOMAIN q /\ w[i] = q[i]
                                     ELSE i + 1 \in DOMAIN q /\ w[i] = q[i + 1]
<1> DEFINE p == SubSeq(q, 1, k - 1)
<1> DEFINE r == SubSeq(q, k + 1, Len(q))
<1> DEFINE w == p \o r
<1>1. Len(q) \in Nat /\ DOMAIN q = 1 .. Len(q) /\ k \in 1 .. Len(q) /\ \A i \in 1 .. Len(q) : q[i] \in S
  BY LenProperties, ElementOfSeq
<1>2. p \in Seq(S) /\ Len(p) = k - 1 /\ \A i \in 1 .. k - 1 : p[i] = q[i]
  BY <1>1, SubSeqProperties
<1>3. r \in Seq(S) /\ Len(r) = Len(q) - k /\ \A i \in 1 .. Len(q) - k : r[i] = q[k + i]
  BY <1>1, SubSeqProperties
<1> HIDE DEF p, r
<1>4. /\ w \in Seq(S) /\ Len(w) = Len(p) + Len(r)
      /\ \A i \in 1 .. Len(p) + Len(r) : w[i] = IF i <= Len(p) THEN p[i] ELSE r[i - Len(p)]
  BY <1>2, <1>3, ConcatProperties
<1>5. DOMAIN w = 1 .. Len(p) + Len(r)
  BY <1>4, LenProperties
<1> HIDE DEF w
<1>6. ASSUME NEW i \in DOMAIN w
      PROVE  IF i < k THEN i \in DOMAIN q /\ w[i] = q[i] ELSE i + 1 \in DOMAIN q /\ w[i] = q[i + 1]
  <2>0. i \in 1 .. Len(p) + Len(r)
    BY <1>5
  <2>1. CASE i < k
    <3>1. i \in 1 .. k - 1 /\ i <= Len(p) /\ i \in 1 .. Len(q)
      BY <1>1, <1>2, <1>3, <2>0, <2>1
    <3> QED
      BY <1>1, <1>2, <1>4, <2>0, <2>1, <3>1
  <2>2. CASE ~(i < k)
    <3>1. i - (k - 1) \in 1 .. Len(q) - k /\ k + (i - (k - 1)) = i + 1 /\ i + 1 \in 1 .. Len(q)
      BY <1>1, <1>2, <1>3, <2>0, <2>2
    <3>2. w[i] = r[i - (k - 1)]
      BY <1>1, <1>2, <1>4, <2>0, <2>2
    <3> QED
      BY <1>1, <1>3, <2>2, <3>1, <3>2
  <2> QED
    BY <2>1, <2>2
<1>7. w \in Seq(S) /\ k \in Nat /\ DOMAIN w \subseteq Nat
  BY <1>1, <1>2, <1>3, <1>4, <1>5
<1> QED
  BY <1>6, <1>7 DEF w, p, r
=============================================================================
