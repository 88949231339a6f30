----------------------------- MODULE Tracks_proofs -----------------------------
(***************************************************************************)
(* Sends stay sound and feed no track back to itself, refused commands     *)
(* change no track, the system outputs stay one of each, an id stays one   *)
(* plugin's, the graph follows the tracks, full-PDC outputs play what was  *)
(* mixed for them in time, low-latency outputs no later than what they     *)
(* play makes it, and the delay lines follow the plan: for every session,  *)
(* every latency, all limits and any number of commands.                   *)
(*                                                                         *)
(* The first parts hold for whatever PlanRoutes returns, but for the walk  *)
(* over the tracks, which is opened to show the cycle check exact. The     *)
(* later ones open the plan as well (its delays meet) and the block that   *)
(* is played with it (a signal is as late as the plan says, or as the      *)
(* plugins on its way).                                                    *)
(***************************************************************************)
EXTENDS Tracks, TLAPS, SequenceTheorems, FiniteSetTheorems, WellFoundedInduction

Fields == {"kind", "role", "policy", "dests", "sidechain", "chain"}
Shaped(n) ==
    \A t \in DOMAIN n : DOMAIN n[t] = Fields /\ n[t].chain \in Seq(Range(n[t].chain))

\* The sequence of the tracks has each of them once.
Listed(o, D) ==
    /\ o \in Seq(D)
    /\ \A i, j \in 1..Len(o) : o[i] = o[j] => i = j
    /\ \A t \in D : \E i \in 1..Len(o) : o[i] = t

Paired(n) ==
    \A q, r \in SystemRoles : Holders(n, q) # {} => \E t \in DOMAIN n : Holders(n, r) = {t}

\* Sends that are sound and in no loop.
Routed(n) == Sound(n) /\ Loopless(n)

IInv ==
    /\ nextId \in Nat \ {0} /\ DOMAIN node \subseteq 1..(nextId - 1)
    /\ Listed(order, DOMAIN node)
    /\ Shaped(node) /\ Routed(node) /\ Paired(node)

(* Tracks that differ in their chains only, and in these only by shadows.   *)
Alike(m, n) ==
    /\ DOMAIN m = DOMAIN n
    /\ \A t \in DOMAIN n :
          /\ DOMAIN m[t] = DOMAIN n[t]
          /\ \A f \in Fields \ {"chain"} : m[t][f] = n[t][f]
          /\ m[t].chain \in Seq(Range(m[t].chain))
ShadowsApart(m, n) ==
    /\ Alike(m, n)
    /\ \A t \in DOMAIN n :
          /\ DOMAIN m[t].chain = DOMAIN n[t].chain
          /\ \A i \in DOMAIN n[t].chain : Plain(m[t].chain[i]) = Plain(n[t].chain[i])
-----------------------------------------------------------------------------
(* Sequences.                                                              *)
LEMMA FunctionIsSequence ==
    ASSUME NEW k \in Nat, NEW g, DOMAIN g = 1..k, g = [i \in 1..k |-> g[i]]
    PROVE  g \in Seq(Range(g)) /\ Len(g) = k
<1>1. g \in [1..k -> Range(g)]
  BY DEF Range
<1>2. g \in Seq(Range(g))
  BY <1>1, SeqDef
<1> QED BY <1>2, LenProperties

LEMMA ElementRemoved ==
    ASSUME NEW S, NEW c \in Seq(S), NEW i \in 1..Len(c)
    PROVE  /\ RemoveAt(c, i) \in Seq(S) /\ Len(RemoveAt(c, i)) = Len(c) - 1
           /\ DOMAIN RemoveAt(c, i) = 1..(Len(c) - 1)
           /\ \A j \in 1..(Len(c) - 1) : RemoveAt(c, i)[j] = c[IF j < i THEN j ELSE j + 1]
<1>1. Len(c) \in Nat /\ DOMAIN c = 1..Len(c) /\ \A j \in 1..Len(c) : c[j] \in S
  BY LenProperties, ElementOfSeq
<1> DEFINE a == SubSeq(c, 1, i - 1)
           b == SubSeq(c, i + 1, Len(c))
           r == a \o b
<1>2. a \in Seq(S) /\ Len(a) = i - 1 /\ \A j \in 1..(i - 1) : a[j] = c[j]
  <2>1. \A j \in 1..(i - 1) : c[j] \in S
    BY <1>1
  <2> QED BY <1>1, <2>1, SubSeqProperties
<1>3. b \in Seq(S) /\ Len(b) = Len(c) - i /\ \A j \in 1..(Len(c) - i) : b[j] = c[i + j]
  <2>1. \A j \in (i + 1)..Len(c) : c[j] \in S
    BY <1>1
  <2>2. /\ b \in Seq(S)
        /\ Len(b) = IF i + 1 <= Len(c) THEN Len(c) - (i + 1) + 1 ELSE 0
        /\ \A j \in 1..(Len(c) - (i + 1) + 1) : b[j] = c[(i + 1) + j - 1]
    BY <1>1, <2>1, SubSeqProperties
  <2> HIDE DEF b
  <2>n. Len(c) \in Nat
    BY <1>1
  <2>3. \A j \in 1..(Len(c) - i) : j \in 1..(Len(c) - (i + 1) + 1) /\ (i + 1) + j - 1 = i + j
    BY <2>n
  <2>4. (IF i + 1 <= Len(c) THEN Len(c) - (i + 1) + 1 ELSE 0) = Len(c) - i
    BY <2>n
  <2> QED BY <2>2, <2>3, <2>4
<1> HIDE DEF a, b
<1>4. /\ r \in Seq(S) /\ Len(r) = Len(a) + Len(b)
      /\ \A j \in 1..(Len(a) + Len(b)) : r[j] = IF j <= Len(a) THEN a[j] ELSE b[j - Len(a)]
  BY <1>2, <1>3, ConcatProperties
<1>5. RemoveAt(c, i) = r
  BY DEF RemoveAt, a, b
<1> HIDE DEF r
<1>6. Len(r) = Len(c) - 1 /\ DOMAIN r = 1..(Len(c) - 1)
  <2>1. (i - 1) + (Len(c) - i) = Len(c) - 1
    BY <1>1
  <2>2. Len(r) = Len(c) - 1
    BY <1>2, <1>3, <1>4, <2>1
  <2> QED BY <1>4, <2>2, LenProperties
<1>7. ASSUME NEW j \in 1..(Len(c) - 1) PROVE r[j] = c[IF j < i THEN j ELSE j + 1]
  <2>n. Len(c) \in Nat /\ i \in Nat /\ j \in Nat
    BY <1>1
  <2>1. r[j] = IF j <= i - 1 THEN a[j] ELSE b[j - (i - 1)]
    <3>1. (i - 1) + (Len(c) - i) = Len(c) - 1
      BY <1>1
    <3> QED BY <1>2, <1>3, <1>4, <3>1
  <2>2. CASE j < i
    <3>1. j \in 1..(i - 1) /\ j <= i - 1
      BY <2>n, <2>2
    <3> QED BY <1>2, <2>1, <2>2, <3>1
  <2>3. CASE ~(j < i)
    <3>1. j - (i - 1) \in 1..(Len(c) - i) /\ i + (j - (i - 1)) = j + 1 /\ ~(j <= i - 1)
      BY <2>n, <2>3
    <3> QED BY <1>3, <2>1, <2>3, <3>1
  <2> QED BY <2>2, <2>3
<1> QED BY <1>4, <1>5, <1>6, <1>7

LEMMA ElementInserted ==
    ASSUME NEW S, NEW r \in Seq(S), NEW j \in 1..(Len(r) + 1), NEW e \in S
    PROVE  /\ InsertAt(r, j, e) \in Seq(S) /\ Len(InsertAt(r, j, e)) = Len(r) + 1
           /\ DOMAIN InsertAt(r, j, e) = 1..(Len(r) + 1)
           /\ \A x \in 1..(Len(r) + 1) :
                 InsertAt(r, j, e)[x] = IF x < j THEN r[x] ELSE IF x = j THEN e ELSE r[x - 1]
<1>1. Len(r) \in Nat /\ DOMAIN r = 1..Len(r) /\ \A x \in 1..Len(r) : r[x] \in S
  BY LenProperties, ElementOfSeq
<1> DEFINE a == SubSeq(r, 1, j - 1)
           b == SubSeq(r, j, Len(r))
           u == a \o <<e>>
           w == u \o b
<1>2. a \in Seq(S) /\ Len(a) = j - 1 /\ \A x \in 1..(j - 1) : a[x] = r[x]
  <2>1. \A x \in 1..(j - 1) : r[x] \in S
    BY <1>1
  <2> QED BY <1>1, <2>1, SubSeqProperties
<1>3. b \in Seq(S) /\ Len(b) = Len(r) - j + 1 /\ \A x \in 1..(Len(r) - j + 1) : b[x] = r[j + x - 1]
  <2>1. \A x \in j..Len(r) : r[x] \in S
    BY <1>1
  <2>2. /\ b \in Seq(S)
        /\ Len(b) = IF j <= Len(r) THEN Len(r) - j + 1 ELSE 0
        /\ \A x \in 1..(Len(r) - j + 1) : b[x] = r[j + x - 1]
    BY <1>1, <2>1, SubSeqProperties
  <2> HIDE DEF b
  <2>3. (IF j <= Len(r) THEN Len(r) - j + 1 ELSE 0) = Len(r) - j + 1
    BY <1>1
  <2> QED BY <2>2, <2>3
<1> HIDE DEF a, b
<1>4. <<e>> \in Seq(S) /\ Len(<<e>>) = 1 /\ <<e>>[1] = e
  OBVIOUS
<1>5. /\ u \in Seq(S) /\ Len(u) = Len(a) + 1
      /\ \A x \in 1..(Len(a) + 1) : u[x] = IF x <= Len(a) THEN a[x] ELSE <<e>>[x - Len(a)]
  BY <1>2, <1>4, ConcatProperties
<1> HIDE DEF u
<1>6. u \in Seq(S) /\ Len(u) = j /\ u[j] = e /\ \A x \in 1..(j - 1) : u[x] = r[x]
  <2>1. (j - 1) + 1 = j /\ j \in 1..((j - 1) + 1) /\ ~(j <= j - 1) /\ j - (j - 1) = 1
    BY <1>1
  <2>2. u[j] = e
    BY <1>2, <1>4, <1>5, <2>1
  <2>3. \A x \in 1..(j - 1) : x \in 1..((j - 1) + 1) /\ x <= j - 1
    BY <1>1
  <2>4. \A x \in 1..(j - 1) : u[x] = r[x]
    BY <1>2, <1>5, <2>3
  <2> QED BY <1>2, <1>5, <2>1, <2>2, <2>4
<1>7. /\ w \in Seq(S) /\ Len(w) = Len(u) + Len(b)
      /\ \A x \in 1..(Len(u) + Len(b)) : w[x] = IF x <= Len(u) THEN u[x] ELSE b[x - Len(u)]
  BY <1>3, <1>6, ConcatProperties
<1>8. InsertAt(r, j, e) = w
  BY DEF InsertAt, a, b, u
<1> HIDE DEF w
<1>9. j + (Len(r) - j + 1) = Len(r) + 1
  BY <1>1
<1>10. Len(w) = Len(r) + 1 /\ DOMAIN w = 1..(Len(r) + 1)
  BY <1>3, <1>6, <1>7, <1>9, LenProperties
<1>11. ASSUME NEW x \in 1..(Len(r) + 1)
       PROVE  w[x] = IF x < j THEN r[x] ELSE IF x = j THEN e ELSE r[x - 1]
  <2>n. Len(r) \in Nat /\ j \in Nat /\ x \in Nat
    BY <1>1
  <2>1. w[x] = IF x <= j THEN u[x] ELSE b[x - j]
    BY <1>3, <1>6, <1>7, <1>9
  <2>2. CASE x < j
    <3>1. x \in 1..(j - 1) /\ x <= j
      BY <2>n, <2>2
    <3> QED BY <1>6, <2>1, <2>2, <3>1
  <2>3. CASE x = j
    <3>1. x <= j /\ ~(x < j)
      BY <2>n, <2>3
    <3> QED BY <1>6, <2>1, <2>3, <3>1
  <2>4. CASE x > j
    <3>1. x - j \in 1..(Len(r) - j + 1) /\ j + (x - j) - 1 = x - 1 /\ ~(x <= j) /\ ~(x < j)
            /\ x # j
      BY <2>n, <2>4
    <3> QED BY <1>3, <2>1, <3>1
  <2> QED BY <2>n, <2>2, <2>3, <2>4
<1> QED BY <1>7, <1>8, <1>10, <1>11

LEMMA ErasedIsListed ==
    ASSUME NEW D, NEW o, Listed(o, D), NEW t \in D
    PROVE  Listed(Erased(o, t), D \ {t}) /\ Len(Erased(o, t)) = Len(o) - 1
<1> DEFINE k == CHOOSE j \in DOMAIN o : o[j] = t
           r == RemoveAt(o, k)
<1>1. o \in Seq(D) /\ Len(o) \in Nat /\ DOMAIN o = 1..Len(o)
  BY LenProperties DEF Listed
<1>n. Len(o) \in Nat
  BY <1>1
<1>i. \A i, j \in 1..Len(o) : o[i] = o[j] => i = j
  BY DEF Listed
<1>2. k \in 1..Len(o) /\ o[k] = t
  BY <1>1 DEF Listed
<1> HIDE DEF k
<1>3. /\ r \in Seq(D) /\ Len(r) = Len(o) - 1
      /\ \A i \in 1..(Len(o) - 1) : r[i] = o[IF i < k THEN i ELSE i + 1]
  BY <1>1, <1>2, ElementRemoved
<1>4. Erased(o, t) = r
  BY DEF Erased, k
<1> HIDE DEF r
<1> DEFINE p(i) == IF i < k THEN i ELSE i + 1
<1>5. \A i \in 1..(Len(o) - 1) : p(i) \in 1..Len(o) /\ p(i) # k
  BY <1>n, <1>2
<1>6. \A i, j \in 1..(Len(o) - 1) : p(i) = p(j) => i = j
  BY <1>n, <1>2
<1>7. \A i \in 1..(Len(o) - 1) : r[i] = o[p(i)]
  BY <1>3
<1>8. \A j \in 1..Len(o) : j # k => \E i \in 1..(Len(o) - 1) : p(i) = j
  <2> SUFFICES ASSUME NEW j \in 1..Len(o), j # k PROVE \E i \in 1..(Len(o) - 1) : p(i) = j
    OBVIOUS
  <2>1. CASE j < k
    <3>1. j \in 1..(Len(o) - 1) /\ p(j) = j
      BY <1>n, <1>2, <2>1
    <3> QED BY <3>1
  <2>2. CASE j > k
    <3>1. j - 1 \in 1..(Len(o) - 1) /\ p(j - 1) = j
      BY <1>n, <1>2, <2>2
    <3> QED BY <3>1
  <2> QED BY <1>n, <1>2, <2>1, <2>2
<1> HIDE DEF p
<1>9. \A i \in 1..(Len(o) - 1) : r[i] \in D \ {t}
  <2> SUFFICES ASSUME NEW i \in 1..(Len(o) - 1) PROVE o[p(i)] \in D /\ o[p(i)] # t
    BY <1>7
  <2>1. p(i) \in 1..Len(o) /\ p(i) # k
    BY <1>5
  <2> QED BY <1>1, <1>i, <1>2, <2>1, ElementOfSeq
<1>10. r \in Seq(D \ {t})
  <2>1. DOMAIN r = 1..Len(r) /\ Len(r) \in Nat /\ r = [i \in 1..Len(r) |-> r[i]]
    BY <1>3, LenProperties
  <2>2. r \in Seq(Range(r))
    BY <2>1, FunctionIsSequence
  <2>3. Range(r) \subseteq D \ {t}
    BY <1>3, <1>9, <2>1 DEF Range
  <2> QED BY <2>2, <2>3, SeqMonotonic
<1>11. \A i, j \in 1..(Len(o) - 1) : r[i] = r[j] => i = j
  BY <1>i, <1>5, <1>6, <1>7
<1>12. \A s \in D \ {t} : \E i \in 1..(Len(o) - 1) : r[i] = s
  <2> SUFFICES ASSUME NEW s \in D \ {t} PROVE \E i \in 1..(Len(o) - 1) : r[i] = s
    OBVIOUS
  <2>1. PICK j \in 1..Len(o) : o[j] = s
    BY DEF Listed
  <2>2. PICK i \in 1..(Len(o) - 1) : p(i) = j
    BY <1>2, <1>8, <2>1
  <2> QED BY <1>7, <2>1, <2>2
<1> QED BY <1>3, <1>4, <1>10, <1>11, <1>12 DEF Listed

LEMMA InsertedIsListed ==
    ASSUME NEW D, NEW o, Listed(o, D), NEW t, t \notin D, NEW i \in 1..(Len(o) + 1)
    PROVE  Listed(InsertAt(o, i, t), D \cup {t})
<1> DEFINE w == InsertAt(o, i, t)
<1>1. o \in Seq(D \cup {t}) /\ Len(o) \in Nat /\ \A j \in 1..Len(o) : o[j] \in D
  BY LenProperties, SeqMonotonic, ElementOfSeq DEF Listed
<1>n. Len(o) \in Nat
  BY <1>1
<1>i. \A j, l \in 1..Len(o) : o[j] = o[l] => j = l
  BY DEF Listed
<1>2. t \in D \cup {t}
  OBVIOUS
<1>3. /\ w \in Seq(D \cup {t}) /\ Len(w) = Len(o) + 1
      /\ \A j \in 1..(Len(o) + 1) : w[j] = IF j < i THEN o[j] ELSE IF j = i THEN t ELSE o[j - 1]
  BY ONLY <1>1, <1>2, i \in 1..(Len(o) + 1), ElementInserted
<1> HIDE DEF w
<1>4. ASSUME NEW j \in 1..(Len(o) + 1), NEW l \in 1..(Len(o) + 1), w[j] = w[l]
      PROVE  j = l
  <2> DEFINE p == IF j < i THEN j ELSE j - 1
             q == IF l < i THEN l ELSE l - 1
  <2>1. CASE j # i /\ l # i
    <3>1. p \in 1..Len(o) /\ q \in 1..Len(o) /\ (p = q => j = l)
      BY <1>n, <2>1
    <3>2. w[j] = o[p] /\ w[l] = o[q]
      BY <1>3, <2>1
    <3> QED BY <1>i, <1>4, <3>1, <3>2
  <2>2. CASE j = i /\ l # i
    <3>1. q \in 1..Len(o) /\ w[l] = o[q] /\ w[j] = t
      BY <1>n, <1>3, <2>2
    <3> QED BY <1>1, <1>4, <3>1
  <2>3. CASE j # i /\ l = i
    <3>1. p \in 1..Len(o) /\ w[j] = o[p] /\ w[l] = t
      BY <1>n, <1>3, <2>3
    <3> QED BY <1>1, <1>4, <3>1
  <2> QED BY <2>1, <2>2, <2>3
<1>5. \A s \in D \cup {t} : \E j \in 1..(Len(o) + 1) : w[j] = s
  <2> SUFFICES ASSUME NEW s \in D, s # t PROVE \E j \in 1..(Len(o) + 1) : w[j] = s
    <3>1. i \in 1..(Len(o) + 1) /\ ~(i < i)
      BY <1>n
    <3>2. w[i] = t
      BY <1>3, <3>1
    <3> QED BY <3>1, <3>2
  <2>1. PICK l \in 1..Len(o) : o[l] = s
    BY DEF Listed
  <2>2. CASE l < i
    <3>1. l \in 1..(Len(o) + 1)
      BY <1>n
    <3> QED BY <1>3, <2>1, <2>2, <3>1
  <2>3. CASE l >= i
    <3>1. l + 1 \in 1..(Len(o) + 1) /\ ~(l + 1 < i) /\ l + 1 # i /\ (l + 1) - 1 = l
      BY <1>n, <2>3
    <3> QED BY <1>3, <2>1, <3>1
  <2>4. l < i \/ l >= i
    BY <1>n
  <2> QED BY <2>2, <2>3, <2>4
<1> QED BY <1>3, <1>4, <1>5 DEF Listed, w

LEMMA AppendedIsListed ==
    ASSUME NEW D, NEW o, Listed(o, D), NEW t, t \notin D
    PROVE  Listed(Append(o, t), D \cup {t})
<1>1. o \in Seq(D \cup {t}) /\ Len(o) \in Nat /\ \A j \in 1..Len(o) : o[j] \in D
  BY LenProperties, SeqMonotonic, ElementOfSeq DEF Listed
<1>2. /\ Append(o, t) \in Seq(D \cup {t}) /\ Len(Append(o, t)) = Len(o) + 1
      /\ \A i \in 1..Len(o) : Append(o, t)[i] = o[i]
      /\ Append(o, t)[Len(o) + 1] = t
  BY <1>1, AppendProperties
<1>3. \A s \in D \cup {t} : \E j \in 1..(Len(o) + 1) : Append(o, t)[j] = s
  <2> SUFFICES ASSUME NEW s \in D PROVE \E j \in 1..(Len(o) + 1) : Append(o, t)[j] = s
    BY <1>1, <1>2
  <2>1. PICK l \in 1..Len(o) : o[l] = s
    BY DEF Listed
  <2> QED BY <1>1, <1>2, <2>1
<1>i. \A j, l \in 1..Len(o) : o[j] = o[l] => j = l
  BY DEF Listed
<1>4. ASSUME NEW j \in 1..(Len(o) + 1), NEW l \in 1..(Len(o) + 1),
             Append(o, t)[j] = Append(o, t)[l]
      PROVE  j = l
  <2>1. j \in 1..Len(o) \/ j = Len(o) + 1
    BY <1>1
  <2>2. l \in 1..Len(o) \/ l = Len(o) + 1
    BY <1>1
  <2> QED BY <1>1, <1>2, <1>i, <1>4, <2>1, <2>2
<1> QED BY <1>2, <1>3, <1>4 DEF Listed

(* The least of some numbers.                                              *)
LEMMA Below == OpToRel(<, Nat) = {ss \in Nat \X Nat : ss[1] < ss[2]}
  BY Zenon DEF OpToRel

LEMMA LeastOne ==
    ASSUME NEW S, S \subseteq Nat, S # {}
    PROVE  Min(S) \in S /\ \A y \in S : Min(S) <= y
<1> DEFINE R == OpToRel(<, Nat)
<1>1. IsWellFoundedOn(R, Nat)
  BY Zenon, NatLessThanWellFounded
<1>2. R = {ss \in Nat \X Nat : ss[1] < ss[2]}
  BY Below
<1> HIDE DEF R
<1>3. \A x, y \in Nat : x < y => <<x, y>> \in R
  <2> SUFFICES ASSUME NEW x \in Nat, NEW y \in Nat, x < y PROVE <<x, y>> \in R
    OBVIOUS
  <2>1. <<x, y>> \in Nat \X Nat /\ <<x, y>>[1] < <<x, y>>[2]
    OBVIOUS
  <2> QED BY <1>2, <2>1
<1>4. PICK x \in S : \A y \in S : ~(<<y, x>> \in R)
  BY <1>1, WFMin
<1>5. ASSUME NEW y \in S PROVE x <= y
  <2>1. ~(y < x)
    BY ONLY S \subseteq Nat, <1>3, <1>4, y \in S
  <2> QED BY <2>1
<1> QED BY <1>5 DEF Min
-----------------------------------------------------------------------------
(***************************************************************************)
(* The planner's walk.                                                     *)
(***************************************************************************)
Once(q) == \A i, j \in 1..Len(q) : q[i] = q[j] => i = j
Has(q, x) == \E j \in 1..Len(q) : q[j] = x

LEMMA SortedIs ==
    ASSUME NEW S \in SUBSET Nat, IsFiniteSet(S)
    PROVE  /\ Sorted(S) \in Seq(S) /\ Once(Sorted(S))
           /\ \A x : Has(Sorted(S), x) <=> x \in S
<1> DEFINE c == Cardinality(S)
           under(x) == {y \in S : y < x}
           rank == [x \in S |-> Cardinality(under(x))]
           s == Sorted(S)
<1>1. c \in Nat
  BY FS_CardinalityType
<1>2. ASSUME NEW x \in S PROVE rank[x] \in 0..(c - 1) /\ IsFiniteSet(under(x))
  <2>1. IsFiniteSet(S \ {x}) /\ Cardinality(S \ {x}) = c - 1
    BY FS_RemoveElement
  <2>2. under(x) \in SUBSET (S \ {x})
    OBVIOUS
  <2>3. IsFiniteSet(under(x)) /\ Cardinality(under(x)) <= c - 1
    BY <2>1, <2>2, FS_Subset
  <2>4. Cardinality(under(x)) \in Nat
    BY <2>3, FS_CardinalityType
  <2> QED BY <1>1, <2>3, <2>4
<1>3. ASSUME NEW x \in S, NEW y \in S, x < y PROVE rank[x] < rank[y]
  <2>1. /\ IsFiniteSet(under(x) \cup {x})
        /\ Cardinality(under(x) \cup {x}) = Cardinality(under(x)) + 1
    <3>1. IsFiniteSet(under(x)) /\ x \notin under(x)
      BY <1>2
    <3> HIDE DEF under
    <3> QED BY <3>1, FS_AddElement
  <2>2. under(x) \cup {x} \in SUBSET under(y)
    <3>1. \A z \in S : z < x => z < y
      BY <1>3
    <3> QED BY <1>3, <3>1
  <2>3. Cardinality(under(x) \cup {x}) <= Cardinality(under(y))
    BY <1>2, <2>2, FS_Subset
  <2> HIDE DEF under
  <2>4. rank[x] = Cardinality(under(x)) /\ rank[y] = Cardinality(under(y))
    OBVIOUS
  <2>5. rank[x] \in Nat /\ rank[y] \in Nat
    BY <1>1, <1>2
  <2> HIDE DEF rank
  <2> QED BY <2>1, <2>3, <2>4, <2>5
<1> HIDE DEF under
<1>4. ASSUME NEW x \in S, NEW y \in S, rank[x] = rank[y] PROVE x = y
  <2>1. rank[x] \in Nat /\ x \in Nat /\ y \in Nat
    BY <1>1, <1>2
  <2> HIDE DEF rank
  <2> QED BY <1>3, <1>4, <2>1
<1>5. rank \in Injection(S, 0..(c - 1))
  <2>1. rank \in [S -> 0..(c - 1)]
    BY <1>2
  <2> HIDE DEF rank
  <2> QED BY <1>4, <2>1 DEF Injection, IsInjective
<1>6. IsFiniteSet(0..(c - 1)) /\ Cardinality(0..(c - 1)) = c
  <2>1. 0 \in Int /\ c - 1 \in Int /\ (0 > c - 1 => c = 0)
    BY <1>1
  <2> HIDE DEF c
  <2>2. /\ IsFiniteSet(0..(c - 1))
        /\ Cardinality(0..(c - 1)) = IF 0 > c - 1 THEN 0 ELSE c - 1 - 0 + 1
    BY <2>1, FS_Interval
  <2> QED BY <1>1, <2>1, <2>2
<1>7. rank \in Surjection(S, 0..(c - 1))
  BY <1>5, <1>6, FS_Injection
<1>8. ASSUME NEW i \in 1..c PROVE s[i] \in S /\ rank[s[i]] = i - 1
  <2>1. i - 1 \in 0..(c - 1)
    BY <1>1
  <2>2. \E x \in S : rank[x] = i - 1
    BY <1>7, <2>1 DEF Surjection
  <2>3. \E x \in S : Cardinality(under(x)) = i - 1
    BY <2>2
  <2>4. s[i] = CHOOSE x \in S : Cardinality(under(x)) = i - 1
    BY DEF Sorted, under
  <2> HIDE DEF s
  <2> QED BY <2>3, <2>4
<1>9. s = [i \in 1..c |-> s[i]] /\ DOMAIN s = 1..c
  <2> DEFINE at(i) == CHOOSE x \in S : Cardinality(under(x)) = i - 1
  <2>1. s = [i \in 1..c |-> at(i)]
    BY DEF Sorted, under
  <2> HIDE DEF s, at
  <2> QED BY <2>1
<1> HIDE DEF s, rank
<1>10. s \in [1..c -> S]
  BY <1>8, <1>9
<1>11. s \in Seq(S) /\ Len(s) = c
  <2>1. s \in Seq(S)
    BY <1>1, <1>10, SeqDef
  <2> QED BY <1>1, <1>9, <2>1, LenProperties
<1>12. Once(s)
  <2> SUFFICES ASSUME NEW i \in 1..c, NEW j \in 1..c, s[i] = s[j] PROVE i = j
    BY <1>11 DEF Once
  <2>1. i - 1 = j - 1
    BY <1>8
  <2> QED BY <1>1, <2>1
<1>13. ASSUME NEW x \in S PROVE Has(s, x)
  <2>1. rank[x] + 1 \in 1..c /\ rank[x] \in Nat
    BY <1>1, <1>2
  <2>2. s[rank[x] + 1] \in S /\ rank[s[rank[x] + 1]] = rank[x]
    BY <1>8, <2>1
  <2>3. s[rank[x] + 1] = x
    BY <1>4, <2>2
  <2> QED BY <1>11, <2>1, <2>3 DEF Has
<1>14. ASSUME NEW x, Has(s, x) PROVE x \in S
  BY <1>8, <1>11, <1>14 DEF Has
<1> QED BY <1>11, <1>12, <1>13, <1>14 DEF s

\* What a recursion on numbers defines, there is.
Iterated(w, S, b, F) ==
    w \in [Nat -> S] /\ w[0] = b /\ \A k \in Nat : w[k + 1] = F[<<k + 1, w[k]>>]

LEMMA Iterates ==
    ASSUME NEW S, NEW b \in S, NEW F, F \in [Nat \X S -> S]
    PROVE  \E w : Iterated(w, S, b, F)
<1> DEFINE Upto(m, g) ==
              /\ g \in [0..m -> S] /\ g[0] = b
              /\ \A k \in Nat : k < m => g[k + 1] = F[<<k + 1, g[k]>>]
           Fails == {m \in Nat : ~\E g : Upto(m, g)}
<1>1. ASSUME NEW m \in Nat PROVE \E g : Upto(m, g)
  <2> SUFFICES ASSUME Fails # {} PROVE FALSE
    OBVIOUS
  <2>1. PICK x \in Fails : \A y \in Fails : x <= y
    <3>1. Fails \subseteq Nat
      OBVIOUS
    <3> HIDE DEF Fails
    <3> QED BY <3>1, LeastOne
  <2>2. x # 0
    <3> DEFINE h == [i \in 0..0 |-> b]
    <3>0. h \in [0..0 -> S] /\ h[0] = b
      OBVIOUS
    <3>n. \A k \in Nat : ~(k < 0)
      OBVIOUS
    <3> HIDE DEF h
    <3>1. Upto(0, h)
      BY <3>0, <3>n
    <3> HIDE DEF Upto
    <3> QED BY <3>1
  <2>3. x \in Nat /\ x - 1 \in Nat /\ ~(x <= x - 1)
    BY <2>2
  <2>n. x - 1 \notin Fails
    <3> HIDE DEF Fails
    <3> QED BY <2>1, <2>3
  <2>4. PICK h : Upto(x - 1, h)
    <3> HIDE DEF Upto
    <3> QED BY <2>3, <2>n
  <2> DEFINE g == [i \in 0..x |-> IF i = x THEN F[<<x, h[x - 1]>>] ELSE h[i]]
  <2>5. h[x - 1] \in S
    BY <2>3, <2>4
  <2>6. F[<<x, h[x - 1]>>] \in S
    BY <2>3, <2>5
  <2>7. g \in [0..x -> S]
    <3>1. \A i \in 0..x : i # x => i \in 0..(x - 1)
      BY <2>3
    <3> QED BY <2>4, <2>6, <3>1
  <2>8. g[0] = b
    BY <2>2, <2>3, <2>4
  <2>9. ASSUME NEW k \in Nat, k < x PROVE g[k + 1] = F[<<k + 1, g[k]>>]
    <3>1. g[k] = h[k] /\ k + 1 \in 0..x
      BY <2>3, <2>9
    <3>2. CASE k + 1 = x
      <4>1. k = x - 1
        BY <2>3, <3>2
      <4> QED BY <2>3, <3>1, <3>2, <4>1
    <3>3. CASE k + 1 # x
      <4>1. k < x - 1
        BY <2>3, <2>9, <3>3
      <4>2. h[k + 1] = F[<<k + 1, h[k]>>]
        BY <2>4, <4>1
      <4> QED BY <3>1, <3>3, <4>2
    <3> QED BY <3>2, <3>3
  <2>10. Upto(x, g)
    <3> HIDE DEF g
    <3> QED BY <2>7, <2>8, <2>9
  <2> HIDE DEF Upto, g
  <2> QED BY <2>1, <2>10
\* They agree on what they both define.
<1>2. ASSUME NEW m \in Nat, NEW g, Upto(m, g), NEW l \in Nat, NEW h, Upto(l, h),
             NEW k \in 0..m, k <= l
      PROVE  g[k] = h[k]
  <2> DEFINE Differ == {i \in Nat : i <= m /\ i <= l /\ g[i] # h[i]}
  <2>0. k \in Nat /\ k <= m /\ k <= l
    BY <1>2
  <2> SUFFICES ASSUME Differ # {} PROVE FALSE
    BY <2>0
  <2>1. PICK x \in Differ : \A y \in Differ : x <= y
    <3>1. Differ \subseteq Nat
      OBVIOUS
    <3> HIDE DEF Differ
    <3> QED BY <3>1, LeastOne
  <2>2. x # 0
    BY <1>2, <2>1
  <2>3. x - 1 \in Nat /\ x - 1 < m /\ x - 1 < l /\ x \in Nat /\ g[x] # h[x]
    BY <2>1, <2>2
  <2>4. g[x - 1] = h[x - 1]
    <3>1. x - 1 \notin Differ
      <4>1. ~(x <= x - 1)
        BY <2>3
      <4> HIDE DEF Differ
      <4> QED BY <2>1, <4>1
    <3> QED BY <2>3, <3>1
  <2>5. g[x - 1 + 1] = F[<<x - 1 + 1, g[x - 1]>>] /\ h[x - 1 + 1] = F[<<x - 1 + 1, h[x - 1]>>]
    BY <1>2, <2>3
  <2> QED BY <2>3, <2>4, <2>5
<1> DEFINE at == [k \in Nat |-> CHOOSE g : Upto(k, g)]
           w == [k \in Nat |-> at[k][k]]
<1>3. \A k \in Nat : Upto(k, at[k])
  <2> HIDE DEF Upto
  <2> QED BY <1>1
<1> HIDE DEF at
<1>4. w \in [Nat -> S] /\ w[0] = b
  BY <1>3
<1>5. ASSUME NEW k \in Nat PROVE w[k + 1] = F[<<k + 1, w[k]>>]
  <2>1. Upto(k + 1, at[k + 1]) /\ Upto(k, at[k])
    BY <1>3
  <2>2. at[k + 1][k + 1] = F[<<k + 1, at[k + 1][k]>>]
    BY <2>1
  <2>3. at[k + 1][k] = at[k][k]
    <3>1. k \in 0..(k + 1) /\ k <= k /\ k + 1 \in Nat
      OBVIOUS
    <3> HIDE DEF Upto
    <3> QED BY <1>2, <2>1, <3>1
  <2> QED BY <2>2, <2>3
<1> HIDE DEF w
<1> QED BY <1>4, <1>5 DEF Iterated

LEMMA Joined ==
    ASSUME NEW S, NEW a \in Seq(S), NEW b \in Seq(S)
    PROVE  LET c == a \o b
           IN  /\ c \in Seq(S) /\ Len(c) = Len(a) + Len(b)
               /\ \A i \in 1..Len(a) : c[i] = a[i]
               /\ \A i \in 1..Len(b) : c[Len(a) + i] = b[i]
               /\ \A x : Has(c, x) <=> Has(a, x) \/ Has(b, x)
               /\ Once(a) /\ Once(b) /\ (\A x : ~(Has(a, x) /\ Has(b, x))) => Once(c)
<1> DEFINE c == a \o b
<1>1. Len(a) \in Nat /\ Len(b) \in Nat
  BY LenProperties
<1>2. /\ c \in Seq(S) /\ Len(c) = Len(a) + Len(b)
      /\ \A i \in 1..(Len(a) + Len(b)) : c[i] = IF i <= Len(a) THEN a[i] ELSE b[i - Len(a)]
  BY ConcatProperties
<1> HIDE DEF c
<1>3. \A i \in 1..Len(a) : c[i] = a[i] /\ i \in 1..Len(c)
  BY <1>1, <1>2
<1>4. ASSUME NEW i \in 1..Len(b) PROVE c[Len(a) + i] = b[i] /\ Len(a) + i \in 1..Len(c)
  <2>1. Len(a) + i \in 1..(Len(a) + Len(b)) /\ ~(Len(a) + i <= Len(a)) /\ Len(a) + i - Len(a) = i
    BY <1>1
  <2> QED BY <1>2, <2>1
<1>5. ASSUME NEW i \in 1..Len(c)
      PROVE  \/ i \in 1..Len(a) /\ c[i] = a[i]
             \/ i - Len(a) \in 1..Len(b) /\ c[i] = b[i - Len(a)]
  BY <1>1, <1>2
<1>6. ASSUME NEW x PROVE Has(c, x) <=> Has(a, x) \/ Has(b, x)
  <2>1. ASSUME NEW i \in 1..Len(c), c[i] = x PROVE Has(a, x) \/ Has(b, x)
    BY <1>5, <2>1 DEF Has
  <2> QED BY <1>3, <1>4, <2>1 DEF Has
<1>7. ASSUME Once(a), Once(b), \A x : ~(Has(a, x) /\ Has(b, x)) PROVE Once(c)
  <2> SUFFICES ASSUME NEW i \in 1..Len(c), NEW j \in 1..Len(c), c[i] = c[j] PROVE i = j
    BY DEF Once
  <2>1. CASE i \in 1..Len(a) /\ c[i] = a[i] /\ j \in 1..Len(a) /\ c[j] = a[j]
    BY <1>7, <2>1 DEF Once
  <2>2. CASE /\ i - Len(a) \in 1..Len(b) /\ c[i] = b[i - Len(a)]
             /\ j - Len(a) \in 1..Len(b) /\ c[j] = b[j - Len(a)]
    <3>1. i - Len(a) = j - Len(a)
      BY <1>7, <2>2 DEF Once
    <3> QED BY <1>1, <1>2, <3>1
  <2>3. CASE /\ i \in 1..Len(a) /\ c[i] = a[i]
             /\ j - Len(a) \in 1..Len(b) /\ c[j] = b[j - Len(a)]
    BY <1>7, <2>3 DEF Has
  <2>4. CASE /\ i - Len(a) \in 1..Len(b) /\ c[i] = b[i - Len(a)]
             /\ j \in 1..Len(a) /\ c[j] = a[j]
    BY <1>7, <2>4 DEF Has
  <2> QED BY <1>5, <2>1, <2>2, <2>3, <2>4
<1> QED BY <1>2, <1>3, <1>4, <1>6, <1>7 DEF c

Wired(n, o) ==
    /\ DOMAIN n \subseteq Nat /\ Listed(o, DOMAIN n)
    /\ \A t \in DOMAIN n : Targets(n[t]) \subseteq DOMAIN n

LEMMA WiredIsFinite ==
    ASSUME NEW n, NEW o, Wired(n, o)
    PROVE  IsFiniteSet(DOMAIN n) /\ Cardinality(DOMAIN n) = Len(o) /\ Len(o) \in Nat
<1> DEFINE D == DOMAIN n
           L == Len(o)
<1>1. o \in Seq(D) /\ L \in Nat /\ DOMAIN o = 1..L
  BY LenProperties DEF Wired, Listed
<1>2. o \in [1..L -> D]
  BY <1>1, SeqDef
<1>3. o \in Surjection(1..L, D)
  BY <1>2 DEF Wired, Listed, Surjection
<1>4. o \in Injection(1..L, D)
  BY <1>2 DEF Wired, Listed, Injection, IsInjective
<1>5. IsFiniteSet(1..L) /\ Cardinality(1..L) = L
  <2>1. IsFiniteSet(1..L) /\ Cardinality(1..L) = IF 1 > L THEN 0 ELSE L - 1 + 1
    BY <1>1, FS_Interval
  <2> QED BY <1>1, <2>1
<1> HIDE DEF D, L
<1>6. IsFiniteSet(D) /\ Cardinality(D) = Cardinality(1..L)
  BY <1>3, <1>4, <1>5, FS_Surjection
<1> QED BY <1>1, <1>5, <1>6 DEF D, L

Before(q, k) == {q[i] : i \in 1..k}
\* What the k-th track of the queue opens.
Unlocks(n, q, k, d) == q[k] \in Into(n, d) /\ Into(n, d) \subseteq Before(q, k)

LEMMA OpenedIs ==
    ASSUME NEW n, NEW o, Wired(n, o), NEW q \in Seq(DOMAIN n), NEW k \in 1..Len(q)
    PROVE  /\ Opened(n, q, k) \in Seq(DOMAIN n) /\ Once(Opened(n, q, k))
           /\ \A d : Has(Opened(n, q, k), d) <=> d \in DOMAIN n /\ Unlocks(n, q, k, d)
<1> DEFINE D == DOMAIN n
           t == n[q[k]]
           now == {d \in Targets(t) : Into(n, d) \subseteq Before(q, k)}
           A == now \ t.sidechain
           B == now \cap t.sidechain
<1>1. q[k] \in D
  BY ElementOfSeq
<1>2. now \in SUBSET D /\ D \in SUBSET Nat /\ IsFiniteSet(D)
  BY <1>1, WiredIsFinite DEF Wired
<1>3. Opened(n, q, k) = Sorted(A) \o Sorted(B)
  BY DEF Opened, Before
<1>4. \A d : d \in now <=> d \in D /\ Unlocks(n, q, k, d)
  BY <1>1, <1>2 DEF Unlocks, Into
<1> HIDE DEF now, D
<1>5. A \in SUBSET Nat /\ IsFiniteSet(A) /\ B \in SUBSET Nat /\ IsFiniteSet(B)
  <2>1. A \in SUBSET D /\ B \in SUBSET D
    BY <1>2
  <2> HIDE DEF A, B
  <2> QED BY <1>2, <2>1, FS_Subset
<1>6. A \subseteq D /\ B \subseteq D /\ (\A d : ~(d \in A /\ d \in B))
      /\ (\A d : d \in now <=> d \in A \/ d \in B)
  BY <1>2
<1> HIDE DEF A, B
<1> DEFINE a == Sorted(A)
           b == Sorted(B)
<1>7. /\ a \in Seq(A) /\ Once(a) /\ \A x : Has(a, x) <=> x \in A
      /\ b \in Seq(B) /\ Once(b) /\ \A x : Has(b, x) <=> x \in B
  BY <1>5, SortedIs
<1> HIDE DEF a, b
<1>8. a \in Seq(D) /\ b \in Seq(D)
  BY <1>6, <1>7, SeqMonotonic
<1>9. /\ a \o b \in Seq(D) /\ (\A x : Has(a \o b, x) <=> Has(a, x) \/ Has(b, x))
      /\ (Once(a) /\ Once(b) /\ (\A x : ~(Has(a, x) /\ Has(b, x))) => Once(a \o b))
  BY <1>8, Joined
<1>10. Opened(n, q, k) = a \o b
  BY <1>3 DEF a, b
<1> QED BY <1>4, <1>6, <1>7, <1>9, <1>10 DEF D

LEMMA SourcesAre ==
    ASSUME NEW n, NEW o, Wired(n, o)
    PROVE  /\ Sources(n, o) \in Seq(DOMAIN n) /\ Once(Sources(n, o))
           /\ \A d : Has(Sources(n, o), d) <=> d \in DOMAIN n /\ Into(n, d) = {}
<1> DEFINE D == DOMAIN n
           I == {i \in DOMAIN o : Into(n, o[i]) = {}}
           at == Sorted(I)
           s == Sources(n, o)
<1>1. o \in Seq(D) /\ Len(o) \in Nat /\ DOMAIN o = 1..Len(o)
  BY LenProperties DEF Wired, Listed
<1>2. \A i \in 1..Len(o) : o[i] \in D
  BY <1>1, ElementOfSeq
<1>3. I \in SUBSET (1..Len(o)) /\ I \in SUBSET Nat
  BY <1>1
<1>4. IsFiniteSet(I)
  <2>1. IsFiniteSet(1..Len(o))
    BY <1>1, FS_Interval
  <2> HIDE DEF I
  <2> QED BY <1>3, <2>1, FS_Subset
<1>5. \A i : i \in I <=> i \in 1..Len(o) /\ Into(n, o[i]) = {}
  BY <1>1
<1>6. s = [j \in DOMAIN at |-> o[at[j]]]
  BY DEF Sources
<1> HIDE DEF I, s
<1>7. at \in Seq(I) /\ Once(at) /\ \A i : Has(at, i) <=> i \in I
  BY <1>3, <1>4, SortedIs
<1> HIDE DEF at
<1>8. Len(at) \in Nat /\ DOMAIN at = 1..Len(at) /\ \A j \in 1..Len(at) : at[j] \in I
  BY <1>7, LenProperties, ElementOfSeq
<1>9. DOMAIN s = 1..Len(at) /\ \A j \in 1..Len(at) : s[j] = o[at[j]] /\ s[j] \in D
  BY <1>2, <1>5, <1>6, <1>8
<1>10. s \in Seq(D) /\ Len(s) = Len(at)
  <2>1. s \in [1..Len(at) -> D]
    BY <1>6, <1>8, <1>9
  <2>2. s \in Seq(D)
    BY <1>8, <2>1, SeqDef
  <2> QED BY <1>8, <1>9, <2>2, LenProperties
<1>11. Once(s)
  <2> SUFFICES ASSUME NEW i \in 1..Len(at), NEW j \in 1..Len(at), s[i] = s[j] PROVE i = j
    BY <1>10 DEF Once
  <2>1. at[i] = at[j]
    <3>1. o[at[i]] = o[at[j]] /\ at[i] \in 1..Len(o) /\ at[j] \in 1..Len(o)
      BY <1>5, <1>8, <1>9
    <3> QED BY <3>1 DEF Wired, Listed
  <2> QED BY <1>7, <2>1 DEF Once
<1>12. ASSUME NEW d, Has(s, d) PROVE d \in D /\ Into(n, d) = {}
  BY <1>5, <1>8, <1>9, <1>10, <1>12 DEF Has
<1>13. ASSUME NEW d \in D, Into(n, d) = {} PROVE Has(s, d)
  <2>1. PICK i \in 1..Len(o) : o[i] = d
    BY DEF Wired, Listed
  <2>2. Has(at, i)
    BY <1>5, <1>7, <1>13, <2>1
  <2> QED BY <1>9, <1>10, <2>1, <2>2 DEF Has
<1> QED BY <1>10, <1>11, <1>12, <1>13 DEF s

LEMMA AdvancedIsSequence ==
    ASSUME NEW n, NEW o, Wired(n, o), NEW q \in Seq(DOMAIN n), NEW k \in Nat \ {0}
    PROVE  Advanced(n, q, k) \in Seq(DOMAIN n)
<1>1. CASE k > Len(q)
  BY <1>1 DEF Advanced
<1>2. CASE ~(k > Len(q))
  <2>1. Len(q) \in Nat
    BY LenProperties
  <2>2. k \in 1..Len(q)
    BY <1>2, <2>1
  <2>3. Opened(n, q, k) \in Seq(DOMAIN n)
    BY <2>2, OpenedIs
  <2>4. Advanced(n, q, k) = q \o Opened(n, q, k)
    BY <1>2 DEF Advanced
  <2> QED BY <2>3, <2>4, ConcatProperties
<1> QED BY <1>1, <1>2

LEMMA WalkIs ==
    ASSUME NEW n, NEW o, Wired(n, o)
    PROVE  \E w : /\ TopoOrder(n, o) = w[Len(o)] /\ w[0] = Sources(n, o)
                  /\ \A k \in Nat : w[k + 1] = Advanced(n, w[k], k + 1)
<1> DEFINE S == Seq(DOMAIN n)
           b == Sources(n, o)
           F == [p \in Nat \X S |-> IF p[1] = 0 THEN p[2] ELSE Advanced(n, p[2], p[1])]
           Step(v) == [k \in Nat |-> IF k = 0 THEN b ELSE Advanced(n, v[k - 1], k)]
           walk == CHOOSE v : v = Step(v)
<1>1. b \in S
  BY SourcesAre
<1>2. F \in [Nat \X S -> S]
  <2>1. ASSUME NEW p \in Nat \X S
        PROVE  (IF p[1] = 0 THEN p[2] ELSE Advanced(n, p[2], p[1])) \in S
    <3>1. p[1] \in Nat /\ p[2] \in S
      OBVIOUS
    <3> HIDE DEF S
    <3>2. p[1] # 0 => Advanced(n, p[2], p[1]) \in S
      <4>1. p[1] # 0 => p[1] \in Nat \ {0}
        BY <3>1
      <4> QED BY <3>1, <4>1, AdvancedIsSequence DEF S
    <3> QED BY <3>1, <3>2
  <2> HIDE DEF S
  <2> QED BY <2>1
<1>3. \A k \in Nat, q \in S : k # 0 => F[<<k, q>>] = Advanced(n, q, k)
  <2> HIDE DEF S
  <2> QED OBVIOUS
<1> HIDE DEF b, F, S
<1>4. PICK v \in [Nat -> S] : v[0] = b /\ \A k \in Nat : v[k + 1] = F[<<k + 1, v[k]>>]
  <2>1. \E v : Iterated(v, S, b, F)
    BY <1>1, <1>2, Iterates
  <2> QED BY <2>1 DEF Iterated
<1>5. ASSUME NEW k \in Nat PROVE v[k] = IF k = 0 THEN b ELSE Advanced(n, v[k - 1], k)
  <2>1. CASE k = 0
    BY <1>4, <2>1
  <2>2. CASE k # 0
    <3>1. k - 1 \in Nat /\ k - 1 + 1 = k /\ v[k - 1] \in S
      BY <1>4, <2>2
    <3>2. v[k] = F[<<k, v[k - 1]>>]
      BY <1>4, <3>1
    <3> QED BY <1>3, <2>2, <3>1, <3>2
  <2> QED BY <2>1, <2>2
<1>6. v = Step(v)
  BY <1>4, <1>5
<1>7. walk = Step(walk)
  <2> HIDE DEF Step
  <2> QED BY <1>6
<1>8. TopoOrder(n, o) = walk[Len(o)]
  BY DEF TopoOrder, b
<1> HIDE DEF walk
<1>9. walk[0] = b
  BY <1>7
<1>10. ASSUME NEW k \in Nat PROVE walk[k + 1] = Advanced(n, walk[k], k + 1)
  <2>1. k + 1 \in Nat /\ k + 1 # 0 /\ k + 1 - 1 = k
    OBVIOUS
  <2> QED BY <1>7, <2>1
<1> QED BY <1>8, <1>9, <1>10 DEF b

\* The queue of the walk when its first k tracks have been visited.
Queue(n, q, k) ==
    /\ q \in Seq(DOMAIN n) /\ Once(q)
    /\ \A j \in 1..Len(q) :
          Into(n, q[j]) = {} \/ \E m \in 1..k : m < j /\ Unlocks(n, q, m, q[j])
    /\ \A d \in DOMAIN n : Into(n, d) = {} => Has(q, d)
    /\ \A m \in 1..Len(q) : m <= k => \A d \in DOMAIN n : Unlocks(n, q, m, d) => Has(q, d)

\* A longer queue opens what it did.
LEMMA SameUnlocks ==
    ASSUME NEW n, NEW q, NEW r, NEW m \in Nat, \A i \in 1..m : r[i] = q[i], NEW d, m >= 1
    PROVE  Unlocks(n, r, m, d) <=> Unlocks(n, q, m, d)
<1>1. Before(r, m) = Before(q, m) /\ r[m] = q[m]
  BY DEF Before
<1> QED BY <1>1 DEF Unlocks

LEMMA QueueStarts ==
    ASSUME NEW n, NEW o, Wired(n, o) PROVE Queue(n, Sources(n, o), 0)
<1> DEFINE q == Sources(n, o)
<1>1. q \in Seq(DOMAIN n) /\ Once(q) /\ \A d : Has(q, d) <=> d \in DOMAIN n /\ Into(n, d) = {}
  BY SourcesAre
<1> HIDE DEF q
<1>2. \A j \in 1..Len(q) : Has(q, q[j])
  BY DEF Has
<1>3. \A m \in 1..Len(q) : ~(m <= 0)
  <2>1. Len(q) \in Nat
    BY <1>1, LenProperties
  <2> QED BY <2>1
<1>4. Queue(n, q, 0)
  BY <1>1, <1>2, <1>3 DEF Queue
<1> QED BY <1>4 DEF q

LEMMA QueueAdvances ==
    ASSUME NEW n, NEW o, Wired(n, o), NEW q, NEW k \in Nat, Queue(n, q, k)
    PROVE  Queue(n, Advanced(n, q, k + 1), k + 1)
<1> DEFINE D == DOMAIN n
           c == k + 1
           p == Opened(n, q, c)
           r == q \o p
<1>1. q \in Seq(D) /\ Once(q) /\ Len(q) \in Nat /\ c \in Nat
  BY LenProperties DEF Queue
<1>2. CASE c > Len(q)
  <2>1. Advanced(n, q, c) = q
    BY <1>2 DEF Advanced
  <2>2. \A m \in 1..k : m \in 1..c
    OBVIOUS
  <2>3. \A m \in 1..Len(q) : m <= k
    BY <1>1, <1>2
  <2>4. Queue(n, q, c)
    BY <2>2, <2>3 DEF Queue
  <2> QED BY <2>1, <2>4
<1>3. CASE ~(c > Len(q))
  <2>1. c \in 1..Len(q) /\ Advanced(n, q, c) = r
    BY <1>1, <1>3 DEF Advanced
  <2> HIDE DEF c
  <2>2. /\ p \in Seq(D) /\ Once(p)
        /\ \A d : Has(p, d) <=> d \in D /\ Unlocks(n, q, c, d)
    <3>1. q \in Seq(DOMAIN n) /\ c \in 1..Len(q)
      BY <1>1, <2>1
    <3> QED BY <3>1, OpenedIs
  <2> HIDE DEF p
  <2>3. \A d : ~(Has(q, d) /\ Has(p, d))
    <3> SUFFICES ASSUME NEW j \in 1..Len(q), Has(p, q[j]) PROVE FALSE
      BY DEF Has
    <3>1. q[c] \in Into(n, q[j])
      BY <2>2 DEF Unlocks
    <3>2. PICK m \in 1..k : m < j /\ Unlocks(n, q, m, q[j])
      BY <3>1 DEF Queue
    <3>3. PICK i \in 1..m : q[c] = q[i]
      BY <3>1, <3>2 DEF Unlocks, Before
    <3>4. i \in 1..Len(q) /\ i # c
      BY <1>1, <2>1, <3>2, <3>3 DEF c
    <3> QED BY <1>1, <2>1, <3>3, <3>4 DEF Once
  <2>4. /\ r \in Seq(D) /\ Len(r) = Len(q) + Len(p) /\ Once(r)
        /\ \A i \in 1..Len(q) : r[i] = q[i]
        /\ \A i \in 1..Len(p) : r[Len(q) + i] = p[i]
        /\ \A x : Has(r, x) <=> Has(q, x) \/ Has(p, x)
    BY <1>1, <2>2, <2>3, Joined
  <2> HIDE DEF r
  <2>5. Len(p) \in Nat
    BY <2>2, LenProperties
  <2>6. ASSUME NEW m \in 1..Len(q), NEW d PROVE Unlocks(n, r, m, d) <=> Unlocks(n, q, m, d)
    <3>1. m \in Nat /\ m >= 1 /\ \A i \in 1..m : r[i] = q[i]
      BY <1>1, <2>4
    <3> QED BY <3>1, SameUnlocks
  <2>7. ASSUME NEW j \in 1..Len(r)
        PROVE  Into(n, r[j]) = {} \/ \E m \in 1..c : m < j /\ Unlocks(n, r, m, r[j])
    <3>1. CASE j \in 1..Len(q)
      <4>1. r[j] = q[j]
        BY <2>4, <3>1
      <4>2. CASE Into(n, q[j]) # {}
        <5>1. PICK m \in 1..k : m < j /\ Unlocks(n, q, m, q[j])
          BY <3>1, <4>2 DEF Queue
        <5>2. m \in 1..Len(q) /\ m \in 1..c
          BY <1>1, <3>1, <5>1 DEF c
        <5> QED BY <2>6, <4>1, <5>1, <5>2
      <4> QED BY <4>1, <4>2
    <3>2. CASE j \notin 1..Len(q)
      <4>1. j - Len(q) \in 1..Len(p) /\ Len(q) + (j - Len(q)) = j /\ c < j
        BY <1>1, <2>1, <2>4, <2>5, <3>2
      <4>2. r[j] = p[j - Len(q)]
        BY <2>4, <4>1
      <4>3. Has(p, r[j])
        BY <4>1, <4>2 DEF Has
      <4>4. Unlocks(n, r, c, r[j])
        BY <2>1, <2>2, <2>6, <4>3
      <4>5. c \in 1..c
        BY <2>1
      <4> QED BY <4>1, <4>4, <4>5
    <3> QED BY <3>1, <3>2
  <2>8. ASSUME NEW m \in 1..Len(r), m <= c, NEW d \in D, Unlocks(n, r, m, d) PROVE Has(r, d)
    <3>1. m \in 1..Len(q)
      BY <1>1, <2>1, <2>8
    <3>2. Unlocks(n, q, m, d)
      BY <2>6, <2>8, <3>1
    <3>3. CASE m = c
      BY <2>2, <2>4, <3>2, <3>3
    <3>4. CASE m # c
      <4>1. m <= k
        BY <2>8, <3>1, <3>4 DEF c
      <4>2. Has(q, d)
        BY <3>1, <3>2, <4>1 DEF Queue
      <4> QED BY <2>4, <4>2
    <3> QED BY <3>3, <3>4
  <2>9. Queue(n, r, c)
    BY <2>4, <2>7, <2>8 DEF Queue
  <2> QED BY <2>1, <2>9 DEF c
<1> QED BY <1>2, <1>3

LEMMA WalkEnds == ASSUME NEW n, NEW o, Wired(n, o) PROVE Queue(n, TopoOrder(n, o), Len(o))
<1>1. PICK w : /\ TopoOrder(n, o) = w[Len(o)] /\ w[0] = Sources(n, o)
               /\ \A k \in Nat : w[k + 1] = Advanced(n, w[k], k + 1)
  BY WalkIs
<1> DEFINE Fails == {k \in Nat : ~Queue(n, w[k], k)}
<1>2. Fails = {}
  <2> SUFFICES ASSUME Fails # {} PROVE FALSE
    OBVIOUS
  <2>1. Fails \subseteq Nat
    OBVIOUS
  <2>2. PICK m \in Fails : \A k \in Fails : m <= k
    <3> HIDE DEF Fails
    <3> QED BY <2>1, LeastOne
  <2>3. m \in Nat /\ ~Queue(n, w[m], m)
    BY <2>2
  <2>4. m # 0
    BY <1>1, <2>3, QueueStarts
  <2>5. m - 1 \in Nat /\ m - 1 + 1 = m /\ ~(m <= m - 1)
    BY <2>3, <2>4
  <2>6. m - 1 \notin Fails
    <3> HIDE DEF Fails
    <3> QED BY <2>2, <2>5
  <2>7. Queue(n, w[m - 1], m - 1)
    BY <2>5, <2>6
  <2>8. w[m] = Advanced(n, w[m - 1], m - 1 + 1)
    BY <1>1, <2>5
  <2>9. Queue(n, w[m], m)
    BY <2>5, <2>7, <2>8, QueueAdvances
  <2> QED BY <2>3, <2>9
<1>3. Len(o) \in Nat
  BY WiredIsFinite
<1>4. \A k \in Nat : k \in Fails \/ Queue(n, w[k], k)
  OBVIOUS
<1>5. Queue(n, w[Len(o)], Len(o))
  <2> HIDE DEF Fails
  <2> QED BY <1>2, <1>3, <1>4
<1> QED BY <1>1, <1>5

\* The first tracks of a queue get nothing from later ones, so among any
\* tracks of a queue that has all of them the first gets nothing from them.
LEMMA WholeQueueHasNoLoop ==
    ASSUME NEW n, NEW q, NEW k \in Nat, Queue(n, q, k), \A d \in DOMAIN n : Has(q, d)
    PROVE  Loopless(n)
<1> SUFFICES ASSUME NEW S \in SUBSET DOMAIN n, S # {}
             PROVE  \E t \in S : Into(n, t) \cap S = {}
  BY DEF Loopless
<1> DEFINE At == {j \in 1..Len(q) : q[j] \in S}
<1>1. Len(q) \in Nat
  BY LenProperties DEF Queue
<1>2. At \subseteq Nat /\ At # {}
  BY DEF Has
<1>3. PICK j \in At : \A i \in At : j <= i
  <2> HIDE DEF At
  <2> QED BY <1>2, LeastOne
<1>4. ASSUME NEW s \in Into(n, q[j]), s \in S PROVE FALSE
  <2>1. PICK m \in 1..k : m < j /\ Unlocks(n, q, m, q[j])
    BY <1>4 DEF Queue
  <2>2. PICK i \in 1..m : s = q[i]
    BY <1>4, <2>1 DEF Unlocks, Before
  <2>3. i \in At /\ ~(j <= i)
    BY <1>1, <1>4, <2>1, <2>2
  <2> QED BY <1>3, <2>3
<1> QED BY <1>4

\* Of some places, finitely many, one is the last.
LEMMA LastOne ==
    ASSUME NEW k \in Nat, NEW S, S \subseteq 1..k, S # {}
    PROVE  \E m \in S : \A i \in S : i <= m
<1> DEFINE T == {k - i : i \in S}
<1>1. T \subseteq Nat /\ T # {}
  <2>1. \A i \in S : k - i \in Nat
    OBVIOUS
  <2> QED BY <2>1
<1>2. PICK x \in T : \A y \in T : x <= y
  <2> HIDE DEF T
  <2> QED BY <1>1, LeastOne
<1>3. PICK m \in S : x = k - m
  BY <1>2
<1>4. \A i \in S : k - m <= k - i
  BY <1>2, <1>3
<1>5. ASSUME NEW i \in S PROVE i <= m
  <2>1. i \in Nat /\ m \in Nat /\ k - m <= k - i
    BY <1>4
  <2> QED BY <2>1
<1> QED BY <1>5

\* When no loop stops it, a walk that is as long as the tracks has them all.
LEMMA WalkWithoutLoopIsWhole ==
    ASSUME NEW n, NEW q, NEW k \in Nat, Queue(n, q, k), Len(q) <= k, Loopless(n)
    PROVE  \A d \in DOMAIN n : Has(q, d)
<1> DEFINE S == {d \in DOMAIN n : ~Has(q, d)}
<1> SUFFICES ASSUME S # {} PROVE FALSE
  OBVIOUS
<1>1. Len(q) \in Nat
  BY LenProperties DEF Queue
<1>2. PICK t \in S : Into(n, t) \cap S = {}
  BY DEF Loopless
<1>3. Into(n, t) # {}
  BY <1>2 DEF Queue
<1> DEFINE P == {j \in 1..Len(q) : q[j] \in Into(n, t)}
<1>4. \A s \in Into(n, t) : \E j \in P : q[j] = s
  <2>1. \A s \in Into(n, t) : s \in DOMAIN n
    BY DEF Into
  <2>2. \A s \in Into(n, t) : Has(q, s)
    BY <1>2, <2>1
  <2> QED BY <2>2 DEF Has
<1>5. P # {} /\ P \subseteq 1..Len(q)
  BY <1>3, <1>4
<1>6. PICK m \in P : \A i \in P : i <= m
  <2> HIDE DEF P
  <2> QED BY <1>1, <1>5, LastOne
<1>7. Into(n, t) \subseteq Before(q, m)
  <2> SUFFICES ASSUME NEW s \in Into(n, t) PROVE \E i \in 1..m : q[i] = s
    BY DEF Before
  <2>1. PICK j \in P : q[j] = s
    BY <1>4
  <2>2. j \in 1..m
    BY <1>1, <1>6
  <2> QED BY <2>1, <2>2
<1>8. Unlocks(n, q, m, t) /\ m \in 1..Len(q) /\ m <= k /\ t \in DOMAIN n
  BY <1>1, <1>2, <1>6, <1>7 DEF Unlocks
<1>9. Has(q, t)
  BY <1>8 DEF Queue
<1> QED BY <1>2, <1>9

(* graph_has_cycle tells exactly the graphs that have a loop: what it       *)
(* counts is as many as the tracks iff none feeds back.                     *)
THEOREM CycleCheckIsExact ==
    ASSUME NEW n, NEW o, Wired(n, o)
    PROVE  GraphHasCycle(n, o) <=> ~Loopless(n)
<1> DEFINE q == TopoOrder(n, o)
           D == DOMAIN n
           k == Len(o)
<1>1. k \in Nat /\ IsFiniteSet(D) /\ Cardinality(D) = k
  BY WiredIsFinite
<1>2. Queue(n, q, k)
  BY WalkEnds
<1> HIDE DEF q
<1>3. q \in Seq(D) /\ Len(q) \in Nat /\ Once(q) /\ DOMAIN q = 1..Len(q)
  BY <1>2, LenProperties DEF Queue
<1>4. q \in [1..Len(q) -> D]
  BY <1>3, ElementOfSeq, SeqDef
<1>5. q \in Injection(1..Len(q), D)
  BY <1>3, <1>4 DEF Once, Injection, IsInjective
<1>6. IsFiniteSet(1..Len(q)) /\ Cardinality(1..Len(q)) = Len(q)
  <2>1. 1 \in Int /\ Len(q) \in Int
    BY <1>3
  <2>2. /\ IsFiniteSet(1..Len(q))
        /\ Cardinality(1..Len(q)) = IF 1 > Len(q) THEN 0 ELSE Len(q) - 1 + 1
    BY <2>1, FS_Interval
  <2> QED BY <1>3, <2>2
<1> HIDE DEF D, k
<1>7. Len(q) <= k /\ (Len(q) = k <=> q \in Surjection(1..Len(q), D))
  BY <1>1, <1>5, <1>6, FS_Injection
<1>8. q \in Surjection(1..Len(q), D) <=> \A d \in D : Has(q, d)
  BY <1>4 DEF Surjection, Has
<1>9. (\A d \in D : Has(q, d)) <=> Loopless(n)
  BY <1>1, <1>2, <1>7, WholeQueueHasNoLoop, WalkWithoutLoopIsWhole DEF D
<1>10. GraphHasCycle(n, o) <=> Len(q) # k
  BY DEF GraphHasCycle, q, k
<1> QED BY <1>7, <1>8, <1>9, <1>10

\* Whom a track gets something from is no more than it was.
Eased(m, n) ==
    \A t \in DOMAIN m : Into(m, t) = {} \/ (t \in DOMAIN n /\ Into(m, t) \subseteq Into(n, t))

LEMMA EasedHasNoLoop ==
    ASSUME NEW m, NEW n, Eased(m, n), Loopless(n) PROVE Loopless(m)
<1> SUFFICES ASSUME NEW S \in SUBSET DOMAIN m, S # {}
             PROVE  \E t \in S : Into(m, t) \cap S = {}
  BY DEF Loopless
<1>1. CASE \E t \in S : Into(m, t) = {}
  BY <1>1
<1>2. CASE \A t \in S : Into(m, t) # {}
  <2>1. \A t \in S : t \in DOMAIN n /\ Into(m, t) \subseteq Into(n, t)
    BY <1>2 DEF Eased
  <2>2. S \in SUBSET DOMAIN n
    BY <2>1
  <2>3. PICK t \in S : Into(n, t) \cap S = {}
    BY <2>2 DEF Loopless
  <2> QED BY <2>1, <2>3
<1> QED BY <1>1, <1>2

\* Sends and sidechains that are fewer, or the same.
LEMMA FewerTargets ==
    ASSUME NEW m, NEW n, DOMAIN m \subseteq DOMAIN n,
           \A t \in DOMAIN m : m[t].dests \subseteq n[t].dests /\ m[t].sidechain \subseteq n[t].sidechain
    PROVE  Loopless(n) => Loopless(m)
<1>1. \A s \in DOMAIN m : Targets(m[s]) \subseteq Targets(n[s])
  BY DEF Targets
<1>2. \A t \in DOMAIN m : t \in DOMAIN n /\ Into(m, t) \subseteq Into(n, t)
  BY <1>1 DEF Into
<1> QED BY <1>2, EasedHasNoLoop DEF Eased

LEMMA CheckedHasNoLoop ==
    ASSUME NEW n, NEW o, NEW k, DOMAIN n \subseteq 1..k, Listed(o, DOMAIN n), Sound(n)
    PROVE  GraphHasCycle(n, o) <=> ~Loopless(n)
<1>1. DOMAIN n \subseteq Nat
  OBVIOUS
<1>2. \A t \in DOMAIN n : Targets(n[t]) \subseteq DOMAIN n
  BY DEF Targets, Sound
<1>3. Wired(n, o)
  BY <1>1, <1>2 DEF Wired
<1> QED BY <1>3, CycleCheckIsExact
-----------------------------------------------------------------------------
(* Shadows. Whatever a plan disposes of them, the rest of a track stays.   *)
LEMMA DisposedIsPlain == ASSUME NEW s, NEW p PROVE Plain(Disposed(s, p)) = Plain(s)
<1>1. CASE p = "create"
  BY <1>1 DEF Disposed, Plain
<1>2. CASE p = "release"
  BY <1>2 DEF Disposed, Plain
<1>3. CASE p \notin {"create", "release"}
  BY <1>3 DEF Disposed
<1> QED BY <1>1, <1>2, <1>3

LEMMA ApartItself == ASSUME NEW n, Shaped(n) PROVE ShadowsApart(n, n)
  BY DEF Shaped, ShadowsApart, Alike

\* The chains of every track are replaced by chains that differ in shadows.
Rechained(n, c) == [t \in DOMAIN n |-> [n[t] EXCEPT !.chain = c[t]]]
SameButShadows(n, c) ==
    \A t \in DOMAIN n : /\ c[t] = [i \in DOMAIN n[t].chain |-> c[t][i]]
                       /\ \A i \in DOMAIN n[t].chain : Plain(c[t][i]) = Plain(n[t].chain[i])
LEMMA NewChains ==
    ASSUME NEW n, Shaped(n), NEW c, SameButShadows(n, c)
    PROVE  ShadowsApart(Rechained(n, c), n)
<1> USE DEF SameButShadows
<1> DEFINE m == Rechained(n, c)
<1> SUFFICES ASSUME NEW t \in DOMAIN n
             PROVE  /\ DOMAIN m[t] = DOMAIN n[t]
                    /\ \A f \in Fields \ {"chain"} : m[t][f] = n[t][f]
                    /\ m[t].chain \in Seq(Range(m[t].chain))
                    /\ DOMAIN m[t].chain = DOMAIN n[t].chain
                    /\ \A i \in DOMAIN n[t].chain : Plain(m[t].chain[i]) = Plain(n[t].chain[i])
  BY DEF ShadowsApart, Alike, Rechained
<1>1. DOMAIN n[t] = Fields
  BY DEF Shaped
<1>2. m[t] = [n[t] EXCEPT !.chain = c[t]]
  BY DEF Rechained
<1> HIDE DEF m
<1>3. m[t].chain = c[t] /\ DOMAIN m[t] = DOMAIN n[t]
  BY <1>1, <1>2 DEF Fields
<1>4. \A f \in Fields \ {"chain"} : m[t][f] = n[t][f]
  BY <1>1, <1>2
<1>5. Len(n[t].chain) \in Nat /\ DOMAIN n[t].chain = 1..Len(n[t].chain)
  BY LenProperties DEF Shaped
<1>6. c[t] = [i \in 1..Len(n[t].chain) |-> c[t][i]] /\ DOMAIN c[t] = 1..Len(n[t].chain)
  BY <1>5
<1>7. c[t] \in Seq(Range(c[t]))
  BY <1>5, <1>6, FunctionIsSequence
<1> QED BY <1>3, <1>4, <1>5, <1>6, <1>7

LEMMA DisposedApart ==
    ASSUME NEW n, Shaped(n), NEW plan PROVE ShadowsApart(DisposedBy(n, plan), n)
<1>1. CASE ~plan.ok
  BY <1>1, ApartItself DEF DisposedBy
<1>2. CASE ~~plan.ok
  <2> DEFINE c == [t \in DOMAIN n |-> [i \in DOMAIN n[t].chain |->
                     Disposed(n[t].chain[i], plan.tracks[t].slots[i].shadow)]]
  <2>1. DisposedBy(n, plan) = Rechained(n, c)
    BY <1>2 DEF DisposedBy, Rechained
  <2>2. SameButShadows(n, c)
    BY DisposedIsPlain DEF SameButShadows
  <2> HIDE DEF c
  <2> QED BY <2>1, <2>2, NewChains
<1> QED BY <1>1, <1>2

LEMMA EnsuredApart == ASSUME NEW n, Shaped(n), NEW o PROVE ShadowsApart(Ensured(n, o), n)
  BY DisposedApart DEF Ensured

LEMMA WithShadowsApart ==
    ASSUME NEW old, Shaped(old), NEW now PROVE ShadowsApart(WithShadows(old, now), old)
<1> DEFINE c == [t \in DOMAIN old |-> [i \in DOMAIN old[t].chain |->
                  [old[t].chain[i] EXCEPT !.shadow = now[t].chain[i].shadow,
                                          !.shadowLatency = now[t].chain[i].shadowLatency]]]
<1>1. WithShadows(old, now) = Rechained(old, c)
  BY DEF WithShadows, Rechained
<1>2. \A s, x, y : Plain([s EXCEPT !.shadow = x, !.shadowLatency = y]) = Plain(s)
  BY DEF Plain
<1>3. SameButShadows(old, c)
  BY <1>2 DEF SameButShadows
<1> HIDE DEF c
<1> QED BY <1>1, <1>3, NewChains

LEMMA AlikeKeeps ==
    ASSUME NEW m, NEW n, Alike(m, n), Shaped(n)
    PROVE  /\ Shaped(m) /\ DOMAIN m = DOMAIN n
           /\ Routed(n) => Routed(m)
           /\ \A r : Holders(m, r) = Holders(n, r)
<1>1. Shaped(m) /\ DOMAIN m = DOMAIN n
  BY DEF Alike, Shaped
<1>2. \A t \in DOMAIN n : /\ m[t].kind = n[t].kind /\ m[t].role = n[t].role
                         /\ m[t].dests = n[t].dests /\ m[t].sidechain = n[t].sidechain
  BY DEF Alike, Fields
<1>l. Loopless(n) => Loopless(m)
  BY <1>1, <1>2, FewerTargets
<1>3. Routed(n) => Routed(m)
  BY <1>1, <1>2, <1>l DEF Routed, Sound, IsSource
<1>4. \A r : Holders(m, r) = Holders(n, r)
  BY <1>1, <1>2 DEF Holders
<1> QED BY <1>1, <1>3, <1>4

LEMMA ApartTransitive ==
    ASSUME NEW l, NEW m, NEW n, ShadowsApart(l, m), ShadowsApart(m, n)
    PROVE  ShadowsApart(l, n)
  BY DEF ShadowsApart, Alike

LEMMA ApartIntent ==
    ASSUME NEW m, NEW n, ShadowsApart(m, n), Shaped(n) PROVE Intent(m) = Intent(n)
<1>1. DOMAIN m = DOMAIN n
  BY DEF ShadowsApart, Alike
<1>2. ASSUME NEW t \in DOMAIN n
      PROVE  [m[t] EXCEPT !.chain = [i \in DOMAIN m[t].chain |-> Plain(m[t].chain[i])]]
           = [n[t] EXCEPT !.chain = [i \in DOMAIN n[t].chain |-> Plain(n[t].chain[i])]]
  <2>1. DOMAIN m[t] = DOMAIN n[t] /\ DOMAIN n[t] = Fields
    BY DEF ShadowsApart, Alike, Shaped
  <2>2. \A f \in DOMAIN n[t] \ {"chain"} : m[t][f] = n[t][f]
    BY <2>1 DEF ShadowsApart, Alike
  <2>3. [i \in DOMAIN m[t].chain |-> Plain(m[t].chain[i])]
          = [i \in DOMAIN n[t].chain |-> Plain(n[t].chain[i])]
    BY DEF ShadowsApart
  <2> QED BY <2>1, <2>2, <2>3
<1> QED BY <1>1, <1>2 DEF Intent

LEMMA RolledBackApart ==
    ASSUME NEW old, Shaped(old), NEW now PROVE ShadowsApart(RolledBack(old, now), old)
<1> DEFINE w == WithShadows(old, now)
<1>1. ShadowsApart(w, old)
  BY WithShadowsApart
<1>2. Shaped(w)
  BY <1>1, AlikeKeeps DEF ShadowsApart
<1>3. ShadowsApart(Ensured(w, order), w)
  BY <1>2, EnsuredApart
<1> QED BY <1>1, <1>3, ApartTransitive DEF RolledBack
-----------------------------------------------------------------------------
(* System outputs.                                                         *)
(* The tracks as a state of ensure_system_outputs.                         *)
Kept(s) ==
    /\ s.nextId \in Nat \ {0} /\ DOMAIN s.node \subseteq 1..(s.nextId - 1)
    /\ Listed(s.order, DOMAIN s.node) /\ Shaped(s.node) /\ Routed(s.node)

\* A role is given to one track, and the others keep theirs.
Given1(n, m, role) ==
    /\ \E t \in DOMAIN m : Holders(m, role) = {t}
    /\ \A r \in SystemRoles \ {role} : Holders(m, r) = Holders(n, r)

RoleTo(n, t, role, p) == [n EXCEPT ![t].role = role, ![t].policy = p]
Larger(n, t, x) == [s \in DOMAIN n \cup {t} |-> IF s = t THEN x ELSE n[s]]

LEMMA RoleIsGiven ==
    ASSUME NEW n, Shaped(n), Routed(n), NEW role \in SystemRoles, Holders(n, role) = {},
           NEW t \in DOMAIN n, n[t].role = "none", NEW p
    PROVE  /\ DOMAIN RoleTo(n, t, role, p) = DOMAIN n
           /\ Shaped(RoleTo(n, t, role, p)) /\ Routed(RoleTo(n, t, role, p))
           /\ Given1(n, RoleTo(n, t, role, p), role)
<1> DEFINE m == RoleTo(n, t, role, p)
<1>0. m = [n EXCEPT ![t].role = role, ![t].policy = p]
  BY DEF RoleTo
<1> HIDE DEF m
<1>1. DOMAIN m = DOMAIN n
  BY <1>0
<1>2. \A s \in DOMAIN n : /\ DOMAIN m[s] = Fields /\ m[s].chain = n[s].chain
                         /\ m[s].kind = n[s].kind
                         /\ m[s].dests = n[s].dests /\ m[s].sidechain = n[s].sidechain
                         /\ m[s].role = IF s = t THEN role ELSE n[s].role
  <2> SUFFICES ASSUME NEW s \in DOMAIN n
               PROVE  /\ DOMAIN m[s] = Fields /\ m[s].chain = n[s].chain
                      /\ m[s].kind = n[s].kind
                      /\ m[s].dests = n[s].dests /\ m[s].sidechain = n[s].sidechain
                      /\ m[s].role = IF s = t THEN role ELSE n[s].role
    OBVIOUS
  <2>1. DOMAIN n[s] = Fields
    BY DEF Shaped
  <2>2. CASE s # t
    BY <1>0, <2>1, <2>2
  <2>3. CASE s = t
    <3>1. m[s] = [[n[s] EXCEPT !.role = role] EXCEPT !.policy = p]
      BY <1>0, <2>3
    <3> QED BY <2>1, <2>3, <3>1 DEF Fields
  <2> QED BY <2>2, <2>3
<1>l. Loopless(m)
  BY <1>1, <1>2, FewerTargets DEF Routed
<1>3. Shaped(m) /\ Routed(m)
  BY <1>1, <1>2, <1>l DEF Shaped, Routed, Sound, IsSource
<1>4. Holders(m, role) = {t}
  BY <1>1, <1>2 DEF Holders
<1>5. \A r \in SystemRoles \ {role} : Holders(m, r) = Holders(n, r)
  BY <1>1, <1>2 DEF Holders, SystemRoles
<1> QED BY <1>1, <1>3, <1>4, <1>5 DEF Given1, m

LEMMA TrackIsAdded ==
    ASSUME NEW n, Shaped(n), Routed(n), NEW t, t \notin DOMAIN n,
           NEW x, DOMAIN x = Fields, x.chain = <<>>, x.dests = {}, x.sidechain = {}
    PROVE  /\ DOMAIN Larger(n, t, x) = DOMAIN n \cup {t}
           /\ Shaped(Larger(n, t, x)) /\ Routed(Larger(n, t, x))
<1> DEFINE m == Larger(n, t, x)
<1>1. DOMAIN m = DOMAIN n \cup {t} /\ m[t] = x /\ \A s \in DOMAIN n : m[s] = n[s]
  BY DEF Larger
<1> HIDE DEF m
<1>2. <<>> \in Seq(Range(<<>>))
  BY EmptySeq
<1>3. Shaped(m)
  BY <1>1, <1>2 DEF Shaped
<1>l. Loopless(m)
  <2>1. \A s \in DOMAIN m : t \notin Targets(m[s])
    BY <1>1 DEF Targets, Routed, Sound
  <2>2. \A u \in DOMAIN n : Into(m, u) \subseteq Into(n, u)
    BY <1>1 DEF Into, Targets
  <2>3. Into(m, t) = {}
    BY <2>1 DEF Into
  <2>4. Eased(m, n)
    BY <1>1, <2>2, <2>3 DEF Eased
  <2> QED BY <2>4, EasedHasNoLoop DEF Routed
<1>4. Routed(m)
  <2>1. ASSUME NEW s \in DOMAIN n
        PROVE  /\ m[s].dests \subseteq {d \in DOMAIN m \ {s} : ~IsSource(m[d])}
               /\ m[s].sidechain \subseteq {d \in DOMAIN m : m[d].kind = "fx"}
               /\ m[s].sidechain # {} => IsSource(m[s])
    BY <1>1, <2>1 DEF Routed, Sound, IsSource
  <2> QED BY <1>1, <1>l, <2>1 DEF Routed, Sound
<1> QED BY <1>1, <1>3, <1>4 DEF m

LEMMA RoleIsEnsured ==
    ASSUME NEW s, Kept(s), NEW role \in SystemRoles,
           Holders(s.node, role) = {} \/ \E t \in DOMAIN s.node : Holders(s.node, role) = {t},
           s = [node |-> s.node, order |-> s.order, nextId |-> s.nextId]
    PROVE  LET e == EnsureRole(s, role)
           IN  /\ Kept(e) /\ Given1(s.node, e.node, role)
               /\ e = [node |-> e.node, order |-> e.order, nextId |-> e.nextId]
<1> DEFINE e == EnsureRole(s, role)
           holders == {i \in DOMAIN s.order : s.node[s.order[i]].role = role}
           free == {i \in DOMAIN s.order : s.order[i] \in Candidates(s.node)}
           Give(n, t, r) == [n EXCEPT ![t].role = r,
                                      ![t].policy = IF r = "none" THEN "full" ELSE PolicyOf(r)]
<1>1. DOMAIN s.order = 1..Len(s.order) /\ Len(s.order) \in Nat
  BY LenProperties DEF Kept, Listed
<1>2. \A i \in 1..Len(s.order) : s.order[i] \in DOMAIN s.node
  BY ElementOfSeq DEF Kept, Listed
<1>3. holders \subseteq Nat /\ free \subseteq Nat
  BY <1>1
<1>4. CASE holders # {}
  <2>1. PICK i \in holders : TRUE
    BY <1>4
  <2>2. \A j \in holders : j = i
    <3> SUFFICES ASSUME NEW j \in holders PROVE j = i
      OBVIOUS
    <3>1. s.order[i] \in Holders(s.node, role) /\ s.order[j] \in Holders(s.node, role)
      BY <1>1, <1>2 DEF Holders
    <3>2. s.order[i] = s.order[j]
      BY <3>1
    <3> QED BY <1>1, <3>2 DEF Kept, Listed
  <2>3. holders \ {Min(holders)} = {}
    BY <1>3, <1>4, <2>2, LeastOne
  <2>4. e = [s EXCEPT !.node = [t \in DOMAIN s.node |->
                IF \E l \in holders \ {Min(holders)} : s.order[l] = t
                THEN Give(s.node, t, "none")[t] ELSE s.node[t]]]
    BY <1>4 DEF EnsureRole
  <2>5. e = [s EXCEPT !.node = [t \in DOMAIN s.node |-> s.node[t]]]
    BY <2>3, <2>4
  <2> DEFINE m == [t \in DOMAIN s.node |-> s.node[t]]
  <2>6. e = [node |-> m, order |-> s.order, nextId |-> s.nextId]
    BY <2>5
  <2>7. DOMAIN m = DOMAIN s.node /\ \A t \in DOMAIN s.node : m[t] = s.node[t]
    OBVIOUS
  <2> HIDE DEF m, e
  <2>l. Loopless(s.node) => Loopless(m)
    BY <2>7, FewerTargets
  <2>8. Kept(e)
    BY <2>6, <2>7, <2>l DEF Kept, Shaped, Routed, Sound, IsSource
  <2>9. \A r : Holders(m, r) = Holders(s.node, r)
    BY <2>7 DEF Holders
  <2>10. Holders(s.node, role) # {}
    BY <1>1, <1>2, <2>1 DEF Holders
  <2>11. Given1(s.node, m, role)
    BY <2>7, <2>9, <2>10 DEF Given1
  <2> QED BY <2>6, <2>8, <2>11 DEF e
<1>5. Holders(s.node, role) = {} \/ holders # {}
  <2> SUFFICES ASSUME NEW t \in Holders(s.node, role) PROVE holders # {}
    OBVIOUS
  <2>1. PICK i \in 1..Len(s.order) : s.order[i] = t
    BY DEF Kept, Listed, Holders
  <2> QED BY <1>1, <2>1 DEF Holders
<1>6. CASE holders = {} /\ free # {}
  <2> DEFINE t == s.order[Min(free)]
             m == Give(s.node, t, role)
  <2>1. t \in DOMAIN s.node /\ s.node[t].role = "none"
    BY <1>3, <1>6, LeastOne DEF Candidates
  <2>2. e = [s EXCEPT !.node = m]
    BY <1>6 DEF EnsureRole
  <2>3. e = [node |-> m, order |-> s.order, nextId |-> s.nextId]
    BY <2>2
  <2>4. m = RoleTo(s.node, t, role, IF role = "none" THEN "full" ELSE PolicyOf(role))
    BY DEF RoleTo
  <2> HIDE DEF m, e, t
  <2>5. DOMAIN m = DOMAIN s.node /\ Shaped(m) /\ Routed(m) /\ Given1(s.node, m, role)
    <3>1. Shaped(s.node) /\ Routed(s.node) /\ Holders(s.node, role) = {}
      BY <1>5, <1>6 DEF Kept
    <3> QED BY ONLY role \in SystemRoles, <2>1, <2>4, <3>1, RoleIsGiven
  <2>6. Kept(e)
    BY <2>3, <2>5 DEF Kept
  <2> QED BY <2>3, <2>5, <2>6 DEF e
<1>7. CASE holders = {} /\ free = {}
  <2> DEFINE x == [Fresh("output") EXCEPT !.role = role, !.policy = PolicyOf(role)]
             t == s.nextId
             m == [r \in DOMAIN s.node \cup {t} |-> IF r = t THEN x ELSE s.node[r]]
  <2>1. e = [node |-> m, order |-> Append(s.order, t), nextId |-> t + 1]
    BY <1>7 DEF EnsureRole
  <2>2. /\ DOMAIN x = Fields /\ x.chain = <<>> /\ x.dests = {} /\ x.sidechain = {}
        /\ x.role = role
    BY DEF Fresh, Fields
  <2>3. t \in Nat /\ t # 0 /\ t \notin DOMAIN s.node
    BY DEF Kept
  <2> HIDE DEF m, e, x
  <2>4. /\ DOMAIN m = DOMAIN s.node \cup {t} /\ Shaped(m) /\ Routed(m)
        /\ Holders(m, x.role) = Holders(s.node, x.role) \cup {t}
        /\ \A r \in SystemRoles \ {x.role} : Holders(m, r) = Holders(s.node, r)
    <3>1. Shaped(s.node) /\ Routed(s.node)
      BY DEF Kept
    <3>2. m = Larger(s.node, t, x)
      BY DEF m, Larger
    <3> HIDE DEF t
    <3>3. /\ t \notin DOMAIN s.node /\ DOMAIN x = Fields /\ x.chain = <<>>
          /\ x.dests = {} /\ x.sidechain = {}
      BY <2>2, <2>3
    <3> DEFINE l == Larger(s.node, t, x)
    <3>4. DOMAIN l = DOMAIN s.node \cup {t} /\ Shaped(l) /\ Routed(l)
      BY ONLY <3>1, <3>3, TrackIsAdded
    <3>5. Holders(l, x.role) = Holders(s.node, x.role) \cup {t}
      BY <3>3 DEF Larger, Holders
    <3>6. \A r \in SystemRoles \ {x.role} : Holders(l, r) = Holders(s.node, r)
      BY <3>3 DEF Larger, Holders
    <3> HIDE DEF l
    <3>7. m = l
      BY <3>2 DEF l
    <3> QED BY ONLY <3>4, <3>5, <3>6, <3>7
  <2>5. Listed(Append(s.order, t), DOMAIN m)
    BY <2>3, <2>4, AppendedIsListed DEF Kept
  <2>6. t \in DOMAIN m /\ Holders(m, role) = {t}
    BY <1>5, <1>7, <2>2, <2>4
  <2>7. Given1(s.node, m, role)
    BY <2>2, <2>4, <2>6 DEF Given1
  <2>8. DOMAIN m \subseteq 1..t
    <3>1. DOMAIN s.node \subseteq 1..(t - 1)
      BY DEF Kept
    <3>2. DOMAIN m = DOMAIN s.node \cup {t}
      BY <2>4
    <3>3. t - 1 \in Int /\ t \in Nat /\ t # 0
      BY <2>3
    <3> HIDE DEF t
    <3> QED BY ONLY <3>3, <3>1, <3>2
  <2>9. Kept(e)
    BY <2>1, <2>3, <2>4, <2>5, <2>8 DEF Kept
  <2> QED BY <2>1, <2>7, <2>9 DEF e
<1> QED BY <1>4, <1>6, <1>7

OneOfEachRole(n) == \A r \in SystemRoles : \E t \in DOMAIN n : Holders(n, r) = {t}

LEMMA SystemOutputsAreOne ==
    ASSUME NEW s, Kept(s), Paired(s.node),
           s = [node |-> s.node, order |-> s.order, nextId |-> s.nextId]
    PROVE  Kept(SystemOutputs(s)) /\ OneOfEachRole(SystemOutputs(s).node)
<1> DEFINE a == EnsureRole(s, "monitor")
           b == EnsureRole(a, "stream")
<1>1. \A r \in SystemRoles :
         Holders(s.node, r) = {} \/ \E t \in DOMAIN s.node : Holders(s.node, r) = {t}
  BY DEF Paired
<1>r. "monitor" \in SystemRoles /\ "stream" \in SystemRoles /\ SystemRoles = {"monitor", "stream"}
  BY DEF SystemRoles
<1>2. /\ Kept(a) /\ Given1(s.node, a.node, "monitor")
      /\ a = [node |-> a.node, order |-> a.order, nextId |-> a.nextId]
  <2>1. Holders(s.node, "monitor") = {}
          \/ \E t \in DOMAIN s.node : Holders(s.node, "monitor") = {t}
    BY <1>1, <1>r
  <2> QED BY <1>r, <2>1, RoleIsEnsured
<1> HIDE DEF a
<1>3. Holders(a.node, "stream") = Holders(s.node, "stream")
  BY <1>2, <1>r DEF Given1
<1>4. Holders(a.node, "stream") = {} \/ \E t \in DOMAIN a.node : Holders(a.node, "stream") = {t}
  <2>1. CASE Holders(s.node, "stream") = {}
    BY <1>3, <2>1
  <2>2. CASE Holders(s.node, "stream") # {}
    <3>1. PICK t \in DOMAIN s.node : Holders(s.node, "stream") = {t}
      BY <1>1, <1>r, <2>2
    <3>2. t \in Holders(a.node, "stream")
      BY <1>3, <3>1
    <3>3. t \in DOMAIN a.node
      BY <3>2 DEF Holders
    <3> QED BY <1>3, <3>1, <3>3
  <2> QED BY <2>1, <2>2
<1>5. Kept(b) /\ Given1(a.node, b.node, "stream")
  BY <1>r, <1>2, <1>4, RoleIsEnsured
<1> HIDE DEF b
<1>6. PICK t \in DOMAIN a.node : Holders(a.node, "monitor") = {t}
  BY <1>2 DEF Given1
<1>7. Holders(b.node, "monitor") = {t}
  BY <1>5, <1>6, <1>r DEF Given1
<1>8. t \in DOMAIN b.node
  <2>1. t \in Holders(b.node, "monitor")
    BY <1>7
  <2> QED BY <2>1 DEF Holders
<1>9. \E u \in DOMAIN b.node : Holders(b.node, "stream") = {u}
  BY <1>5 DEF Given1
<1>10. OneOfEachRole(b.node)
  BY <1>7, <1>8, <1>9, <1>r DEF OneOfEachRole
<1>11. SystemOutputs(s) = b
  BY DEF SystemOutputs, a, b
<1> QED BY <1>5, <1>10, <1>11
-----------------------------------------------------------------------------
(* What a step has to keep.                                                *)
SameRoles(m, n) ==
    DOMAIN m = DOMAIN n /\ \A r \in SystemRoles : Holders(m, r) = Holders(n, r)
Prepared(m, n) == Shaped(m) /\ Routed(m) /\ SameRoles(m, n)
RefusalKeeps == ops' # ops /\ ~reply' => Intent(node') = Intent(node) /\ order' = order
Step == IInv' /\ OneOfEach(node, node') /\ RefusalKeeps

LEMMA SingleRoles ==
    ASSUME NEW old, NEW new, Paired(new),
           \A r \in SystemRoles : Holders(old, r) # {} => Holders(new, r) # {}
    PROVE  OneOfEach(old, new)
<1> SUFFICES ASSUME NEW q \in SystemRoles, NEW r \in SystemRoles,
                    Holders(old, q) \cup Holders(new, q) # {}
             PROVE  Cardinality(Holders(new, r)) = 1
  BY DEF OneOfEach
<1>1. Holders(new, q) # {}
  OBVIOUS
<1>2. PICK t \in DOMAIN new : Holders(new, r) = {t}
  BY <1>1 DEF Paired
<1> QED BY <1>2, FS_Singleton

LEMMA SamePairs ==
    ASSUME NEW m, NEW n, Paired(n), \A r \in SystemRoles : Holders(m, r) = Holders(n, r)
    PROVE  Paired(m) /\ OneOfEach(n, m)
<1>1. ASSUME NEW q \in SystemRoles, NEW r \in SystemRoles, Holders(m, q) # {}
      PROVE  \E t \in DOMAIN m : Holders(m, r) = {t}
  <2>1. Holders(n, q) # {}
    BY <1>1
  <2>2. PICK t \in DOMAIN n : Holders(n, r) = {t}
    BY <2>1 DEF Paired
  <2>3. Holders(m, r) = {t}
    BY <2>2
  <2>4. t \in DOMAIN m
    BY <2>3 DEF Holders
  <2> QED BY <2>3, <2>4
<1>2. Paired(m)
  BY <1>1 DEF Paired
<1> QED BY <1>2, SingleRoles

\* Nothing but the tracks changes.
LEMMA PreparedStep ==
    ASSUME IInv, UNCHANGED <<order, nextId>>, Prepared(node', node)
    PROVE  IInv' /\ OneOfEach(node, node')
<1>1. Paired(node') /\ OneOfEach(node, node')
  BY SamePairs DEF IInv, Prepared, SameRoles
<1>2. order' = order /\ nextId' = nextId /\ DOMAIN node' = DOMAIN node
  BY DEF Prepared, SameRoles
<1>3. Shaped(node') /\ Routed(node')
  BY DEF Prepared
<1>4. /\ nextId' \in Nat \ {0} /\ DOMAIN node' \subseteq 1..(nextId' - 1)
      /\ Listed(order', DOMAIN node')
  BY <1>2 DEF IInv
<1>5. IInv'
  BY <1>1, <1>3, <1>4 DEF IInv
<1> QED BY <1>1, <1>5

LEMMA AlikePrepared ==
    ASSUME NEW m, NEW n, Alike(m, n), Shaped(n), Routed(n) PROVE Prepared(m, n)
  BY AlikeKeeps DEF Prepared, SameRoles

LEMMA PreparedTransitive ==
    ASSUME NEW l, NEW m, NEW n, Prepared(l, m), Prepared(m, n) PROVE Prepared(l, n)
  BY DEF Prepared, SameRoles

LEMMA EnsuredPrepared ==
    ASSUME NEW m, NEW n, NEW o, Prepared(m, n)
    PROVE  Prepared(Ensured(m, o), n)
<1>1. Shaped(m) /\ Routed(m)
  BY DEF Prepared
<1>2. Alike(Ensured(m, o), m)
  BY <1>1, EnsuredApart DEF ShadowsApart
<1> QED BY <1>1, <1>2, AlikePrepared, PreparedTransitive

\* A command that asks for a sound state takes it or rolls back.
LEMMA AttemptStep ==
    ASSUME IInv, NEW new, Prepared(new, node), Attempt(new) PROVE Step
<1> DEFINE tried == Ensured(new, order)
<1>1. Prepared(tried, node)
  BY EnsuredPrepared
<1> HIDE DEF tried
<1>2. UNCHANGED <<order, nextId>> /\ AttemptPlanned(new, tried, PlanRoutes(tried, order))
  BY DEF Attempt, AttemptEnsured, tried
<1>3. CASE Accept(tried, PlanRoutes(tried, order))
  <2>1. node' = tried /\ reply' = TRUE
    BY <1>3 DEF Accept, Answer
  <2>2. Prepared(node', node)
    BY <1>1, <2>1
  <2>3. RefusalKeeps
    BY <2>1 DEF RefusalKeeps
  <2> QED BY <1>2, <2>2, <2>3, PreparedStep DEF Step
<1>4. ASSUME NEW fault \in {"prepare", "swap"},
             Recover(RolledBack(node, IF fault = "prepare" THEN new ELSE tried))
      PROVE  Step
  <2> DEFINE now == IF fault = "prepare" THEN new ELSE tried
  <2>1. Shaped(node) /\ Routed(node)
    BY DEF IInv
  <2>2. node' = RolledBack(node, now)
    BY <1>4 DEF Recover
  <2> HIDE DEF now
  <2>3. ShadowsApart(node', node)
    BY <2>1, <2>2, RolledBackApart
  <2>4. Prepared(node', node)
    BY <2>1, <2>3, AlikePrepared DEF ShadowsApart
  <2>5. Intent(node') = Intent(node)
    BY <2>1, <2>3, ApartIntent
  <2>6. RefusalKeeps
    BY <1>2, <2>5 DEF RefusalKeeps
  <2> QED BY <1>2, <2>4, <2>6, PreparedStep DEF Step
<1> QED BY <1>2, <1>3, <1>4 DEF AttemptPlanned

LEMMA RefuseStep == ASSUME IInv, Refuse PROVE Step
<1>1. UNCHANGED <<node, order, nextId>>
  BY DEF Refuse
<1>2. Prepared(node', node)
  BY <1>1 DEF IInv, Prepared, SameRoles
<1>3. RefusalKeeps
  BY <1>1 DEF RefusalKeeps
<1> QED BY <1>1, <1>2, <1>3, PreparedStep DEF Step

\* A command that cannot refuse, and only changes tracks.
LEMMA TakenStep ==
    ASSUME IInv, UNCHANGED <<order, nextId>>, Prepared(node', node), Answer(TRUE)
    PROVE  Step
<1>1. reply' = TRUE
  BY DEF Answer
<1>2. RefusalKeeps
  BY <1>1 DEF RefusalKeeps
<1> QED BY <1>2, PreparedStep DEF Step
-----------------------------------------------------------------------------
(* The commands on tracks.                                                 *)
LEMMA TrackAddStep == ASSUME IInv, NEW kind \in Kinds, TrackAdd(kind) PROVE Step
<1>1. CASE Len(order) >= MaxTracks
  BY <1>1, RefuseStep DEF TrackAdd
<1>2. CASE ~(Len(order) >= MaxTracks)
  <2>1. /\ node' = [t \in DOMAIN node \cup {nextId} |->
                      IF t = nextId THEN Fresh(kind) ELSE node[t]]
        /\ order' = Append(order, nextId) /\ nextId' = nextId + 1 /\ Answer(TRUE)
    BY <1>2 DEF TrackAdd
  <2>2. node' = Larger(node, nextId, Fresh(kind))
    BY <2>1 DEF Larger
  <2>3. /\ DOMAIN Fresh(kind) = Fields /\ Fresh(kind).chain = <<>>
        /\ Fresh(kind).dests = {} /\ Fresh(kind).sidechain = {} /\ Fresh(kind).role = "none"
    BY DEF Fresh, Fields
  <2>4. nextId \in Nat \ {0} /\ DOMAIN node \subseteq 1..(nextId - 1) /\ Shaped(node) /\ Routed(node)
    BY DEF IInv
  <2>5. nextId \notin DOMAIN node
    BY <2>4
  <2>6. DOMAIN node' = DOMAIN node \cup {nextId} /\ Shaped(node') /\ Routed(node')
    BY <2>2, <2>3, <2>4, <2>5, TrackIsAdded
  <2>7. \A r \in SystemRoles : Holders(node', r) = Holders(node, r)
    BY <2>2, <2>3, <2>5 DEF Larger, Holders, SystemRoles
  <2>8. Listed(order', DOMAIN node')
    BY <2>1, <2>5, <2>6, AppendedIsListed DEF IInv
  <2>9. nextId' \in Nat \ {0} /\ DOMAIN node' \subseteq 1..(nextId' - 1)
    BY <2>1, <2>4, <2>6
  <2>10. Paired(node') /\ OneOfEach(node, node')
    BY <2>7, SamePairs DEF IInv
  <2>11. IInv'
    BY <2>6, <2>8, <2>9, <2>10 DEF IInv
  <2>12. RefusalKeeps
    BY <2>1 DEF RefusalKeeps, Answer
  <2> QED BY <2>10, <2>11, <2>12 DEF Step
<1> QED BY <1>1, <1>2

LEMMA WithoutIsSound ==
    ASSUME NEW n, Shaped(n), Routed(n), NEW t \in DOMAIN n, n[t].role = "none"
    PROVE  /\ DOMAIN Without(n, t) = DOMAIN n \ {t}
           /\ Shaped(Without(n, t)) /\ Routed(Without(n, t))
           /\ \A r \in SystemRoles : Holders(Without(n, t), r) = Holders(n, r)
<1> DEFINE m == Without(n, t)
<1>1. DOMAIN m = DOMAIN n \ {t}
  BY DEF Without
<1>2. ASSUME NEW s \in DOMAIN n \ {t}
      PROVE  /\ DOMAIN m[s] = Fields /\ m[s].chain = n[s].chain /\ m[s].kind = n[s].kind
             /\ m[s].role = n[s].role
             /\ m[s].dests = n[s].dests \ {t} /\ m[s].sidechain = n[s].sidechain \ {t}
  <2>1. m[s] = [n[s] EXCEPT !.dests = @ \ {t}, !.sidechain = @ \ {t}]
    BY DEF Without
  <2>2. DOMAIN n[s] = Fields
    BY DEF Shaped
  <2> HIDE DEF m
  <2> QED BY <2>1, <2>2 DEF Fields
<1> HIDE DEF m
<1>3. Shaped(m)
  BY <1>1, <1>2 DEF Shaped
<1>l. Loopless(m)
  BY <1>1, <1>2, FewerTargets DEF Routed
<1>4. Routed(m)
  BY <1>1, <1>2, <1>l DEF Routed, Sound, IsSource
<1>5. \A r \in SystemRoles : Holders(m, r) = Holders(n, r)
  BY <1>1, <1>2 DEF Holders, SystemRoles
<1> QED BY <1>1, <1>3, <1>4, <1>5 DEF m

LEMMA TrackRemoveStep == ASSUME IInv, NEW t \in Tids, TrackRemove(t) PROVE Step
<1>1. CASE node[t].role # "none"
  BY <1>1, RefuseStep DEF TrackRemove
<1>2. CASE node[t].role = "none"
  <2> DEFINE w == Without(node, t)
  <2>1. /\ t \in DOMAIN node /\ order' = Erased(order, t)
        /\ node' = Ensured(w, order') /\ nextId' = nextId /\ Answer(TRUE)
    BY <1>2 DEF TrackRemove, Addressed
  <2>2. /\ nextId \in Nat \ {0} /\ DOMAIN node \subseteq 1..(nextId - 1)
        /\ Shaped(node) /\ Routed(node) /\ Listed(order, DOMAIN node) /\ Paired(node)
    BY DEF IInv
  <2>3. /\ DOMAIN w = DOMAIN node \ {t} /\ Shaped(w) /\ Routed(w)
        /\ \A r \in SystemRoles : Holders(w, r) = Holders(node, r)
    BY <1>2, <2>1, <2>2, WithoutIsSound
  <2> HIDE DEF w
  <2>4. Prepared(w, w)
    BY <2>3 DEF Prepared, SameRoles
  <2>5. Prepared(node', w)
    BY <2>1, <2>4, EnsuredPrepared
  <2>6. /\ DOMAIN node' = DOMAIN node \ {t} /\ Shaped(node') /\ Routed(node')
        /\ \A r \in SystemRoles : Holders(node', r) = Holders(node, r)
    BY <2>3, <2>5 DEF Prepared, SameRoles
  <2>7. Listed(order', DOMAIN node')
    BY <2>1, <2>2, <2>6, ErasedIsListed
  <2>8. Paired(node') /\ OneOfEach(node, node')
    BY <2>2, <2>6, SamePairs
  <2>9. nextId' \in Nat \ {0} /\ DOMAIN node' \subseteq 1..(nextId' - 1)
    BY <2>1, <2>2, <2>6
  <2>10. IInv'
    BY <2>6, <2>7, <2>8, <2>9 DEF IInv
  <2>11. RefusalKeeps
    BY <2>1 DEF RefusalKeeps, Answer
  <2> QED BY <2>8, <2>10, <2>11 DEF Step
<1> QED BY <1>1, <1>2

LEMMA TrackMoveStep == ASSUME IInv, NEW t \in Tids, NEW i \in Tids, TrackMove(t, i) PROVE Step
<1>1. /\ t \in DOMAIN node /\ i \in DOMAIN order /\ node' = node /\ nextId' = nextId
      /\ order' = InsertAt(Erased(order, t), i, t) /\ Answer(TRUE)
  BY DEF TrackMove, Addressed
<1>2. Listed(order, DOMAIN node)
  BY DEF IInv
<1>3. Len(order) \in Nat /\ DOMAIN order = 1..Len(order)
  BY <1>2, LenProperties DEF Listed
<1>4. Listed(Erased(order, t), DOMAIN node \ {t}) /\ Len(Erased(order, t)) = Len(order) - 1
  BY <1>1, <1>2, ErasedIsListed
<1>5. i \in 1..(Len(Erased(order, t)) + 1)
  BY <1>1, <1>3, <1>4
<1>6. Listed(order', (DOMAIN node \ {t}) \cup {t})
  BY <1>1, <1>4, <1>5, InsertedIsListed
<1>7. (DOMAIN node \ {t}) \cup {t} = DOMAIN node
  BY <1>1
<1>8. Paired(node') /\ OneOfEach(node, node')
  BY <1>1, SamePairs DEF IInv
<1>9. IInv'
  BY <1>1, <1>6, <1>7, <1>8 DEF IInv
<1>10. RefusalKeeps
  BY <1>1 DEF RefusalKeeps, Answer
<1> QED BY <1>8, <1>9, <1>10 DEF Step

LEMMA TrackSetStep == ASSUME IInv, TrackSet PROVE Step
<1>1. UNCHANGED <<node, order, nextId>> /\ Answer(TRUE)
  BY DEF TrackSet
<1>2. Prepared(node', node)
  BY <1>1 DEF IInv, Prepared, SameRoles
<1> QED BY <1>1, <1>2, TakenStep

LEMMA SystemOutputsStep == ASSUME IInv, EnsureSystemOutputs PROVE Step
<1> DEFINE s == [node |-> node, order |-> order, nextId |-> nextId]
           new == SystemOutputs(s)
<1>1. node' = new.node /\ order' = new.order /\ nextId' = new.nextId /\ Answer(TRUE)
  BY DEF EnsureSystemOutputs
<1>2. Kept(s) /\ Paired(s.node) /\ s = [node |-> s.node, order |-> s.order, nextId |-> s.nextId]
  BY DEF IInv, Kept
<1> HIDE DEF s
<1>3. Kept(new) /\ OneOfEachRole(new.node)
  BY <1>2, SystemOutputsAreOne
<1> HIDE DEF new
<1>4. \A r \in SystemRoles : Holders(new.node, r) # {}
  BY <1>3 DEF OneOfEachRole
<1>5. Paired(new.node)
  BY <1>3 DEF OneOfEachRole, Paired
<1>6. OneOfEach(node, new.node)
  BY <1>4, <1>5, SingleRoles
<1>7. IInv'
  BY <1>1, <1>3, <1>5 DEF Kept, IInv
<1>8. OneOfEach(node, node')
  BY <1>1, <1>6
<1>9. RefusalKeeps
  BY <1>1 DEF RefusalKeeps, Answer
<1> QED BY <1>7, <1>8, <1>9 DEF Step

\* Policy and destinations: one field of one track.
LEMMA FieldEdited ==
    ASSUME NEW n, Shaped(n), NEW t \in DOMAIN n, NEW field \in {"policy", "dests"}, NEW v
    PROVE  /\ DOMAIN Edit(n, t, field, v) = DOMAIN n
           /\ Shaped(Edit(n, t, field, v)) /\ SameRoles(Edit(n, t, field, v), n)
           /\ \A s \in DOMAIN n : \A f \in Fields :
                 Edit(n, t, field, v)[s][f] = IF s = t /\ f = field THEN v ELSE n[s][f]
<1> DEFINE m == Edit(n, t, field, v)
<1>1. m = [n EXCEPT ![t] = [n[t] EXCEPT ![field] = v]]
  BY DEF Edit
<1> HIDE DEF m
<1>2. DOMAIN m = DOMAIN n
  BY <1>1
<1>3. ASSUME NEW s \in DOMAIN n
      PROVE  /\ DOMAIN m[s] = Fields
             /\ \A f \in Fields : m[s][f] = IF s = t /\ f = field THEN v ELSE n[s][f]
  <2>1. DOMAIN n[s] = Fields
    BY DEF Shaped
  <2>2. CASE s # t
    BY <1>1, <2>1, <2>2
  <2>3. CASE s = t
    <3>1. m[s] = [n[s] EXCEPT ![field] = v]
      BY <1>1, <2>3
    <3> QED BY <2>1, <2>3, <3>1
  <2> QED BY <2>2, <2>3
<1>4. \A s \in DOMAIN n : m[s].chain = n[s].chain /\ m[s].role = n[s].role
  BY <1>3 DEF Fields
<1>5. Shaped(m)
  BY <1>2, <1>3, <1>4 DEF Shaped
<1>6. SameRoles(m, n)
  BY <1>2, <1>4 DEF SameRoles, Holders
<1> QED BY <1>2, <1>3, <1>5, <1>6 DEF m

LEMMA SetPolicyStep ==
    ASSUME IInv, NEW t \in Tids, NEW policy, SetPolicy(t, policy) PROVE Step
<1>1. CASE node[t].kind # "output"
  BY <1>1, RefuseStep DEF SetPolicy
<1>2. CASE node[t].kind = "output"
  <2> DEFINE m == Edit(node, t, "policy", policy)
  <2>1. t \in DOMAIN node /\ Attempt(m)
    BY <1>2 DEF SetPolicy, Addressed
  <2>2. Shaped(node) /\ Routed(node)
    BY DEF IInv
  <2>3. /\ DOMAIN m = DOMAIN node /\ Shaped(m) /\ SameRoles(m, node)
        /\ \A s \in DOMAIN node : \A f \in Fields :
              m[s][f] = IF s = t /\ f = "policy" THEN policy ELSE node[s][f]
    BY <2>1, <2>2, FieldEdited
  <2> HIDE DEF m
  <2>4. \A s \in DOMAIN node : /\ m[s].dests = node[s].dests
                              /\ m[s].sidechain = node[s].sidechain /\ m[s].kind = node[s].kind
    BY <2>3 DEF Fields
  <2>l. Loopless(m)
    BY <2>2, <2>3, <2>4, FewerTargets DEF Routed
  <2>5. Routed(m)
    BY <2>2, <2>3, <2>4, <2>l DEF Routed, Sound, IsSource
  <2> QED BY <2>1, <2>3, <2>5, AttemptStep DEF Prepared
<1> QED BY <1>1, <1>2

LEMMA ToggleDestStep ==
    ASSUME IInv, NEW t \in Tids, NEW d \in Tids, ToggleDest(t, d) PROVE Step
<1> DEFINE dests == Toggled(node[t].dests, d)
           m == Edit(node, t, "dests", dests)
<1>1. t \in DOMAIN node /\ d \in DOMAIN node /\ SetDests(t, dests)
  BY DEF ToggleDest, Addressed
<1>2. Shaped(node) /\ Routed(node)
  BY DEF IInv
<1>3. dests \subseteq DOMAIN node
  BY <1>1, <1>2 DEF Toggled, Routed, Sound
<1> HIDE DEF dests
<1>4. CASE Refuse
  BY <1>4, RefuseStep
<1>5. CASE ~Refuse
  <2>1. t \notin dests /\ (\A e \in dests : ~IsSource(node[e])) /\ Attempt(m)
    BY <1>1, <1>5 DEF SetDests, MayReceive
  <2>c. ~GraphHasCycle(m, order)
    BY <1>1, <1>5 DEF SetDests
  <2>2. /\ DOMAIN m = DOMAIN node /\ Shaped(m) /\ SameRoles(m, node)
        /\ \A s \in DOMAIN node : \A f \in Fields :
              m[s][f] = IF s = t /\ f = "dests" THEN dests ELSE node[s][f]
    BY <1>1, <1>2, FieldEdited
  <2> HIDE DEF m
  <2>3. \A s \in DOMAIN node : /\ m[s].dests = IF s = t THEN dests ELSE node[s].dests
                              /\ m[s].sidechain = node[s].sidechain /\ m[s].kind = node[s].kind
    BY <2>2 DEF Fields
  <2>4. Sound(m)
    BY <1>2, <1>3, <2>1, <2>2, <2>3 DEF Routed, Sound, IsSource
  <2>5. Routed(m)
    BY <2>2, <2>4, <2>c, CheckedHasNoLoop DEF IInv, Routed
  <2> QED BY <2>1, <2>2, <2>5, AttemptStep DEF Prepared
<1> QED BY <1>4, <1>5

LEMMA ToggleSidechainStep ==
    ASSUME IInv, NEW t \in Tids, NEW r \in Tids, ToggleSidechain(t, r) PROVE Step
<1> DEFINE sources == Toggled({s \in DOMAIN node : t \in node[s].sidechain}, r)
           c == [s \in DOMAIN node |->
                    IF s \in sources THEN node[s].sidechain \cup {t} ELSE node[s].sidechain \ {t}]
           m == [s \in DOMAIN node |-> [node[s] EXCEPT !.sidechain =
                    IF s \in sources THEN @ \cup {t} ELSE @ \ {t}]]
<1>1. t \in DOMAIN node /\ r \in DOMAIN node /\ SetSidechain(t, sources)
  BY DEF ToggleSidechain, Addressed
<1>2. Shaped(node) /\ Routed(node)
  BY DEF IInv
<1>3. sources \subseteq DOMAIN node
  BY <1>1 DEF Toggled
<1> HIDE DEF sources
<1>4. CASE Refuse
  BY <1>4, RefuseStep
<1>5. CASE ~Refuse
  <2>1. node[t].kind = "fx" /\ (\A s \in sources : IsSource(node[s])) /\ Attempt(m)
    BY <1>1, <1>5 DEF SetSidechain
  <2>c. ~GraphHasCycle(m, order)
    BY <1>1, <1>5 DEF SetSidechain
  <2>2. DOMAIN m = DOMAIN node
    OBVIOUS
  <2>3. ASSUME NEW s \in DOMAIN node
        PROVE  /\ DOMAIN m[s] = Fields /\ m[s].sidechain = c[s] /\ m[s].dests = node[s].dests
               /\ m[s].kind = node[s].kind /\ m[s].role = node[s].role
               /\ m[s].chain = node[s].chain
    <3>1. m[s] = [node[s] EXCEPT !.sidechain = c[s]]
      OBVIOUS
    <3>2. DOMAIN node[s] = Fields
      BY <1>2 DEF Shaped
    <3> HIDE DEF m, c
    <3> QED BY <3>1, <3>2 DEF Fields
  <2> HIDE DEF m
  <2>4. Shaped(m)
    BY <1>2, <2>2, <2>3 DEF Shaped
  <2>5. SameRoles(m, node)
    BY <2>2, <2>3 DEF SameRoles, Holders
  <2>i. \A d \in DOMAIN node : IsSource(m[d]) <=> IsSource(node[d])
    BY <2>3 DEF IsSource
  <2>6. ASSUME NEW s \in DOMAIN m
        PROVE  /\ m[s].dests \subseteq {d \in DOMAIN m \ {s} : ~IsSource(m[d])}
               /\ m[s].sidechain \subseteq {d \in DOMAIN m : m[d].kind = "fx"}
               /\ m[s].sidechain # {} => IsSource(m[s])
    <3>0. /\ node[s].dests \subseteq {d \in DOMAIN node \ {s} : ~IsSource(node[d])}
          /\ node[s].sidechain \subseteq {d \in DOMAIN node : node[d].kind = "fx"}
          /\ node[s].sidechain # {} => IsSource(node[s])
      BY <1>2, <2>2 DEF Routed, Sound
    <3>1. m[s].dests \subseteq {d \in DOMAIN m \ {s} : ~IsSource(m[d])}
      BY <2>2, <2>3, <2>i, <3>0
    <3>2. m[s].sidechain \subseteq node[s].sidechain \cup {t}
      BY <2>2, <2>3 DEF c
    <3>3. m[s].sidechain \subseteq {d \in DOMAIN m : m[d].kind = "fx"}
      <4> SUFFICES ASSUME NEW d \in m[s].sidechain PROVE d \in DOMAIN m /\ m[d].kind = "fx"
        OBVIOUS
      <4>1. d \in DOMAIN node /\ node[d].kind = "fx"
        BY <1>1, <2>1, <3>0, <3>2
      <4> QED BY <2>2, <2>3, <4>1
    <3>4. CASE s \in sources
      BY <2>1, <2>2, <2>i, <3>1, <3>3, <3>4
    <3>5. CASE s \notin sources
      <4>1. m[s].sidechain \subseteq node[s].sidechain
        BY <2>2, <2>3, <3>5 DEF c
      <4> QED BY <2>2, <2>i, <3>0, <3>1, <3>3, <4>1
    <3> QED BY <3>4, <3>5
  <2>7. Sound(m)
    BY <2>6 DEF Sound
  <2>8. Routed(m)
    BY <2>2, <2>7, <2>c, CheckedHasNoLoop DEF IInv, Routed
  <2> QED BY <2>1, <2>4, <2>5, <2>8, AttemptStep DEF Prepared
<1> QED BY <1>4, <1>5
-----------------------------------------------------------------------------
(* The commands on plugins.                                                *)
ChainTo(n, t, c) == [n EXCEPT ![t].chain = c]
SlotTo(n, t, i, v) == [n EXCEPT ![t].chain[i] = v]

LEMMA ChainReplaced ==
    ASSUME NEW n, Shaped(n), NEW t \in DOMAIN n, NEW S, NEW c \in Seq(S)
    PROVE  /\ Alike(ChainTo(n, t, c), n) /\ ChainTo(n, t, c)[t].chain = c
           /\ \A s \in DOMAIN n \ {t} : ChainTo(n, t, c)[s] = n[s]
<1> DEFINE m == ChainTo(n, t, c)
<1>1. m = [n EXCEPT ![t] = [n[t] EXCEPT !.chain = c]]
  BY DEF ChainTo
<1> HIDE DEF m
<1>2. c \in Seq(Range(c))
  BY SeqOfRange
<1>3. \A s \in DOMAIN n : DOMAIN n[s] = Fields /\ n[s].chain \in Seq(Range(n[s].chain))
  BY DEF Shaped
<1>4. m[t] = [n[t] EXCEPT !.chain = c] /\ \A s \in DOMAIN n \ {t} : m[s] = n[s]
  BY <1>1
<1>5. DOMAIN m[t] = Fields /\ m[t].chain = c /\ \A f \in Fields \ {"chain"} : m[t][f] = n[t][f]
  BY <1>3, <1>4 DEF Fields
<1>6. ASSUME NEW s \in DOMAIN n
      PROVE  /\ DOMAIN m[s] = DOMAIN n[s]
             /\ \A f \in Fields \ {"chain"} : m[s][f] = n[s][f]
             /\ m[s].chain \in Seq(Range(m[s].chain))
  <2>1. CASE s = t
    BY <1>2, <1>3, <1>5, <2>1
  <2>2. CASE s # t
    BY <1>3, <1>4, <2>2
  <2> QED BY <2>1, <2>2
<1>7. DOMAIN m = DOMAIN n
  BY <1>1
<1>8. Alike(m, n)
  BY <1>6, <1>7 DEF Alike
<1> QED BY <1>4, <1>5, <1>8 DEF m

LEMMA SlotReplaced ==
    ASSUME NEW n, Shaped(n), NEW t \in DOMAIN n, NEW i \in DOMAIN n[t].chain, NEW v
    PROVE  Alike(SlotTo(n, t, i, v), n)
           /\ DOMAIN SlotTo(n, t, i, v)[t].chain = DOMAIN n[t].chain
<1> DEFINE c == [n[t].chain EXCEPT ![i] = v]
           S == Range(n[t].chain) \cup {v}
<1>1. SlotTo(n, t, i, v) = ChainTo(n, t, c)
  BY DEF SlotTo, ChainTo
<1>2. n[t].chain \in Seq(S) /\ DOMAIN n[t].chain = 1..Len(n[t].chain)
  BY SeqMonotonic, LenProperties DEF Shaped
<1>3. c \in Seq(S) /\ DOMAIN c = DOMAIN n[t].chain
  BY <1>2, ExceptSeq
<1> HIDE DEF c, S
<1> QED BY <1>1, <1>3, ChainReplaced

LEMMA ChainsAreSequences ==
    ASSUME NEW n, Shaped(n), NEW t \in DOMAIN n
    PROVE  /\ n[t].chain \in Seq(Range(n[t].chain)) /\ Len(n[t].chain) \in Nat
           /\ DOMAIN n[t].chain = 1..Len(n[t].chain)
  BY LenProperties DEF Shaped

\* Without the slot that was appended the tracks are as before.
LEMMA PoppedApart ==
    ASSUME NEW n, Shaped(n), NEW t \in DOMAIN n, NEW x, NEW m,
           ShadowsApart(m, ChainTo(n, t, Append(n[t].chain, x)))
    PROVE  ShadowsApart(Popped(m, t), n)
<1> DEFINE c == n[t].chain
           a == Append(c, x)
           new == ChainTo(n, t, a)
           S == Range(c) \cup {x}
           k == Len(c)
           p == Popped(m, t)
<1>1. c \in Seq(S) /\ k \in Nat /\ DOMAIN c = 1..k
  BY ChainsAreSequences, SeqMonotonic
<1> HIDE DEF c, S, k
<1>2. a \in Seq(S) /\ Len(a) = k + 1 /\ DOMAIN a = 1..(k + 1) /\ \A i \in 1..k : a[i] = c[i]
  BY <1>1, AppendProperties, LenProperties DEF S, k
<1> HIDE DEF a
<1>3. Alike(new, n) /\ new[t].chain = a /\ \A s \in DOMAIN n \ {t} : new[s] = n[s]
  BY <1>2, ChainReplaced
<1>4. ShadowsApart(m, new)
  BY DEF a, c
<1> HIDE DEF new
<1>5. Shaped(new) /\ DOMAIN new = DOMAIN n
  BY <1>3, AlikeKeeps
<1>6. Alike(m, new) /\ DOMAIN m = DOMAIN n /\ Shaped(m)
  BY <1>4, <1>5, AlikeKeeps DEF ShadowsApart
<1>7. Alike(m, n)
  BY <1>3, <1>6 DEF Alike
<1> DEFINE b == m[t].chain
           f == Front(b)
<1>8. b \in Seq(Range(b)) /\ Len(b) = k + 1 /\ DOMAIN b = 1..(k + 1)
  <2>1. b \in Seq(Range(b)) /\ Len(b) \in Nat /\ DOMAIN b = 1..Len(b)
    BY <1>6, ChainsAreSequences
  <2>2. DOMAIN b = 1..(k + 1)
    BY <1>2, <1>3, <1>4, <1>5 DEF ShadowsApart
  <2> HIDE DEF b
  <2>3. k + 1 \in 1..(k + 1)
    BY <1>1
  <2>4. Len(b) >= k + 1
    BY <1>1, <2>1, <2>2, <2>3
  <2>5. Len(b) \in 1..Len(b)
    BY <1>1, <2>1, <2>4
  <2>6. Len(b) <= k + 1
    BY <1>1, <2>1, <2>2, <2>5
  <2>7. Len(b) \in Nat
    BY <2>1
  <2>8. Len(b) = k + 1
    BY <1>1, <2>4, <2>6, <2>7
  <2>9. b \in Seq(Range(b))
    BY <2>1
  <2> QED BY ONLY <2>2, <2>8, <2>9
<1>9. \A i \in 1..k : Plain(b[i]) = Plain(c[i])
  <2>1. \A i \in 1..(k + 1) : Plain(b[i]) = Plain(a[i])
    BY <1>2, <1>3, <1>4, <1>5 DEF ShadowsApart
  <2> HIDE DEF b
  <2> QED BY <1>1, <1>2, <2>1
<1> HIDE DEF b
<1>10. f \in Seq(Range(b)) /\ Len(f) = k /\ DOMAIN f = 1..k /\ \A i \in 1..k : f[i] = b[i]
  <2>1. \A i \in 1..k : b[i] \in Range(b)
    BY <1>1, <1>8, ElementOfSeq
  <2>2. (k + 1) - 1 = k
    BY <1>1
  <2>3. f = SubSeq(b, 1, k)
    BY <1>8, <2>2 DEF Front
  <2> HIDE DEF f
  <2>4. f \in Seq(Range(b)) /\ Len(f) = k /\ \A i \in 1..k : f[i] = b[i]
    BY <1>1, <2>1, <2>3, SubSeqProperties
  <2> QED BY <2>4, LenProperties
<1> HIDE DEF f
<1>11. p = ChainTo(m, t, f)
  BY DEF Popped, ChainTo, f, b
<1> HIDE DEF p
<1>12. Alike(p, m) /\ p[t].chain = f /\ \A s \in DOMAIN n \ {t} : p[s] = m[s]
  BY <1>6, <1>10, <1>11, ChainReplaced
<1>13. Alike(p, n)
  BY <1>7, <1>12 DEF Alike
<1>14. ASSUME NEW s \in DOMAIN n
       PROVE  /\ DOMAIN p[s].chain = DOMAIN n[s].chain
              /\ \A i \in DOMAIN n[s].chain : Plain(p[s].chain[i]) = Plain(n[s].chain[i])
  <2>1. CASE s = t
    BY <1>1, <1>9, <1>10, <1>12, <2>1 DEF c
  <2>2. CASE s # t
    BY <1>3, <1>4, <1>5, <1>12, <2>2 DEF ShadowsApart
  <2> QED BY <2>1, <2>2
<1> QED BY <1>13, <1>14 DEF ShadowsApart, p

\* The step of a command that replaces a chain or a slot.
LEMMA ChangedPrepared ==
    ASSUME IInv, NEW m, Alike(m, node) PROVE Prepared(m, node)
  BY AlikePrepared DEF IInv

LEMMA AddPluginStep ==
    ASSUME IInv, NEW t \in Tids, NEW latency, AddPlugin(t, latency) PROVE Step
<1> DEFINE x == NewSlot(latency)
           a == Append(node[t].chain, x)
           new == ChainTo(node, t, a)
           tried == Ensured(new, order)
           plan == PlanRoutes(tried, order)
<1>1. t \in DOMAIN node
  BY DEF AddPlugin, Addressed
<1>2. UNCHANGED <<order, nextId>>
  BY DEF AddPlugin
<1>n. new = [node EXCEPT ![t].chain = Append(@, NewSlot(latency))]
  BY DEF ChainTo
<1>3. AddEnsured(t, new, tried, plan)
  BY <1>n DEF AddPlugin, AddTried
<1>4. Shaped(node) /\ Routed(node)
  BY DEF IInv
<1>5. Alike(new, node)
  <2>1. node[t].chain \in Seq(Range(node[t].chain) \cup {x})
    BY <1>1, <1>4, ChainsAreSequences, SeqMonotonic
  <2>2. a \in Seq(Range(node[t].chain) \cup {x})
    BY <2>1, AppendProperties
  <2> QED BY <1>1, <1>4, <2>2, ChainReplaced
<1> HIDE DEF x, plan
<1>6. Prepared(new, node)
  BY <1>5, ChangedPrepared
<1>7. Shaped(new)
  BY <1>6 DEF Prepared
<1>8. Prepared(tried, node) /\ ShadowsApart(tried, new) /\ ShadowsApart(new, new)
  BY <1>6, <1>7, EnsuredPrepared, EnsuredApart, ApartItself
<1>9. ShadowsApart(Popped(new, t), node) /\ ShadowsApart(Popped(tried, t), node)
  <2> HIDE DEF tried
  <2> QED BY <1>1, <1>4, <1>8, PoppedApart
<1>10. CASE Accept(tried, plan)
  <2>1. node' = tried /\ Answer(TRUE)
    BY <1>10 DEF Accept
  <2> HIDE DEF new, tried
  <2> QED BY <1>2, <1>8, <2>1, TakenStep
<1>11. ASSUME NEW back, ShadowsApart(back, node), Recover(back) PROVE Step
  <2>1. node' = back
    BY <1>11 DEF Recover
  <2>2. Prepared(node', node)
    BY <1>11, <2>1, ChangedPrepared DEF ShadowsApart
  <2>3. Intent(node') = Intent(node)
    BY <1>4, <1>11, <2>1, ApartIntent
  <2>4. RefusalKeeps
    BY <1>2, <2>3 DEF RefusalKeeps
  <2> QED BY <1>2, <2>2, <2>4, PreparedStep DEF Step
<1>12. ShadowsApart(Ensured(Popped(tried, t), order), node)
  <2> HIDE DEF new, tried
  <2>1. Shaped(Popped(tried, t))
    BY <1>4, <1>9, AlikeKeeps DEF ShadowsApart
  <2>2. ShadowsApart(Ensured(Popped(tried, t), order), Popped(tried, t))
    BY <2>1, EnsuredApart
  <2> QED BY <1>9, <2>2, ApartTransitive
<1> HIDE DEF new, tried
<1>13. ASSUME NEW fault,
              Recover(IF fault = "prepare" \/ tried = new THEN Popped(new, t)
                      ELSE Ensured(Popped(tried, t), order))
       PROVE  Step
  <2>1. CASE fault = "prepare" \/ tried = new
    <3>1. Recover(Popped(new, t))
      BY <1>13, <2>1
    <3> QED BY <1>9, <1>11, <3>1
  <2>2. CASE ~(fault = "prepare" \/ tried = new)
    <3>1. Recover(Ensured(Popped(tried, t), order))
      BY <1>13, <2>2
    <3> QED BY <1>11, <1>12, <3>1
  <2> QED BY <2>1, <2>2
<1> QED BY <1>3, <1>10, <1>13 DEF AddEnsured

LEMMA RemovePluginStep ==
    ASSUME IInv, NEW t \in Tids, NEW i, RemovePlugin(t, i) PROVE Step
<1> DEFINE c == RemoveAt(node[t].chain, i)
           m == ChainTo(node, t, c)
<1>1. t \in DOMAIN node /\ i \in DOMAIN node[t].chain /\ Shaped(node)
  BY DEF RemovePlugin, Plugged, Addressed, IInv
<1>2. c \in Seq(Range(node[t].chain))
  BY <1>1, ChainsAreSequences, ElementRemoved
<1>3. node' = Ensured(m, order) /\ UNCHANGED <<order, nextId>> /\ Answer(TRUE)
  BY DEF RemovePlugin, ChainTo
<1> HIDE DEF c
<1>4. Prepared(m, node)
  BY <1>1, <1>2, ChainReplaced, ChangedPrepared
<1> HIDE DEF m
<1>5. Prepared(node', node)
  BY <1>3, <1>4, EnsuredPrepared
<1> QED BY <1>3, <1>5, TakenStep

LEMMA MovePluginStep ==
    ASSUME IInv, NEW t \in Tids, NEW i, NEW j, MovePlugin(t, i, j) PROVE Step
<1> DEFINE b == node[t].chain
           r == RemoveAt(b, i)
           c == InsertAt(r, j, b[i])
           m == ChainTo(node, t, c)
<1>1. t \in DOMAIN node /\ i \in DOMAIN b /\ j \in DOMAIN b /\ Shaped(node)
  BY DEF MovePlugin, Plugged, Addressed, IInv
<1>2. b \in Seq(Range(b)) /\ Len(b) \in Nat /\ DOMAIN b = 1..Len(b)
  BY <1>1, ChainsAreSequences
<1>3. node' = m /\ UNCHANGED <<order, nextId>> /\ Answer(TRUE)
  BY DEF MovePlugin, ChainTo
<1> HIDE DEF b
<1>4. r \in Seq(Range(b)) /\ Len(r) = Len(b) - 1
  BY <1>1, <1>2, ElementRemoved
<1> HIDE DEF r
<1>5. b[i] \in Range(b) /\ j \in 1..(Len(r) + 1)
  BY <1>1, <1>2, <1>4 DEF Range
<1>6. c \in Seq(Range(b))
  BY <1>4, <1>5, ElementInserted
<1> HIDE DEF c
<1>7. Prepared(m, node)
  BY <1>1, <1>6, ChainReplaced, ChangedPrepared
<1> HIDE DEF m
<1> QED BY <1>3, <1>7, TakenStep

LEMMA CommitBypassFlagStep ==
    ASSUME IInv, NEW t \in Tids, NEW i, NEW flag, CommitBypassFlag(t, i, flag) PROVE Step
<1> DEFINE v == Flipped(node[t].chain[i], flag)
           m == SlotTo(node, t, i, v)
<1>1. t \in DOMAIN node /\ i \in DOMAIN node[t].chain /\ Shaped(node)
  BY DEF CommitBypassFlag, Plugged, Addressed, IInv
<1>2. Attempt(m)
  BY DEF CommitBypassFlag, SlotTo
<1> HIDE DEF v
<1>3. Prepared(m, node)
  BY <1>1, SlotReplaced, ChangedPrepared
<1> HIDE DEF m
<1> QED BY <1>2, <1>3, AttemptStep

LEMMA SlotPrepared ==
    ASSUME IInv, NEW n, Prepared(n, node), NEW t \in DOMAIN node,
           NEW i \in DOMAIN n[t].chain, NEW v
    PROVE  /\ Prepared(SlotTo(n, t, i, v), node)
           /\ DOMAIN SlotTo(n, t, i, v)[t].chain = DOMAIN n[t].chain
<1>1. Shaped(n) /\ Routed(n) /\ t \in DOMAIN n
  BY DEF Prepared, SameRoles
<1>2. /\ Alike(SlotTo(n, t, i, v), n)
      /\ DOMAIN SlotTo(n, t, i, v)[t].chain = DOMAIN n[t].chain
  BY <1>1, SlotReplaced
<1>3. Prepared(SlotTo(n, t, i, v), n)
  BY <1>1, <1>2, AlikePrepared
<1> QED BY <1>2, <1>3, PreparedTransitive

LEMMA SettleStep ==
    ASSUME IInv, NEW tried, Prepared(tried, node), NEW held, Prepared(held, node),
           NEW back, Prepared(back, node), Settle(tried, held, back)
    PROVE  Step
<1> DEFINE plan == PlanRoutes(tried, order)
           other == IF PlanRoutes(held, order).ok THEN held ELSE back
<1>1. UNCHANGED <<order, nextId>> /\ Answer(TRUE) /\ (node' = tried \/ Recover(other))
  BY DEF Settle, SettlePlanned
<1> HIDE DEF plan
<1>2. CASE node' = tried
  BY <1>1, <1>2, TakenStep
<1>3. CASE Recover(other)
  <2>1. Prepared(other, node)
    OBVIOUS
  <2> HIDE DEF other
  <2>2. node' = other
    BY <1>3 DEF Recover
  <2> QED BY <1>1, <2>1, <2>2, TakenStep
<1> QED BY <1>1, <1>2, <1>3

LEMMA PrimaryLatencyStep ==
    ASSUME IInv, NEW t \in Tids, NEW i, NEW l, PrimaryLatencyChanged(t, i, l) PROVE Step
<1> DEFINE slot == node[t].chain[i]
           seen == SlotTo(node, t, i, [slot EXCEPT !.latency = l, !.state = "active"])
           tried == Ensured(seen, order)
           held == SlotTo(tried, t, i, [tried[t].chain[i] EXCEPT !.state = "suspended"])
           back == SlotTo(tried, t, i, [tried[t].chain[i] EXCEPT !.latency = slot.latency,
                                                                 !.state = slot.state])
<1>1. t \in DOMAIN node /\ i \in DOMAIN node[t].chain
  BY DEF PrimaryLatencyChanged, Plugged, Addressed
<1>2. Prepared(node, node)
  BY DEF IInv, Prepared, SameRoles
<1>3. Prepared(seen, node) /\ DOMAIN seen[t].chain = DOMAIN node[t].chain
  BY <1>1, <1>2, SlotPrepared
<1>4. PrimarySettles(tried, t, i, slot)
  BY DEF PrimaryLatencyChanged, SlotTo
<1> HIDE DEF slot
<1> HIDE DEF seen
<1>5. Prepared(tried, node) /\ ShadowsApart(tried, seen) /\ t \in DOMAIN seen
  BY <1>1, <1>3, EnsuredPrepared, EnsuredApart DEF Prepared, SameRoles
<1>6. i \in DOMAIN tried[t].chain
  BY <1>1, <1>3, <1>5 DEF ShadowsApart
<1>7. Settle(tried, held, back)
  BY <1>4 DEF PrimarySettles, SlotTo
<1> HIDE DEF tried
<1>8. Prepared(held, node) /\ Prepared(back, node)
  BY <1>1, <1>5, <1>6, SlotPrepared
<1> HIDE DEF held, back
<1> QED BY <1>5, <1>7, <1>8, SettleStep

LEMMA ShadowLatencyStep ==
    ASSUME IInv, NEW t \in Tids, NEW i, NEW l, ShadowLatencyChanged(t, i, l) PROVE Step
<1> DEFINE slot == node[t].chain[i]
           seen == SlotTo(node, t, i, [slot EXCEPT !.shadowLatency = l, !.shadow = "active"])
           plan == PlanRoutes(seen, order)
           Gone(n) == SlotTo(n, t, i, [n[t].chain[i] EXCEPT
                                          !.shadow = IF @ = "none" THEN @ ELSE "degraded"])
           tried == IF plan.ok THEN DisposedBy(seen, plan) ELSE Gone(seen)
           back == SlotTo(tried, t, i, slot)
<1>1. t \in DOMAIN node /\ i \in DOMAIN node[t].chain
  BY DEF ShadowLatencyChanged, Plugged, Addressed
<1>2. Prepared(node, node)
  BY DEF IInv, Prepared, SameRoles
<1>3. Prepared(seen, node) /\ DOMAIN seen[t].chain = DOMAIN node[t].chain
  BY <1>1, <1>2, SlotPrepared
<1>4. ShadowPrepared(seen, plan, t, i, slot)
  BY DEF ShadowLatencyChanged, SlotTo
<1> HIDE DEF slot, plan
<1> HIDE DEF seen
<1>g. ASSUME NEW n PROVE Degraded(n, t, i) = Gone(n)
  BY DEF Degraded, SlotTo
<1> HIDE DEF Gone
<1>5. ShadowSettles(tried, t, i, slot)
  BY <1>4, <1>g DEF ShadowPrepared
<1>6. Prepared(tried, node) /\ i \in DOMAIN tried[t].chain
  <2>1. CASE plan.ok
    <3>1. Shaped(seen) /\ Routed(seen) /\ t \in DOMAIN seen
      BY <1>1, <1>3 DEF Prepared, SameRoles
    <3>2. ShadowsApart(DisposedBy(seen, plan), seen)
      BY <3>1, DisposedApart
    <3>3. Prepared(DisposedBy(seen, plan), node)
      BY <1>3, <3>1, <3>2, AlikePrepared, PreparedTransitive DEF ShadowsApart
    <3>4. DOMAIN DisposedBy(seen, plan)[t].chain = DOMAIN node[t].chain
      BY <1>3, <3>1, <3>2 DEF ShadowsApart
    <3> QED BY <1>1, <2>1, <3>3, <3>4
  <2>2. CASE ~plan.ok
    <3>1. Prepared(Gone(seen), node) /\ DOMAIN Gone(seen)[t].chain = DOMAIN node[t].chain
      BY <1>1, <1>3, SlotPrepared DEF Gone
    <3> QED BY <1>1, <2>2, <3>1
  <2> QED BY <2>1, <2>2
<1> HIDE DEF tried
<1>7. Prepared(Gone(tried), node) /\ Prepared(back, node)
  BY <1>1, <1>6, SlotPrepared DEF Gone
<1>8. Settle(tried, Gone(tried), back)
  BY <1>5, <1>g DEF ShadowSettles, SlotTo
<1> HIDE DEF back
<1> QED BY <1>6, <1>7, <1>8, SettleStep
-----------------------------------------------------------------------------
(* The invariant.                                                          *)
LEMMA InitKeeps == ASSUME Init PROVE IInv
<1>1. PICK session \in Sessions :
         LET ids == [i \in DOMAIN session |-> i]
         IN  LoadedEnsured(Ensured(session, ids), ids)
  BY DEF Init
<1> DEFINE ids == [i \in DOMAIN session |-> i]
           D == DOMAIN session
<1>2. node = Ensured(session, ids) /\ order = ids /\ nextId = 1 + Len(ids)
  BY <1>1 DEF LoadedEnsured, Loaded
<1>3. /\ session \in Seq(Range(session)) /\ Routed(session) /\ Shaped(session)
      /\ Paired(session)
  <2>1. Whole(session) /\ session \in Seq(Range(session)) /\ Routed(session) /\ Paired(session)
    BY SessionsAreRestored DEF Paired, Routed
  <2>2. Shaped(session)
    BY <2>1 DEF Whole, IsTrack, Shaped, Fields
  <2> QED BY <2>1, <2>2
<1>4. Len(session) \in Nat /\ D = 1..Len(session)
  BY <1>3, LenProperties
<1>5. ids \in Seq(D) /\ Len(ids) = Len(session)
  BY <1>4
<1>6. Listed(ids, D)
  BY <1>4, <1>5 DEF Listed
<1> HIDE DEF ids
<1>7. Alike(Ensured(session, ids), session)
  BY <1>3, EnsuredApart DEF ShadowsApart
<1>8. Prepared(node, session)
  BY <1>2, <1>3, <1>7, AlikePrepared
<1>9. DOMAIN node = D /\ Shaped(node) /\ Routed(node)
  BY <1>8 DEF Prepared, SameRoles
<1>10. Paired(node)
  BY <1>3, <1>8, SamePairs DEF Prepared, SameRoles
<1>11. nextId \in Nat \ {0} /\ DOMAIN node \subseteq 1..(nextId - 1)
  BY <1>2, <1>4, <1>5, <1>9
<1>12. Listed(order, DOMAIN node)
  BY <1>2, <1>6, <1>9
<1> QED BY <1>9, <1>10, <1>11, <1>12 DEF IInv

LEMMA NextKeeps == ASSUME IInv, Next PROVE Step
<1>1. ASSUME NEW kind \in Kinds, TrackAdd(kind) PROVE Step
  BY <1>1, TrackAddStep
<1>2. ASSUME NEW t \in Tids, TrackRemove(t) PROVE Step
  BY <1>2, TrackRemoveStep
<1>3. ASSUME NEW t \in Tids, NEW policy \in {"full", "low"}, SetPolicy(t, policy) PROVE Step
  BY <1>3, SetPolicyStep
<1>4. ASSUME NEW t \in Tids, NEW d \in Tids, ToggleDest(t, d) PROVE Step
  BY <1>4, ToggleDestStep
<1>5. ASSUME NEW t \in Tids, NEW s \in Tids, ToggleSidechain(t, s) PROVE Step
  BY <1>5, ToggleSidechainStep
<1>6. ASSUME NEW t \in Tids, NEW i \in Tids, TrackMove(t, i) PROVE Step
  BY <1>6, TrackMoveStep
<1>7. ASSUME NEW t \in Tids, NEW l \in Latencies, AddPlugin(t, l) PROVE Step
  BY <1>7, AddPluginStep
<1>8. ASSUME NEW t \in Tids, NEW i \in 1..MaxChain, RemovePlugin(t, i) PROVE Step
  BY <1>8, RemovePluginStep
<1>9. ASSUME NEW t \in Tids, NEW i \in 1..MaxChain, NEW j \in 1..MaxChain, MovePlugin(t, i, j)
      PROVE  Step
  BY <1>9, MovePluginStep
<1>10. ASSUME NEW t \in Tids, NEW i \in 1..MaxChain, NEW flag \in {"bypass", "monitorBypass"},
              CommitBypassFlag(t, i, flag)
       PROVE  Step
  BY <1>10, CommitBypassFlagStep
<1>11. ASSUME NEW t \in Tids, NEW i \in 1..MaxChain, NEW l \in Latencies,
              PrimaryLatencyChanged(t, i, l)
       PROVE  Step
  BY <1>11, PrimaryLatencyStep
<1>12. ASSUME NEW t \in Tids, NEW i \in 1..MaxChain, NEW l \in Latencies,
              ShadowLatencyChanged(t, i, l)
       PROVE  Step
  BY <1>12, ShadowLatencyStep
<1> QED
  BY <1>1, <1>2, <1>3, <1>4, <1>5, <1>6, <1>7, <1>8, <1>9, <1>10, <1>11, <1>12,
     SystemOutputsStep, TrackSetStep DEF Next

LEMMA StutterKeeps == ASSUME IInv, UNCHANGED vars PROVE Step
<1>1. UNCHANGED <<node, order, nextId, ops>>
  BY DEF vars
<1>2. Prepared(node', node)
  BY <1>1 DEF IInv, Prepared, SameRoles
<1>3. RefusalKeeps
  BY <1>1 DEF RefusalKeeps
<1> QED BY <1>1, <1>2, <1>3, PreparedStep DEF Step

\* The invariant of the engine's commands and notices: tracks, their ids and the
\* order stay sound, whatever the planner returns and whichever step fails.
THEOREM Invariance == Spec => []IInv
<1>1. Init => IInv
  BY InitKeeps
<1>2. IInv /\ [Next]_vars => IInv'
  BY NextKeeps, StutterKeeps DEF Step
<1> QED BY <1>1, <1>2, PTL DEF Spec

(* Whatever the commands, every send goes to a track that is there and has  *)
(* an input bus, and every sidechain from an input to an effect.           *)
THEOREM SoundSends == Spec => []SendsAreSound
<1>1. IInv => SendsAreSound
  BY DEF IInv, Routed, SendsAreSound
<1> QED BY <1>1, Invariance, PTL

(* Whatever fails on the way, a refused command leaves the tracks, their    *)
(* order and everything but the shadows of their plugins as they were.     *)
THEOREM Refusals == Spec => RefusalsKeepTracks
<1>1. IInv /\ [Next]_vars => [RefusalKeeps]_vars
  BY NextKeeps, StutterKeeps DEF Step
<1>2. RefusalKeeps => (ops' # ops /\ ~reply' => Intent(node') = Intent(node) /\ order' = order)
  BY DEF RefusalKeeps
<1> QED BY <1>1, <1>2, Invariance, PTL DEF Spec, RefusalsKeepTracks

(* Two system outputs, one of each role, from the first of them on.        *)
THEOREM SystemOutputsRemain == Spec => SystemOutputsStay
<1>1. IInv /\ [Next]_vars => [OneOfEach(node, node')]_vars
  BY NextKeeps, StutterKeeps DEF Step
<1> QED BY <1>1, Invariance, PTL DEF Spec, SystemOutputsStay
(* Whatever the commands, no signal comes back to its track, and the walk   *)
(* of the planner comes to all the tracks.                                 *)
THEOREM RoutesStaySound == Spec => []RoutesAreSound
<1>1. ASSUME IInv PROVE RoutesAreSound
  <2>1. /\ Sound(node) /\ Loopless(node) /\ Listed(order, DOMAIN node)
        /\ DOMAIN node \subseteq 1..(nextId - 1)
    BY <1>1 DEF IInv, Routed
  <2>2. ~GraphHasCycle(node, order)
    BY <2>1, CheckedHasNoLoop
  <2> QED BY <2>1, <2>2 DEF RoutesAreSound, SendsAreSound
<1> QED BY <1>1, Invariance, PTL
-----------------------------------------------------------------------------
(***************************************************************************)
(* Types, and that an id is one plugin's.                                  *)
(***************************************************************************)
Under(n, k) == \A t \in DOMAIN n : \A i \in DOMAIN n[t].chain : n[t].chain[i].id < k
Neat(n, k) == Whole(n) /\ Under(n, k)

NeatInv ==
    /\ nextSlot \in Nat /\ Neat(node, nextSlot)
    /\ faults \in 0..MaxFaults /\ ops \in 0..MaxOps

\* The plugins of one chain are among those of another, each once.
Picks(c, d) ==
    \E p : /\ \A i \in DOMAIN c : p[i] \in DOMAIN d /\ c[i].id = d[p[i]].id
           /\ \A i, j \in DOMAIN c : p[i] = p[j] => i = j
Drawn(m, n) ==
    \A t \in DOMAIN m :
        DOMAIN m[t].chain = {} \/ (t \in DOMAIN n /\ Picks(m[t].chain, n[t].chain))

LEMMA WholeIsShaped == ASSUME NEW n, Whole(n) PROVE Shaped(n)
  BY DEF Whole, IsTrack, Shaped, Fields

LEMMA DrawnKeeps ==
    ASSUME NEW m, NEW n, NEW k, Neat(n, k), Drawn(m, n)
    PROVE  IdsAreUnique(m) /\ Under(m, k)
<1>1. ASSUME NEW t \in DOMAIN m, NEW u \in DOMAIN m,
             NEW i \in DOMAIN m[t].chain, NEW j \in DOMAIN m[u].chain,
             m[t].chain[i].id = m[u].chain[j].id
      PROVE  t = u /\ i = j
  <2>1. t \in DOMAIN n /\ u \in DOMAIN n /\ Picks(m[t].chain, n[t].chain)
          /\ Picks(m[u].chain, n[u].chain)
    BY DEF Drawn
  <2>2. PICK p : /\ \A l \in DOMAIN m[t].chain :
                       p[l] \in DOMAIN n[t].chain /\ m[t].chain[l].id = n[t].chain[p[l]].id
                 /\ \A l, o \in DOMAIN m[t].chain : p[l] = p[o] => l = o
    BY <2>1 DEF Picks
  <2>3. PICK q : \A l \in DOMAIN m[u].chain :
                    q[l] \in DOMAIN n[u].chain /\ m[u].chain[l].id = n[u].chain[q[l]].id
    BY <2>1 DEF Picks
  <2>4. n[t].chain[p[i]].id = n[u].chain[q[j]].id
    BY <1>1, <2>2, <2>3
  <2>5. t = u
    BY <2>1, <2>2, <2>3, <2>4 DEF Neat, Whole, IdsAreUnique
  <2>6. n[t].chain[p[j]].id = n[t].chain[p[i]].id /\ p[j] \in DOMAIN n[t].chain
    BY <1>1, <2>2, <2>5
  <2>7. p[i] = p[j]
    BY <2>1, <2>2, <2>6 DEF Neat, Whole, IdsAreUnique
  <2> QED BY <2>2, <2>5, <2>7
<1>2. ASSUME NEW t \in DOMAIN m, NEW i \in DOMAIN m[t].chain
      PROVE  m[t].chain[i].id < k
  <2>1. t \in DOMAIN n /\ Picks(m[t].chain, n[t].chain)
    BY DEF Drawn
  <2>2. PICK p : p[i] \in DOMAIN n[t].chain /\ m[t].chain[i].id = n[t].chain[p[i]].id
    BY <2>1 DEF Picks
  <2> QED BY <2>1, <2>2 DEF Neat, Under
<1> QED BY <1>1, <1>2 DEF IdsAreUnique, Under

\* Chains of the same ids.
SameIds(c, d) == DOMAIN c = DOMAIN d /\ \A i \in DOMAIN c : c[i].id = d[i].id
LEMMA SameIdsPick == ASSUME NEW c, NEW d, SameIds(c, d) PROVE Picks(c, d)
<1> DEFINE p == [i \in DOMAIN c |-> i]
<1>1. \A i \in DOMAIN c : p[i] \in DOMAIN d /\ c[i].id = d[p[i]].id
  BY DEF SameIds
<1>2. \A i, j \in DOMAIN c : p[i] = p[j] => i = j
  OBVIOUS
<1> HIDE DEF p
<1> QED BY <1>1, <1>2 DEF Picks

\* What keeps the places of the plugins.
Stays(m, n) == DOMAIN m = DOMAIN n /\ \A t \in DOMAIN n : SameIds(m[t].chain, n[t].chain)

\* A track of another state with the same plugins.
LEMMA SameChains ==
    ASSUME NEW m, NEW n, NEW k, Neat(n, k),
           \A t \in DOMAIN m :
              /\ IsTrack(m[t])
              /\ DOMAIN m[t].chain = {} \/ (t \in DOMAIN n /\ m[t].chain = n[t].chain)
    PROVE  Neat(m, k)
<1>1. ASSUME NEW t \in DOMAIN m, NEW i \in DOMAIN m[t].chain PROVE IsSlot(m[t].chain[i])
  BY DEF Neat, Whole
<1>2. Drawn(m, n)
  <2> SUFFICES ASSUME NEW t \in DOMAIN m, t \in DOMAIN n, m[t].chain = n[t].chain
               PROVE  Picks(m[t].chain, n[t].chain)
    BY DEF Drawn
  <2> QED BY SameIdsPick DEF SameIds
<1> QED BY <1>1, <1>2, DrawnKeeps DEF Neat, Whole

\* Slots are replaced by slots of the same ids.
SameSlots(n, c) ==
    \A t \in DOMAIN n :
        /\ c[t] = [i \in DOMAIN n[t].chain |-> c[t][i]]
        /\ \A i \in DOMAIN n[t].chain : IsSlot(c[t][i]) /\ c[t][i].id = n[t].chain[i].id
LEMMA NewSlots ==
    ASSUME NEW n, NEW k, Neat(n, k), NEW c, SameSlots(n, c)
    PROVE  Neat(Rechained(n, c), k) /\ Stays(Rechained(n, c), n)
<1> DEFINE m == Rechained(n, c)
<1>1. DOMAIN m = DOMAIN n
  BY DEF Rechained
<1>2. ASSUME NEW t \in DOMAIN n
      PROVE  /\ IsTrack(m[t]) /\ m[t].chain = c[t] /\ DOMAIN c[t] = DOMAIN n[t].chain
             /\ \A i \in DOMAIN c[t] : IsSlot(c[t][i]) /\ c[t][i].id = n[t].chain[i].id
  <2>1. m[t] = [n[t] EXCEPT !.chain = c[t]]
    BY DEF Rechained
  <2> HIDE DEF m
  <2>2. IsTrack(n[t])
    BY DEF Neat, Whole
  <2>3. /\ DOMAIN m[t] = DOMAIN n[t] /\ m[t].chain = c[t] /\ m[t].kind = n[t].kind
        /\ m[t].role = n[t].role /\ m[t].policy = n[t].policy
    BY <2>1, <2>2 DEF IsTrack
  <2>4. Len(n[t].chain) \in Nat /\ DOMAIN n[t].chain = 1..Len(n[t].chain)
    BY <2>2, LenProperties DEF IsTrack
  <2>5. c[t] = [i \in 1..Len(n[t].chain) |-> c[t][i]] /\ DOMAIN c[t] = DOMAIN n[t].chain
    BY <2>4 DEF SameSlots
  <2>6. c[t] \in Seq(Range(c[t]))
    BY <2>4, <2>5, FunctionIsSequence
  <2>7. IsTrack(m[t])
    BY <2>2, <2>3, <2>6 DEF IsTrack
  <2> QED BY <2>3, <2>5, <2>7 DEF SameSlots
<1> HIDE DEF m
<1>3. Stays(m, n)
  BY <1>1, <1>2 DEF SameIds, Stays
<1>4. Drawn(m, n)
  BY <1>3, SameIdsPick DEF Drawn, Stays
<1>5. \A t \in DOMAIN m : IsTrack(m[t]) /\ \A i \in DOMAIN m[t].chain : IsSlot(m[t].chain[i])
  BY <1>1, <1>2
<1> QED BY <1>3, <1>4, <1>5, DrawnKeeps DEF Neat, Whole, m

LEMMA DisposedIsSlot ==
    ASSUME NEW s, IsSlot(s), NEW plan
    PROVE  IsSlot(Disposed(s, plan)) /\ Disposed(s, plan).id = s.id
<1>1. CASE plan = "create"
  BY <1>1 DEF Disposed, IsSlot
<1>2. CASE plan = "release"
  BY <1>2 DEF Disposed, IsSlot
<1>3. CASE plan \notin {"create", "release"}
  BY <1>3 DEF Disposed
<1> QED BY <1>1, <1>2, <1>3

LEMMA DisposedIsNeat ==
    ASSUME NEW n, NEW k, Neat(n, k), NEW plan
    PROVE  Neat(DisposedBy(n, plan), k) /\ Stays(DisposedBy(n, plan), n)
<1>1. CASE ~plan.ok
  BY <1>1 DEF DisposedBy, Stays, SameIds
<1>2. CASE ~~plan.ok
  <2> DEFINE c == [t \in DOMAIN n |-> [i \in DOMAIN n[t].chain |->
                     Disposed(n[t].chain[i], plan.tracks[t].slots[i].shadow)]]
  <2>1. DisposedBy(n, plan) = Rechained(n, c)
    BY <1>2 DEF DisposedBy, Rechained
  <2>2. SameSlots(n, c)
    BY DisposedIsSlot DEF Neat, Whole, SameSlots
  <2> HIDE DEF c
  <2> QED BY <2>1, <2>2, NewSlots
<1> QED BY <1>1, <1>2

LEMMA EnsuredIsNeat ==
    ASSUME NEW n, NEW k, Neat(n, k), NEW o
    PROVE  Neat(Ensured(n, o), k) /\ Stays(Ensured(n, o), n)
  BY DisposedIsNeat DEF Ensured

\* The tracks of now have the plugins of old at the same places, or more.
Covers(now, old) ==
    \A t \in DOMAIN old : t \in DOMAIN now /\ DOMAIN old[t].chain \subseteq DOMAIN now[t].chain

LEMMA RolledBackIsNeat ==
    ASSUME NEW old, NEW k, Neat(old, k), NEW now, Whole(now), Covers(now, old)
    PROVE  Neat(RolledBack(old, now), k)
<1> DEFINE c == [t \in DOMAIN old |-> [i \in DOMAIN old[t].chain |->
                  [old[t].chain[i] EXCEPT !.shadow = now[t].chain[i].shadow,
                                          !.shadowLatency = now[t].chain[i].shadowLatency]]]
<1>1. WithShadows(old, now) = Rechained(old, c)
  BY DEF WithShadows, Rechained
<1>2. ASSUME NEW s, IsSlot(s), NEW r, IsSlot(r)
      PROVE  LET x == [s EXCEPT !.shadow = r.shadow, !.shadowLatency = r.shadowLatency]
             IN  IsSlot(x) /\ x.id = s.id
  BY <1>2 DEF IsSlot
<1>3. ASSUME NEW t \in DOMAIN old, NEW i \in DOMAIN old[t].chain
      PROVE  IsSlot(c[t][i]) /\ c[t][i].id = old[t].chain[i].id
  <2>1. IsSlot(old[t].chain[i]) /\ IsSlot(now[t].chain[i])
    BY DEF Neat, Whole, Covers
  <2> QED BY <1>2, <2>1
<1>4. Neat(Rechained(old, c), k)
  <2>1. SameSlots(old, c)
    BY <1>3 DEF SameSlots
  <2> HIDE DEF c
  <2> QED BY <2>1, NewSlots
<1> QED BY <1>1, <1>4, EnsuredIsNeat DEF RolledBack
-----------------------------------------------------------------------------
(* A chain, or a slot, of one track is replaced.                           *)
LEMMA ChainIsNeat ==
    ASSUME NEW n, NEW k, Neat(n, k), NEW t \in DOMAIN n, NEW S, NEW c \in Seq(S),
           \A i \in DOMAIN c : IsSlot(c[i]), Picks(c, n[t].chain)
    PROVE  Neat(ChainTo(n, t, c), k)
<1> DEFINE m == ChainTo(n, t, c)
<1>1. Shaped(n)
  BY WholeIsShaped DEF Neat
<1>2. Alike(m, n) /\ m[t].chain = c /\ \A s \in DOMAIN n \ {t} : m[s] = n[s]
  BY <1>1, ChainReplaced
<1> HIDE DEF m
<1>3. DOMAIN m = DOMAIN n
  BY <1>2 DEF Alike
<1>4. ASSUME NEW s \in DOMAIN n
      PROVE  IsTrack(m[s]) /\ \A i \in DOMAIN m[s].chain : IsSlot(m[s].chain[i])
  <2>1. IsTrack(n[s]) /\ \A i \in DOMAIN n[s].chain : IsSlot(n[s].chain[i])
    BY DEF Neat, Whole
  <2>2. CASE s # t
    BY <1>2, <2>1, <2>2
  <2>3. CASE s = t
    <3>1. /\ DOMAIN m[s] = DOMAIN n[s] /\ m[s].kind = n[s].kind /\ m[s].role = n[s].role
          /\ m[s].policy = n[s].policy /\ m[s].chain \in Seq(Range(m[s].chain))
      BY <1>2 DEF Alike, Fields
    <3>2. IsTrack(m[s])
      BY <2>1, <3>1 DEF IsTrack
    <3> QED BY <1>2, <2>3, <3>2
  <2> QED BY <2>2, <2>3
<1>5. Drawn(m, n)
  <2> SUFFICES ASSUME NEW s \in DOMAIN n PROVE Picks(m[s].chain, n[s].chain)
    BY <1>3 DEF Drawn
  <2>1. CASE s # t
    BY <1>2, <2>1, SameIdsPick DEF SameIds
  <2>2. CASE s = t
    BY <1>2, <2>2
  <2> QED BY <2>1, <2>2
<1> QED BY <1>3, <1>4, <1>5, DrawnKeeps DEF Neat, Whole, m

LEMMA SlotIsNeat ==
    ASSUME NEW n, NEW k, Neat(n, k), NEW t \in DOMAIN n, NEW i \in DOMAIN n[t].chain,
           NEW v, IsSlot(v), v.id = n[t].chain[i].id
    PROVE  Neat(SlotTo(n, t, i, v), k) /\ Stays(SlotTo(n, t, i, v), n)
<1> DEFINE d == n[t].chain
           c == [d EXCEPT ![i] = v]
           S == Range(d) \cup {v}
<1>1. SlotTo(n, t, i, v) = ChainTo(n, t, c)
  BY DEF SlotTo, ChainTo
<1>2. Shaped(n)
  BY WholeIsShaped DEF Neat
<1>3. d \in Seq(S) /\ DOMAIN d = 1..Len(d)
  BY <1>2, SeqMonotonic, LenProperties DEF Shaped
<1>4. c \in Seq(S) /\ DOMAIN c = DOMAIN d
  BY <1>3, ExceptSeq
<1>5. \A j \in DOMAIN d : IsSlot(d[j])
  BY DEF Neat, Whole
<1> HIDE DEF d
<1>6. \A j \in DOMAIN c : IsSlot(c[j])
  BY <1>4, <1>5
<1>7. SameIds(c, d)
  BY <1>4 DEF SameIds, d
<1> HIDE DEF c, S
<1>8. Neat(ChainTo(n, t, c), k)
  BY <1>4, <1>6, <1>7, SameIdsPick, ChainIsNeat DEF d
<1>9. Stays(ChainTo(n, t, c), n)
  <2>1. /\ Alike(ChainTo(n, t, c), n) /\ ChainTo(n, t, c)[t].chain = c
        /\ \A s \in DOMAIN n \ {t} : ChainTo(n, t, c)[s] = n[s]
    BY <1>2, <1>4, ChainReplaced
  <2> QED BY <1>7, <2>1 DEF Alike, Stays, SameIds, d
<1> QED BY <1>1, <1>8, <1>9
-----------------------------------------------------------------------------
(* The shared steps.                                                       *)
NeatAt(n) == Neat(n, nextSlot)

LEMMA FieldIsNeat ==
    ASSUME NEW n, NEW k, Neat(n, k), NEW t \in DOMAIN n, NEW field \in {"policy", "dests"},
           NEW v, field = "policy" => v \in {"full", "low"}
    PROVE  Neat(Edit(n, t, field, v), k) /\ Stays(Edit(n, t, field, v), n)
<1> DEFINE m == Edit(n, t, field, v)
<1>1. Shaped(n)
  BY WholeIsShaped DEF Neat
<1>2. /\ DOMAIN m = DOMAIN n /\ Shaped(m)
      /\ \A s \in DOMAIN n : \A f \in Fields :
            m[s][f] = IF s = t /\ f = field THEN v ELSE n[s][f]
  BY <1>1, FieldEdited
<1> HIDE DEF m
<1>3. ASSUME NEW s \in DOMAIN n PROVE IsTrack(m[s]) /\ m[s].chain = n[s].chain
  <2>1. IsTrack(n[s])
    BY DEF Neat, Whole
  <2>2. /\ m[s].kind = n[s].kind /\ m[s].role = n[s].role /\ m[s].chain = n[s].chain
        /\ m[s].policy = IF s = t /\ field = "policy" THEN v ELSE n[s].policy
        /\ DOMAIN m[s] = Fields
    BY <1>2 DEF Fields, Shaped
  <2>3. m[s].policy \in {"full", "low"}
    BY <2>1, <2>2 DEF IsTrack
  <2> QED BY <2>1, <2>2, <2>3 DEF IsTrack, Fields
<1>4. Neat(m, k)
  BY <1>2, <1>3, SameChains
<1> QED BY <1>2, <1>3, <1>4 DEF Stays, SameIds, m

LEMMA StayingCovers ==
    ASSUME NEW m, NEW n, NEW l, Stays(m, n), Stays(l, m) PROVE Covers(m, n) /\ Covers(l, n)
  BY DEF Stays, SameIds, Covers

LEMMA AttemptIsNeat ==
    ASSUME NeatAt(node), NEW new, NeatAt(new), Stays(new, node), Attempt(new)
    PROVE  nextSlot' = nextSlot /\ Neat(node', nextSlot)
<1> DEFINE tried == Ensured(new, order)
<1>1. NeatAt(tried) /\ Stays(tried, new)
  BY EnsuredIsNeat DEF NeatAt
<1> HIDE DEF tried
<1>2. nextSlot' = nextSlot /\ AttemptPlanned(new, tried, PlanRoutes(tried, order))
  BY DEF Attempt, AttemptEnsured, tried
<1>3. ASSUME NEW now \in {new, tried} PROVE Neat(RolledBack(node, now), nextSlot)
  <2>1. Whole(now) /\ Covers(now, node)
    BY <1>1, StayingCovers DEF NeatAt, Neat
  <2> QED BY <2>1, RolledBackIsNeat DEF NeatAt
<1>4. node' = tried \/ node' = RolledBack(node, new) \/ node' = RolledBack(node, tried)
  <2>1. CASE Accept(tried, PlanRoutes(tried, order))
    BY <2>1 DEF Accept
  <2>2. ASSUME NEW fault \in {"prepare", "swap"},
               Recover(RolledBack(node, IF fault = "prepare" THEN new ELSE tried))
        PROVE  node' = RolledBack(node, new) \/ node' = RolledBack(node, tried)
    BY <2>2 DEF Recover
  <2> QED BY <1>2, <2>1, <2>2 DEF AttemptPlanned
<1> QED BY <1>1, <1>2, <1>3, <1>4 DEF NeatAt

LEMMA SettleIsNeat ==
    ASSUME NEW tried, NeatAt(tried), NEW held, NeatAt(held), NEW back, NeatAt(back),
           Settle(tried, held, back)
    PROVE  nextSlot' = nextSlot /\ Neat(node', nextSlot)
<1> DEFINE plan == PlanRoutes(tried, order)
           other == IF PlanRoutes(held, order).ok THEN held ELSE back
<1>1. nextSlot' = nextSlot /\ (node' = tried \/ Recover(other))
  BY DEF Settle, SettlePlanned
<1>2. NeatAt(other)
  OBVIOUS
<1> HIDE DEF other
<1> QED BY <1>1, <1>2 DEF NeatAt, Recover

\* What a command did to the tracks and their plugins' ids.
NeatStep == nextSlot' \in Nat /\ Neat(node', nextSlot')
LEMMA SameIsNeat ==
    ASSUME NeatInv, UNCHANGED <<node, nextSlot>> PROVE NeatStep
  BY DEF NeatInv, NeatStep

LEMMA KeptIsNeat ==
    ASSUME NeatInv, nextSlot' = nextSlot, Neat(node', nextSlot) PROVE NeatStep
  BY DEF NeatInv, NeatStep

LEMMA RefuseIsNeat == ASSUME NeatInv, Refuse PROVE NeatStep
  BY SameIsNeat DEF Refuse
-----------------------------------------------------------------------------
(* The commands on tracks.                                                 *)
LEMMA AddedIsNeat ==
    ASSUME NEW n, NEW k, Neat(n, k), NEW t, NEW x, IsTrack(x), x.chain = <<>>
    PROVE  Neat(Larger(n, t, x), k)
<1> DEFINE m == Larger(n, t, x)
<1>1. DOMAIN m = DOMAIN n \cup {t} /\ \A s \in DOMAIN m : m[s] = IF s = t THEN x ELSE n[s]
  BY DEF Larger
<1> HIDE DEF m
<1>2. DOMAIN <<>> = {}
  OBVIOUS
<1>3. ASSUME NEW s \in DOMAIN m
      PROVE  /\ IsTrack(m[s])
             /\ DOMAIN m[s].chain = {} \/ (s \in DOMAIN n /\ m[s].chain = n[s].chain)
  BY <1>1, <1>2 DEF Neat, Whole
<1> QED BY <1>3, SameChains DEF m

LEMMA FreshIsTrack ==
    ASSUME NEW kind \in Kinds PROVE IsTrack(Fresh(kind)) /\ Fresh(kind).chain = <<>>
<1>1. <<>> \in Seq(Range(<<>>))
  BY EmptySeq
<1> QED BY <1>1 DEF Fresh, IsTrack, Roles

LEMMA TrackAddIsNeat ==
    ASSUME NeatInv, NEW kind \in Kinds, TrackAdd(kind) PROVE NeatStep
<1>1. CASE Len(order) >= MaxTracks
  BY <1>1, RefuseIsNeat DEF TrackAdd
<1>2. CASE ~(Len(order) >= MaxTracks)
  <2>1. node' = Larger(node, nextId, Fresh(kind)) /\ nextSlot' = nextSlot
    BY <1>2 DEF TrackAdd, Larger
  <2> QED BY <2>1, FreshIsTrack, AddedIsNeat, KeptIsNeat DEF NeatInv
<1> QED BY <1>1, <1>2

LEMMA TrackRemoveIsNeat == ASSUME NeatInv, NEW t, TrackRemove(t) PROVE NeatStep
<1>1. CASE node[t].role # "none"
  BY <1>1, RefuseIsNeat DEF TrackRemove
<1>2. CASE node[t].role = "none"
  <2> DEFINE w == Without(node, t)
  <2>1. node' = Ensured(w, order') /\ nextSlot' = nextSlot
    BY <1>2 DEF TrackRemove
  <2>2. \A s \in DOMAIN node : IsTrack(node[s])
    BY DEF NeatInv, Neat, Whole
  <2>3. ASSUME NEW s \in DOMAIN w
        PROVE  IsTrack(w[s]) /\ s \in DOMAIN node /\ w[s].chain = node[s].chain
    <3>1. s \in DOMAIN node /\ w[s] = [node[s] EXCEPT !.dests = @ \ {t}, !.sidechain = @ \ {t}]
      BY DEF Without
    <3> HIDE DEF w
    <3> QED BY <2>2, <3>1 DEF IsTrack
  <2> HIDE DEF w
  <2>4. Neat(w, nextSlot)
    BY <2>3, SameChains DEF NeatInv
  <2>5. Neat(node', nextSlot)
    BY <2>1, <2>4, EnsuredIsNeat
  <2> QED BY <2>1, <2>5, KeptIsNeat
<1> QED BY <1>1, <1>2

LEMMA SetPolicyIsNeat ==
    ASSUME NeatInv, NEW t, NEW policy \in {"full", "low"}, SetPolicy(t, policy) PROVE NeatStep
<1>1. CASE node[t].kind # "output"
  BY <1>1, RefuseIsNeat DEF SetPolicy
<1>2. CASE node[t].kind = "output"
  <2> DEFINE m == Edit(node, t, "policy", policy)
  <2>1. t \in DOMAIN node /\ Attempt(m)
    BY <1>2 DEF SetPolicy, Addressed
  <2>2. NeatAt(m) /\ Stays(m, node)
    BY <2>1, FieldIsNeat DEF NeatInv, NeatAt
  <2> HIDE DEF m
  <2> QED BY <2>1, <2>2, AttemptIsNeat, KeptIsNeat DEF NeatInv, NeatAt
<1> QED BY <1>1, <1>2

LEMMA ToggleDestIsNeat ==
    ASSUME NeatInv, NEW t, NEW d, ToggleDest(t, d) PROVE NeatStep
<1> DEFINE dests == Toggled(node[t].dests, d)
           m == Edit(node, t, "dests", dests)
<1>1. t \in DOMAIN node /\ SetDests(t, dests)
  BY DEF ToggleDest, Addressed
<1>2. NeatAt(m) /\ Stays(m, node)
  BY <1>1, FieldIsNeat DEF NeatInv, NeatAt
<1>3. CASE Refuse
  BY <1>3, RefuseIsNeat
<1>4. CASE Attempt(m)
  <2> HIDE DEF m
  <2> QED BY <1>2, <1>4, AttemptIsNeat, KeptIsNeat DEF NeatInv, NeatAt
<1> QED BY <1>1, <1>3, <1>4 DEF SetDests

LEMMA ToggleSidechainIsNeat ==
    ASSUME NeatInv, NEW t, NEW r, ToggleSidechain(t, r) PROVE NeatStep
<1> DEFINE sources == Toggled({s \in DOMAIN node : t \in node[s].sidechain}, r)
           m == [s \in DOMAIN node |-> [node[s] EXCEPT !.sidechain =
                    IF s \in sources THEN @ \cup {t} ELSE @ \ {t}]]
<1>1. SetSidechain(t, sources)
  BY DEF ToggleSidechain
<1> HIDE DEF sources
<1>2. ASSUME NEW s \in DOMAIN node PROVE IsTrack(m[s]) /\ m[s].chain = node[s].chain
  <2> DEFINE c == IF s \in sources THEN node[s].sidechain \cup {t} ELSE node[s].sidechain \ {t}
  <2>1. m[s] = [node[s] EXCEPT !.sidechain = c]
    OBVIOUS
  <2>2. IsTrack(node[s])
    BY DEF NeatInv, Neat, Whole
  <2> HIDE DEF m, c
  <2> QED BY <2>1, <2>2 DEF IsTrack
<1>3. DOMAIN m = DOMAIN node
  OBVIOUS
<1>4. Refuse \/ Attempt(m)
  BY <1>1 DEF SetSidechain
<1> HIDE DEF m
<1>5. NeatAt(m) /\ Stays(m, node)
  BY <1>2, <1>3, SameChains DEF NeatInv, NeatAt, Stays, SameIds
<1> QED BY <1>4, <1>5, RefuseIsNeat, AttemptIsNeat, KeptIsNeat DEF NeatInv, NeatAt

\* Whichever track gets or loses a role, chains stay.
LEMMA RoleIsNeat ==
    ASSUME NEW s, s = [node |-> s.node, order |-> s.order, nextId |-> s.nextId],
           NEW role \in SystemRoles, NEW k, Neat(s.node, k)
    PROVE  LET e == EnsureRole(s, role)
           IN  /\ Neat(e.node, k)
               /\ e = [node |-> e.node, order |-> e.order, nextId |-> e.nextId]
<1> DEFINE e == EnsureRole(s, role)
           n == s.node
           holders == {i \in DOMAIN s.order : s.node[s.order[i]].role = role}
           free == {i \in DOMAIN s.order : s.order[i] \in Candidates(s.node)}
           Give(m, t, r) == [m EXCEPT ![t].role = r,
                                      ![t].policy = IF r = "none" THEN "full" ELSE PolicyOf(r)]
<1>r. role \in Roles /\ "none" \in Roles /\ PolicyOf(role) \in {"full", "low"}
  BY DEF Roles, SystemRoles, PolicyOf
<1>1. ASSUME NEW t, NEW r \in Roles, NEW x \in DOMAIN n
      PROVE  IsTrack(Give(n, t, r)[x]) /\ Give(n, t, r)[x].chain = n[x].chain
  <2> DEFINE p == IF r = "none" THEN "full" ELSE PolicyOf(r)
             g == Give(n, t, r)
  <2>1. p \in {"full", "low"}
    BY DEF PolicyOf
  <2>2. g = [n EXCEPT ![t].role = r, ![t].policy = p]
    OBVIOUS
  <2>3. IsTrack(n[x])
    BY DEF Neat, Whole
  <2> HIDE DEF g, p, n
  <2>4. CASE x # t
    <3>1. g[x] = n[x]
      BY <2>2, <2>4
    <3> QED BY <2>3, <3>1 DEF g
  <2>5. CASE x = t
    <3>1. g[x] = [[n[x] EXCEPT !.role = r] EXCEPT !.policy = p]
      BY <2>2, <2>5
    <3>2. IsTrack(g[x]) /\ g[x].chain = n[x].chain
      BY <2>1, <2>3, <3>1 DEF IsTrack
    <3> QED BY <3>2 DEF g
  <2> QED BY <2>4, <2>5
<1>2. CASE holders # {}
  <2> DEFINE m == [t \in DOMAIN n |-> IF \E i \in holders \ {Min(holders)} : s.order[i] = t
                                     THEN Give(n, t, "none")[t] ELSE n[t]]
  <2>1. e = [node |-> m, order |-> s.order, nextId |-> s.nextId]
    <3>1. e = [s EXCEPT !.node = m]
      BY <1>2 DEF EnsureRole
    <3> HIDE DEF m, e
    <3> QED BY <3>1
  <2>2. \A x \in DOMAIN n : IsTrack(n[x])
    BY DEF Neat, Whole
  <2>3. DOMAIN m = DOMAIN n /\ \A x \in DOMAIN n : IsTrack(m[x]) /\ m[x].chain = n[x].chain
    BY <1>r, <1>1, <2>2
  <2> HIDE DEF m, e
  <2>4. Neat(m, k)
    BY <2>3, SameChains
  <2> QED BY <2>1, <2>4 DEF e
<1>3. CASE holders = {} /\ free # {}
  <2> DEFINE m == Give(n, s.order[Min(free)], role)
  <2>1. e = [node |-> m, order |-> s.order, nextId |-> s.nextId]
    <3>1. e = [s EXCEPT !.node = m]
      BY <1>3 DEF EnsureRole
    <3> HIDE DEF m, e
    <3> QED BY <3>1
  <2>2. DOMAIN m = DOMAIN n
    OBVIOUS
  <2>3. \A x \in DOMAIN n : IsTrack(m[x]) /\ m[x].chain = n[x].chain
    <3> DEFINE t == s.order[Min(free)]
    <3>1. m = Give(n, t, role)
      OBVIOUS
    <3> HIDE DEF t, m, n, Give
    <3> QED BY <1>r, <1>1, <3>1
  <2> HIDE DEF m, e
  <2>4. Neat(m, k)
    BY <2>2, <2>3, SameChains
  <2> QED BY <2>1, <2>4 DEF e
<1>4. CASE holders = {} /\ free = {}
  <2> DEFINE x == [Fresh("output") EXCEPT !.role = role, !.policy = PolicyOf(role)]
             m == Larger(n, s.nextId, x)
  <2>1. e = [node |-> m, order |-> Append(s.order, s.nextId), nextId |-> s.nextId + 1]
    BY <1>4 DEF EnsureRole, Larger
  <2>2. IsTrack(x) /\ x.chain = <<>>
    <3>1. IsTrack(Fresh("output")) /\ Fresh("output").chain = <<>>
      BY FreshIsTrack DEF Kinds
    <3> QED BY <1>r, <3>1 DEF IsTrack
  <2> HIDE DEF x
  <2>3. Neat(m, k)
    BY <2>2, AddedIsNeat
  <2> HIDE DEF m, e
  <2> QED BY <2>1, <2>3 DEF e
<1> QED BY <1>2, <1>3, <1>4

LEMMA SystemOutputsAreNeat == ASSUME NeatInv, EnsureSystemOutputs PROVE NeatStep
<1> DEFINE s == [node |-> node, order |-> order, nextId |-> nextId]
           a == EnsureRole(s, "monitor")
           b == EnsureRole(a, "stream")
<1>1. node' = b.node /\ nextSlot' = nextSlot
  BY DEF EnsureSystemOutputs, SystemOutputs
<1>2. s.node = node /\ s = [node |-> s.node, order |-> s.order, nextId |-> s.nextId]
  OBVIOUS
<1>r. "monitor" \in SystemRoles /\ "stream" \in SystemRoles
  BY DEF SystemRoles
<1> HIDE DEF s
<1>3. /\ Neat(a.node, nextSlot)
      /\ a = [node |-> a.node, order |-> a.order, nextId |-> a.nextId]
  BY <1>2, <1>r, RoleIsNeat DEF NeatInv
<1> HIDE DEF a
<1>4. Neat(b.node, nextSlot)
  BY <1>3, <1>r, RoleIsNeat
<1> HIDE DEF b
<1> QED BY <1>1, <1>4, KeptIsNeat
-----------------------------------------------------------------------------
(* The commands on plugins.                                                *)
\* The new plugin's id is larger than any other.
LEMMA AppendedIsNeat ==
    ASSUME NEW n, NEW k \in Nat, Neat(n, k), NEW t \in DOMAIN n, NEW x, IsSlot(x), x.id = k
    PROVE  /\ Neat(ChainTo(n, t, Append(n[t].chain, x)), k + 1)
           /\ DOMAIN ChainTo(n, t, Append(n[t].chain, x))[t].chain # {}
           /\ DOMAIN ChainTo(n, t, Append(n[t].chain, x)) = DOMAIN n
<1> DEFINE d == n[t].chain
           c == Append(d, x)
           S == Range(d) \cup {x}
           m == ChainTo(n, t, c)
<1>1. Shaped(n)
  BY WholeIsShaped DEF Neat
<1>2. d \in Seq(S) /\ Len(d) \in Nat /\ DOMAIN d = 1..Len(d) /\ x \in S
  BY <1>1, ChainsAreSequences, SeqMonotonic
<1>3. /\ c \in Seq(S) /\ Len(c) = Len(d) + 1 /\ DOMAIN c = 1..(Len(d) + 1)
      /\ c[Len(d) + 1] = x /\ \A i \in 1..Len(d) : c[i] = d[i]
  <2> HIDE DEF d, S
  <2> QED BY <1>2, AppendProperties, LenProperties
<1> HIDE DEF c, S
<1>4. Alike(m, n) /\ m[t].chain = c /\ \A s \in DOMAIN n \ {t} : m[s] = n[s]
  BY <1>1, <1>3, ChainReplaced
<1> HIDE DEF m
<1>5. DOMAIN m = DOMAIN n
  BY <1>4 DEF Alike
<1>6. ASSUME NEW s \in DOMAIN n
      PROVE  IsTrack(m[s]) /\ \A i \in DOMAIN m[s].chain : IsSlot(m[s].chain[i])
  <2>1. IsTrack(n[s]) /\ \A i \in DOMAIN n[s].chain : IsSlot(n[s].chain[i])
    BY DEF Neat, Whole
  <2>2. CASE s # t
    BY <1>4, <2>1, <2>2
  <2>3. CASE s = t
    <3>1. /\ DOMAIN m[s] = DOMAIN n[s] /\ m[s].kind = n[s].kind /\ m[s].role = n[s].role
          /\ m[s].policy = n[s].policy /\ m[s].chain \in Seq(Range(m[s].chain))
      BY <1>4 DEF Alike, Fields
    <3>2. IsTrack(m[s])
      BY <2>1, <3>1 DEF IsTrack
    <3>3. \A i \in 1..(Len(d) + 1) : i \in 1..Len(d) \/ i = Len(d) + 1
      BY <1>2
    <3>4. \A i \in DOMAIN c : IsSlot(c[i])
      BY <1>2, <1>3, <2>1, <2>3, <3>3
    <3> QED BY <1>4, <2>3, <3>2, <3>4
  <2> QED BY <2>2, <2>3
\* Every id is an old one at an old place, or k at the new place.
<1>7. ASSUME NEW s \in DOMAIN n, NEW i \in DOMAIN m[s].chain
      PROVE  \/ /\ i \in DOMAIN n[s].chain /\ m[s].chain[i].id = n[s].chain[i].id
                /\ n[s].chain[i].id < k /\ n[s].chain[i].id \in Nat
             \/ s = t /\ i = Len(d) + 1 /\ m[s].chain[i].id = k
  <2>1. \A j \in DOMAIN n[s].chain : n[s].chain[j].id < k /\ n[s].chain[j].id \in Nat
    BY DEF Neat, Under, Whole, IsSlot
  <2>2. CASE s # t
    BY <1>4, <2>1, <2>2
  <2>3. CASE s = t /\ i \in 1..Len(d)
    BY <1>2, <1>3, <1>4, <2>1, <2>3
  <2>4. CASE s = t /\ i \notin 1..Len(d)
    <3>1. i \in 1..(Len(d) + 1)
      BY <1>3, <1>4, <2>4
    <3>2. i = Len(d) + 1
      BY <1>2, <2>4, <3>1
    <3> QED BY <1>3, <1>4, <2>4, <3>2
  <2> QED BY <2>2, <2>3, <2>4
<1>8. IdsAreUnique(m)
  <2> SUFFICES ASSUME NEW s \in DOMAIN n, NEW u \in DOMAIN n,
                      NEW i \in DOMAIN m[s].chain, NEW j \in DOMAIN m[u].chain,
                      m[s].chain[i].id = m[u].chain[j].id
               PROVE  s = u /\ i = j
    BY <1>5 DEF IdsAreUnique
  <2> HIDE DEF d
  <2> QED BY <1>7 DEF Neat, Whole, IdsAreUnique
<1>9. Under(m, k + 1)
  <2> SUFFICES ASSUME NEW s \in DOMAIN n, NEW i \in DOMAIN m[s].chain
               PROVE  m[s].chain[i].id < k + 1
    BY <1>5 DEF Under
  <2> HIDE DEF d
  <2> QED BY <1>7
<1>10. DOMAIN m[t].chain # {}
  <2>1. Len(d) + 1 \in 1..(Len(d) + 1)
    BY <1>2
  <2> QED BY <1>3, <1>4, <2>1
<1> QED BY <1>5, <1>6, <1>8, <1>9, <1>10 DEF Neat, Whole, m, c

LEMMA PoppedIsNeat ==
    ASSUME NEW n, NEW k, Neat(n, k), NEW t \in DOMAIN n, DOMAIN n[t].chain # {}
    PROVE  Neat(Popped(n, t), k)
<1> DEFINE d == n[t].chain
           f == Front(d)
           S == Range(d)
           last == Len(d) - 1
<1>1. d \in Seq(S) /\ Len(d) \in Nat /\ DOMAIN d = 1..Len(d)
  BY WholeIsShaped, ChainsAreSequences DEF Neat
<1>2. \A i \in DOMAIN d : IsSlot(d[i])
  BY DEF Neat, Whole
<1> HIDE DEF S
<1>3. f \in Seq(S) /\ DOMAIN f = 1..last /\ \A i \in 1..last : f[i] = d[i]
  <2>1. \A i \in 1..last : d[i] \in S
    <3> HIDE DEF d
    <3> QED BY <1>1, ElementOfSeq
  <2>2. last \in Nat
    BY <1>1
  <2>3. f = SubSeq(d, 1, last)
    BY DEF Front
  <2> HIDE DEF f, d, last
  <2>4. f \in Seq(S) /\ Len(f) = last /\ \A i \in 1..last : f[i] = d[i]
    BY <1>1, <2>1, <2>2, <2>3, SubSeqProperties
  <2> QED BY <2>4, LenProperties
<1>4. \A i \in 1..last : i \in DOMAIN d
  BY <1>1
<1> HIDE DEF f
<1>5. Picks(f, d)
  <2> DEFINE p == [i \in DOMAIN f |-> i]
  <2>1. \A i \in DOMAIN f : p[i] \in DOMAIN d /\ f[i].id = d[p[i]].id
    BY <1>3, <1>4
  <2>2. \A i, j \in DOMAIN f : p[i] = p[j] => i = j
    OBVIOUS
  <2> HIDE DEF p, d
  <2> QED BY <2>1, <2>2 DEF Picks
<1>6. \A i \in DOMAIN f : IsSlot(f[i])
  BY <1>2, <1>3, <1>4
<1>7. Popped(n, t) = ChainTo(n, t, f)
  BY DEF Popped, ChainTo, f
<1> QED BY <1>3, <1>5, <1>6, <1>7, ChainIsNeat

LEMMA AddPluginIsNeat ==
    ASSUME NeatInv, NEW t, NEW latency \in Latencies, AddPlugin(t, latency) PROVE NeatStep
<1> DEFINE k == nextSlot + 1
           new == ChainTo(node, t, Append(node[t].chain, NewSlot(latency)))
           tried == Ensured(new, order)
<1>1. t \in DOMAIN node /\ nextSlot' = k
  BY DEF AddPlugin, Addressed
<1>2. AddEnsured(t, new, tried, PlanRoutes(tried, order))
  <2>1. new = [node EXCEPT ![t].chain = Append(@, NewSlot(latency))]
    BY DEF ChainTo
  <2> QED BY <2>1 DEF AddPlugin, AddTried
<1>3. IsSlot(NewSlot(latency)) /\ NewSlot(latency).id = nextSlot /\ nextSlot \in Nat
  BY BoundsAssumption DEF NeatInv, NewSlot, IsSlot
<1>4. Neat(new, k) /\ DOMAIN new[t].chain # {} /\ DOMAIN new = DOMAIN node
  BY <1>1, <1>3, AppendedIsNeat DEF NeatInv
<1> HIDE DEF new
<1>5. Neat(tried, k) /\ Stays(tried, new)
  BY <1>4, EnsuredIsNeat
<1> HIDE DEF tried
<1>6. t \in DOMAIN tried /\ DOMAIN tried[t].chain # {}
  BY <1>1, <1>4, <1>5 DEF Stays, SameIds
<1> HIDE DEF k
<1>7. Neat(Popped(new, t), k) /\ Neat(Ensured(Popped(tried, t), order), k)
  BY <1>1, <1>4, <1>5, <1>6, PoppedIsNeat, EnsuredIsNeat
<1>8. node' \in {tried, Popped(new, t), Ensured(Popped(tried, t), order)}
  <2>1. CASE Accept(tried, PlanRoutes(tried, order))
    BY <2>1 DEF Accept
  <2>2. ASSUME NEW fault,
               Recover(IF fault = "prepare" \/ tried = new THEN Popped(new, t)
                       ELSE Ensured(Popped(tried, t), order))
        PROVE  node' \in {Popped(new, t), Ensured(Popped(tried, t), order)}
    BY <2>2 DEF Recover
  <2> QED BY <1>2, <2>1, <2>2 DEF AddEnsured
<1>9. k \in Nat
  BY <1>3 DEF k
<1> QED BY <1>1, <1>5, <1>7, <1>8, <1>9 DEF NeatStep

LEMMA RemovePluginIsNeat == ASSUME NeatInv, NEW t, NEW i, RemovePlugin(t, i) PROVE NeatStep
<1> DEFINE d == node[t].chain
           c == RemoveAt(d, i)
           S == Range(d)
<1>1. t \in DOMAIN node /\ i \in DOMAIN d
  BY DEF RemovePlugin, Plugged, Addressed
<1>2. d \in Seq(S) /\ Len(d) \in Nat /\ DOMAIN d = 1..Len(d)
  BY <1>1, WholeIsShaped, ChainsAreSequences DEF NeatInv, Neat
<1>3. \A j \in DOMAIN d : IsSlot(d[j])
  BY <1>1 DEF NeatInv, Neat, Whole
<1>4. node' = Ensured(ChainTo(node, t, c), order) /\ nextSlot' = nextSlot
  BY DEF RemovePlugin, ChainTo
<1> HIDE DEF d, S
<1>5. /\ c \in Seq(S) /\ DOMAIN c = 1..(Len(d) - 1)
      /\ \A j \in 1..(Len(d) - 1) : c[j] = d[IF j < i THEN j ELSE j + 1]
  BY <1>1, <1>2, ElementRemoved
<1> HIDE DEF c
<1> DEFINE p == [j \in DOMAIN c |-> IF j < i THEN j ELSE j + 1]
<1>6. \A j \in DOMAIN c : p[j] \in DOMAIN d /\ c[j] = d[p[j]]
  BY <1>1, <1>2, <1>5
<1>7. \A j, l \in DOMAIN c : p[j] = p[l] => j = l
  BY <1>1, <1>2, <1>5
<1> HIDE DEF p
<1>8. Picks(c, node[t].chain)
  BY <1>6, <1>7 DEF Picks, d
<1>9. \A j \in DOMAIN c : IsSlot(c[j])
  BY <1>3, <1>6
<1>10. Neat(ChainTo(node, t, c), nextSlot)
  BY <1>1, <1>5, <1>8, <1>9, ChainIsNeat DEF NeatInv
<1>11. Neat(node', nextSlot)
  BY <1>4, <1>10, EnsuredIsNeat
<1> QED BY <1>4, <1>11, KeptIsNeat

LEMMA MovePluginIsNeat ==
    ASSUME NeatInv, NEW t, NEW i, NEW j, MovePlugin(t, i, j) PROVE NeatStep
<1> DEFINE d == node[t].chain
           r == RemoveAt(d, i)
           c == InsertAt(r, j, d[i])
           S == Range(d)
<1>1. t \in DOMAIN node /\ i \in DOMAIN d /\ j \in DOMAIN d
  BY DEF MovePlugin, Plugged, Addressed
<1>2. d \in Seq(S) /\ Len(d) \in Nat /\ DOMAIN d = 1..Len(d) /\ d[i] \in S
  BY <1>1, WholeIsShaped, ChainsAreSequences DEF NeatInv, Neat, Range
<1>3. \A l \in DOMAIN d : IsSlot(d[l])
  BY <1>1 DEF NeatInv, Neat, Whole
<1>4. node' = ChainTo(node, t, c) /\ nextSlot' = nextSlot
  BY DEF MovePlugin, ChainTo
<1> HIDE DEF d, S
<1>5. /\ r \in Seq(S) /\ Len(r) = Len(d) - 1
      /\ \A l \in 1..(Len(d) - 1) : r[l] = d[IF l < i THEN l ELSE l + 1]
  BY <1>1, <1>2, ElementRemoved
<1> HIDE DEF r
<1>6. j \in 1..(Len(r) + 1) /\ Len(r) + 1 = Len(d)
  BY <1>1, <1>2, <1>5
<1>7. /\ c \in Seq(S) /\ DOMAIN c = 1..(Len(r) + 1)
      /\ \A l \in 1..(Len(r) + 1) :
            c[l] = IF l < j THEN r[l] ELSE IF l = j THEN d[i] ELSE r[l - 1]
  <2> DEFINE e == d[i]
  <2>1. r \in Seq(S) /\ e \in S /\ j \in 1..(Len(r) + 1) /\ c = InsertAt(r, j, e)
    BY <1>2, <1>5, <1>6
  <2> HIDE DEF c, e
  <2>2. /\ c \in Seq(S) /\ DOMAIN c = 1..(Len(r) + 1)
        /\ \A l \in 1..(Len(r) + 1) :
              c[l] = IF l < j THEN r[l] ELSE IF l = j THEN e ELSE r[l - 1]
    <3>1. ASSUME NEW q \in Seq(S), NEW x \in S, NEW y \in 1..(Len(q) + 1)
          PROVE  LET w == InsertAt(q, y, x)
                 IN  /\ w \in Seq(S) /\ DOMAIN w = 1..(Len(q) + 1)
                     /\ \A l \in 1..(Len(q) + 1) :
                           w[l] = IF l < y THEN q[l] ELSE IF l = y THEN x ELSE q[l - 1]
      BY ONLY ElementInserted
    <3>2. r \in Seq(S) /\ e \in S /\ j \in 1..(Len(r) + 1)
      BY <2>1
    <3>3. LET w == InsertAt(r, j, e)
          IN  /\ w \in Seq(S) /\ DOMAIN w = 1..(Len(r) + 1)
              /\ \A l \in 1..(Len(r) + 1) :
                    w[l] = IF l < j THEN r[l] ELSE IF l = j THEN e ELSE r[l - 1]
      BY ONLY <3>1, <3>2
    <3>4. c = InsertAt(r, j, e)
      BY <2>1
    <3> QED BY ONLY <3>3, <3>4
  <2> QED BY <2>2 DEF e
<1> HIDE DEF c
<1>8. DOMAIN c = DOMAIN d
  BY <1>2, <1>6, <1>7
<1> DEFINE Old(l) == IF l < i THEN l ELSE l + 1
           p == [l \in DOMAIN c |-> IF l < j THEN Old(l) ELSE IF l = j THEN i ELSE Old(l - 1)]
<1>n. Len(d) \in Nat /\ i \in 1..Len(d) /\ j \in 1..Len(d)
  BY <1>1, <1>2
<1>9. \A l \in 1..Len(d) : p[l] \in 1..Len(d)
  <2>1. DOMAIN c = 1..Len(d)
    BY <1>2, <1>8
  <2> QED BY <1>n, <2>1
<1>10. \A l, x \in 1..Len(d) : p[l] = p[x] => l = x
  <2>1. DOMAIN c = 1..Len(d)
    BY <1>2, <1>8
  <2> QED BY <1>n, <2>1
<1>11. \A l \in 1..Len(d) : c[l] = d[p[l]]
  <2> SUFFICES ASSUME NEW l \in 1..Len(d) PROVE c[l] = d[p[l]]
    OBVIOUS
  <2>1. p[l] = IF l < j THEN Old(l) ELSE IF l = j THEN i ELSE Old(l - 1)
    BY <1>2, <1>8
  <2>2. c[l] = IF l < j THEN r[l] ELSE IF l = j THEN d[i] ELSE r[l - 1]
    BY <1>6, <1>7
  <2>3. \A x \in 1..(Len(d) - 1) : r[x] = d[Old(x)]
    BY <1>5
  <2> HIDE DEF p, Old
  <2>4. CASE l < j
    <3>1. l \in 1..(Len(d) - 1)
      BY <1>n, <2>4
    <3> QED BY <2>1, <2>2, <2>3, <2>4, <3>1
  <2>5. CASE l = j
    <3>1. ~(l < j)
      BY <1>n, <2>5
    <3> QED BY <2>1, <2>2, <2>5, <3>1
  <2>6. CASE l > j
    <3>1. l - 1 \in 1..(Len(d) - 1) /\ ~(l < j) /\ l # j
      BY <1>n, <2>6
    <3> QED BY <2>1, <2>2, <2>3, <3>1
  <2> QED BY <1>n, <2>4, <2>5, <2>6
<1> HIDE DEF p, Old
<1>12. Picks(c, d)
  BY <1>2, <1>8, <1>9, <1>10, <1>11 DEF Picks
<1>13. \A l \in DOMAIN c : IsSlot(c[l])
  BY <1>2, <1>3, <1>8, <1>9, <1>11
<1>14. Neat(ChainTo(node, t, c), nextSlot)
  BY <1>1, <1>7, <1>12, <1>13, ChainIsNeat DEF NeatInv, d
<1> QED BY <1>4, <1>14, KeptIsNeat

LEMMA CommitBypassFlagIsNeat ==
    ASSUME NeatInv, NEW t, NEW i, NEW flag \in {"bypass", "monitorBypass"},
           CommitBypassFlag(t, i, flag)
    PROVE  NeatStep
<1> DEFINE slot == node[t].chain[i]
           v == Flipped(slot, flag)
           m == SlotTo(node, t, i, v)
<1>1. t \in DOMAIN node /\ i \in DOMAIN node[t].chain
  BY DEF CommitBypassFlag, Plugged, Addressed
<1>2. Attempt(m)
  BY DEF CommitBypassFlag, SlotTo
<1>3. IsSlot(slot)
  BY <1>1 DEF NeatInv, Neat, Whole
<1> HIDE DEF slot
<1>4. IsSlot(v) /\ v.id = slot.id
  BY <1>3 DEF Flipped, IsSlot
<1> HIDE DEF v
<1>5. NeatAt(m) /\ Stays(m, node)
  BY <1>1, <1>4, SlotIsNeat DEF NeatInv, NeatAt, slot
<1> HIDE DEF m
<1> QED BY <1>2, <1>5, AttemptIsNeat, KeptIsNeat DEF NeatInv, NeatAt

LEMMA PrimaryLatencyIsNeat ==
    ASSUME NeatInv, NEW t, NEW i, NEW l \in Latencies, PrimaryLatencyChanged(t, i, l)
    PROVE  NeatStep
<1> DEFINE slot == node[t].chain[i]
           seen == SlotTo(node, t, i, [slot EXCEPT !.latency = l, !.state = "active"])
           tried == Ensured(seen, order)
           now == tried[t].chain[i]
           held == SlotTo(tried, t, i, [now EXCEPT !.state = "suspended"])
           back == SlotTo(tried, t, i, [now EXCEPT !.latency = slot.latency, !.state = slot.state])
<1>1. t \in DOMAIN node /\ i \in DOMAIN node[t].chain
  BY DEF PrimaryLatencyChanged, Plugged, Addressed
<1>2. PrimarySettles(tried, t, i, slot)
  BY DEF PrimaryLatencyChanged, SlotTo
<1>3. IsSlot(slot)
  BY <1>1 DEF NeatInv, Neat, Whole
<1>4. NeatAt(seen) /\ Stays(seen, node)
  <2>1. \A v : IsSlot(v) /\ v.id = slot.id =>
           NeatAt(SlotTo(node, t, i, v)) /\ Stays(SlotTo(node, t, i, v), node)
    BY <1>1, SlotIsNeat DEF NeatInv, NeatAt
  <2> HIDE DEF slot
  <2>2. LET v == [slot EXCEPT !.latency = l, !.state = "active"]
        IN  IsSlot(v) /\ v.id = slot.id
    BY <1>3, BoundsAssumption DEF IsSlot
  <2> QED BY <2>1, <2>2
<1> HIDE DEF seen, slot
<1>5. NeatAt(tried) /\ Stays(tried, seen)
  BY <1>4, EnsuredIsNeat DEF NeatAt
<1>6. Settle(tried, held, back)
  BY <1>2 DEF PrimarySettles, SlotTo
<1> HIDE DEF tried
<1>7. t \in DOMAIN tried /\ i \in DOMAIN tried[t].chain /\ IsSlot(now)
  BY <1>1, <1>4, <1>5 DEF Stays, SameIds, NeatAt, Neat, Whole
<1>8. \A v : IsSlot(v) /\ v.id = now.id => NeatAt(SlotTo(tried, t, i, v))
  BY <1>5, <1>7, SlotIsNeat DEF NeatAt
<1> HIDE DEF now
<1>9. NeatAt(held) /\ NeatAt(back)
  <2>1. LET v == [now EXCEPT !.state = "suspended"]
            w == [now EXCEPT !.latency = slot.latency, !.state = slot.state]
        IN  IsSlot(v) /\ v.id = now.id /\ IsSlot(w) /\ w.id = now.id
    BY <1>3, <1>7 DEF IsSlot
  <2> QED BY <1>8, <2>1
<1> HIDE DEF held, back
<1> QED BY <1>5, <1>6, <1>9, SettleIsNeat, KeptIsNeat

LEMMA DegradedIsNeat ==
    ASSUME NEW n, NeatAt(n), NEW t \in DOMAIN n, NEW i \in DOMAIN n[t].chain
    PROVE  NeatAt(Degraded(n, t, i)) /\ Stays(Degraded(n, t, i), n)
<1> DEFINE s == n[t].chain[i]
           v == [s EXCEPT !.shadow = IF @ = "none" THEN @ ELSE "degraded"]
<1>1. Degraded(n, t, i) = SlotTo(n, t, i, v)
  BY DEF Degraded, SlotTo
<1>2. IsSlot(s)
  BY DEF NeatAt, Neat, Whole
<1> HIDE DEF s
<1>3. IsSlot(v) /\ v.id = s.id
  BY <1>2 DEF IsSlot
<1> HIDE DEF v
<1> QED BY <1>1, <1>3, SlotIsNeat DEF NeatAt, s

LEMMA ShadowLatencyIsNeat ==
    ASSUME NeatInv, NEW t, NEW i, NEW l \in Latencies, ShadowLatencyChanged(t, i, l) PROVE NeatStep
<1> DEFINE slot == node[t].chain[i]
           seen == SlotTo(node, t, i, [slot EXCEPT !.shadowLatency = l, !.shadow = "active"])
           plan == PlanRoutes(seen, order)
           tried == IF plan.ok THEN DisposedBy(seen, plan) ELSE Degraded(seen, t, i)
           back == SlotTo(tried, t, i, slot)
<1>1. t \in DOMAIN node /\ i \in DOMAIN node[t].chain
  BY DEF ShadowLatencyChanged, Plugged, Addressed
<1>2. ShadowPrepared(seen, plan, t, i, slot)
  BY DEF ShadowLatencyChanged, SlotTo
<1>3. IsSlot(slot)
  BY <1>1 DEF NeatInv, Neat, Whole
<1>4. NeatAt(seen) /\ Stays(seen, node)
  <2>1. \A v : IsSlot(v) /\ v.id = slot.id =>
           NeatAt(SlotTo(node, t, i, v)) /\ Stays(SlotTo(node, t, i, v), node)
    BY <1>1, SlotIsNeat DEF NeatInv, NeatAt
  <2> HIDE DEF slot
  <2>2. LET v == [slot EXCEPT !.shadowLatency = l, !.shadow = "active"]
        IN  IsSlot(v) /\ v.id = slot.id
    BY <1>3, BoundsAssumption DEF IsSlot
  <2> QED BY <2>1, <2>2
<1>5. Stays(tried, seen) /\ NeatAt(tried)
  <2>1. CASE plan.ok
    BY <1>4, <2>1, DisposedIsNeat DEF NeatAt
  <2>2. CASE ~plan.ok
    BY <1>1, <1>4, <2>2, DegradedIsNeat DEF Stays, SameIds
  <2> QED BY <2>1, <2>2
<1>6. Stays(tried, node)
  BY <1>4, <1>5 DEF Stays, SameIds
<1> HIDE DEF seen, plan
<1>7. ShadowSettles(tried, t, i, slot)
  BY <1>2 DEF ShadowPrepared
<1>8. Settle(tried, Degraded(tried, t, i), back)
  BY <1>7 DEF ShadowSettles, SlotTo
<1> HIDE DEF tried
<1>9. t \in DOMAIN tried /\ i \in DOMAIN tried[t].chain /\ slot.id = tried[t].chain[i].id
  BY <1>1, <1>6 DEF Stays, SameIds
<1>10. NeatAt(Degraded(tried, t, i))
  BY <1>5, <1>9, DegradedIsNeat
<1> HIDE DEF slot
<1>11. NeatAt(back)
  BY <1>3, <1>5, <1>9, SlotIsNeat DEF NeatAt
<1> HIDE DEF back
<1> QED BY <1>5, <1>8, <1>10, <1>11, SettleIsNeat, KeptIsNeat
-----------------------------------------------------------------------------
(* The bounds on commands and faults.                                      *)
Counted == (Well \/ \E f : Ill(f)) /\ \E ok : Answer(ok)

LEMMA SwapIsCounted == ASSUME NEW n, NEW o, Swap(n, o) PROVE Well \/ \E f : Ill(f)
  BY DEF Swap, SwapPlanned, Publish

LEMMA AttemptIsCounted == ASSUME NEW new, Attempt(new) PROVE Counted
<1> DEFINE tried == Ensured(new, order)
           plan == PlanRoutes(tried, order)
<1>1. AttemptPlanned(new, tried, plan)
  BY DEF Attempt, AttemptEnsured
<1> HIDE DEF tried, plan
<1> QED BY <1>1 DEF AttemptPlanned, Accept, Publish, Reject, Counted

LEMMA SettleIsCounted ==
    ASSUME NEW tried, NEW held, NEW back, Settle(tried, held, back) PROVE Counted
<1> DEFINE plan == PlanRoutes(tried, order)
<1>1. SettlePlanned(tried, plan, held, back)
  BY DEF Settle
<1> HIDE DEF plan
<1> QED BY <1>1 DEF SettlePlanned, Publish, Counted

LEMMA TakenIsCounted ==
    ASSUME NEW n, NEW o, Swap(n, o), Answer(TRUE) PROVE Counted
  BY SwapIsCounted DEF Counted

LEMMA RefuseIsCounted == ASSUME Refuse PROVE Counted
  BY DEF Refuse, Counted

LEMMA TracksAreCounted ==
    /\ \A kind : TrackAdd(kind) => Counted
    /\ \A t : TrackRemove(t) => Counted
    /\ \A t, policy : SetPolicy(t, policy) => Counted
    /\ \A t, d : ToggleDest(t, d) => Counted
    /\ \A t, s : ToggleSidechain(t, s) => Counted
    /\ \A t, i : TrackMove(t, i) => Counted
    /\ EnsureSystemOutputs => Counted
    /\ TrackSet => Counted
<1>1. ASSUME NEW kind, TrackAdd(kind) PROVE Counted
  BY <1>1, RefuseIsCounted, TakenIsCounted DEF TrackAdd
<1>2. ASSUME NEW t, TrackRemove(t) PROVE Counted
  BY <1>2, RefuseIsCounted, TakenIsCounted DEF TrackRemove
<1>3. ASSUME NEW t, NEW policy, SetPolicy(t, policy) PROVE Counted
  BY <1>3, RefuseIsCounted, AttemptIsCounted DEF SetPolicy
<1>4. ASSUME NEW t, NEW d, ToggleDest(t, d) PROVE Counted
  BY <1>4, RefuseIsCounted, AttemptIsCounted DEF ToggleDest, SetDests
<1>5. ASSUME NEW t, NEW s, ToggleSidechain(t, s) PROVE Counted
  BY <1>5, RefuseIsCounted, AttemptIsCounted DEF ToggleSidechain, SetSidechain
<1>6. ASSUME NEW t, NEW i, TrackMove(t, i) PROVE Counted
  BY <1>6, TakenIsCounted DEF TrackMove
<1>7. ASSUME EnsureSystemOutputs PROVE Counted
  BY <1>7, TakenIsCounted DEF EnsureSystemOutputs
<1>8. ASSUME TrackSet PROVE Counted
  BY <1>8, TakenIsCounted DEF TrackSet
<1> QED BY <1>1, <1>2, <1>3, <1>4, <1>5, <1>6, <1>7, <1>8

LEMMA PluginsAreCounted ==
    /\ \A t, l : AddPlugin(t, l) => Counted
    /\ \A t, i : RemovePlugin(t, i) => Counted
    /\ \A t, i, j : MovePlugin(t, i, j) => Counted
    /\ \A t, i, flag : CommitBypassFlag(t, i, flag) => Counted
    /\ \A t, i, l : PrimaryLatencyChanged(t, i, l) => Counted
    /\ \A t, i, l : ShadowLatencyChanged(t, i, l) => Counted
<1>1. ASSUME NEW t, NEW new, NEW tried, NEW plan, AddEnsured(t, new, tried, plan) PROVE Counted
  BY <1>1 DEF AddEnsured, Accept, Publish, Reject, Counted
<1>2. ASSUME NEW t, NEW l, AddPlugin(t, l) PROVE Counted
  BY <1>1, <1>2 DEF AddPlugin, AddTried
<1>3. ASSUME NEW t, NEW i, RemovePlugin(t, i) PROVE Counted
  BY <1>3, TakenIsCounted DEF RemovePlugin
<1>4. ASSUME NEW t, NEW i, NEW j, MovePlugin(t, i, j) PROVE Counted
  BY <1>4, TakenIsCounted DEF MovePlugin
<1>5. ASSUME NEW t, NEW i, NEW flag, CommitBypassFlag(t, i, flag) PROVE Counted
  BY <1>5, AttemptIsCounted DEF CommitBypassFlag
<1>6. ASSUME NEW t, NEW i, NEW l, PrimaryLatencyChanged(t, i, l) PROVE Counted
  BY <1>6, SettleIsCounted DEF PrimaryLatencyChanged, PrimarySettles
<1>7. ASSUME NEW t, NEW i, NEW l, ShadowLatencyChanged(t, i, l) PROVE Counted
  BY <1>7, SettleIsCounted DEF ShadowLatencyChanged, ShadowPrepared, ShadowSettles
<1> QED BY <1>2, <1>3, <1>4, <1>5, <1>6, <1>7

LEMMA CountsStay ==
    ASSUME NeatInv, Counted PROVE faults' \in 0..MaxFaults /\ ops' \in 0..MaxOps
<1>1. faults' \in 0..MaxFaults
  BY BoundsAssumption DEF NeatInv, Counted, Well, Ill
<1>2. ops' \in 0..MaxOps
  BY BoundsAssumption DEF NeatInv, Counted, Answer
<1> QED BY <1>1, <1>2
-----------------------------------------------------------------------------
(* The ids of a session: finitely many, so one is the largest.             *)
LEMMA FiniteIsBounded ==
    ASSUME NEW n \in Nat, NEW f, \A i \in 1..n : f[i] \in Nat
    PROVE  \E b \in Nat : \A i \in 1..n : f[i] <= b
<1> DEFINE Bounds(k, b) == b \in Nat /\ \A i \in 1..k : f[i] <= b
           Fails == {k \in 0..n : ~\E b : Bounds(k, b)}
<1>1. SUFFICES ASSUME Fails # {} PROVE FALSE
  <2>1. n \in 0..n
    OBVIOUS
  <2> QED BY <2>1
<1>2. PICK m \in Fails : \A k \in Fails : m <= k
  <2>1. Fails \subseteq Nat
    OBVIOUS
  <2> HIDE DEF Fails
  <2> QED BY <1>1, <2>1, LeastOne
<1>3. m \in 0..n /\ ~\E b : Bounds(m, b)
  BY <1>2
<1>4. m # 0
  <2>1. Bounds(0, 0)
    OBVIOUS
  <2> QED BY <1>3, <2>1
<1>5. m - 1 \in 0..n /\ m - 1 \notin Fails /\ m \in 1..n
  <2>1. m - 1 \in 0..n /\ m \in 1..n /\ ~(m <= m - 1)
    BY <1>3, <1>4
  <2> HIDE DEF Fails
  <2> QED BY <1>2, <2>1
<1>6. PICK b : Bounds(m - 1, b)
  BY <1>5
<1> DEFINE c == IF f[m] <= b THEN b ELSE f[m]
<1>7. f[m] \in Nat /\ b \in Nat
  BY <1>5, <1>6
<1>8. c \in Nat /\ f[m] <= c /\ b <= c
  BY <1>7
<1> HIDE DEF c
<1>9. ASSUME NEW i \in 1..m PROVE f[i] <= c
  <2>1. f[i] \in Nat
    BY <1>5
  <2>2. CASE i = m
    BY <1>8, <2>2
  <2>3. CASE i # m
    <3>1. i \in 1..(m - 1)
      BY <1>5, <2>3
    <3>2. f[i] <= b
      BY <1>6, <3>1
    <3> QED BY <1>7, <1>8, <2>1, <3>2
  <2> QED BY <2>2, <2>3
<1>10. Bounds(m, c)
  BY <1>8, <1>9
<1> QED BY <1>3, <1>10

LEMMA LargestBounds ==
    ASSUME NEW S \in SUBSET Nat, NEW b \in Nat, \A x \in S : x <= b
    PROVE  Largest(S) \in Nat /\ Largest(S) \in S \cup {0} /\ \A x \in S : x <= Largest(S)
<1> DEFINE S0 == S \cup {0}
           Above == {k \in Nat : \A x \in S0 : x <= k}
<1>0. S0 \in SUBSET Nat /\ 0 \in S0
  OBVIOUS
<1>1. b \in Above /\ Above \subseteq Nat
  OBVIOUS
<1>2. PICK m \in Above : \A k \in Above : m <= k
  <2> HIDE DEF Above
  <2> QED BY <1>1, LeastOne
<1>3. m \in Nat /\ \A x \in S0 : x <= m
  BY <1>2
<1>4. m \in S0
  <2> SUFFICES ASSUME m \notin S0 PROVE FALSE
    OBVIOUS
  <2>1. m # 0 /\ m - 1 \in Nat
    BY <1>0, <1>3
  <2>2. ASSUME NEW x \in S0 PROVE x <= m - 1
    <3>1. x <= m /\ x # m /\ x \in Nat
      BY <1>0, <1>3
    <3> QED BY <1>3, <3>1
  <2>3. m - 1 \in Above
    BY <2>1, <2>2
  <2>4. m <= m - 1
    <3> HIDE DEF Above
    <3> QED BY <1>2, <2>3
  <2> QED BY <1>3, <2>4
<1> HIDE DEF S0
<1>5. Max(S0) \in S0 /\ \A x \in S0 : Max(S0) >= x
  <2>1. \A x \in S0 : m >= x
    BY <1>0, <1>3
  <2> QED BY <1>4, <2>1 DEF Max
<1>6. Largest(S) = Max(S0)
  BY DEF Largest, S0
<1>7. (\A x \in S : x \in S0) /\ S0 = S \cup {0}
  BY DEF S0
<1> QED BY <1>0, <1>5, <1>6, <1>7

LEMMA LargestIsAbove ==
    ASSUME NEW n, Whole(n), NEW l \in Nat, DOMAIN n = 1..l
    PROVE  LET k == Largest({s.id : s \in Slots(n)}) IN k \in Nat /\ Under(n, 1 + k)
<1> DEFINE S == {s.id : s \in Slots(n)}
           High(t, b) == b \in Nat /\ \A i \in DOMAIN n[t].chain : n[t].chain[i].id <= b
           g == [t \in 1..l |-> CHOOSE b : High(t, b)]
<1>1. ASSUME NEW t \in 1..l PROVE \E b : High(t, b)
  <2> DEFINE c == n[t].chain
             f == [i \in DOMAIN c |-> c[i].id]
  <2>1. Len(c) \in Nat /\ DOMAIN c = 1..Len(c)
    BY WholeIsShaped, ChainsAreSequences
  <2>2. \A i \in 1..Len(c) : c[i].id \in Nat
    BY <2>1 DEF Whole, IsSlot
  <2>3. \A i \in 1..Len(c) : f[i] = c[i].id
    BY <2>1
  <2> HIDE DEF f, c
  <2>4. PICK b \in Nat : \A i \in 1..Len(c) : f[i] <= b
    BY <2>1, <2>2, <2>3, FiniteIsBounded
  <2> QED BY <2>1, <2>3, <2>4 DEF c
<1>2. \A t \in 1..l : High(t, g[t])
  BY <1>1
<1> HIDE DEF g
<1>3. PICK b \in Nat : \A t \in 1..l : g[t] <= b
  BY <1>2, FiniteIsBounded
<1>4. ASSUME NEW t \in 1..l, NEW i \in DOMAIN n[t].chain
      PROVE  n[t].chain[i].id \in Nat /\ n[t].chain[i].id <= b /\ n[t].chain[i].id \in S
  <2>1. n[t].chain[i].id \in Nat
    BY DEF Whole, IsSlot
  <2>2. n[t].chain[i].id <= g[t] /\ g[t] \in Nat /\ g[t] <= b
    BY <1>2, <1>3
  <2>3. n[t].chain[i] \in Slots(n)
    BY DEF Slots
  <2> QED BY <2>1, <2>2, <2>3
<1>5. \A x \in S : \E t \in 1..l : \E i \in DOMAIN n[t].chain : x = n[t].chain[i].id
  BY DEF Slots
<1>6. S \in SUBSET Nat /\ \A x \in S : x <= b
  <2>1. ASSUME NEW x \in S PROVE x \in Nat /\ x <= b
    <3>1. PICK t \in 1..l : \E i \in DOMAIN n[t].chain : x = n[t].chain[i].id
      BY <1>5
    <3>2. PICK i \in DOMAIN n[t].chain : x = n[t].chain[i].id
      BY <3>1
    <3> QED BY <1>4, <3>2
  <2> QED BY <2>1
<1> HIDE DEF S
<1>7. Largest(S) \in Nat /\ \A x \in S : x <= Largest(S)
  BY <1>6, LargestBounds
<1>8. ASSUME NEW t \in DOMAIN n, NEW i \in DOMAIN n[t].chain
      PROVE  n[t].chain[i].id < 1 + Largest(S)
  BY <1>4, <1>7
<1> QED BY <1>7, <1>8 DEF Under, S

LEMMA InitIsNeat == ASSUME Init PROVE NeatInv
<1>1. PICK session \in Sessions :
         LET ids == [i \in DOMAIN session |-> i]
         IN  LoadedEnsured(Ensured(session, ids), ids)
  BY DEF Init
<1> DEFINE ids == [i \in DOMAIN session |-> i]
           m == Ensured(session, ids)
           k == Largest({s.id : s \in Slots(m)})
           b == Largest({s.id : s \in Slots(session)})
<1>2. node = m /\ nextSlot = 1 + k /\ faults = 0 /\ ops = 0
  BY <1>1 DEF LoadedEnsured, Loaded
<1>3. Whole(session) /\ session \in Seq(Range(session))
  BY SessionsAreRestored
<1>4. Len(session) \in Nat /\ DOMAIN session = 1..Len(session)
  BY <1>3, LenProperties
<1>5. Neat(session, 1 + b)
  BY <1>3, <1>4, LargestIsAbove DEF Neat
<1> HIDE DEF ids, b
<1>6. Whole(m) /\ DOMAIN m = 1..Len(session)
  BY <1>4, <1>5, EnsuredIsNeat DEF Neat, Stays
<1> HIDE DEF m
<1>7. k \in Nat /\ Under(m, 1 + k)
  BY <1>4, <1>6, LargestIsAbove
<1> HIDE DEF k
<1> QED BY <1>2, <1>6, <1>7, BoundsAssumption DEF NeatInv, Neat

LEMMA NextIsNeat == ASSUME NeatInv, Next PROVE NeatStep /\ Counted
<1>1. ASSUME NEW kind \in Kinds, TrackAdd(kind) PROVE NeatStep /\ Counted
  BY <1>1, TrackAddIsNeat, TracksAreCounted
<1>2. ASSUME NEW t \in Tids, TrackRemove(t) PROVE NeatStep /\ Counted
  BY <1>2, TrackRemoveIsNeat, TracksAreCounted
<1>3. ASSUME NEW t \in Tids, NEW policy \in {"full", "low"}, SetPolicy(t, policy)
      PROVE  NeatStep /\ Counted
  BY <1>3, SetPolicyIsNeat, TracksAreCounted
<1>4. ASSUME NEW t \in Tids, NEW d \in Tids, ToggleDest(t, d) PROVE NeatStep /\ Counted
  BY <1>4, ToggleDestIsNeat, TracksAreCounted
<1>5. ASSUME NEW t \in Tids, NEW s \in Tids, ToggleSidechain(t, s) PROVE NeatStep /\ Counted
  BY <1>5, ToggleSidechainIsNeat, TracksAreCounted
<1>6. ASSUME NEW t \in Tids, NEW i \in Tids, TrackMove(t, i) PROVE NeatStep /\ Counted
  <2>1. UNCHANGED <<node, nextSlot>>
    BY <1>6 DEF TrackMove
  <2> QED BY <1>6, <2>1, SameIsNeat, TracksAreCounted
<1>7. ASSUME NEW t \in Tids, NEW l \in Latencies, AddPlugin(t, l) PROVE NeatStep /\ Counted
  BY <1>7, AddPluginIsNeat, PluginsAreCounted
<1>8. ASSUME NEW t \in Tids, NEW i \in 1..MaxChain, RemovePlugin(t, i) PROVE NeatStep /\ Counted
  BY <1>8, RemovePluginIsNeat, PluginsAreCounted
<1>9. ASSUME NEW t \in Tids, NEW i \in 1..MaxChain, NEW j \in 1..MaxChain, MovePlugin(t, i, j)
      PROVE  NeatStep /\ Counted
  BY <1>9, MovePluginIsNeat, PluginsAreCounted
<1>10. ASSUME NEW t \in Tids, NEW i \in 1..MaxChain, NEW flag \in {"bypass", "monitorBypass"},
              CommitBypassFlag(t, i, flag)
       PROVE  NeatStep /\ Counted
  BY <1>10, CommitBypassFlagIsNeat, PluginsAreCounted
<1>11. ASSUME NEW t \in Tids, NEW i \in 1..MaxChain, NEW l \in Latencies,
              PrimaryLatencyChanged(t, i, l)
       PROVE  NeatStep /\ Counted
  BY <1>11, PrimaryLatencyIsNeat, PluginsAreCounted
<1>12. ASSUME NEW t \in Tids, NEW i \in 1..MaxChain, NEW l \in Latencies,
              ShadowLatencyChanged(t, i, l)
       PROVE  NeatStep /\ Counted
  BY <1>12, ShadowLatencyIsNeat, PluginsAreCounted
<1>13. ASSUME EnsureSystemOutputs PROVE NeatStep /\ Counted
  BY <1>13, SystemOutputsAreNeat, TracksAreCounted
<1>14. ASSUME TrackSet PROVE NeatStep /\ Counted
  <2>1. UNCHANGED <<node, nextSlot>>
    BY <1>14 DEF TrackSet
  <2> QED BY <1>14, <2>1, SameIsNeat, TracksAreCounted
<1> QED
  BY <1>1, <1>2, <1>3, <1>4, <1>5, <1>6, <1>7, <1>8, <1>9, <1>10, <1>11, <1>12,
     <1>13, <1>14 DEF Next

LEMMA NeatStays == ASSUME NeatInv, [Next]_vars PROVE NeatInv'
<1>1. CASE Next
  <2>1. NeatStep /\ Counted
    BY <1>1, NextIsNeat
  <2> QED BY <2>1, CountsStay DEF NeatStep, NeatInv
<1>2. CASE UNCHANGED vars
  BY <1>2 DEF vars, NeatInv, Neat, Whole, IdsAreUnique, Under
<1> QED BY <1>1, <1>2

(* Whatever the commands and whatever fails, an id is one plugin's for good: *)
(* no other track or place has it, and the next plugin gets a larger one;    *)
(* the order has each track once.                                          *)
THEOREM TypeCorrect == Spec => []TypeOK
<1>1. Init => NeatInv
  BY InitIsNeat
<1>2. NeatInv /\ [Next]_vars => NeatInv'
  BY NeatStays
<1>3. IInv /\ NeatInv => TypeOK
  <2> SUFFICES ASSUME IInv, NeatInv PROVE TypeOK
    OBVIOUS
  <2>1. order \in Seq(DOMAIN node) /\ Len(order) \in Nat /\ DOMAIN order = 1..Len(order)
    BY LenProperties DEF IInv, Listed
  <2>2. Range(order) = DOMAIN node /\ IsInjective(order)
    <3>1. \A i \in 1..Len(order) : order[i] \in DOMAIN node
      BY <2>1, ElementOfSeq
    <3>2. \A t \in DOMAIN node : \E i \in 1..Len(order) : order[i] = t
      BY DEF IInv, Listed
    <3>3. Range(order) = DOMAIN node
      BY <2>1, <3>1, <3>2 DEF Range
    <3>4. \A i, j \in 1..Len(order) : order[i] = order[j] => i = j
      BY DEF IInv, Listed
    <3>5. IsInjective(order)
      BY <2>1, <3>4 DEF IsInjective
    <3> QED BY <3>3, <3>5
  <2>3. \A s \in Slots(node) : s.id < nextSlot
    BY DEF Slots, NeatInv, Neat, Under
  <2> QED BY <2>2, <2>3 DEF IInv, NeatInv, Neat, TypeOK, Ids
<1> QED BY <1>1, <1>2, <1>3, Invariance, PTL DEF Spec
-----------------------------------------------------------------------------
(***************************************************************************)
(* What the audio thread plays. A graph is published for the tracks as     *)
(* they end up, or there is none for them, or something failed.            *)
(***************************************************************************)
Follows ==
    \/ graph.node = node /\ graph.order = order
    \/ ~PlanRoutes(node, order).ok
    \/ faults # 0

LEMMA FaultIsKept == ASSUME NeatInv, NEW f, Ill(f) PROVE faults' # 0
  BY BoundsAssumption DEF NeatInv, Ill

LEMMA PublishFollows ==
    ASSUME NEW n, NEW o, NEW plan, NEW skipped, Publish(n, o, plan, skipped),
           node' = n, order' = o
    PROVE  Follows'
<1>1. graph'.node = n /\ graph'.order = o
  BY DEF Publish
<1> QED BY <1>1 DEF Follows

LEMMA SwapFollows == ASSUME NeatInv, Swap(node', order') PROVE Follows'
<1>1. PICK plan : plan = PlanRoutes(node', order') /\ SwapPlanned(node', order', plan)
  BY DEF Swap
<1>2. CASE \E skipped \in BOOLEAN : Publish(node', order', plan, skipped)
  BY <1>2, PublishFollows
<1>3. CASE plan.ok /\ Ill("swap")
  BY <1>3, FaultIsKept DEF Follows
<1>4. CASE ~plan.ok
  BY <1>1, <1>4 DEF Follows
<1> QED BY <1>1, <1>2, <1>3, <1>4 DEF SwapPlanned

LEMMA RecoverFollows == ASSUME NEW n, Recover(n), order' = order PROVE Follows'
<1>1. PICK plan : plan = PlanRoutes(n, order) /\ node' = n /\ RecoverPlanned(n, plan)
  BY DEF Recover
<1>2. CASE plan.ok
  <2>1. graph'.node = n /\ graph'.order = order
    BY <1>1, <1>2 DEF RecoverPlanned
  <2> QED BY <1>1, <2>1 DEF Follows
<1>3. CASE ~plan.ok
  BY <1>1, <1>3 DEF Follows
<1> QED BY <1>2, <1>3

LEMMA AcceptFollows ==
    ASSUME NEW tried, NEW plan, Accept(tried, plan), order' = order PROVE Follows'
<1>1. PICK skipped \in BOOLEAN : Publish(tried, order, plan, skipped)
  BY DEF Accept
<1>2. node' = tried
  BY DEF Accept
<1> QED BY <1>1, <1>2, PublishFollows

LEMMA AttemptFollows == ASSUME NEW new, Attempt(new) PROVE Follows'
<1> DEFINE tried == Ensured(new, order)
           plan == PlanRoutes(tried, order)
<1>1. AttemptPlanned(new, tried, plan) /\ order' = order
  BY DEF Attempt, AttemptEnsured
<1> HIDE DEF tried, plan
<1>2. Accept(tried, plan) \/ \E n : Recover(n)
  BY <1>1 DEF AttemptPlanned
<1> QED BY <1>1, <1>2, AcceptFollows, RecoverFollows

LEMMA SettleFollows ==
    ASSUME NEW tried, NEW held, NEW back, Settle(tried, held, back) PROVE Follows'
<1> DEFINE plan == PlanRoutes(tried, order)
<1>1. SettlePlanned(tried, plan, held, back) /\ order' = order
  BY DEF Settle, SettlePlanned
<1> HIDE DEF plan
<1>2. CASE node' = tried /\ \E skipped \in BOOLEAN : Publish(tried, order, plan, skipped)
  BY <1>1, <1>2, PublishFollows
<1>3. CASE \E n : Recover(n)
  BY <1>1, <1>3, RecoverFollows
<1> QED BY <1>1, <1>2, <1>3 DEF SettlePlanned

LEMMA RefuseFollows == ASSUME Follows, Refuse PROVE Follows'
<1>1. UNCHANGED <<node, order, graph, faults>>
  BY DEF Refuse, Well
<1> QED BY <1>1 DEF Follows

LEMMA TracksFollow ==
    ASSUME NeatInv, Follows
    PROVE  /\ \A kind : TrackAdd(kind) => Follows'
           /\ \A t : TrackRemove(t) => Follows'
           /\ \A t, policy : SetPolicy(t, policy) => Follows'
           /\ \A t, d : ToggleDest(t, d) => Follows'
           /\ \A t, s : ToggleSidechain(t, s) => Follows'
           /\ \A t, i : TrackMove(t, i) => Follows'
           /\ EnsureSystemOutputs => Follows'
           /\ TrackSet => Follows'
<1>1. ASSUME NEW kind, TrackAdd(kind) PROVE Follows'
  BY <1>1, RefuseFollows, SwapFollows DEF TrackAdd
<1>2. ASSUME NEW t, TrackRemove(t) PROVE Follows'
  BY <1>2, RefuseFollows, SwapFollows DEF TrackRemove
<1>3. ASSUME NEW t, NEW policy, SetPolicy(t, policy) PROVE Follows'
  BY <1>3, RefuseFollows, AttemptFollows DEF SetPolicy
<1>4. ASSUME NEW t, NEW d, ToggleDest(t, d) PROVE Follows'
  BY <1>4, RefuseFollows, AttemptFollows DEF ToggleDest, SetDests
<1>5. ASSUME NEW t, NEW s, ToggleSidechain(t, s) PROVE Follows'
  BY <1>5, RefuseFollows, AttemptFollows DEF ToggleSidechain, SetSidechain
<1>6. ASSUME NEW t, NEW i, TrackMove(t, i) PROVE Follows'
  <2>1. node' = node /\ Swap(node, order')
    BY <1>6 DEF TrackMove
  <2> QED BY <2>1, SwapFollows
<1>7. ASSUME EnsureSystemOutputs PROVE Follows'
  <2>1. \E new : node' = new.node /\ order' = new.order /\ Swap(new.node, new.order)
    BY <1>7 DEF EnsureSystemOutputs
  <2> QED BY <2>1, SwapFollows
<1>8. ASSUME TrackSet PROVE Follows'
  <2>1. node' = node /\ order' = order /\ Swap(node, order)
    BY <1>8 DEF TrackSet
  <2> QED BY <2>1, SwapFollows
<1> QED BY <1>1, <1>2, <1>3, <1>4, <1>5, <1>6, <1>7, <1>8

LEMMA PluginsFollow ==
    ASSUME NeatInv, Follows
    PROVE  /\ \A t, l : AddPlugin(t, l) => Follows'
           /\ \A t, i : RemovePlugin(t, i) => Follows'
           /\ \A t, i, j : MovePlugin(t, i, j) => Follows'
           /\ \A t, i, flag : CommitBypassFlag(t, i, flag) => Follows'
           /\ \A t, i, l : PrimaryLatencyChanged(t, i, l) => Follows'
           /\ \A t, i, l : ShadowLatencyChanged(t, i, l) => Follows'
<1>1. ASSUME NEW t, NEW new, NEW tried, NEW plan, AddEnsured(t, new, tried, plan),
             order' = order
      PROVE  Follows'
  <2>1. Accept(tried, plan) \/ \E n : Recover(n)
    BY <1>1 DEF AddEnsured
  <2> QED BY <1>1, <2>1, AcceptFollows, RecoverFollows
<1>2. ASSUME NEW t, NEW l, AddPlugin(t, l) PROVE Follows'
  BY <1>1, <1>2 DEF AddPlugin, AddTried
<1>3. ASSUME NEW t, NEW i, RemovePlugin(t, i) PROVE Follows'
  <2>1. order' = order /\ Swap(node', order)
    BY <1>3 DEF RemovePlugin
  <2> QED BY <2>1, SwapFollows
<1>4. ASSUME NEW t, NEW i, NEW j, MovePlugin(t, i, j) PROVE Follows'
  <2>1. order' = order /\ Swap(node', order)
    BY <1>4 DEF MovePlugin
  <2> QED BY <2>1, SwapFollows
<1>5. ASSUME NEW t, NEW i, NEW flag, CommitBypassFlag(t, i, flag) PROVE Follows'
  BY <1>5, AttemptFollows DEF CommitBypassFlag
<1>6. ASSUME NEW t, NEW i, NEW l, PrimaryLatencyChanged(t, i, l) PROVE Follows'
  BY <1>6, SettleFollows DEF PrimaryLatencyChanged, PrimarySettles
<1>7. ASSUME NEW t, NEW i, NEW l, ShadowLatencyChanged(t, i, l) PROVE Follows'
  BY <1>7, SettleFollows DEF ShadowLatencyChanged, ShadowPrepared, ShadowSettles
<1> QED BY <1>2, <1>3, <1>4, <1>5, <1>6, <1>7

LEMMA NextFollows == ASSUME NeatInv, Follows, [Next]_vars PROVE Follows'
<1>1. CASE Next
  BY <1>1, TracksFollow, PluginsFollow DEF Next
<1>2. CASE UNCHANGED vars
  <2>1. UNCHANGED <<node, order, graph, faults>>
    BY <1>2 DEF vars
  <2> QED BY <2>1 DEF Follows
<1> QED BY <1>1, <1>2

(* As long as nothing failed, the audio thread plays the tracks as they     *)
(* are, or they are beyond the planner's limits: whichever attempt of a     *)
(* command is refused, and however it is rolled back.                      *)
THEOREM GraphIsOfTheTracks == Spec => []GraphFollowsTracks
<1>1. Init => NeatInv /\ Follows
  <2>1. ASSUME Init PROVE Follows
    BY <2>1 DEF Init, LoadedEnsured, Loaded, Follows
  <2> QED BY <2>1, InitIsNeat
<1>2. NeatInv /\ Follows /\ [Next]_vars => NeatInv' /\ Follows'
  BY NeatStays, NextFollows
<1>3. Follows => GraphFollowsTracks
  BY DEF Follows, GraphFollowsTracks
<1> QED BY <1>1, <1>2, <1>3, PTL DEF Spec
-----------------------------------------------------------------------------
(***************************************************************************)
(* Folds. They are defined by recursion on the subsets of the indices; the *)
(* values the recursion goes through on the prefixes (suffixes) are w.     *)
(***************************************************************************)
LEMMA Counting ==
    ASSUME NEW m \in Nat, NEW I, 0 \in I, \A k \in 1..m : k - 1 \in I => k \in I
    PROVE  \A k \in 0..m : k \in I
<1> DEFINE Fails == {k \in 0..m : k \notin I}
<1> SUFFICES ASSUME Fails # {} PROVE FALSE
  OBVIOUS
<1>1. PICK x \in Fails : \A y \in Fails : x <= y
  <2>1. Fails \subseteq Nat
    OBVIOUS
  <2> HIDE DEF Fails
  <2> QED BY <2>1, LeastOne
<1>2. x \in 1..m /\ x \notin I /\ x - 1 \in 0..m /\ ~(x <= x - 1)
  BY <1>1
<1>3. x - 1 \in I
  <2>1. x - 1 \notin Fails
    <3> HIDE DEF Fails
    <3> QED BY <1>1, <1>2
  <2> QED BY <1>2, <2>1
<1> QED BY <1>2, <1>3

Picked(it, X, S, b, F, pick) ==
    /\ it \in [SUBSET X -> S]
    /\ \A s \in SUBSET X :
          it[s] = IF s = {} THEN b ELSE F[<<pick[s], it[s \ {pick[s]}]>>]

LEMMA SetIterates ==
    ASSUME NEW X, IsFiniteSet(X), NEW S, NEW b \in S, NEW F, F \in [X \X S -> S],
           NEW pick, \A s \in SUBSET X : s # {} => pick[s] \in s
    PROVE  \E it : Picked(it, X, S, b, F, pick)
<1> DEFINE Small(c) == {s \in SUBSET X : Cardinality(s) <= c}
           At(it, s) == IF s = {} THEN b ELSE F[<<pick[s], it[s \ {pick[s]}]>>]
           Good(c, it) == it \in [Small(c) -> S] /\ \A s \in Small(c) : it[s] = At(it, s)
           C == Cardinality(X)
           I == {c \in Nat : \E it : Good(c, it)}
<1>1. ASSUME NEW s \in SUBSET X
      PROVE  /\ Cardinality(s) \in Nat /\ Cardinality(s) <= C
             /\ Cardinality(s) = 0 <=> s = {}
             /\ s # {} => /\ pick[s] \in X /\ s \ {pick[s]} \in SUBSET X
                          /\ Cardinality(s \ {pick[s]}) = Cardinality(s) - 1
  <2>1. IsFiniteSet(s) /\ Cardinality(s) <= C /\ Cardinality(s) \in Nat
    BY FS_Subset, FS_CardinalityType
  <2>2. Cardinality(s) = 0 <=> s = {}
    BY <2>1, FS_EmptySet
  <2>3. ASSUME s # {} PROVE Cardinality(s \ {pick[s]}) = Cardinality(s) - 1
    <3>1. pick[s] \in s
      BY <2>3
    <3>2. Cardinality(s \ {pick[s]}) = IF pick[s] \in s THEN Cardinality(s) - 1 ELSE Cardinality(s)
      BY <2>1, FS_RemoveElement
    <3> QED BY <3>1, <3>2
  <2> QED BY <2>1, <2>2, <2>3
<1>2. C \in Nat
  BY FS_CardinalityType
<1>3. 0 \in I
  <2> DEFINE g == [s \in Small(0) |-> b]
  <2>1. \A s \in Small(0) : s = {}
    <3>1. \A s \in Small(0) : s \in SUBSET X /\ Cardinality(s) <= 0
      OBVIOUS
    <3> HIDE DEF Small
    <3>2. ASSUME NEW s \in Small(0) PROVE s = {}
      <4>1. Cardinality(s) \in Nat /\ (Cardinality(s) = 0 <=> s = {})
        BY <1>1, <3>1
      <4>2. Cardinality(s) <= 0
        BY <3>1
      <4> HIDE <1>1
      <4> QED BY <4>1, <4>2
    <3> QED BY <3>2
  <2> HIDE DEF Small
  <2>2. Good(0, g)
    BY <2>1
  <2> HIDE DEF Good, g
  <2> QED BY <2>2
<1>4. ASSUME NEW c \in 1..C, c - 1 \in I PROVE c \in I
  <2>0. PICK h : Good(c - 1, h)
    <3> HIDE DEF Good
    <3> QED BY <1>4
  <2>1. c \in Nat /\ c # 0
    BY <1>2
  <2>2. \A s : s \in Small(c) <=> s \in SUBSET X /\ Cardinality(s) <= c
    OBVIOUS
  <2>3. \A s : s \in Small(c - 1) <=> s \in SUBSET X /\ Cardinality(s) <= c - 1
    OBVIOUS
  <2> HIDE DEF Small, C
  <2>4. ASSUME NEW s \in Small(c), s # {} PROVE pick[s] \in X /\ s \ {pick[s]} \in Small(c - 1)
    <3>1. s \in SUBSET X /\ Cardinality(s) <= c
      BY <2>2
    <3>2. Cardinality(s) \in Nat /\ pick[s] \in X /\ s \ {pick[s]} \in SUBSET X
          /\ Cardinality(s \ {pick[s]}) = Cardinality(s) - 1
      BY <1>1, <2>4, <3>1
    <3> HIDE <1>1
    <3> QED BY <2>1, <2>3, <3>1, <3>2
  <2>5. ASSUME NEW s \in Small(c - 1) PROVE s \in Small(c)
    <3>1. s \in SUBSET X /\ Cardinality(s) <= c - 1
      BY <2>3
    <3>2. Cardinality(s) \in Nat
      BY <1>1, <3>1
    <3> QED BY <2>1, <2>2, <3>1, <3>2
  <2> DEFINE g == [s \in Small(c) |-> At(h, s)]
  <2>6. ASSUME NEW s \in Small(c) PROVE At(h, s) \in S
    <3>1. CASE s # {}
      <4>1. h[s \ {pick[s]}] \in S /\ pick[s] \in X
        BY <2>0, <2>4, <3>1
      <4>2. F[<<pick[s], h[s \ {pick[s]}]>>] \in S
        BY <4>1
      <4> QED BY <3>1, <4>2
    <3> QED BY <3>1
  <2>7. ASSUME NEW s \in Small(c - 1) PROVE g[s] = h[s]
    BY <2>0, <2>5
  <2>8. ASSUME NEW s \in Small(c) PROVE g[s] = At(g, s)
    <3>1. CASE s # {}
      <4>1. g[s \ {pick[s]}] = h[s \ {pick[s]}]
        BY <2>4, <2>7, <3>1
      <4>2. g[s] = At(h, s)
        OBVIOUS
      <4> HIDE DEF g
      <4> QED BY <3>1, <4>1, <4>2
    <3> QED BY <3>1
  <2>9. Good(c, g)
    <3> HIDE DEF At
    <3> QED BY <2>6, <2>8
  <2> HIDE DEF Good, g
  <2> QED BY <2>1, <2>9
<1>5. C \in I
  <2> HIDE DEF I
  <2>1. \A k \in 0..C : k \in I
    <3> HIDE DEF C
    <3> QED BY <1>2, <1>3, <1>4, Counting
  <2>2. C \in 0..C
    BY <1>2
  <2> QED BY <2>1, <2>2
<1>6. PICK it : Good(C, it)
  <2> HIDE DEF Good
  <2> QED BY <1>5
<1>7. \A s \in SUBSET X : s \in Small(C)
  BY <1>1
<1>8. SUBSET X = Small(C)
  BY <1>7
<1> QED BY <1>6, <1>8 DEF Picked

LEMMA Ends ==
    ASSUME NEW m \in Nat
    PROVE  /\ \A s \in SUBSET (1..m) : s # {} => Max(s) \in s /\ Min(s) \in s
           /\ \A k \in 1..m : Max(1..k) = k /\ (1..k) \ {k} = 1..(k - 1) /\ 1..k # {}
           /\ \A k \in 1..m : Min(k..m) = k /\ (k..m) \ {k} = (k + 1)..m /\ k..m # {}
<1>1. ASSUME NEW s \in SUBSET (1..m), s # {}
      PROVE  Max(s) \in s /\ \A i \in s : i <= Max(s)
  <2>1. PICK x \in s : \A i \in s : i <= x
    BY <1>1, LastOne
  <2>2. \A i \in s : x >= i
    BY <2>1
  <2>3. Max(s) \in s /\ \A i \in s : Max(s) >= i
    BY <2>1, <2>2 DEF Max
  <2> HIDE DEF Max
  <2> QED BY <2>3
<1>2. ASSUME NEW s \in SUBSET (1..m), s # {}
      PROVE  Min(s) \in s /\ \A i \in s : Min(s) <= i
  <2>1. s \subseteq Nat
    OBVIOUS
  <2> QED BY <1>2, <2>1, LeastOne
<1>3. ASSUME NEW k \in 1..m
      PROVE  Max(1..k) = k /\ (1..k) \ {k} = 1..(k - 1) /\ 1..k # {}
  <2>1. 1..k \in SUBSET (1..m) /\ k \in 1..k
    OBVIOUS
  <2>2. Max(1..k) \in 1..k /\ k <= Max(1..k)
    BY <1>1, <2>1
  <2>3. Max(1..k) = k
    BY <2>2
  <2> QED BY <2>1, <2>3
<1>4. ASSUME NEW k \in 1..m
      PROVE  Min(k..m) = k /\ (k..m) \ {k} = (k + 1)..m /\ k..m # {}
  <2>1. k..m \in SUBSET (1..m) /\ k \in k..m
    OBVIOUS
  <2>2. Min(k..m) \in k..m /\ Min(k..m) <= k
    BY <1>2, <2>1
  <2>3. Min(k..m) = k
    BY <2>2
  <2> QED BY <2>1, <2>3
<1> QED BY <1>1, <1>2, <1>3, <1>4

LEMMA IntervalIsFinite == ASSUME NEW m \in Nat PROVE IsFiniteSet(1..m) /\ m \in 0..m
<1>1. 1 \in Int /\ m \in Int
  OBVIOUS
<1> QED BY <1>1, FS_Interval

FoldedLeft(it, m, S, b, F) ==
    /\ it \in [SUBSET (1..m) -> S] /\ it[{}] = b
    /\ \A s \in SUBSET (1..m) :
          s # {} => /\ Max(s) \in 1..m /\ it[s \ {Max(s)}] \in S
                    /\ it[s] = F[<<Max(s), it[s \ {Max(s)}]>>]

LEMMA LeftIterates ==
    ASSUME NEW m \in Nat, NEW S, NEW b \in S, NEW F, F \in [(1..m) \X S -> S]
    PROVE  \E it : FoldedLeft(it, m, S, b, F)
<1> DEFINE X == 1..m
           pick == [s \in SUBSET X |-> Max(s)]
<1>1. \A s \in SUBSET X : pick[s] = Max(s)
  OBVIOUS
<1>2. \A s \in SUBSET X : s # {} => pick[s] \in s
  BY <1>1, Ends
<1>3. IsFiniteSet(X) /\ F \in [X \X S -> S]
  BY IntervalIsFinite
<1> HIDE DEF X, pick
<1>4. PICK it : Picked(it, X, S, b, F, pick)
  BY <1>2, <1>3, SetIterates
<1>5. ASSUME NEW s \in SUBSET X, s # {} PROVE Max(s) \in X /\ s \ {Max(s)} \in SUBSET X
  BY <1>1, <1>2, <1>5
<1> QED BY <1>1, <1>4, <1>5 DEF X, Picked, FoldedLeft

FoldedRight(it, m, S, b, F) ==
    /\ it \in [SUBSET (1..m) -> S] /\ it[{}] = b
    /\ \A s \in SUBSET (1..m) :
          s # {} => /\ Min(s) \in 1..m /\ it[s \ {Min(s)}] \in S
                    /\ it[s] = F[<<Min(s), it[s \ {Min(s)}]>>]

LEMMA RightIterates ==
    ASSUME NEW m \in Nat, NEW S, NEW b \in S, NEW F, F \in [(1..m) \X S -> S]
    PROVE  \E it : FoldedRight(it, m, S, b, F)
<1> DEFINE X == 1..m
           pick == [s \in SUBSET X |-> Min(s)]
<1>1. \A s \in SUBSET X : pick[s] = Min(s)
  OBVIOUS
<1>2. \A s \in SUBSET X : s # {} => pick[s] \in s
  BY <1>1, Ends
<1>3. IsFiniteSet(X) /\ F \in [X \X S -> S]
  BY IntervalIsFinite
<1> HIDE DEF X, pick
<1>4. PICK it : Picked(it, X, S, b, F, pick)
  BY <1>2, <1>3, SetIterates
<1>5. ASSUME NEW s \in SUBSET X, s # {} PROVE Min(s) \in X /\ s \ {Min(s)} \in SUBSET X
  BY <1>1, <1>2, <1>5
<1> QED BY <1>1, <1>4, <1>5 DEF X, Picked, FoldedRight

\* w goes through the values of a fold, from base b by steps F.
Walked(w, m, S, b, F) ==
    /\ \A k \in 0..m : w[k] \in S
    /\ w[0] = b
    /\ \A k \in 1..m : w[k - 1] \in S /\ w[k] = F[<<k, w[k - 1]>>]

WalkedBack(w, m, S, b, F) ==
    /\ \A k \in 0..m : w[k] \in S
    /\ w[0] = b
    /\ \A k \in 1..m : /\ m + 1 - k \in 1..m /\ w[k - 1] \in S
                       /\ w[k] = F[<<m + 1 - k, w[k - 1]>>]

LEMMA LeftWalked ==
    ASSUME NEW m \in Nat, NEW S, NEW b \in S, NEW F, F \in [(1..m) \X S -> S],
           NEW it, it[{}] = b,
           \A s \in SUBSET (1..m) : s # {} /\ Max(s) \in 1..m /\ it[s \ {Max(s)}] \in S
               => it[s] = F[<<Max(s), it[s \ {Max(s)}]>>]
    PROVE  Walked([k \in 0..m |-> it[1..k]], m, S, b, F)
<1> DEFINE w == [k \in 0..m |-> it[1..k]]
           Good == {k \in 0..m : w[k] \in S}
<1>1. w[0] = b /\ 0 \in 0..m
  <2>1. 1..0 = {} /\ 0 \in 0..m
    OBVIOUS
  <2> QED BY <2>1
<1>2. ASSUME NEW k \in 1..m, w[k - 1] \in S PROVE w[k] = F[<<k, w[k - 1]>>] /\ w[k] \in S
  <2>1. Max(1..k) = k /\ (1..k) \ {k} = 1..(k - 1) /\ 1..k # {}
    BY Ends
  <2>2. 1..k \in SUBSET (1..m) /\ k \in 0..m /\ k - 1 \in 0..m
    OBVIOUS
  <2>3. w[k] = it[1..k] /\ w[k - 1] = it[1..(k - 1)]
    BY <2>2
  <2> HIDE DEF w
  <2>4. w[k] = F[<<k, w[k - 1]>>]
    BY <1>2, <2>1, <2>2, <2>3
  <2> QED BY <1>2, <2>4
<1> HIDE DEF w
<1>3. 0 \in Good
  BY <1>1
<1>4. \A k \in 1..m : k - 1 \in Good => k \in Good
  <2>1. \A k \in 1..m : k \in 0..m
    OBVIOUS
  <2> QED BY <1>2, <2>1
<1> HIDE DEF Good
<1>5. \A k \in 0..m : k \in Good
  BY <1>3, <1>4, Counting
<1>6. \A k \in 0..m : w[k] \in S
  BY <1>5 DEF Good
<1>7. \A k \in 1..m : k - 1 \in 0..m
  OBVIOUS
<1>8. Walked(w, m, S, b, F)
  BY <1>1, <1>2, <1>6, <1>7 DEF Walked
<1> QED BY <1>8 DEF w

LEMMA RightWalked ==
    ASSUME NEW m \in Nat, NEW S, NEW b \in S, NEW F, F \in [(1..m) \X S -> S],
           NEW it, it[{}] = b,
           \A s \in SUBSET (1..m) : s # {} /\ Min(s) \in 1..m /\ it[s \ {Min(s)}] \in S
               => it[s] = F[<<Min(s), it[s \ {Min(s)}]>>]
    PROVE  WalkedBack([k \in 0..m |-> it[(m + 1 - k)..m]], m, S, b, F)
<1> DEFINE w == [k \in 0..m |-> it[(m + 1 - k)..m]]
           Good == {k \in 0..m : w[k] \in S}
<1>1. w[0] = b /\ 0 \in 0..m
  <2>1. (m + 1 - 0)..m = {} /\ 0 \in 0..m
    OBVIOUS
  <2> QED BY <2>1
<1>2. ASSUME NEW k \in 1..m, w[k - 1] \in S
      PROVE  m + 1 - k \in 1..m /\ w[k] = F[<<m + 1 - k, w[k - 1]>>] /\ w[k] \in S
  <2> DEFINE l == m + 1 - k
  <2>0. l \in 1..m /\ l + 1 = m + 1 - (k - 1)
    OBVIOUS
  <2>2. l..m \in SUBSET (1..m) /\ k \in 0..m /\ k - 1 \in 0..m
    OBVIOUS
  <2>3. w[k] = it[l..m] /\ w[k - 1] = it[(m + 1 - (k - 1))..m]
    BY <2>2
  <2> HIDE DEF w, l
  <2>1. Min(l..m) = l /\ (l..m) \ {l} = (l + 1)..m /\ l..m # {}
    BY <2>0, Ends
  <2>4. w[k] = F[<<l, w[k - 1]>>]
    BY <1>2, <2>0, <2>1, <2>2, <2>3
  <2> QED BY <1>2, <2>0, <2>4 DEF l
<1> HIDE DEF w
<1>3. 0 \in Good
  BY <1>1
<1>4. \A k \in 1..m : k - 1 \in Good => k \in Good
  <2>1. \A k \in 1..m : k \in 0..m
    OBVIOUS
  <2> QED BY <1>2, <2>1
<1> HIDE DEF Good
<1>5. \A k \in 0..m : k \in Good
  BY <1>3, <1>4, Counting
<1>6. \A k \in 0..m : w[k] \in S
  BY <1>5 DEF Good
<1>7. \A k \in 1..m : k - 1 \in 0..m
  OBVIOUS
<1>8. WalkedBack(w, m, S, b, F)
  BY <1>1, <1>2, <1>6, <1>7 DEF WalkedBack
<1> QED BY <1>8 DEF w
-----------------------------------------------------------------------------
(***************************************************************************)
(* The delays of the planner.                                              *)
(***************************************************************************)
LEMMA LargestIs ==
    ASSUME NEW I, IsFiniteSet(I), NEW f, \A i \in I : f[i] \in Nat
    PROVE  /\ Largest({f[i] : i \in I}) \in Nat
           /\ \A i \in I : f[i] <= Largest({f[j] : j \in I})
           /\ Largest({f[i] : i \in I}) \in {f[i] : i \in I} \cup {0}
<1>1. PICK k \in Nat : ExistsBijection(1..k, I)
  BY FS_NatBijection
<1>2. PICK g \in Bijection(1..k, I) : TRUE
  BY <1>1 DEF ExistsBijection
<1>3. (\A i \in 1..k : g[i] \in I) /\ (\A x \in I : \E i \in 1..k : g[i] = x)
  BY <1>2 DEF Bijection, Injection, Surjection
<1> DEFINE h == [i \in 1..k |-> f[g[i]]]
<1>4. \A i \in 1..k : h[i] \in Nat
  BY <1>3
<1>5. \A i \in 1..k : h[i] = f[g[i]]
  OBVIOUS
<1> HIDE DEF h
<1>6. PICK b \in Nat : \A i \in 1..k : h[i] <= b
  BY <1>4, FiniteIsBounded
<1> DEFINE S == {f[i] : i \in I}
<1>7. \A i \in I : f[i] <= b
  BY <1>3, <1>5, <1>6
<1>8. S \in SUBSET Nat /\ \A x \in S : x <= b
  BY <1>7
<1>9. \A i \in I : f[i] \in S
  OBVIOUS
<1> HIDE DEF S
<1>10. Largest(S) \in Nat /\ Largest(S) \in S \cup {0} /\ \A x \in S : x <= Largest(S)
  BY <1>8, LargestBounds
<1> QED BY <1>9, <1>10 DEF S

Adds(n, own, acc, t) == [acc EXCEPT ![t] = own[t] + Largest({acc[s] : s \in Into(n, t)})]

LEMMA AddsIs ==
    ASSUME NEW n, IsFiniteSet(DOMAIN n), NEW own \in [DOMAIN n -> Nat],
           NEW acc \in [DOMAIN n -> Nat], NEW t \in DOMAIN n
    PROVE  Adds(n, own, acc, t) \in [DOMAIN n -> Nat]
<1>1. IsFiniteSet(Into(n, t))
  <2>1. Into(n, t) \in SUBSET DOMAIN n
    BY DEF Into
  <2> QED BY <2>1, FS_Subset
<1>2. \A s \in Into(n, t) : acc[s] \in Nat
  BY DEF Into
<1>3. Largest({acc[s] : s \in Into(n, t)}) \in Nat
  BY <1>1, <1>2, LargestIs
<1> HIDE DEF Into, Largest
<1>4. own[t] + Largest({acc[s] : s \in Into(n, t)}) \in Nat
  BY <1>3
<1> QED BY <1>4 DEF Adds

Adding(w, n, q, own) ==
    /\ \A k \in 0..Len(q) : w[k] \in [DOMAIN n -> Nat]
    /\ \A k \in 1..Len(q) : w[k] = Adds(n, own, w[k - 1], q[k])
    /\ Accumulated(n, q, own) = w[Len(q)]
LEMMA AccumulatedIs ==
    ASSUME NEW n, IsFiniteSet(DOMAIN n), NEW own \in [DOMAIN n -> Nat], NEW q \in Seq(DOMAIN n)
    PROVE  \E w : Adding(w, n, q, own)
<1> DEFINE S == [DOMAIN n -> Nat]
           X == 1..Len(q)
           b == [t \in DOMAIN n |-> 0]
           F == [p \in X \X S |-> Adds(n, own, p[2], q[p[1]])]
           Recur(it) == [s \in SUBSET X |->
                           IF s = {} THEN b ELSE Adds(n, own, it[s \ {Max(s)}], q[Max(s)])]
           iter == CHOOSE it : it = Recur(it)
           w == [k \in 0..Len(q) |-> iter[1..k]]
<1>1. Len(q) \in Nat /\ DOMAIN q = X /\ \A i \in X : q[i] \in DOMAIN n
  OBVIOUS
<1>2. /\ b \in S /\ F \in [X \X S -> S]
      /\ \A i \in X, a \in S : F[<<i, a>>] = Adds(n, own, a, q[i])
  BY <1>1, AddsIs
<1>3. Accumulated(n, q, own) = iter[X]
  BY <1>1 DEF Accumulated, FoldLeft, MapThenFoldSet, Adds
<1> HIDE DEF S, b, F
<1>4. PICK it : FoldedLeft(it, Len(q), S, b, F)
  BY <1>1, <1>2, LeftIterates
<1>5. it = Recur(it)
  BY <1>2, <1>4 DEF FoldedLeft
<1>6. iter = Recur(iter)
  <2> HIDE DEF Recur
  <2> QED BY <1>5
<1> HIDE DEF iter
<1>7. iter[{}] = b
  BY <1>6
<1>8. \A s \in SUBSET X : s # {} /\ Max(s) \in X /\ iter[s \ {Max(s)}] \in S
          => iter[s] = F[<<Max(s), iter[s \ {Max(s)}]>>]
  BY <1>2, <1>6
<1>9. Walked(w, Len(q), S, b, F)
  <2> HIDE DEF Recur
  <2> QED BY <1>1, <1>2, <1>7, <1>8, LeftWalked
<1>10. w[Len(q)] = iter[X]
  BY <1>1
<1> HIDE DEF w, X
<1>11. \A k \in 1..Len(q) : w[k] = Adds(n, own, w[k - 1], q[k])
  BY <1>2, <1>9 DEF Walked, X
<1> QED BY <1>3, <1>9, <1>10, <1>11 DEF Walked, Adding, S

ReachesOn(n, reach, t) == IF Targets(n[t]) \cap reach # {} THEN reach \cup {t} ELSE reach

Reaching(w, n, q, seeds) ==
    /\ \A k \in 0..Len(q) : w[k] \in SUBSET DOMAIN n
    /\ w[0] = seeds
    /\ \A k \in 1..Len(q) : w[k] = ReachesOn(n, w[k - 1], q[Len(q) + 1 - k])
    /\ ReverseReach(n, q, seeds) = w[Len(q)]
LEMMA ReverseReachIs ==
    ASSUME NEW n, NEW q \in Seq(DOMAIN n), NEW seeds \in SUBSET DOMAIN n
    PROVE  \E w : Reaching(w, n, q, seeds)
<1> DEFINE S == SUBSET DOMAIN n
           X == 1..Len(q)
           F == [p \in X \X S |-> ReachesOn(n, p[2], q[p[1]])]
           Recur(it) == [s \in SUBSET X |->
                           IF s = {} THEN seeds ELSE ReachesOn(n, it[s \ {Min(s)}], q[Min(s)])]
           iter == CHOOSE it : it = Recur(it)
           w == [k \in 0..Len(q) |-> iter[(Len(q) + 1 - k)..Len(q)]]
<1>1. Len(q) \in Nat /\ DOMAIN q = X /\ \A i \in X : q[i] \in DOMAIN n
  OBVIOUS
<1>2. /\ seeds \in S /\ F \in [X \X S -> S]
      /\ \A i \in X, a \in S : F[<<i, a>>] = ReachesOn(n, a, q[i])
  BY <1>1 DEF ReachesOn
<1>3. ReverseReach(n, q, seeds) = iter[X]
  BY <1>1 DEF ReverseReach, FoldRight, MapThenFoldSet, ReachesOn
<1> HIDE DEF S, F
<1>4. PICK it : FoldedRight(it, Len(q), S, seeds, F)
  BY <1>1, <1>2, RightIterates
<1>5. it = Recur(it)
  BY <1>2, <1>4 DEF FoldedRight
<1>6. iter = Recur(iter)
  <2> HIDE DEF Recur
  <2> QED BY <1>5
<1> HIDE DEF iter
<1>7. iter[{}] = seeds
  BY <1>6
<1>8. \A s \in SUBSET X : s # {} /\ Min(s) \in X /\ iter[s \ {Min(s)}] \in S
          => iter[s] = F[<<Min(s), iter[s \ {Min(s)}]>>]
  BY <1>2, <1>6
<1>9. WalkedBack(w, Len(q), S, seeds, F)
  <2> HIDE DEF Recur
  <2> QED BY <1>1, <1>2, <1>7, <1>8, RightWalked
<1>10. w[Len(q)] = iter[X]
  <2>1. Len(q) \in 0..Len(q) /\ Len(q) + 1 - Len(q) = 1
    BY <1>1
  <2> QED BY <2>1
<1> HIDE DEF w, X
<1>11. \A k \in 1..Len(q) : w[k] = ReachesOn(n, w[k - 1], q[Len(q) + 1 - k])
  BY <1>2, <1>9 DEF WalkedBack, X
<1> QED BY <1>3, <1>9, <1>10, <1>11 DEF WalkedBack, Reaching, S

\* All tracks, each after those it gets something from.
Ordered(n, q) ==
    /\ IsFiniteSet(DOMAIN n) /\ \A t \in DOMAIN n : Targets(n[t]) \subseteq DOMAIN n
    /\ q \in Seq(DOMAIN n) /\ Once(q) /\ \A d \in DOMAIN n : Has(q, d)
    /\ \A j \in 1..Len(q) : Into(n, q[j]) \subseteq Before(q, j - 1)

LEMMA WalkIsOrdered ==
    ASSUME NEW n, NEW o, Wired(n, o), Loopless(n)
    PROVE  LET q == TopoOrder(n, o) IN Ordered(n, q) /\ Len(q) = Cardinality(DOMAIN n)
<1> DEFINE q == TopoOrder(n, o)
           k == Len(o)
<1>1. k \in Nat /\ IsFiniteSet(DOMAIN n) /\ Cardinality(DOMAIN n) = k
  BY WiredIsFinite
<1>2. Queue(n, q, k) /\ Len(q) = k
  BY WalkEnds, CycleCheckIsExact DEF GraphHasCycle
<1> HIDE DEF q, k
<1>3. q \in Seq(DOMAIN n) /\ Once(q) /\ Len(q) \in Nat
  BY <1>2, LenProperties DEF Queue
<1>4. \A d \in DOMAIN n : Has(q, d)
  BY <1>1, <1>2, WalkWithoutLoopIsWhole
<1>5. ASSUME NEW j \in 1..Len(q), NEW s \in Into(n, q[j]) PROVE s \in Before(q, j - 1)
  <2>1. PICK m \in 1..k : m < j /\ Unlocks(n, q, m, q[j])
    BY <1>2, <1>5 DEF Queue
  <2>2. PICK i \in 1..m : s = q[i]
    BY <1>5, <2>1 DEF Unlocks, Before
  <2>3. i \in 1..(j - 1)
    BY <1>1, <1>3, <2>1
  <2> QED BY <2>2, <2>3 DEF Before
<1>6. Ordered(n, q)
  BY <1>1, <1>3, <1>4, <1>5 DEF Ordered, Wired
<1> QED BY <1>1, <1>2, <1>6 DEF q, k

\* What the planner adds up: a track's own on top of the largest before it.
LEMMA PathIs ==
    ASSUME NEW n, NEW q, Ordered(n, q), NEW own \in [DOMAIN n -> Nat]
    PROVE  LET path == Accumulated(n, q, own)
           IN  /\ path \in [DOMAIN n -> Nat]
               /\ \A t \in DOMAIN n : path[t] = own[t] + Largest({path[s] : s \in Into(n, t)})
<1>0. q \in Seq(DOMAIN n) /\ Len(q) \in Nat /\ \A i \in 1..Len(q) : q[i] \in DOMAIN n
  BY LenProperties, ElementOfSeq DEF Ordered
<1>w. PICK w : Adding(w, n, q, own)
  BY <1>0, AccumulatedIs DEF Ordered
<1>1. /\ \A k \in 0..Len(q) : w[k] \in [DOMAIN n -> Nat]
      /\ \A k \in 1..Len(q) : w[k] = Adds(n, own, w[k - 1], q[k])
      /\ Accumulated(n, q, own) = w[Len(q)]
  BY <1>w DEF Adding
<1> DEFINE path == w[Len(q)]
           I == {k \in 0..Len(q) : \A i \in 1..k : w[k][q[i]] = w[i][q[i]]}
<1>2. 0 \in I
  BY <1>0
<1>3. ASSUME NEW k \in 1..Len(q), k - 1 \in I PROVE k \in I
  <2> SUFFICES ASSUME NEW i \in 1..k, i # k PROVE w[k][q[i]] = w[i][q[i]]
    BY <1>0
  <2>1. i \in 1..(k - 1) /\ i \in 1..Len(q)
    BY <1>0
  <2>2. q[i] # q[k]
    BY <1>0, <2>1 DEF Ordered, Once
  <2>3. w[k] = Adds(n, own, w[k - 1], q[k])
    BY <1>1
  <2>4. w[k][q[i]] = w[k - 1][q[i]]
    <3>1. w[k - 1] \in [DOMAIN n -> Nat] /\ q[i] \in DOMAIN n
      <4>1. k - 1 \in 0..Len(q)
        BY <1>0
      <4> QED BY <1>0, <1>1, <2>1, <4>1
    <3> QED BY <2>2, <2>3, <3>1 DEF Adds
  <2> QED BY <1>3, <2>1, <2>4
<1> HIDE DEF I
<1>4. \A k \in 0..Len(q) : k \in I
  BY <1>0, <1>2, <1>3, Counting
<1>5. ASSUME NEW k \in 0..Len(q), NEW i \in 1..k PROVE w[k][q[i]] = path[q[i]]
  <2>1. k \in I /\ Len(q) \in I /\ i \in 1..Len(q)
    <3>1. Len(q) \in 0..Len(q) /\ i \in 1..Len(q)
      BY <1>0
    <3> QED BY <1>4, <3>1
  <2> QED BY <2>1 DEF I
<1>6. path \in [DOMAIN n -> Nat]
  <2>1. Len(q) \in 0..Len(q)
    BY <1>0
  <2> QED BY <1>1, <2>1
<1>7. ASSUME NEW t \in DOMAIN n
      PROVE  path[t] = own[t] + Largest({path[s] : s \in Into(n, t)})
  <2>1. PICK j \in 1..Len(q) : q[j] = t
    BY DEF Ordered, Has
  <2>2. j \in 0..Len(q) /\ j \in 1..j /\ j - 1 \in 0..Len(q)
    BY <1>0
  <2>3. path[t] = w[j][t]
    BY <1>5, <2>1, <2>2
  <2>4. w[j][t] = own[t] + Largest({w[j - 1][s] : s \in Into(n, t)})
    <3>1. w[j] = Adds(n, own, w[j - 1], t) /\ w[j - 1] \in [DOMAIN n -> Nat]
      BY <1>1, <2>1, <2>2
    <3> QED BY <3>1 DEF Adds
  <2>5. \A s \in Into(n, t) : w[j - 1][s] = path[s]
    <3> SUFFICES ASSUME NEW s \in Into(n, t) PROVE w[j - 1][s] = path[s]
      OBVIOUS
    <3>1. PICK i \in 1..(j - 1) : s = q[i]
      BY <2>1 DEF Ordered, Before
    <3> HIDE DEF path
    <3> QED BY <1>5, <2>2, <3>1
  <2> HIDE DEF path
  <2>6. {w[j - 1][s] : s \in Into(n, t)} = {path[s] : s \in Into(n, t)}
    BY <2>5
  <2> QED BY <2>3, <2>4, <2>6
<1>8. Accumulated(n, q, own) = path
  BY <1>1
<1> HIDE DEF path
<1> QED BY <1>6, <1>7, <1>8

\* reverse_reach: with a track, all that give it something.
LEMMA ReachIsClosed ==
    ASSUME NEW n, NEW q, Ordered(n, q), NEW seeds \in SUBSET DOMAIN n
    PROVE  LET reach == ReverseReach(n, q, seeds)
           IN  /\ seeds \subseteq reach /\ reach \subseteq DOMAIN n
               /\ \A t \in reach : Into(n, t) \subseteq reach
<1> DEFINE L == Len(q)
<1>0. q \in Seq(DOMAIN n) /\ L \in Nat /\ \A i \in 1..L : q[i] \in DOMAIN n
  BY LenProperties, ElementOfSeq DEF Ordered
<1>w. PICK w : Reaching(w, n, q, seeds)
  BY <1>0, ReverseReachIs
<1>1. /\ \A k \in 0..L : w[k] \in SUBSET DOMAIN n
      /\ w[0] = seeds
      /\ \A k \in 1..L : w[k] = ReachesOn(n, w[k - 1], q[L + 1 - k])
      /\ ReverseReach(n, q, seeds) = w[L]
  BY <1>w DEF Reaching
<1> DEFINE Closed(k) == /\ seeds \subseteq w[k]
                        /\ \A j \in 1..L : j > L - k /\ Targets(n[q[j]]) \cap w[k] # {} => q[j] \in w[k]
           I == {k \in 0..L : Closed(k)}
<1> HIDE DEF L
<1>2. 0 \in I
  <2>1. \A j \in 1..L : ~(j > L - 0)
    BY <1>0
  <2> QED BY <1>0, <1>1, <2>1
<1>3. ASSUME NEW k \in 1..L, k - 1 \in I PROVE k \in I
  <2> DEFINE l == L + 1 - k
  <2>1. l \in 1..L /\ k \in 0..L
    BY <1>0
  <2>2. w[k] = ReachesOn(n, w[k - 1], q[l])
    BY <1>1
  <2>3. Closed(k - 1)
    BY <1>3
  <2>4. ASSUME NEW j \in 1..L, j > L - k, Targets(n[q[j]]) \cap w[k] # {} PROVE q[j] \in w[k]
    <3>1. CASE j = l
      <4>1. q[l] \notin Targets(n[q[l]])
        <5> SUFFICES ASSUME q[l] \in Targets(n[q[l]]) PROVE FALSE
          OBVIOUS
        <5>1. q[l] \in Into(n, q[l])
          BY <1>0, <2>1 DEF Into
        <5>2. PICK i \in 1..(l - 1) : q[l] = q[i]
          BY <2>1, <5>1 DEF Ordered, Before, L
        <5>3. i \in 1..L /\ i # l
          BY <1>0, <2>1, <5>2
        <5> QED BY <2>1, <5>2, <5>3 DEF Ordered, Once, L
      <4> HIDE DEF l
      <4> QED BY <2>2, <2>4, <3>1, <4>1 DEF ReachesOn
    <3>2. CASE j # l
      <4>1. j > L - (k - 1) /\ j > l
        BY <1>0, <2>4, <3>2
      <4>2. q[l] \notin Targets(n[q[j]])
        <5> SUFFICES ASSUME q[l] \in Targets(n[q[j]]) PROVE FALSE
          OBVIOUS
        <5>1. q[j] \in Into(n, q[l])
          BY <1>0 DEF Into
        <5>2. PICK i \in 1..(l - 1) : q[j] = q[i]
          BY <2>1, <5>1 DEF Ordered, Before, L
        <5>3. i \in 1..L /\ i # j
          BY <1>0, <2>1, <4>1, <5>2
        <5> QED BY <5>2, <5>3 DEF Ordered, Once, L
      <4> HIDE DEF l
      <4>3. Targets(n[q[j]]) \cap w[k - 1] # {}
        BY <2>2, <2>4, <4>2 DEF ReachesOn
      <4>4. q[j] \in w[k - 1]
        BY <2>3, <4>1, <4>3
      <4> QED BY <2>2, <4>4 DEF ReachesOn
    <3> QED BY <3>1, <3>2
  <2>5. seeds \subseteq w[k]
    BY <2>2, <2>3 DEF ReachesOn
  <2> QED BY <2>1, <2>4, <2>5
<1> HIDE DEF I
<1>4. \A k \in 0..L : k \in I
  BY <1>0, <1>2, <1>3, Counting
<1>5. L \in 0..L /\ L \in I
  <2>1. L \in 0..L
    BY <1>0
  <2> QED BY <1>4, <2>1
<1>6. Closed(L)
  BY <1>5 DEF I
<1>7. ASSUME NEW t \in w[L], NEW s \in Into(n, t) PROVE s \in w[L]
  <2>1. s \in DOMAIN n /\ t \in Targets(n[s])
    BY <1>7 DEF Into
  <2>2. PICK j \in 1..L : q[j] = s
    BY <2>1 DEF Ordered, Has, L
  <2>3. j > L - L
    BY <1>0
  <2> QED BY <1>6, <1>7, <2>1, <2>2, <2>3
<1> QED BY <1>1, <1>5, <1>6, <1>7 DEF L

LEMMA ChainLatencyIs ==
    ASSUME NEW c, Len(c) \in Nat, DOMAIN c = 1..Len(c),
           \A i \in 1..Len(c) : PrimaryLatency(c[i]) \in Nat
    PROVE  \E w : /\ \A k \in 0..Len(c) : w[k] \in Nat
                  /\ w[0] = 0 /\ w[Len(c)] = ChainLatency(c)
                  /\ \A k \in 1..Len(c) : w[k] = w[k - 1] + PrimaryLatency(c[k])
<1> DEFINE S == Nat
           b == 0
           X == 1..Len(c)
           Op(a, s) == a + PrimaryLatency(s)
           F == [p \in X \X S |-> Op(p[2], c[p[1]])]
           Recur(it) == [s \in SUBSET X |->
                           IF s = {} THEN b ELSE Op(it[s \ {Max(s)}], c[Max(s)])]
           iter == CHOOSE it : it = Recur(it)
           w == [k \in 0..Len(c) |-> iter[1..k]]
<1>1. Len(c) \in Nat /\ DOMAIN c = X
  OBVIOUS
<1>2. /\ b \in S /\ F \in [X \X S -> S]
      /\ \A i \in X, a \in S : F[<<i, a>>] = Op(a, c[i])
  BY <1>1
<1>3. ChainLatency(c) = iter[X]
  BY <1>1 DEF ChainLatency, FoldLeft, MapThenFoldSet
<1> HIDE DEF F, S, b
<1>4. PICK it : FoldedLeft(it, Len(c), S, b, F)
  BY <1>1, <1>2, LeftIterates
<1> HIDE DEF Op
<1>5. it = Recur(it)
  BY <1>2, <1>4 DEF FoldedLeft
<1>6. iter = Recur(iter)
  <2> HIDE DEF Recur
  <2> QED BY <1>5
<1> HIDE DEF iter
<1>7. iter[{}] = b
  BY <1>6
<1>8. \A s \in SUBSET X : s # {} /\ Max(s) \in X /\ iter[s \ {Max(s)}] \in S
          => iter[s] = F[<<Max(s), iter[s \ {Max(s)}]>>]
  BY <1>2, <1>6
<1>9. Walked(w, Len(c), S, b, F)
  <2> HIDE DEF Recur
  <2> QED BY <1>1, <1>2, <1>7, <1>8, LeftWalked
<1>10. w[Len(c)] = iter[X]
  BY <1>1
<1> HIDE DEF w, X
<1>11. \A k \in 1..Len(c) : w[k] = Op(w[k - 1], c[k])
  BY <1>2, <1>9 DEF Walked, X
<1> QED BY <1>3, <1>9, <1>10, <1>11 DEF Walked, Op, S, b

DelayOn(delays, e) == IF e \in DOMAIN delays THEN delays[e] ELSE 0

\* Every way into a track that a full-PDC output hears is as late as the latest.
LEMMA DelaysMeet ==
    ASSUME NEW n, NEW q, Ordered(n, q), NEW path \in [DOMAIN n -> Nat],
           NEW t \in ReverseReach(n, q, OutputsOf(n, "full")),
           NEW e \in Edges(n), e.to = t, NEW delays, delays = EdgeDelays(n, q, path)
    PROVE  /\ DelayOn(delays, e) \in Nat
           /\ path[e.from] + DelayOn(delays, e) = Largest({path[s] : s \in Into(n, t)})
<1> DEFINE D == DOMAIN n
           I == Into(n, t)
           E == {f \in Edges(n) : f.to = t}
           top == Largest({path[s] : s \in I})
           reach == ReverseReach(n, q, OutputsOf(n, "full"))
<1>1. e.from \in D /\ e.from \in I /\ t \in D
  BY DEF Edges, Into, Targets
<1>2. IsFiniteSet(D) /\ I \in SUBSET D /\ IsFiniteSet(I)
  <2>1. I \in SUBSET D
    BY DEF Into
  <2> QED BY <2>1, FS_Subset DEF Ordered
<1>3. /\ top \in Nat /\ \A s \in I : path[s] <= top
      /\ top \in {path[s] : s \in I} \cup {0}
  <2>1. \A s \in I : path[s] \in Nat
    BY <1>2
  <2> HIDE DEF I
  <2> QED BY <1>2, <2>1, LargestIs
<1>4. path[e.from] \in Nat /\ path[e.from] <= top
  BY <1>1, <1>3
<1>5. e \in DOMAIN delays <=> t \in Merges(n, q)
  BY DEF EdgeDelays
<1>6. CASE t \in Merges(n, q)
  <2>1. e \in DOMAIN delays /\ delays[e] = top - path[e.from]
    BY <1>5, <1>6 DEF EdgeDelays
  <2> HIDE DEF top
  <2>2. delays[e] \in Nat /\ path[e.from] + delays[e] = top
    BY <1>3, <1>4, <2>1
  <2> QED BY <2>1, <2>2 DEF DelayOn, top
<1>7. CASE t \notin Merges(n, q)
  <2>1. ~(Cardinality(E) > 1)
    BY <1>7 DEF Merges
  <2>2. IsFiniteSet(E)
    <3> DEFINE T == D \X BOOLEAN
               f == [x \in E |-> <<x.from, x.aux>>]
    <3>1. IsFiniteSet(T)
      <4>1. IsFiniteSet(BOOLEAN)
        <5>1. BOOLEAN = ({} \cup {TRUE}) \cup {FALSE}
          OBVIOUS
        <5> QED BY <5>1, FS_EmptySet, FS_AddElement
      <4> QED BY <1>2, <4>1, FS_Product
    <3>2. f \in [E -> T]
      BY DEF Edges
    <3>3. \A x, y \in E : f[x] = f[y] => x = y
      <4> SUFFICES ASSUME NEW x \in E, NEW y \in E, f[x] = f[y] PROVE x = y
        OBVIOUS
      <4>1. x.from = y.from /\ x.aux = y.aux /\ x.to = y.to
        OBVIOUS
      <4>2. x \in [from : D, to : D, aux : BOOLEAN] /\ y \in [from : D, to : D, aux : BOOLEAN]
        BY DEF Edges
      <4> QED BY <4>1, <4>2
    <3> HIDE DEF f, T, E
    <3>4. f \in Injection(E, T)
      BY <3>2, <3>3 DEF Injection, IsInjective
    <3> QED BY <3>1, <3>4, FS_Injection
  <2>3. E = {e}
    <3>1. e \in E
      OBVIOUS
    <3> HIDE DEF E
    <3>2. Cardinality(E) \in Nat /\ Cardinality(E) # 0
      BY <2>2, <3>1, FS_CardinalityType, FS_EmptySet
    <3>3. Cardinality(E) = 1
      BY <2>1, <3>2
    <3>4. PICK x : E = {x}
      BY <2>2, <3>3, FS_Singleton
    <3> QED BY <3>1, <3>4
  <2>4. ASSUME NEW s \in I PROVE s = e.from
    <3>1. s \in D /\ (t \in n[s].dests \/ t \in n[s].sidechain)
      BY DEF Into, Targets
    <3>2. PICK aux \in BOOLEAN : t \in IF aux THEN n[s].sidechain ELSE n[s].dests
      BY <3>1
    <3> DEFINE f == [from |-> s, to |-> t, aux |-> aux]
    <3>3. f \in [from : D, to : D, aux : BOOLEAN] /\ f.from = s /\ f.to = t /\ f.aux = aux
      BY <1>1, <3>1
    <3> HIDE DEF f
    <3>4. f \in E
      BY <3>2, <3>3 DEF Edges
    <3> QED BY <2>3, <3>3, <3>4
  <2>5. top = path[e.from]
    <3> HIDE DEF top
    <3>1. top = path[e.from] \/ top = 0
      BY <1>3, <2>4
    <3> QED BY <1>3, <1>4, <3>1
  <2>6. DelayOn(delays, e) = 0
    BY <1>5, <1>7 DEF DelayOn
  <2> HIDE DEF top
  <2> QED BY <1>4, <2>5, <2>6 DEF top
<1> QED BY <1>6, <1>7

Own(n) == [t \in DOMAIN n |-> ChainLatency(n[t].chain)]
PathOf(n, q) == Accumulated(n, q, Own(n))

LEMMA OwnIs == ASSUME NEW n, Whole(n) PROVE Own(n) \in [DOMAIN n -> Nat]
<1> SUFFICES ASSUME NEW t \in DOMAIN n PROVE ChainLatency(n[t].chain) \in Nat
  BY DEF Own
<1> DEFINE c == n[t].chain
<1>1. Len(c) \in Nat /\ DOMAIN c = 1..Len(c)
  BY WholeIsShaped, ChainsAreSequences
<1>2. \A i \in 1..Len(c) : PrimaryLatency(c[i]) \in Nat
  BY <1>1 DEF Whole, IsSlot, PrimaryLatency
<1> HIDE DEF c
<1>3. PICK w : /\ \A k \in 0..Len(c) : w[k] \in Nat
               /\ w[Len(c)] = ChainLatency(c)
  BY <1>1, <1>2, ChainLatencyIs
<1>4. Len(c) \in 0..Len(c)
  BY <1>1
<1> QED BY <1>3, <1>4 DEF c

LEMMA PlanIs ==
    ASSUME NEW n, NEW o
    PROVE  LET q == TopoOrder(n, o)
               plan == PlanRoutes(n, o)
               delays == EdgeDelays(n, q, PathOf(n, q))
           IN  /\ plan.topo = q /\ plan.delays = delays
               /\ plan.tracks = PlanTracks(n, q, delays)
               /\ \A t \in OutputsOf(n, "full") : plan.total[t] = PathOf(n, q)[t]
               /\ plan.ok => Len(q) = Cardinality(DOMAIN n)
<1> DEFINE q == TopoOrder(n, o)
           path == PathOf(n, q)
           delays == EdgeDelays(n, q, path)
           tracks == PlanTracks(n, q, delays)
<1>1. PlanRoutes(n, o) = PlanSlots(n, q, path, delays, tracks)
  BY DEF PlanRoutes, PlanPaths, PathOf, Own
<1> HIDE DEF q, path, delays, tracks
<1> DEFINE plan == PlanSlots(n, q, path, delays, tracks)
<1>2. /\ plan.topo = q /\ plan.delays = delays /\ plan.tracks = tracks
      /\ \A t \in OutputsOf(n, "full") : plan.total[t] = path[t]
      /\ plan.ok => Len(q) = Cardinality(DOMAIN n)
  BY DEF PlanSlots, PlanPluginDelay, OutputsOf
<1> HIDE DEF plan
<1> QED BY <1>1, <1>2 DEF q, path, delays, tracks, plan

(* The planner meets what it is for: wherever a full-PDC output listens,   *)
(* each way in (send or sidechain), with the delay planned for it, is as   *)
(* late as every other, and the total of the output is how late it all is, *)
(* whatever the tracks, their order and the latencies of their plugins.    *)
THEOREM PlanIsAligned ==
    ASSUME NEW n, NEW o, Wired(n, o), Loopless(n), Whole(n)
    PROVE  LET plan == PlanRoutes(n, o)
               path == PathOf(n, plan.topo)
               full == OutputsOf(n, "full")
           IN  /\ \A t \in ReverseReach(n, plan.topo, full) : \A e \in Edges(n) : e.to = t =>
                     /\ DelayOn(plan.delays, e) \in Nat
                     /\ path[e.from] + DelayOn(plan.delays, e) + ChainLatency(n[t].chain) = path[t]
               /\ \A t \in full : plan.total[t] = path[t]
<1> DEFINE q == TopoOrder(n, o)
           path == PathOf(n, q)
           delays == EdgeDelays(n, q, path)
<1>1. Ordered(n, q)
  BY WalkIsOrdered
<1> HIDE DEF q
<1>2. /\ path \in [DOMAIN n -> Nat]
      /\ \A t \in DOMAIN n : path[t] = ChainLatency(n[t].chain) + Largest({path[s] : s \in Into(n, t)})
      /\ \A t \in DOMAIN n : ChainLatency(n[t].chain) \in Nat
  <2>1. Own(n) \in [DOMAIN n -> Nat] /\ \A t \in DOMAIN n : Own(n)[t] = ChainLatency(n[t].chain)
    BY OwnIs DEF Own
  <2> HIDE DEF Own
  <2>2. /\ path \in [DOMAIN n -> Nat]
        /\ \A t \in DOMAIN n : path[t] = Own(n)[t] + Largest({path[s] : s \in Into(n, t)})
    BY <1>1, <2>1, PathIs DEF PathOf
  <2> QED BY <2>1, <2>2
<1> HIDE DEF path
<1>3. ASSUME NEW t \in ReverseReach(n, q, OutputsOf(n, "full")), NEW e \in Edges(n), e.to = t
      PROVE  /\ DelayOn(delays, e) \in Nat
             /\ path[e.from] + DelayOn(delays, e) + ChainLatency(n[t].chain) = path[t]
  <2>1. /\ DelayOn(delays, e) \in Nat
        /\ path[e.from] + DelayOn(delays, e) = Largest({path[s] : s \in Into(n, t)})
    BY <1>1, <1>2, <1>3, DelaysMeet
  <2>2. t \in DOMAIN n /\ e.from \in DOMAIN n
    BY <1>3 DEF Edges
  <2>3. path[e.from] \in Nat
    BY <1>2, <2>2
  <2> HIDE DEF delays
  <2> QED BY <1>2, <2>1, <2>2, <2>3
<1> DEFINE plan == PlanRoutes(n, o)
<1>4. plan.topo = q /\ plan.delays = delays /\ \A t \in OutputsOf(n, "full") : plan.total[t] = path[t]
  BY PlanIs DEF q, path
<1> HIDE DEF plan, delays
<1> QED BY <1>3, <1>4 DEF plan, path
-----------------------------------------------------------------------------
(***************************************************************************)
(* A chain: what the planner decides for each slot, and what its plugins   *)
(* make of a signal.                                                       *)
(***************************************************************************)
IsChain(c) == Len(c) \in Nat /\ DOMAIN c = 1..Len(c) /\ \A i \in 1..Len(c) : IsSlot(c[i])

LEMMA WholeHasChains == ASSUME NEW n, Whole(n), NEW t \in DOMAIN n PROVE IsChain(n[t].chain)
<1>1. Len(n[t].chain) \in Nat /\ DOMAIN n[t].chain = 1..Len(n[t].chain)
  BY WholeIsShaped, ChainsAreSequences
<1> QED BY <1>1 DEF IsChain, Whole

\* PlanChain's step.
Planned(p, s, required) ==
    [slots |-> Append(p.slots, [primary |-> PrimaryAction(s),
                                monitor |-> MonitorAction(s, required, p.split),
                                shadow |-> ShadowPlan(s, required, p.split)]),
     split |-> p.split \/ Splits(s, required),
     latency |-> p.latency + MonitorLatency(s, required, MonitorAction(s, required, p.split))]

Actions == {"process", "dry", "drain", "reuse"}
SlotPlans == [primary : Actions, monitor : Actions,
              shadow : {"none", "create", "reuse", "release"}]
ChainPlans == [slots : Seq(SlotPlans), split : BOOLEAN, latency : Nat]

Planning(w, c, required, before) ==
    /\ \A k \in 0..Len(c) : w[k] \in ChainPlans
    /\ w[0] = [slots |-> <<>>, split |-> before, latency |-> 0]
    /\ \A k \in 1..Len(c) : w[k] = Planned(w[k - 1], c[k], required)
    /\ PlanChain(c, required, before) = w[Len(c)]

LEMMA PlannedIs ==
    ASSUME NEW s, IsSlot(s), NEW required \in BOOLEAN, NEW p \in ChainPlans
    PROVE  Planned(p, s, required) \in ChainPlans
<1>1. MonitorAction(s, required, p.split) \in Actions
  BY DEF MonitorAction, Actions
<1>2. PrimaryAction(s) \in Actions
  BY DEF PrimaryAction, Actions
<1>3. ShadowPlan(s, required, p.split) \in {"none", "create", "reuse", "release"}
  BY DEF ShadowPlan
<1>4. MonitorLatency(s, required, MonitorAction(s, required, p.split)) \in Nat
  BY DEF MonitorLatency, IsSlot
<1>5. Append(p.slots, [primary |-> PrimaryAction(s), monitor |-> MonitorAction(s, required, p.split),
                       shadow |-> ShadowPlan(s, required, p.split)]) \in Seq(SlotPlans)
  <2>1. [primary |-> PrimaryAction(s), monitor |-> MonitorAction(s, required, p.split),
         shadow |-> ShadowPlan(s, required, p.split)] \in SlotPlans
    BY <1>1, <1>2, <1>3 DEF SlotPlans
  <2>2. p.slots \in Seq(SlotPlans)
    BY DEF ChainPlans
  <2> QED BY <2>1, <2>2, AppendProperties
<1>6. p.latency \in Nat
  BY DEF ChainPlans
<1>7. p.latency + MonitorLatency(s, required, MonitorAction(s, required, p.split)) \in Nat
  BY <1>4, <1>6
<1>8. (p.split \/ Splits(s, required)) \in BOOLEAN
  OBVIOUS
<1> QED BY <1>5, <1>7, <1>8 DEF Planned, ChainPlans

LEMMA PlannedHas ==
    ASSUME NEW p, NEW s, NEW required
    PROVE  LET next == Planned(p, s, required)
           IN  /\ next.slots = Append(p.slots, [primary |-> PrimaryAction(s),
                                   monitor |-> MonitorAction(s, required, p.split),
                                   shadow |-> ShadowPlan(s, required, p.split)])
               /\ p.split \/ Splits(s, required) => next.split = TRUE
               /\ ~(p.split \/ Splits(s, required)) => next.split = FALSE
<1>1. CASE p.split \/ Splits(s, required)
  BY <1>1 DEF Planned
<1>2. CASE ~(p.split \/ Splits(s, required))
  BY <1>2 DEF Planned
<1> QED BY <1>1, <1>2

LEMMA PlanningIs ==
    ASSUME NEW c, IsChain(c), NEW required \in BOOLEAN, NEW before \in BOOLEAN
    PROVE  \E w : Planning(w, c, required, before)
<1> DEFINE S == ChainPlans
           b == [slots |-> <<>>, split |-> before, latency |-> 0]
           X == 1..Len(c)
           Op(a, s) == Planned(a, s, required)
           F == [p \in X \X S |-> Op(p[2], c[p[1]])]
           Recur(it) == [s \in SUBSET X |->
                           IF s = {} THEN b ELSE Op(it[s \ {Max(s)}], c[Max(s)])]
           iter == CHOOSE it : it = Recur(it)
           w == [k \in 0..Len(c) |-> iter[1..k]]
<1>1. Len(c) \in Nat /\ DOMAIN c = X /\ \A i \in X : IsSlot(c[i])
  BY DEF IsChain
<1>2. /\ b \in S /\ F \in [X \X S -> S]
      /\ \A i \in X, a \in S : F[<<i, a>>] = Op(a, c[i])
  <2>1. b \in S
    BY DEF ChainPlans
  <2>2. \A i \in X, a \in S : Op(a, c[i]) \in S
    BY <1>1, PlannedIs
  <2> HIDE DEF S, Op
  <2> QED BY <2>1, <2>2
<1>3. PlanChain(c, required, before) = iter[X]
  BY <1>1 DEF PlanChain, FoldLeft, MapThenFoldSet, Planned
<1> HIDE DEF F, S, b
<1>4. PICK it : FoldedLeft(it, Len(c), S, b, F)
  BY <1>1, <1>2, LeftIterates
<1> HIDE DEF Op
<1>5. it = Recur(it)
  BY <1>2, <1>4 DEF FoldedLeft
<1>6. iter = Recur(iter)
  <2> HIDE DEF Recur
  <2> QED BY <1>5
<1> HIDE DEF iter
<1>7. iter[{}] = b
  BY <1>6
<1>8. \A s \in SUBSET X : s # {} /\ Max(s) \in X /\ iter[s \ {Max(s)}] \in S
          => iter[s] = F[<<Max(s), iter[s \ {Max(s)}]>>]
  BY <1>2, <1>6
<1>9. Walked(w, Len(c), S, b, F)
  <2> HIDE DEF Recur
  <2> QED BY <1>1, <1>2, <1>7, <1>8, LeftWalked
<1>10. w[Len(c)] = iter[X]
  BY <1>1
<1> HIDE DEF w, X
<1>11. \A k \in 1..Len(c) : w[k] = Op(w[k - 1], c[k])
  BY <1>2, <1>9 DEF Walked, X
<1> QED BY <1>3, <1>9, <1>10, <1>11 DEF Walked, Planning, Op, S, b

\* sp: how the paths have parted after each slot.
Parting(sp, c, required, before, p) ==
    /\ sp \in [0..Len(c) -> BOOLEAN] /\ sp[0] = before /\ p.split = sp[Len(c)]
    /\ \A k \in 1..Len(c) : sp[k] <=> sp[k - 1] \/ Splits(c[k], required)
    /\ Len(p.slots) = Len(c) /\ DOMAIN p.slots = 1..Len(c)
    /\ \A k \in 1..Len(c) :
          /\ p.slots[k].primary = PrimaryAction(c[k])
          /\ \A parted \in BOOLEAN : sp[k - 1] = parted =>
                /\ p.slots[k].monitor = MonitorAction(c[k], required, parted)
                /\ p.slots[k].shadow = ShadowPlan(c[k], required, parted)

LEMMA PlanChainParts ==
    ASSUME NEW c, IsChain(c), NEW required \in BOOLEAN, NEW before \in BOOLEAN
    PROVE  \E sp : Parting(sp, c, required, before, PlanChain(c, required, before))
<1> DEFINE L == Len(c)
<1>0. L \in Nat
  BY DEF IsChain
<1>w. PICK w : Planning(w, c, required, before)
  BY PlanningIs
<1>1. /\ \A k \in 0..L : w[k] \in ChainPlans
      /\ w[0] = [slots |-> <<>>, split |-> before, latency |-> 0]
      /\ \A k \in 1..L : w[k] = Planned(w[k - 1], c[k], required)
      /\ PlanChain(c, required, before) = w[L]
  BY <1>w DEF Planning
<1> HIDE DEF L
<1> DEFINE sp == [k \in 0..L |-> w[k].split]
           Entry(i) == [primary |-> PrimaryAction(c[i]),
                        monitor |-> MonitorAction(c[i], required, w[i - 1].split),
                        shadow |-> ShadowPlan(c[i], required, w[i - 1].split)]
           Good(k) == Len(w[k].slots) = k /\ \A i \in 1..k : w[k].slots[i] = Entry(i)
           I == {k \in 0..L : Good(k)}
<1>2. 0 \in I
  BY <1>0, <1>1
<1>3. ASSUME NEW k \in 1..L, k - 1 \in I PROVE k \in I
  <2>1. w[k].slots = Append(w[k - 1].slots, Entry(k))
    <3> DEFINE next == Planned(w[k - 1], c[k], required)
    <3>1. w[k] = next
      BY <1>1
    <3>2. next.slots = Append(w[k - 1].slots, Entry(k))
      BY PlannedHas
    <3> HIDE DEF next, Entry
    <3> QED BY <3>1, <3>2
  <2>2. k \in 0..L /\ k - 1 \in 0..L
    BY <1>0
  <2>3. w[k - 1].slots \in Seq(SlotPlans) /\ w[k].slots \in Seq(SlotPlans)
    BY <1>1, <2>2 DEF ChainPlans
  <2>4. Good(k - 1)
    BY <1>3
  <2> HIDE DEF Entry
  <2>5. /\ Len(w[k].slots) = Len(w[k - 1].slots) + 1
        /\ w[k].slots[Len(w[k - 1].slots) + 1] = Entry(k)
        /\ \A i \in 1..Len(w[k - 1].slots) : w[k].slots[i] = w[k - 1].slots[i]
    BY <2>1, <2>3
  <2>6. \A i \in 1..k : i = k \/ i \in 1..(k - 1)
    BY <1>0
  <2>7. k - 1 + 1 = k
    BY <1>0
  <2>8. Good(k)
    BY <2>4, <2>5, <2>6, <2>7
  <2> HIDE DEF Good
  <2> QED BY <2>2, <2>8
<1>4. L \in I
  <2> HIDE DEF I
  <2>1. \A k \in 0..L : k \in I
    BY <1>0, <1>2, <1>3, Counting
  <2>2. L \in 0..L
    BY <1>0
  <2> QED BY <2>1, <2>2
<1>5. Good(L)
  BY <1>4
<1> HIDE DEF Good, I
<1>6. sp \in [0..L -> BOOLEAN] /\ sp[0] = before /\ w[L].split = sp[L]
  <2>1. \A k \in 0..L : w[k].split \in BOOLEAN
    BY <1>1 DEF ChainPlans
  <2>2. L \in 0..L /\ 0 \in 0..L
    BY <1>0
  <2> QED BY <1>1, <2>1, <2>2
<1>7. ASSUME NEW k \in 1..L PROVE sp[k] <=> sp[k - 1] \/ Splits(c[k], required)
  <2>1. k \in 0..L /\ k - 1 \in 0..L
    BY <1>0
  <2>2. w[k].split <=> w[k - 1].split \/ Splits(c[k], required)
    <3> DEFINE next == Planned(w[k - 1], c[k], required)
    <3>1. w[k] = next
      BY <1>1
    <3>2. /\ w[k - 1].split \/ Splits(c[k], required) => next.split = TRUE
          /\ ~(w[k - 1].split \/ Splits(c[k], required)) => next.split = FALSE
      BY PlannedHas
    <3> HIDE DEF next
    <3> QED BY <3>1, <3>2
  <2> QED BY <2>1, <2>2
<1>8. \A k \in 1..L : w[k - 1].split = sp[k - 1]
  <2>1. \A k \in 1..L : k - 1 \in 0..L
    BY <1>0
  <2> QED BY <2>1
<1>9. Len(w[L].slots) = L /\ DOMAIN w[L].slots = 1..L
  <2>1. w[L].slots \in Seq(SlotPlans)
    <3>1. L \in 0..L
      BY <1>0
    <3> QED BY <1>1, <3>1 DEF ChainPlans
  <2> QED BY <1>5, <2>1 DEF Good
<1>10. \A k \in 1..L :
          /\ w[L].slots[k].primary = PrimaryAction(c[k])
          /\ \A parted \in BOOLEAN : sp[k - 1] = parted =>
                /\ w[L].slots[k].monitor = MonitorAction(c[k], required, parted)
                /\ w[L].slots[k].shadow = ShadowPlan(c[k], required, parted)
  <2> SUFFICES ASSUME NEW k \in 1..L
               PROVE  /\ w[L].slots[k].primary = PrimaryAction(c[k])
                      /\ \A parted \in BOOLEAN : sp[k - 1] = parted =>
                            /\ w[L].slots[k].monitor = MonitorAction(c[k], required, parted)
                            /\ w[L].slots[k].shadow = ShadowPlan(c[k], required, parted)
    OBVIOUS
  <2>1. w[L].slots[k] = Entry(k)
    BY <1>5 DEF Good
  <2> HIDE DEF sp
  <2>2. ASSUME NEW parted \in BOOLEAN, w[k - 1].split = parted
        PROVE  /\ w[L].slots[k].monitor = MonitorAction(c[k], required, parted)
               /\ w[L].slots[k].shadow = ShadowPlan(c[k], required, parted)
    BY <2>1, <2>2
  <2> QED BY <1>8, <2>1, <2>2
<1> HIDE DEF sp
<1>11. Parting(sp, c, required, before, w[L])
  BY <1>6, <1>7, <1>8, <1>9, <1>10 DEF Parting, L
<1> QED BY <1>1, <1>11
-----------------------------------------------------------------------------
(***************************************************************************)
(* The folds whose values have no type to name: the slots of a track, the  *)
(* plans of the tracks, the tracks of a block, and the ways through them.  *)
(* x says which fold it is and of what.                                    *)
(***************************************************************************)
\* PlanTracks' step.
TrackPlanned(n, low, delays, acc, t) ==
    LET Diverts(d, p) ==
            LET e == [from |-> t, to |-> d, aux |-> FALSE]
            IN  /\ d \in low /\ UsesInputBus(n[d])
                /\ p.split \/ (e \in DOMAIN delays /\ delays[e] > 0)
        p == PlanChain(n[t].chain, t \in low, t \in low /\ UsesInputBus(n[t]) /\ t \in acc.split)
    IN  [split |-> acc.split \cup {d \in n[t].dests : Diverts(d, p)},
         plan |-> [acc.plan EXCEPT ![t] = p]]

\* Block's step.
TrackRun(n, plan, pdc, dry, b, t) ==
    After(b, t, n[t], RunTrack(t, n[t], plan.tracks[t], b.bus[t], dry, {}), pdc)

ChainIds(c) == FoldLeft(LAMBDA ids, s : IF PrimaryProcesses(s) THEN Append(ids, s.id) ELSE ids, <<>>, c)

\* Ways' step.
WaysTo(n, w, t) ==
    IF IsSource(n[t]) THEN {[from |-> t, through |-> <<>>, faded |-> <<>>]}
    ELSE UNION {w[s] : s \in {r \in DOMAIN n : t \in n[r].dests}}
WaysOn(n, w, t) ==
    [w EXCEPT ![t] = {[v EXCEPT !.through = @ \o ChainIds(n[t].chain), !.faded = Append(@, t)] :
                         v \in WaysTo(n, w, t)}]

Turn(x, a, i) ==
    IF x.fold = "slots" THEN RunSlot(a, x.c[i], x.p.slots[i], x.dry, {})
    ELSE IF x.fold = "plans" THEN TrackPlanned(x.n, x.low, x.delays, a, x.q[i])
    ELSE IF x.fold = "block" THEN TrackRun(x.n, x.plan, x.pdc, x.dry, a, x.plan.topo[i])
    ELSE WaysOn(x.n, a, x.q[i])
TurnsAt(it, x, b, s) == IF s = {} THEN b ELSE Turn(x, it[s \ {Max(s)}], Max(s))
TurnsUpto(it, x, b, m) == it = [s \in SUBSET (1..m) |-> TurnsAt(it, x, b, s)]

LEMMA TurnsExist ==
    ASSUME NEW x, NEW b, NEW m \in Nat
    PROVE  \E it : TurnsUpto(it, x, b, m)
<1> DEFINE Upto(it, k) == TurnsUpto(it, x, b, k)
           I == {k \in Nat : \E it : Upto(it, k)}
<1>1. 0 \in I
  <2> DEFINE g == [s \in SUBSET (1..0) |-> b]
  <2>1. \A s \in SUBSET (1..0) : s = {}
    OBVIOUS
  <2>2. \A s \in SUBSET (1..0) : b = TurnsAt(g, x, b, s)
    BY <2>1 DEF TurnsAt
  <2>3. g = [s \in SUBSET (1..0) |-> TurnsAt(g, x, b, s)]
    BY <2>2
  <2>4. Upto(g, 0)
    BY <2>3 DEF TurnsUpto
  <2> HIDE DEF g, Upto
  <2> QED BY <2>4
<1>2. ASSUME NEW k \in 1..m, k - 1 \in I PROVE k \in I
  <2>1. PICK h : Upto(h, k - 1)
    BY <1>2
  <2>2. h = [s \in SUBSET (1..(k - 1)) |-> TurnsAt(h, x, b, s)]
    BY <2>1 DEF TurnsUpto
  <2> DEFINE g == [s \in SUBSET (1..k) |-> TurnsAt(h, x, b, s)]
  <2>3. ASSUME NEW s \in SUBSET (1..k), s # {}
        PROVE  s \ {Max(s)} \in SUBSET (1..(k - 1))
    <3>0. k \in Nat
      OBVIOUS
    <3>1. Max(s) \in s
      BY <2>3, <3>0, Ends
    <3>2. \A i \in s : i <= Max(s)
      <4>1. PICK y \in s : \A i \in s : i <= y
        BY <2>3, <3>0, LastOne
      <4>2. \A i \in s : y >= i
        BY <4>1
      <4>3. \A i \in s : Max(s) >= i
        BY <4>1, <4>2 DEF Max
      <4> HIDE DEF Max
      <4> QED BY <3>1, <4>3
    <3>3. ASSUME NEW i \in s, i # Max(s) PROVE i \in 1..(k - 1)
      <4>1. i <= Max(s) /\ i \in 1..k /\ Max(s) \in 1..k /\ i # Max(s)
        BY <3>1, <3>2, <3>3
      <4> QED BY <4>1
    <3> QED BY <3>3
  <2>4. ASSUME NEW s \in SUBSET (1..(k - 1)) PROVE s \in SUBSET (1..k) /\ g[s] = h[s]
    <3>1. s \in SUBSET (1..k)
      OBVIOUS
    <3> QED BY <2>2, <3>1
  <2>5. ASSUME NEW s \in SUBSET (1..k) PROVE TurnsAt(h, x, b, s) = TurnsAt(g, x, b, s)
    <3> HIDE DEF g
    <3>1. CASE s # {}
      <4>1. g[s \ {Max(s)}] = h[s \ {Max(s)}]
        BY <2>3, <2>4, <3>1
      <4> QED BY <3>1, <4>1 DEF TurnsAt
    <3>2. CASE s = {}
      BY <3>2 DEF TurnsAt
    <3> QED BY <3>1, <3>2
  <2>6. g = [s \in SUBSET (1..k) |-> TurnsAt(g, x, b, s)]
    BY <2>5
  <2>7. Upto(g, k)
    BY <2>6 DEF TurnsUpto
  <2> HIDE DEF g, Upto
  <2> QED BY <2>7
<1> HIDE DEF I
<1>3. \A k \in 0..m : k \in I
  BY <1>1, <1>2, Counting
<1>4. m \in 0..m
  OBVIOUS
<1> QED BY <1>3, <1>4 DEF I

\* w goes through the values of the fold; the fold itself is the last one.
Turning(w, x, b, m) == w[0] = b /\ \A k \in 1..m : w[k] = Turn(x, w[k - 1], k)
Turned(x, b, m) == (CHOOSE it : TurnsUpto(it, x, b, m))[1..m]
LEMMA TurnsAre ==
    ASSUME NEW x, NEW b, NEW m \in Nat
    PROVE  \E w : Turning(w, x, b, m) /\ w[m] = Turned(x, b, m)
<1> DEFINE iter == CHOOSE it : TurnsUpto(it, x, b, m)
           w == [k \in 0..m |-> iter[1..k]]
<1>1. TurnsUpto(iter, x, b, m)
  <2>1. \E it : TurnsUpto(it, x, b, m)
    BY TurnsExist
  <2> QED BY <2>1
<1> HIDE DEF iter
<1>2. iter[{}] = b
  BY <1>1 DEF TurnsUpto, TurnsAt
<1>3. w[0] = b /\ w[m] = iter[1..m]
  <2>1. 1..0 = {} /\ 0 \in 0..m /\ m \in 0..m
    OBVIOUS
  <2> QED BY <1>2, <2>1
<1>4. ASSUME NEW k \in 1..m PROVE w[k] = Turn(x, w[k - 1], k)
  <2>1. Max(1..k) = k /\ (1..k) \ {k} = 1..(k - 1) /\ 1..k # {}
    BY Ends
  <2>2. 1..k \in SUBSET (1..m) /\ k \in 0..m /\ k - 1 \in 0..m
    OBVIOUS
  <2>3. iter[1..k] = TurnsAt(iter, x, b, 1..k)
    BY <1>1, <2>2 DEF TurnsUpto
  <2>4. w[k] = iter[1..k] /\ w[k - 1] = iter[1..(k - 1)]
    BY <2>2
  <2> HIDE DEF w
  <2> QED BY <2>1, <2>3, <2>4 DEF TurnsAt
<1> HIDE DEF w
<1> QED BY <1>3, <1>4 DEF Turning, Turned, iter

Running(w, c, p, dry, start) ==
    /\ w[0] = Pointers(start)
    /\ \A k \in 1..Len(c) : w[k] = RunSlot(w[k - 1], c[k], p.slots[k], dry, {})

Started(t, track, bus) ==
    IF IsSource(track) THEN [bus EXCEPT !.in = Origin(t), !.monitor = Origin(t)] ELSE bus

LEMMA RunTrackRuns ==
    ASSUME NEW t, NEW track, NEW p, NEW bus, NEW dry,
           Len(track.chain) \in Nat, DOMAIN track.chain = 1..Len(track.chain)
    PROVE  \E w : /\ Running(w, track.chain, p, dry, Started(t, track, bus))
                  /\ RunTrack(t, track, p, bus, dry, {}) = Ended(w[Len(track.chain)], t, p.split)
<1> DEFINE c == track.chain
           X == 1..Len(c)
           start == Started(t, track, bus)
           b == Pointers(start)
           x == [fold |-> "slots", c |-> c, p |-> p, dry |-> dry]
           iter == CHOOSE it : TurnsUpto(it, x, b, Len(c))
           Slot(a, i) == RunSlot(a, c[i], p.slots[i], dry, {})
<1>1. \A a, i : Turn(x, a, i) = Slot(a, i)
  BY DEF Turn
<1>2. RunTrack(t, track, p, bus, dry, {}) = Ended(iter[X], t, p.split)
  <2> DEFINE ids == [i \in DOMAIN c |-> i]
             Recur(it) == [s \in SUBSET X |-> IF s = {} THEN b ELSE Slot(it[s \ {Max(s)}], ids[Max(s)])]
  <2>1. \A it : TurnsUpto(it, x, b, Len(c)) <=> it = Recur(it)
    <3>1. ASSUME NEW s \in SUBSET X, s # {} PROVE ids[Max(s)] = Max(s)
      <4>1. Max(s) \in s
        BY <3>1, Ends
      <4> QED BY <4>1
    <3> HIDE DEF ids, x, b, c, Slot, X
    <3>2. ASSUME NEW it
          PROVE  \A s \in SUBSET X : TurnsAt(it, x, b, s)
                     = IF s = {} THEN b ELSE Slot(it[s \ {Max(s)}], ids[Max(s)])
      BY <1>1, <3>1 DEF TurnsAt
    <3>3. \A it : Recur(it) = [s \in SUBSET X |-> TurnsAt(it, x, b, s)]
      BY <3>2
    <3> HIDE DEF Recur
    <3> QED BY <3>3 DEF TurnsUpto, X
  <2>2. DOMAIN ids = X
    OBVIOUS
  <2>3. RunTrack(t, track, p, bus, dry, {}) = Ended((CHOOSE it : it = Recur(it))[X], t, p.split)
    BY <2>2 DEF RunTrack, FoldLeftDomain, FoldLeft, MapThenFoldSet, Started
  <2>4. iter = (CHOOSE it : it = Recur(it))
    <3> HIDE DEF Recur, b, x
    <3> QED BY <2>1
  <2> QED BY <2>3, <2>4
<1>3. PICK w : Turning(w, x, b, Len(c)) /\ w[Len(c)] = Turned(x, b, Len(c))
  <2>1. Len(c) \in Nat
    OBVIOUS
  <2> HIDE DEF b, x, c
  <2> QED BY <2>1, TurnsAre
<1>5. w[Len(c)] = iter[X]
  BY <1>3 DEF Turned
<1> HIDE DEF iter, b, x
<1>4. Running(w, c, p, dry, start)
  BY <1>1, <1>3 DEF Turning, Running, b
<1> QED BY <1>2, <1>4, <1>5 DEF c, start

Main == {"in", "alt", "monitor_in", "monitor_alt"}
Bufs == Main \cup {"dry", "monitor_dry"}
Fit(r) ==
    /\ DOMAIN r = {"primary", "monitor", "val"}
    /\ r.primary \in [in : Main, out : Main] /\ r.monitor \in [in : Main, out : Main]
    /\ DOMAIN r.val = Bufs

\* A plugin reads the path's one buffer and writes its other.
Swapped(r, q, path, s, latency) ==
    /\ Fit(q)
    /\ q[path] = [in |-> r[path].out, out |-> r[path].in]
    /\ \A other \in {"primary", "monitor"} : other # path => q[other] = r[other]
    /\ q.val[r[path].out] = Through(r.val[r[path].in], s.id, latency)
    /\ \A b \in Main : b # r[path].out => q.val[b] = r.val[b]

LEMMA PathRuns ==
    ASSUME NEW r, Fit(r), NEW path \in {"primary", "monitor"}, NEW s, NEW latency, NEW m, NEW x
    PROVE  /\ Swapped(r, RunPath(r, path, "process", s, latency, m, x \in {}), path, s, latency)
           /\ \A action \in {"dry", "drain", "reuse"} :
                 RunPath(r, path, action, s, latency, m, x \in {}) = r
<1> DEFINE v == IF m = 0 THEN r ELSE [r EXCEPT !.val = Delayed(@, path, r[path].in, m)]
           in == r[path].in
           out == r[path].out
           q == [v EXCEPT !.val[out] = Through(v.val[in], s.id, latency),
                          ![path] = [in |-> out, out |-> in]]
<1>1. in \in Main /\ out \in Main /\ path \in DOMAIN r /\ "val" \in DOMAIN r /\ path # "val"
  BY DEF Fit
<1>2. /\ DOMAIN v = DOMAIN r /\ v.primary = r.primary /\ v.monitor = r.monitor
      /\ DOMAIN v.val = Bufs /\ \A b \in Main : v.val[b] = r.val[b]
  <2>1. CASE m = 0
    BY <2>1 DEF Fit, Bufs
  <2>2. CASE m # 0
    <3> DEFINE val == Delayed(r.val, path, in, m)
    <3>1. v = [r EXCEPT !.val = val]
      BY <2>2
    <3>2. DOMAIN val = Bufs /\ \A b \in Main : val[b] = r.val[b]
      BY DEF Delayed, DryOf, Fit, Bufs, Main
    <3> HIDE DEF val, v
    <3> QED BY <1>1, <3>1, <3>2 DEF Fit
  <2> QED BY <2>1, <2>2
<1>3. RunPath(r, path, "process", s, latency, m, x \in {}) = q
  BY DEF RunPath, Process, Ran
<1> HIDE DEF v
<1>4. /\ DOMAIN q = DOMAIN r /\ q[path] = [in |-> out, out |-> in]
      /\ \A other \in {"primary", "monitor"} : other # path => q[other] = r[other]
      /\ DOMAIN q.val = Bufs /\ q.val[out] = Through(r.val[in], s.id, latency)
      /\ \A b \in Main : b # out => q.val[b] = r.val[b]
  <2>1. out \in Bufs /\ in \in Bufs
    BY <1>1 DEF Bufs
  <2> DEFINE val == [v.val EXCEPT ![out] = Through(v.val[in], s.id, latency)]
  <2>2. DOMAIN val = Bufs /\ val[out] = Through(r.val[in], s.id, latency)
        /\ \A b \in Main : b # out => val[b] = r.val[b]
    <3> HIDE DEF in, out
    <3> QED BY <1>1, <1>2, <2>1 DEF Bufs
  <2>3. q = [[v EXCEPT !.val = val] EXCEPT ![path] = [in |-> out, out |-> in]]
    OBVIOUS
  <2> HIDE DEF val, q, in, out
  <2>4. q.val = val
    BY <1>1, <1>2, <2>3
  <2>5. DOMAIN q = DOMAIN r /\ q[path] = [in |-> out, out |-> in]
    BY <1>1, <1>2, <2>3
  <2>6. \A other \in {"primary", "monitor"} : other # path => q[other] = r[other]
    BY <1>1, <1>2, <2>3 DEF Fit
  <2> QED BY <2>2, <2>4, <2>5, <2>6
<1>5. Fit(q)
  <2>1. [in |-> out, out |-> in] \in [in : Main, out : Main]
    BY <1>1
  <2> HIDE DEF q, in, out
  <2> QED BY <1>4, <2>1 DEF Fit
<1> HIDE DEF q
<1>6. Swapped(r, q, path, s, latency)
  BY <1>4, <1>5 DEF Swapped
<1>7. \A action \in {"dry", "drain", "reuse"} :
         RunPath(r, path, action, s, latency, m, x \in {}) = r
  BY DEF RunPath
<1> QED BY <1>3, <1>6, <1>7

\* m: between the two paths of a slot.
Slotted(r, m, next, s, p) ==
    /\ p.primary = "process" => Swapped(r, m, "primary", s, s.latency)
    /\ p.primary # "process" => m = r
    /\ p.monitor = "reuse" => next = ReusePrimary(m)
    /\ p.monitor = "process" => Swapped(m, next, "monitor", s, s.shadowLatency)
    /\ p.monitor \in {"dry", "drain"} => next = m

LEMMA SlotRuns ==
    ASSUME NEW r, Fit(r), NEW s, NEW p, p.primary \in {"process", "dry", "drain"},
           p.monitor \in Actions, NEW dry
    PROVE  \E m : Fit(m) /\ Slotted(r, m, RunSlot(r, s, p, dry, {}), s, p)
<1> DEFINE m == RunPath(r, "primary", p.primary, s, s.latency,
                        dry[<<s.id, "primary">>], <<s.id, "primary">> \in {})
           next == RunSlot(r, s, p, dry, {})
<1>1. next = RunMonitor(m, s, p, dry, {})
  BY DEF RunSlot
<1>2. /\ p.primary = "process" => Swapped(r, m, "primary", s, s.latency)
      /\ p.primary # "process" => m = r
  BY PathRuns
<1> HIDE DEF m, next
<1>3. Fit(m)
  BY <1>2 DEF Swapped
<1>4. p.monitor = "reuse" => next = ReusePrimary(m)
  BY <1>1 DEF RunMonitor
<1>5. p.monitor # "reuse" =>
         next = RunPath(m, "monitor", p.monitor, s, s.shadowLatency,
                        dry[<<s.id, "monitor">>], <<s.id, "monitor">> \in {})
  BY <1>1 DEF RunMonitor
<1>6. /\ Swapped(m, RunPath(m, "monitor", "process", s, s.shadowLatency,
                            dry[<<s.id, "monitor">>], <<s.id, "monitor">> \in {}),
                 "monitor", s, s.shadowLatency)
      /\ \A action \in {"dry", "drain", "reuse"} :
            RunPath(m, "monitor", action, s, s.shadowLatency,
                    dry[<<s.id, "monitor">>], <<s.id, "monitor">> \in {}) = m
  BY <1>3, PathRuns
<1>7. Slotted(r, m, next, s, p)
  BY <1>2, <1>4, <1>5, <1>6 DEF Slotted
<1> QED BY <1>3, <1>7 DEF next

\* What the planner lets a monitor path do, before and after a slot.
LEMMA MonitorsAre ==
    ASSUME NEW sp, NEW c, NEW required \in BOOLEAN, NEW before \in BOOLEAN, before => required,
           NEW p, Parting(sp, c, required, before, p), Len(c) \in Nat, NEW k \in 1..Len(c)
    PROVE  /\ p.slots[k].primary \in {"process", "dry", "drain"}
           /\ p.slots[k].primary = "process" <=> PrimaryProcesses(c[k])
           /\ p.slots[k].monitor \in Actions
           /\ ~sp[k] => ~sp[k - 1] /\ p.slots[k].monitor = "reuse"
           /\ sp[k] /\ ~sp[k - 1] => p.slots[k].primary = "process" /\ p.slots[k].monitor = "dry"
           /\ sp[k - 1] => /\ sp[k] /\ p.slots[k].monitor # "reuse"
                           /\ p.slots[k].primary # "process" => p.slots[k].monitor = "dry"
<1> DEFINE L == Len(c)
           I == {j \in 0..L : sp[j] => required}
<1>0. /\ sp \in [0..L -> BOOLEAN] /\ sp[0] = before
      /\ \A j \in 1..L : sp[j] <=> sp[j - 1] \/ Splits(c[j], required)
  BY DEF Parting
<1>1. 0 \in I
  BY <1>0
<1>2. ASSUME NEW j \in 1..L, j - 1 \in I PROVE j \in I
  BY <1>0, <1>2 DEF Splits
<1> HIDE DEF I
<1>3. \A j \in 0..L : j \in I
  <2> HIDE DEF L
  <2>1. L \in Nat
    BY DEF L
  <2> QED BY <1>1, <1>2, <2>1, Counting
<1>4. k - 1 \in 0..L /\ k \in 0..L
  OBVIOUS
<1>5. sp[k - 1] => required
  BY <1>3, <1>4 DEF I
<1>6. /\ sp[k - 1] \in BOOLEAN /\ sp[k] \in BOOLEAN
      /\ sp[k] <=> sp[k - 1] \/ Splits(c[k], required)
  BY <1>0, <1>4
<1> DEFINE s == c[k]
           q == p.slots[k]
<1>7. /\ q.primary = PrimaryAction(s)
      /\ \A parted \in BOOLEAN : sp[k - 1] = parted => q.monitor = MonitorAction(s, required, parted)
  BY DEF Parting
<1>8. q.primary \in {"process", "dry", "drain"} /\ (q.primary = "process" <=> PrimaryProcesses(s))
  <2> HIDE DEF s, q
  <2> QED BY <1>7 DEF PrimaryAction
<1>9. CASE sp[k - 1]
  <2>1. q.monitor = MonitorAction(s, required, TRUE)
    BY <1>6, <1>7, <1>9
  <2> HIDE DEF s, q
  <2>2. MonitorAction(s, TRUE, TRUE) \in Actions \ {"reuse"}
        /\ (~PrimaryProcesses(s) => MonitorAction(s, TRUE, TRUE) = "dry")
    BY DEF MonitorAction, Actions
  <2>3. required = TRUE
    BY <1>5, <1>9
  <2> QED BY <1>6, <1>8, <1>9, <2>1, <2>2, <2>3 DEF s, q
<1>10. CASE ~sp[k - 1]
  <2>1. q.monitor = MonitorAction(s, required, FALSE)
    BY <1>6, <1>7, <1>10
  <2> HIDE DEF s, q
  <2>2. /\ Splits(s, required) => PrimaryProcesses(s) /\ MonitorAction(s, required, FALSE) = "dry"
        /\ ~Splits(s, required) => MonitorAction(s, required, FALSE) = "reuse"
    BY DEF MonitorAction, Splits
  <2>3. q.monitor \in Actions
    BY <2>1, <2>2 DEF Actions
  <2> QED BY <1>6, <1>8, <1>10, <2>1, <2>2, <2>3 DEF s, q
<1> QED BY <1>9, <1>10
-----------------------------------------------------------------------------
(***************************************************************************)
(* Where the two paths are after slot k. They share a buffer until they    *)
(* part; then the monitor path is in its own two, or, when they had shared *)
(* one, behind: in the buffer the primary path will write next, or in its  *)
(* own with that one to write. Behind, no plugin may run in the primary    *)
(* path alone any more.                                                    *)
(***************************************************************************)
Sharing(r, k, slots) ==
    /\ r.monitor.out = "monitor_alt"
    /\ \/ k = 0 /\ r.monitor.in = "monitor_in"
       \/ k > 0 /\ r.monitor.in = r.primary.in /\ slots[k].monitor = "reuse"
Apart(r) ==
    \/ r.monitor = [in |-> "monitor_in", out |-> "monitor_alt"]
    \/ r.monitor = [in |-> "monitor_alt", out |-> "monitor_in"]
Left(slots, j) == slots[j].primary = "process" /\ slots[j].monitor \in {"dry", "drain"}
Behind(r, k, slots) ==
    /\ \/ r.monitor.in = r.primary.out /\ r.monitor.out = "monitor_alt"
       \/ r.monitor.in = "monitor_alt" /\ r.monitor.out = r.primary.in
    /\ \E i, j \in 1..k : i < j /\ slots[i].monitor = "reuse" /\ Left(slots, j)
Phase(r, k, sp, slots, signal) ==
    /\ Fit(r) /\ r.val[r.primary.in] = signal
    /\ \/ r.primary = [in |-> "in", out |-> "alt"]
       \/ r.primary = [in |-> "alt", out |-> "in"]
    /\ ~sp[k] => Sharing(r, k, slots)
    /\ sp[k] => Apart(r) \/ Behind(r, k, slots)

LEMMA NotEntangled ==
    ASSUME NEW slots, ~Entangled(slots), NEW L \in Nat, DOMAIN slots = 1..L,
           NEW k \in 1..L, NEW i \in 1..(k - 1), NEW j \in 1..(k - 1),
           i < j, slots[i].monitor = "reuse", Left(slots, j)
    PROVE  ~Left(slots, k)
<1> SUFFICES ASSUME Left(slots, k) PROVE FALSE
  OBVIOUS
<1>1. i \in 1..L /\ j \in 1..L /\ j < k
  OBVIOUS
<1>2. \A m \in {j, k} : slots[m].primary = "process" /\ slots[m].monitor \in {"dry", "drain"}
  BY DEF Left
<1> QED BY <1>1, <1>2 DEF Entangled

\* The primary path after a slot's plugin has run in it, or not.
Onward(r, m, s, p) ==
    /\ Fit(m) /\ m.monitor = r.monitor
    /\ p.primary = "process" =>
          /\ m.primary = [in |-> r.primary.out, out |-> r.primary.in]
          /\ m.val[m.primary.in] = Through(r.val[r.primary.in], s.id, s.latency)
    /\ p.primary # "process" => m.primary = r.primary /\ m.val[m.primary.in] = r.val[r.primary.in]

\* The monitor path writes another buffer than the one the primary path is in.
LEMMA MonitorKeeps ==
    ASSUME NEW m, Fit(m), NEW next, NEW s, NEW latency, Swapped(m, next, "monitor", s, latency),
           m.monitor.out # m.primary.in
    PROVE  /\ Fit(next) /\ next.primary = m.primary
           /\ next.monitor = [in |-> m.monitor.out, out |-> m.monitor.in]
           /\ next.val[next.primary.in] = m.val[m.primary.in]
<1>1. m.primary.in \in Main
  BY DEF Fit
<1>2. next.primary = m.primary
  BY DEF Swapped
<1>3. next.val[m.primary.in] = m.val[m.primary.in]
  BY <1>1 DEF Swapped
<1> QED BY <1>2, <1>3 DEF Swapped

LEMMA PhaseKeeps ==
    ASSUME NEW c, IsChain(c), NEW required \in BOOLEAN, NEW before \in BOOLEAN, before => required,
           NEW sp, NEW p, Parting(sp, c, required, before, p), ~Entangled(p.slots),
           NEW k \in 1..Len(c), NEW r, NEW signal, Phase(r, k - 1, sp, p.slots, signal), NEW dry
    PROVE  Phase(RunSlot(r, c[k], p.slots[k], dry, {}), k, sp, p.slots,
                 IF PrimaryProcesses(c[k]) THEN Through(signal, c[k].id, c[k].latency) ELSE signal)
<1> DEFINE L == Len(c)
           slots == p.slots
           s == c[k]
           q == slots[k]
           next == RunSlot(r, s, q, dry, {})
           new == IF PrimaryProcesses(s) THEN Through(signal, s.id, s.latency) ELSE signal
<1>0. L \in Nat /\ DOMAIN slots = 1..L /\ k \in Nat
  BY DEF IsChain, Parting
<1>1. /\ q.primary \in {"process", "dry", "drain"}
      /\ q.primary = "process" <=> PrimaryProcesses(s)
      /\ q.monitor \in Actions
      /\ ~sp[k] => ~sp[k - 1] /\ q.monitor = "reuse"
      /\ sp[k] /\ ~sp[k - 1] => q.primary = "process" /\ q.monitor = "dry"
      /\ sp[k - 1] => /\ sp[k] /\ q.monitor # "reuse"
                      /\ q.primary # "process" => q.monitor = "dry"
  <2>1. Parting(sp, c, required, before, p)
    OBVIOUS
  <2>2. /\ p.slots[k].primary \in {"process", "dry", "drain"}
        /\ p.slots[k].primary = "process" <=> PrimaryProcesses(c[k])
        /\ p.slots[k].monitor \in Actions
        /\ ~sp[k] => ~sp[k - 1] /\ p.slots[k].monitor = "reuse"
        /\ sp[k] /\ ~sp[k - 1] => p.slots[k].primary = "process" /\ p.slots[k].monitor = "dry"
        /\ sp[k - 1] => /\ sp[k] /\ p.slots[k].monitor # "reuse"
                        /\ p.slots[k].primary # "process" => p.slots[k].monitor = "dry"
    BY <1>0, <2>1, MonitorsAre
  <2> QED BY <2>2
<1>2. Fit(r) /\ r.val[r.primary.in] = signal
  BY DEF Phase
<1>3. PICK m : Fit(m) /\ Slotted(r, m, next, s, q)
  <2> HIDE DEF s, q
  <2> QED BY <1>1, <1>2, SlotRuns
<1> DEFINE Ways2 == \/ r.primary = [in |-> "in", out |-> "alt"]
                    \/ r.primary = [in |-> "alt", out |-> "in"]
<1>4. Ways2
  BY DEF Phase
<1> HIDE DEF s, q, next, slots
<1>5. /\ m.monitor = r.monitor
      /\ q.primary = "process" =>
            /\ m.primary = [in |-> r.primary.out, out |-> r.primary.in]
            /\ m.val[m.primary.in] = new
      /\ q.primary # "process" => m = r /\ new = signal
  <2>1. CASE q.primary = "process"
    BY <1>1, <1>2, <1>3, <2>1 DEF Slotted, Swapped
  <2>2. CASE q.primary # "process"
    BY <1>1, <1>2, <1>3, <2>2 DEF Slotted
  <2> QED BY <2>1, <2>2
<1>6. /\ m.val[m.primary.in] = new
      /\ \/ m.primary = [in |-> "in", out |-> "alt"]
         \/ m.primary = [in |-> "alt", out |-> "in"]
  <2> HIDE DEF new
  <2> QED BY <1>2, <1>4, <1>5
<1> HIDE DEF new
<1>7. CASE ~sp[k]
  <2>1. ~sp[k - 1] /\ q.monitor = "reuse"
    BY <1>1, <1>7
  <2>2. next = [m EXCEPT !.monitor.in = m.primary.in]
    BY <1>3, <2>1 DEF Slotted, ReusePrimary
  <2>3. /\ DOMAIN next = DOMAIN m /\ next.primary = m.primary /\ next.val = m.val
        /\ next.monitor = [in |-> m.primary.in, out |-> m.monitor.out]
    BY <1>3, <2>2 DEF Fit
  <2>4. m.primary.in \in Main /\ m.monitor.out \in Main
    BY <1>3 DEF Fit
  <2>5. Fit(next)
    BY <1>3, <2>3, <2>4 DEF Fit
  <2>6. next.monitor.out = "monitor_alt"
    <3>1. Sharing(r, k - 1, slots)
      BY <2>1 DEF Phase, slots
    <3> QED BY <1>5, <2>3, <3>1 DEF Sharing
  <2>7. Sharing(next, k, slots)
    BY <1>0, <2>1, <2>3, <2>6 DEF Sharing, q
  <2>8. Phase(next, k, sp, slots, new)
    BY <1>6, <1>7, <2>3, <2>5, <2>7 DEF Phase
  <2> QED BY <2>8 DEF next, new, s, q, slots
<1>8. CASE sp[k] /\ ~sp[k - 1]
  <2>1. q.primary = "process" /\ q.monitor = "dry"
    BY <1>1, <1>8
  <2>2. next = m
    BY <1>3, <2>1 DEF Slotted
  <2>3. Sharing(r, k - 1, slots)
    BY <1>8 DEF Phase, slots
  <2>4. r.monitor \in [in : Main, out : Main]
    BY <1>2 DEF Fit
  <2>5. CASE k - 1 = 0
    <3>1. r.monitor.in = "monitor_in" /\ r.monitor.out = "monitor_alt"
      BY <2>3, <2>5 DEF Sharing
    <3>2. Apart(m)
      BY <1>5, <2>4, <3>1 DEF Apart
    <3> QED BY <1>3, <1>6, <1>8, <2>2, <3>2 DEF Phase, next, new, s, q, slots
  <2>6. CASE k - 1 # 0
    <3>1. /\ r.monitor.in = r.primary.in /\ r.monitor.out = "monitor_alt"
          /\ slots[k - 1].monitor = "reuse"
      BY <2>3, <2>6 DEF Sharing
    <3>2. m.monitor.in = m.primary.out /\ m.monitor.out = "monitor_alt"
      BY <1>5, <2>1, <3>1
    <3>3. k - 1 \in 1..k /\ k \in 1..k /\ k - 1 < k
      BY <1>0, <2>6
    <3>4. Left(slots, k)
      BY <2>1 DEF Left, q
    <3>5. Behind(m, k, slots)
      BY <3>1, <3>2, <3>3, <3>4 DEF Behind
    <3> QED BY <1>3, <1>6, <1>8, <2>2, <3>5 DEF Phase, next, new, s, q, slots
  <2> QED BY <2>5, <2>6
<1>9. CASE sp[k - 1]
  <2>1. /\ sp[k] /\ q.monitor \in {"process", "dry", "drain"}
        /\ q.primary # "process" => q.monitor = "dry"
    BY <1>1, <1>9 DEF Actions
  <2>2. Apart(r) \/ Behind(r, k - 1, slots)
    BY <1>9 DEF Phase, slots
  <2>3. CASE Apart(r)
    <3>1. CASE q.monitor = "process"
      <4>1. m.monitor.out # m.primary.in
        BY <1>5, <1>6, <2>3 DEF Apart
      <4>2. Swapped(m, next, "monitor", s, s.shadowLatency)
        BY <1>3, <3>1 DEF Slotted
      <4>3. /\ Fit(next) /\ next.primary = m.primary
            /\ next.monitor = [in |-> m.monitor.out, out |-> m.monitor.in]
            /\ next.val[next.primary.in] = m.val[m.primary.in]
        BY <1>3, <4>1, <4>2, MonitorKeeps
      <4>4. Apart(next)
        BY <1>5, <2>3, <4>3 DEF Apart
      <4> QED BY <1>6, <2>1, <4>3, <4>4 DEF Phase, next, new, s, q, slots
    <3>2. CASE q.monitor # "process"
      <4>1. next = m
        BY <1>3, <2>1, <3>2 DEF Slotted
      <4>2. Apart(m)
        BY <1>5, <2>3 DEF Apart
      <4> QED BY <1>3, <1>6, <2>1, <4>1, <4>2 DEF Phase, next, new, s, q, slots
    <3> QED BY <3>1, <3>2
  <2>4. CASE Behind(r, k - 1, slots)
    <3>1. PICK i \in 1..(k - 1), j \in 1..(k - 1) :
             i < j /\ slots[i].monitor = "reuse" /\ Left(slots, j)
      BY <2>4 DEF Behind
    <3>2. ~Left(slots, k)
      <4> HIDE DEF L
      <4> QED BY <1>0, <3>1, NotEntangled DEF L, slots
    <3>3. i \in 1..k /\ j \in 1..k
      BY <1>0
    <3>4. \/ r.monitor.in = r.primary.out /\ r.monitor.out = "monitor_alt"
          \/ r.monitor.in = "monitor_alt" /\ r.monitor.out = r.primary.in
      BY <2>4 DEF Behind
    <3>5. CASE q.primary = "process"
      <4>1. q.monitor = "process"
        BY <2>1, <3>2, <3>5 DEF Left, q
      <4>2. m.monitor.out # m.primary.in
        BY <1>4, <1>5, <3>4, <3>5
      <4>3. Swapped(m, next, "monitor", s, s.shadowLatency)
        BY <1>3, <4>1 DEF Slotted
      <4>4. /\ Fit(next) /\ next.primary = m.primary
            /\ next.monitor = [in |-> m.monitor.out, out |-> m.monitor.in]
            /\ next.val[next.primary.in] = m.val[m.primary.in]
        BY <1>3, <4>2, <4>3, MonitorKeeps
      <4>5. \/ next.monitor.in = next.primary.out /\ next.monitor.out = "monitor_alt"
            \/ next.monitor.in = "monitor_alt" /\ next.monitor.out = next.primary.in
        BY <1>5, <3>4, <3>5, <4>4
      <4>6. Behind(next, k, slots)
        BY <3>1, <3>3, <4>5 DEF Behind
      <4> QED BY <1>6, <2>1, <4>4, <4>6 DEF Phase, next, new, s, q, slots
    <3>6. CASE q.primary # "process"
      <4>1. m = r /\ next = m
        BY <1>3, <1>5, <2>1, <3>6 DEF Slotted
      <4>2. Behind(m, k, slots)
        BY <3>1, <3>3, <3>4, <4>1 DEF Behind
      <4> QED BY <1>3, <1>6, <2>1, <4>1, <4>2 DEF Phase, next, new, s, q, slots
    <3> QED BY <3>5, <3>6
  <2> QED BY <2>2, <2>3, <2>4
<1> QED BY <1>7, <1>8, <1>9

\* Paths of the tracks D, and a signal after plugins: their latency, their ids.
Paths(D) == [from : D, late : Nat, through : Seq(Nat), faded : Seq(D)]
IsSignal(S, D) == S \subseteq Paths(D)
Passed(S, l, ids) == {[x EXCEPT !.late = @ + l, !.through = @ \o ids] : x \in S}

LEMMA AppendedOn ==
    ASSUME NEW a \in Seq(Nat), NEW ids \in Seq(Nat), NEW id \in Nat
    PROVE  Append(a \o ids, id) = a \o Append(ids, id)
<1>1. a \o ids \in Seq(Nat)
  BY ConcatProperties
<1>2. <<id>> \in Seq(Nat)
  OBVIOUS
<1>3. Append(a \o ids, id) = (a \o ids) \o <<id>> /\ Append(ids, id) = ids \o <<id>>
  BY <1>1, AppendIsConcat
<1>4. (a \o ids) \o <<id>> = a \o (ids \o <<id>>)
  BY <1>2, ConcatAssociative
<1> QED BY <1>3, <1>4

With(ids, id) == Append(ids, id)
LEMMA PassedOn ==
    ASSUME NEW D, NEW S, IsSignal(S, D), NEW l \in Nat, NEW ids \in Seq(Nat),
           NEW id \in Nat, NEW m \in Nat,
           NEW total \in Nat, total = l + m, NEW all, all = With(ids, id)
    PROVE  Through(Passed(S, l, ids), id, m) = Passed(S, total, all)
<1> DEFINE One(x) == [x EXCEPT !.late = @ + l, !.through = @ \o ids]
           Two(y) == [y EXCEPT !.late = @ + m, !.through = Append(@, id)]
           Both(x) == [x EXCEPT !.late = @ + (l + m), !.through = @ \o Append(ids, id)]
<1>1. ASSUME NEW x \in S PROVE Two(One(x)) = Both(x)
  <2>1. x \in Paths(D)
    BY DEF IsSignal
  <2>2. x.late \in Nat /\ x.through \in Seq(Nat)
    BY <2>1 DEF Paths
  <2>3. (x.late + l) + m = x.late + (l + m)
    BY <2>2
  <2>4. Append(x.through \o ids, id) = x.through \o Append(ids, id)
    BY <2>2, AppendedOn
  <2> DEFINE a == x.through \o ids
             b == x.through \o Append(ids, id)
  <2>5. One(x) = [x EXCEPT !.late = x.late + l, !.through = a]
    OBVIOUS
  <2>6. Both(x) = [x EXCEPT !.late = x.late + (l + m), !.through = b]
    OBVIOUS
  <2>7. Append(a, id) = b
    BY <2>4
  <2> HIDE DEF a, b, One
  <2>8. One(x).late = x.late + l /\ One(x).through = a
    BY <2>1, <2>5 DEF Paths
  <2>9. Two(One(x)) = [One(x) EXCEPT !.late = (x.late + l) + m, !.through = b]
    BY <2>7, <2>8
  <2>10. [One(x) EXCEPT !.late = (x.late + l) + m, !.through = b]
         = [x EXCEPT !.late = (x.late + l) + m, !.through = b]
    BY <2>1, <2>5 DEF Paths
  <2> HIDE DEF Two, Both
  <2> QED BY <2>3, <2>6, <2>9, <2>10
<1>2. Through(Passed(S, l, ids), id, m) = {Two(One(x)) : x \in S}
  BY DEF Through, Passed
<1>3. Passed(S, l + m, Append(ids, id)) = {Both(x) : x \in S}
  BY DEF Passed
<1> HIDE DEF One, Two, Both
<1>4. {Two(One(x)) : x \in S} = {Both(x) : x \in S}
  BY <1>1
<1>5. Through(Passed(S, l, ids), id, m) = Passed(S, l + m, Append(ids, id))
  BY <1>2, <1>3, <1>4
<1> QED BY <1>5 DEF With

LEMMA PassedByNone ==
    ASSUME NEW D, NEW S, IsSignal(S, D) PROVE Passed(S, 0, <<>>) = S
<1>1. ASSUME NEW x \in S PROVE [x EXCEPT !.late = @ + 0, !.through = @ \o <<>>] = x
  <2>1. x \in Paths(D)
    BY DEF IsSignal
  <2>2. x.late + 0 = x.late /\ x.through \o <<>> = x.through
    <3>1. x.late \in Nat /\ x.through \in Seq(Nat)
      BY <2>1 DEF Paths
    <3> QED BY <3>1, ConcatEmptySeq
  <2> DEFINE a == x.late + 0
             b == x.through \o <<>>
  <2>3. [x EXCEPT !.late = a, !.through = b] = x
    <3>1. a = x.late /\ b = x.through
      BY <2>2
    <3> HIDE DEF a, b
    <3> QED BY <2>1, <3>1 DEF Paths
  <2> QED BY <2>3
<1> QED BY <1>1 DEF Passed


LEMMA ChainIdsAre ==
    ASSUME NEW c, IsChain(c)
    PROVE  \E w : /\ \A k \in 0..Len(c) : w[k] \in Seq(Nat)
                  /\ w[0] = <<>> /\ w[Len(c)] = ChainIds(c)
                  /\ \A k \in 1..Len(c) :
                        w[k] = IF PrimaryProcesses(c[k]) THEN Append(w[k - 1], c[k].id) ELSE w[k - 1]
<1> DEFINE S == Seq(Nat)
           b == <<>>
           X == 1..Len(c)
           Op(a, s) == IF PrimaryProcesses(s) THEN Append(a, s.id) ELSE a
           F == [p \in X \X S |-> Op(p[2], c[p[1]])]
           Recur(it) == [s \in SUBSET X |->
                           IF s = {} THEN b ELSE Op(it[s \ {Max(s)}], c[Max(s)])]
           iter == CHOOSE it : it = Recur(it)
           w == [k \in 0..Len(c) |-> iter[1..k]]
<1>1. Len(c) \in Nat /\ DOMAIN c = X /\ \A i \in X : c[i].id \in Nat
  BY DEF IsChain, IsSlot
<1>2. /\ b \in S /\ F \in [X \X S -> S]
      /\ \A i \in X, a \in S : F[<<i, a>>] = Op(a, c[i])
  <2>1. \A i \in X, a \in S : Op(a, c[i]) \in S
    BY <1>1, AppendProperties
  <2>2. b \in S
    BY EmptySeq
  <2> HIDE DEF Op, S, b
  <2> QED BY <2>1, <2>2
<1>3. ChainIds(c) = iter[X]
  BY <1>1 DEF ChainIds, FoldLeft, MapThenFoldSet
<1> HIDE DEF F, S, b
<1>4. PICK it : FoldedLeft(it, Len(c), S, b, F)
  BY <1>1, <1>2, LeftIterates
<1> HIDE DEF Op
<1>5. it = Recur(it)
  BY <1>2, <1>4 DEF FoldedLeft
<1>6. iter = Recur(iter)
  <2> HIDE DEF Recur
  <2> QED BY <1>5
<1> HIDE DEF iter
<1>7. iter[{}] = b
  BY <1>6
<1>8. \A s \in SUBSET X : s # {} /\ Max(s) \in X /\ iter[s \ {Max(s)}] \in S
          => iter[s] = F[<<Max(s), iter[s \ {Max(s)}]>>]
  BY <1>2, <1>6
<1>9. Walked(w, Len(c), S, b, F)
  <2> HIDE DEF Recur
  <2> QED BY <1>1, <1>2, <1>7, <1>8, LeftWalked
<1>10. w[Len(c)] = iter[X]
  BY <1>1
<1> HIDE DEF w, X
<1>11. \A k \in 1..Len(c) : w[k] = Op(w[k - 1], c[k])
  BY <1>2, <1>9 DEF Walked, X
<1> QED BY <1>3, <1>9, <1>10, <1>11 DEF Walked, Op, S, b

Signalled(sig, c, S) ==
    /\ sig[0] = S
    /\ \A k \in 1..Len(c) :
          sig[k] = IF PrimaryProcesses(c[k]) THEN Through(sig[k - 1], c[k].id, c[k].latency) ELSE sig[k - 1]
    /\ sig[Len(c)] = Passed(S, ChainLatency(c), ChainIds(c))
    /\ ChainLatency(c) \in Nat /\ ChainIds(c) \in Seq(Nat)

\* The plugins in force, one after the other, add their latencies and ids.
LEMMA ChainPasses ==
    ASSUME NEW c, IsChain(c), NEW D, NEW S, IsSignal(S, D)
    PROVE  \E sig : Signalled(sig, c, S)
<1> DEFINE L == Len(c)
<1>0. L \in Nat /\ DOMAIN c = 1..L /\ \A i \in 1..L : IsSlot(c[i])
  BY DEF IsChain
<1>1. \A i \in 1..L : c[i].id \in Nat /\ c[i].latency \in Nat /\ PrimaryLatency(c[i]) \in Nat
  BY <1>0 DEF IsSlot, PrimaryLatency
<1>2. PICK lat : /\ \A k \in 0..L : lat[k] \in Nat
                 /\ lat[0] = 0 /\ lat[L] = ChainLatency(c)
                 /\ \A k \in 1..L : lat[k] = lat[k - 1] + PrimaryLatency(c[k])
  BY <1>0, <1>1, ChainLatencyIs
<1>3. PICK ids : /\ \A k \in 0..L : ids[k] \in Seq(Nat)
                 /\ ids[0] = <<>> /\ ids[L] = ChainIds(c)
                 /\ \A k \in 1..L :
                       ids[k] = IF PrimaryProcesses(c[k]) THEN Append(ids[k - 1], c[k].id) ELSE ids[k - 1]
  BY ChainIdsAre
<1> DEFINE sig == [k \in 0..L |-> Passed(S, lat[k], ids[k])]
<1> HIDE DEF L
<1>4. L \in 0..L /\ 0 \in 0..L
  BY <1>0
<1>5. sig[0] = S
  BY <1>2, <1>3, <1>4, PassedByNone
<1>6. ASSUME NEW k \in 1..L
      PROVE  sig[k] = IF PrimaryProcesses(c[k]) THEN Through(sig[k - 1], c[k].id, c[k].latency) ELSE sig[k - 1]
  <2>1. k \in 0..L /\ k - 1 \in 0..L
    BY <1>0
  <2>2. sig[k] = Passed(S, lat[k], ids[k]) /\ sig[k - 1] = Passed(S, lat[k - 1], ids[k - 1])
    BY <2>1
  <2>3. lat[k - 1] \in Nat /\ lat[k] \in Nat /\ ids[k - 1] \in Seq(Nat)
    BY <1>2, <1>3, <2>1
  <2> HIDE DEF sig
  <2>4. CASE PrimaryProcesses(c[k])
    <3>1. lat[k] = lat[k - 1] + c[k].latency /\ ids[k] = With(ids[k - 1], c[k].id)
      BY <1>2, <1>3, <2>4 DEF PrimaryLatency, With
    <3>2. Through(Passed(S, lat[k - 1], ids[k - 1]), c[k].id, c[k].latency)
          = Passed(S, lat[k], ids[k])
      <4>1. c[k].id \in Nat /\ c[k].latency \in Nat
        BY <1>1
      <4> DEFINE l == lat[k - 1]
                 m == c[k].latency
                 id == c[k].id
                 total == lat[k]
                 now == ids[k - 1]
                 all == ids[k]
      <4>2. l \in Nat /\ m \in Nat /\ id \in Nat /\ total \in Nat /\ now \in Seq(Nat)
        BY <2>3, <4>1
      <4>3. total = l + m /\ all = With(now, id)
        BY <3>1
      <4> HIDE DEF l, m, id, total, now, all
      <4>4. Through(Passed(S, l, now), id, m) = Passed(S, total, all)
        BY <4>2, <4>3, PassedOn
      <4> QED BY <4>4 DEF l, m, id, total, now, all
    <3> QED BY <2>2, <2>4, <3>2
  <2>5. CASE ~PrimaryProcesses(c[k])
    <3>1. lat[k] = lat[k - 1] /\ ids[k] = ids[k - 1]
      BY <1>2, <1>3, <2>3, <2>5 DEF PrimaryLatency
    <3> QED BY <2>2, <2>5, <3>1
  <2> QED BY <2>4, <2>5
<1>7. sig[L] = Passed(S, ChainLatency(c), ChainIds(c))
  BY <1>2, <1>3, <1>4
<1>8. ChainLatency(c) \in Nat /\ ChainIds(c) \in Seq(Nat)
  BY <1>2, <1>3, <1>4
<1> HIDE DEF sig
<1>9. Signalled(sig, c, S)
  BY <1>5, <1>6, <1>7, <1>8 DEF Signalled, L
<1> QED BY <1>9

LEMMA PhaseStarts ==
    ASSUME NEW start, NEW sp, NEW slots
    PROVE  Phase(Pointers(start), 0, sp, slots, start.in)
<1> DEFINE r == Pointers(start)
<1>1. /\ DOMAIN r = {"primary", "monitor", "val"}
      /\ r.primary = [in |-> "in", out |-> "alt"]
      /\ r.monitor = [in |-> "monitor_in", out |-> "monitor_alt"]
      /\ DOMAIN r.val = Bufs /\ r.val["in"] = start.in
  BY DEF Pointers, Bufs, Main
<1> HIDE DEF r
<1>2. Fit(r)
  BY <1>1 DEF Fit, Main
<1> QED BY <1>1, <1>2 DEF Phase, Sharing, Apart, r

\* The gain is applied once: parted paths end in different buffers.
LEMMA PhaseEnds ==
    ASSUME NEW r, NEW k, NEW sp, NEW slots, NEW signal, Phase(r, k, sp, slots, signal),
           NEW split \in BOOLEAN, sp[k] = split, NEW t
    PROVE  Ended(r, t, split).primary = Faded(signal, t)
<1> DEFINE once == [r.val EXCEPT ![r.primary.in] = Faded(@, t)]
           twice == [once EXCEPT ![r.monitor.in] = Faded(@, t)]
<1>1. Fit(r) /\ r.val[r.primary.in] = signal /\ r.primary.in \in Main /\ r.primary.in \in Bufs
  BY DEF Phase, Fit, Bufs
<1>2. once[r.primary.in] = Faded(signal, t)
  BY <1>1 DEF Fit
<1>3. split => r.monitor.in # r.primary.in
  BY DEF Phase, Apart, Behind
<1>4. split => twice[r.primary.in] = once[r.primary.in]
  <2> HIDE DEF once
  <2> QED BY <1>3
<1>5. Ended(r, t, split).primary = IF split THEN twice[r.primary.in] ELSE once[r.primary.in]
  BY DEF Ended, Given, Gained
<1> HIDE DEF once, twice
<1> QED BY <1>2, <1>4, <1>5

\* A chain is planned for a monitor path that may have parted only if there is one.
IsPlanned(c, p) ==
    \E required, before \in BOOLEAN : (before => required) /\ p = PlanChain(c, required, before)

LEMMA TrackRuns ==
    ASSUME NEW t, NEW track, NEW bus, NEW dry, IsChain(track.chain),
           NEW p, IsPlanned(track.chain, p), ~Entangled(p.slots),
           NEW D, IsSignal(Started(t, track, bus).in, D)
    PROVE  RunTrack(t, track, p, bus, dry, {}).primary
           = Faded(Passed(Started(t, track, bus).in, ChainLatency(track.chain), ChainIds(track.chain)), t)
<1> DEFINE c == track.chain
           L == Len(c)
           start == Started(t, track, bus)
<1>0. IsChain(c) /\ L \in Nat /\ DOMAIN c = 1..L
  BY DEF IsChain
<1>1. PICK w : /\ Running(w, c, p, dry, start)
               /\ RunTrack(t, track, p, bus, dry, {}) = Ended(w[L], t, p.split)
  BY <1>0, RunTrackRuns
<1> HIDE DEF start
<1>2. PICK sig : Signalled(sig, c, start.in)
  <2>1. IsSignal(start.in, D)
    BY DEF start
  <2> QED BY <1>0, <2>1, ChainPasses
<1>p. PICK required \in BOOLEAN, before \in BOOLEAN :
         (before => required) /\ p = PlanChain(c, required, before)
  BY DEF IsPlanned
<1>3. PICK sp : Parting(sp, c, required, before, p)
  BY <1>0, <1>p, PlanChainParts
<1> HIDE DEF c
<1> DEFINE Good(k) == Phase(w[k], k, sp, p.slots, sig[k])
           I == {k \in 0..L : Good(k)}
<1>4. 0 \in I
  <2>1. w[0] = Pointers(start) /\ sig[0] = start.in
    BY <1>1, <1>2 DEF Running, Signalled
  <2>2. Good(0)
    BY <2>1, PhaseStarts
  <2> HIDE DEF Good
  <2> QED BY <1>0, <2>2
<1>5. ASSUME NEW k \in 1..L, k - 1 \in I PROVE k \in I
  <2>1. Good(k - 1)
    BY <1>5
  <2>2. /\ w[k] = RunSlot(w[k - 1], c[k], p.slots[k], dry, {})
        /\ sig[k] = IF PrimaryProcesses(c[k]) THEN Through(sig[k - 1], c[k].id, c[k].latency) ELSE sig[k - 1]
    BY <1>1, <1>2 DEF Running, Signalled
  <2>3. Phase(RunSlot(w[k - 1], c[k], p.slots[k], dry, {}), k, sp, p.slots,
              IF PrimaryProcesses(c[k]) THEN Through(sig[k - 1], c[k].id, c[k].latency) ELSE sig[k - 1])
    BY <1>0, <1>p, <1>3, <2>1, PhaseKeeps
  <2>4. Good(k) /\ k \in 0..L
    BY <1>0, <2>2, <2>3
  <2> HIDE DEF Good
  <2> QED BY <2>4
<1> HIDE DEF I, L
<1>6. L \in I
  <2>1. \A k \in 0..L : k \in I
    BY <1>0, <1>4, <1>5, Counting
  <2>2. L \in 0..L
    BY <1>0
  <2> QED BY <2>1, <2>2
<1>7. Good(L)
  BY <1>6 DEF I
<1>8. p.split \in BOOLEAN /\ sp[L] = p.split
  <2>1. L \in 0..L
    BY <1>0
  <2> QED BY <1>3, <2>1 DEF Parting, L
<1>9. sig[L] = Passed(start.in, ChainLatency(c), ChainIds(c))
  BY <1>2 DEF Signalled, L
<1>10. Ended(w[L], t, p.split).primary = Faded(sig[L], t)
  BY <1>7, <1>8, PhaseEnds
<1> QED BY <1>1, <1>9, <1>10 DEF c, start, L

\* The three folds over the tracks.
PlanningTracks(n, q, low, delays, w) ==
    /\ DOMAIN w[0].plan = DOMAIN n
    /\ \A k \in 1..Len(q) : w[k] = TrackPlanned(n, low, delays, w[k - 1], q[k])
LEMMA PlanTracksTurns ==
    ASSUME NEW n, NEW q, Len(q) \in Nat, DOMAIN q = 1..Len(q), NEW delays
    PROVE  \E w : /\ PlanningTracks(n, q, ReverseReach(n, q, OutputsOf(n, "low")), delays, w)
                  /\ PlanTracks(n, q, delays) = w[Len(q)].plan
<1> DEFINE low == ReverseReach(n, q, OutputsOf(n, "low"))
           X == 1..Len(q)
           b == [split |-> {}, plan |-> [t \in DOMAIN n |-> PlanChain(<<>>, FALSE, FALSE)]]
           x == [fold |-> "plans", n |-> n, low |-> low, delays |-> delays, q |-> q]
           On(a, i) == TrackPlanned(n, low, delays, a, q[i])
           Recur(it) == [s \in SUBSET X |-> IF s = {} THEN b ELSE On(it[s \ {Max(s)}], Max(s))]
           iter == CHOOSE it : it = Recur(it)
<1>1. \A a, i : Turn(x, a, i) = On(a, i)
  BY DEF Turn
<1>2. PlanTracks(n, q, delays) = iter[X].plan
  BY DEF PlanTracks, FoldLeft, MapThenFoldSet, TrackPlanned
<1> HIDE DEF low, x, On
<1>3. \A it : TurnsUpto(it, x, b, Len(q)) <=> it = Recur(it)
  <2> HIDE DEF b, X
  <2>1. \A it : \A s \in SUBSET X : TurnsAt(it, x, b, s) = IF s = {} THEN b ELSE On(it[s \ {Max(s)}], Max(s))
    BY <1>1 DEF TurnsAt
  <2>2. \A it : Recur(it) = [s \in SUBSET X |-> TurnsAt(it, x, b, s)]
    BY <2>1
  <2> HIDE DEF Recur
  <2> QED BY <2>2 DEF TurnsUpto, X
<1>4. Turned(x, b, Len(q)) = iter[X]
  <2> HIDE DEF Recur, b
  <2> QED BY <1>3 DEF Turned
<1>5. PICK w : Turning(w, x, b, Len(q)) /\ w[Len(q)] = Turned(x, b, Len(q))
  <2> HIDE DEF b
  <2> QED BY TurnsAre
<1> HIDE DEF iter
<1>6. DOMAIN w[0].plan = DOMAIN n
  BY <1>5 DEF Turning
<1> HIDE DEF b
<1>7. \A k \in 1..Len(q) : w[k] = TrackPlanned(n, low, delays, w[k - 1], q[k])
  BY <1>1, <1>5 DEF Turning, On
<1> QED BY <1>2, <1>4, <1>5, <1>6, <1>7 DEF PlanningTracks, low

Blocking(n, plan, pdc, dry, w) ==
    /\ w[0] = [bus |-> [t \in DOMAIN n |-> [in |-> Silence, monitor |-> Silence, sc |-> Silence]],
               out |-> [t \in DOMAIN n |-> [primary |-> Silence, monitor |-> Silence]]]
    /\ \A k \in 1..Len(plan.topo) : w[k] = TrackRun(n, plan, pdc, dry, w[k - 1], plan.topo[k])
LEMMA BlockTurns ==
    ASSUME NEW n, NEW plan, Len(plan.topo) \in Nat, DOMAIN plan.topo = 1..Len(plan.topo),
           NEW pdc, NEW dry
    PROVE  \E w : /\ Blocking(n, plan, pdc, dry, w)
                  /\ Block(n, plan, pdc, dry, {}) = w[Len(plan.topo)]
<1> DEFINE q == plan.topo
           X == 1..Len(q)
           b == [bus |-> [t \in DOMAIN n |-> [in |-> Silence, monitor |-> Silence, sc |-> Silence]],
                 out |-> [t \in DOMAIN n |-> [primary |-> Silence, monitor |-> Silence]]]
           x == [fold |-> "block", n |-> n, plan |-> plan, pdc |-> pdc, dry |-> dry]
           On(a, i) == TrackRun(n, plan, pdc, dry, a, q[i])
           Recur(it) == [s \in SUBSET X |-> IF s = {} THEN b ELSE On(it[s \ {Max(s)}], Max(s))]
           iter == CHOOSE it : it = Recur(it)
<1>1. \A a, i : Turn(x, a, i) = On(a, i)
  BY DEF Turn
<1>2. Block(n, plan, pdc, dry, {}) = iter[X]
  BY DEF Block, FoldLeft, MapThenFoldSet, TrackRun
<1> HIDE DEF x, On
<1>3. \A it : TurnsUpto(it, x, b, Len(q)) <=> it = Recur(it)
  <2> HIDE DEF b, X
  <2>1. \A it : \A s \in SUBSET X : TurnsAt(it, x, b, s) = IF s = {} THEN b ELSE On(it[s \ {Max(s)}], Max(s))
    BY <1>1 DEF TurnsAt
  <2>2. \A it : Recur(it) = [s \in SUBSET X |-> TurnsAt(it, x, b, s)]
    BY <2>1
  <2> HIDE DEF Recur
  <2> QED BY <2>2 DEF TurnsUpto, X
<1>4. Turned(x, b, Len(q)) = iter[X]
  <2> HIDE DEF Recur, b
  <2> QED BY <1>3 DEF Turned
<1>5. PICK w : Turning(w, x, b, Len(q)) /\ w[Len(q)] = Turned(x, b, Len(q))
  <2> HIDE DEF b
  <2> QED BY TurnsAre
<1> HIDE DEF iter
<1>6. w[0] = b
  BY <1>5 DEF Turning
<1>7. \A k \in 1..Len(q) : w[k] = TrackRun(n, plan, pdc, dry, w[k - 1], q[k])
  <2> HIDE DEF b
  <2> QED BY <1>1, <1>5 DEF Turning, On
<1> HIDE DEF b
<1> QED BY <1>2, <1>4, <1>5, <1>6, <1>7 DEF Blocking, b

Walking(n, q, w) ==
    /\ w[0] = [t \in DOMAIN n |-> {}]
    /\ \A k \in 1..Len(q) : w[k] = WaysOn(n, w[k - 1], q[k])
LEMMA WaysTurn ==
    ASSUME NEW n, NEW q, Len(q) \in Nat, DOMAIN q = 1..Len(q)
    PROVE  \E w : Walking(n, q, w) /\ Ways(n, q, PrimaryProcesses) = w[Len(q)]
<1> DEFINE X == 1..Len(q)
           b == [t \in DOMAIN n |-> {}]
           x == [fold |-> "ways", n |-> n, q |-> q]
           On(a, i) == WaysOn(n, a, q[i])
           Recur(it) == [s \in SUBSET X |-> IF s = {} THEN b ELSE On(it[s \ {Max(s)}], Max(s))]
           iter == CHOOSE it : it = Recur(it)
<1>1. \A a, i : Turn(x, a, i) = On(a, i)
  BY DEF Turn
<1>2. Ways(n, q, PrimaryProcesses) = iter[X]
  BY DEF Ways, Chain, ChainIds, FoldLeft, MapThenFoldSet, WaysOn, WaysTo
<1> HIDE DEF x, On
<1>3. \A it : TurnsUpto(it, x, b, Len(q)) <=> it = Recur(it)
  <2> HIDE DEF b, X
  <2>1. \A it : \A s \in SUBSET X : TurnsAt(it, x, b, s) = IF s = {} THEN b ELSE On(it[s \ {Max(s)}], Max(s))
    BY <1>1 DEF TurnsAt
  <2>2. \A it : Recur(it) = [s \in SUBSET X |-> TurnsAt(it, x, b, s)]
    BY <2>1
  <2> HIDE DEF Recur
  <2> QED BY <2>2 DEF TurnsUpto, X
<1>4. Turned(x, b, Len(q)) = iter[X]
  <2> HIDE DEF Recur, b
  <2> QED BY <1>3 DEF Turned
<1>5. PICK w : Turning(w, x, b, Len(q)) /\ w[Len(q)] = Turned(x, b, Len(q))
  <2> HIDE DEF b
  <2> QED BY TurnsAre
<1> HIDE DEF iter
<1>6. w[0] = b
  BY <1>5 DEF Turning
<1>7. \A k \in 1..Len(q) : w[k] = WaysOn(n, w[k - 1], q[k])
  <2> HIDE DEF b
  <2> QED BY <1>1, <1>5 DEF Turning, On
<1> QED BY <1>2, <1>4, <1>5, <1>6, <1>7 DEF Walking

LEMMA TrackIsPlanned ==
    ASSUME NEW n, NEW low, NEW delays, NEW acc, NEW t, t \in DOMAIN acc.plan
    PROVE  LET next == TrackPlanned(n, low, delays, acc, t)
           IN  /\ DOMAIN next.plan = DOMAIN acc.plan
               /\ IsPlanned(n[t].chain, next.plan[t])
               /\ \A u \in DOMAIN acc.plan : u # t => next.plan[u] = acc.plan[u]
<1> DEFINE required == t \in low
           before == t \in low /\ UsesInputBus(n[t]) /\ t \in acc.split
           p == PlanChain(n[t].chain, required, before)
           next == TrackPlanned(n, low, delays, acc, t)
<1>1. next.plan = [acc.plan EXCEPT ![t] = p]
  BY DEF TrackPlanned
<1>2. required \in BOOLEAN /\ before \in BOOLEAN /\ (before => required)
  OBVIOUS
<1> HIDE DEF required, before, next
<1>3. IsPlanned(n[t].chain, p)
  BY <1>2 DEF IsPlanned
<1> HIDE DEF p
<1> QED BY <1>1, <1>3 DEF next

LEMMA TracksArePlanned ==
    ASSUME NEW n, NEW q, Ordered(n, q), NEW delays
    PROVE  \A t \in DOMAIN n : IsPlanned(n[t].chain, PlanTracks(n, q, delays)[t])
<1> DEFINE L == Len(q)
           low == ReverseReach(n, q, OutputsOf(n, "low"))
<1>0. L \in Nat /\ DOMAIN q = 1..L /\ \A i \in 1..L : q[i] \in DOMAIN n
  BY LenProperties, ElementOfSeq DEF Ordered
<1>1. PICK w : PlanningTracks(n, q, low, delays, w) /\ PlanTracks(n, q, delays) = w[L].plan
  BY <1>0, PlanTracksTurns
<1> HIDE DEF L, low
<1> DEFINE Good(k) == /\ DOMAIN w[k].plan = DOMAIN n
                      /\ \A i \in 1..k : IsPlanned(n[q[i]].chain, w[k].plan[q[i]])
           I == {k \in 0..L : Good(k)}
<1>2. 0 \in I
  BY <1>0, <1>1 DEF PlanningTracks
<1>3. ASSUME NEW k \in 1..L, k - 1 \in I PROVE k \in I
  <2>1. Good(k - 1)
    BY <1>3
  <2> DEFINE next == TrackPlanned(n, low, delays, w[k - 1], q[k])
  <2>2. w[k] = next
    BY <1>1 DEF PlanningTracks, L
  <2>3. q[k] \in DOMAIN w[k - 1].plan
    BY <1>0, <2>1
  <2>4. /\ DOMAIN next.plan = DOMAIN w[k - 1].plan
        /\ IsPlanned(n[q[k]].chain, next.plan[q[k]])
        /\ \A u \in DOMAIN w[k - 1].plan : u # q[k] => next.plan[u] = w[k - 1].plan[u]
    BY <2>3, TrackIsPlanned
  <2> HIDE DEF next
  <2>5. ASSUME NEW i \in 1..k PROVE IsPlanned(n[q[i]].chain, w[k].plan[q[i]])
    <3>1. CASE i = k
      BY <2>2, <2>4, <3>1
    <3>2. CASE i # k
      <4>1. i \in 1..(k - 1) /\ i \in 1..L
        BY <1>0, <3>2
      <4>2. q[i] # q[k] /\ q[i] \in DOMAIN w[k - 1].plan
        BY <1>0, <2>1, <3>2, <4>1 DEF Ordered, Once, L
      <4>3. w[k].plan[q[i]] = w[k - 1].plan[q[i]]
        BY <2>2, <2>4, <4>2
      <4> QED BY <2>1, <4>1, <4>3
    <3> QED BY <3>1, <3>2
  <2>6. Good(k) /\ k \in 0..L
    BY <1>0, <2>1, <2>2, <2>4, <2>5
  <2> HIDE DEF Good
  <2> QED BY <2>6
<1> HIDE DEF I
<1>4. L \in I
  <2>1. \A k \in 0..L : k \in I
    BY <1>0, <1>2, <1>3, Counting
  <2>2. L \in 0..L
    BY <1>0
  <2> QED BY <2>1, <2>2
<1>5. Good(L)
  BY <1>4 DEF I
<1>6. ASSUME NEW t \in DOMAIN n PROVE IsPlanned(n[t].chain, w[L].plan[t])
  <2>1. PICK i \in 1..L : q[i] = t
    BY DEF Ordered, Has, L
  <2> QED BY <1>5, <2>1
<1> QED BY <1>1, <1>6

Way(x) == [from |-> x.from, through |-> x.through, faded |-> x.faded]
Longer(v, ids, t) == [v EXCEPT !.through = @ \o ids, !.faded = Append(@, t)]

Gone(x, l, ids, t) ==
    [[x EXCEPT !.late = @ + l, !.through = @ \o ids] EXCEPT !.faded = Append(@, t)]

\* One path through a track.
LEMMA PathGoesOn ==
    ASSUME NEW D, NEW x \in Paths(D), NEW l \in Nat, NEW ids \in Seq(Nat), NEW t \in D
    PROVE  LET y == Gone(x, l, ids, t)
           IN  y \in Paths(D) /\ y.late = x.late + l /\ Way(y) = Longer(Way(x), ids, t)
<1> DEFINE y == Gone(x, l, ids, t)
           late == x.late + l
           through == x.through \o ids
           faded == Append(x.faded, t)
           m == [x EXCEPT !.late = late, !.through = through]
<1>1. late \in Nat /\ through \in Seq(Nat) /\ faded \in Seq(D)
  <2>1. x.late \in Nat /\ x.through \in Seq(Nat) /\ x.faded \in Seq(D)
    BY DEF Paths
  <2>2. through \in Seq(Nat)
    BY <2>1, ConcatProperties
  <2>3. faded \in Seq(D)
    BY <2>1, AppendProperties
  <2> QED BY <2>1, <2>2, <2>3
<1>2. m = [x EXCEPT !.late = @ + l, !.through = @ \o ids] /\ m.faded = x.faded
  BY DEF Paths
<1>3. y = [m EXCEPT !.faded = faded]
  <2> HIDE DEF m
  <2>1. y = [m EXCEPT !.faded = Append(@, t)]
    BY <1>2 DEF Gone
  <2> HIDE DEF y
  <2> QED BY <1>2, <2>1
<1>7. Longer(Way(x), ids, t) = [from |-> x.from, through |-> through, faded |-> faded]
  <2> DEFINE v == Way(x)
  <2>1. v = [from |-> x.from, through |-> x.through, faded |-> x.faded]
    BY DEF Way
  <2>4. v \in [from : D, through : Seq(Nat), faded : Seq(D)]
    BY <2>1 DEF Paths
  <2> HIDE DEF v
  <2>2. Longer(v, ids, t) = [v EXCEPT !.through = through, !.faded = faded]
    BY <2>1 DEF Longer
  <2> HIDE DEF through, faded
  <2> DEFINE z == [v EXCEPT !.through = through, !.faded = faded]
  <2>3. z \in [from : D, through : Seq(Nat), faded : Seq(D)]
    BY <1>1, <2>4
  <2>5. z.from = x.from /\ z.through = through /\ z.faded = faded
    BY <2>1, <2>4
  <2> HIDE DEF z
  <2>6. z = [from |-> x.from, through |-> through, faded |-> faded]
    BY <2>3, <2>5
  <2> QED BY <2>2, <2>6 DEF v, z
<1> HIDE DEF late, through, faded, y
<1>4. y = [from |-> x.from, late |-> late, through |-> through, faded |-> faded]
  BY <1>3 DEF Paths
<1>5. y \in Paths(D)
  BY <1>1, <1>4 DEF Paths
<1>6. Way(y) = [from |-> x.from, through |-> through, faded |-> faded] /\ y.late = late
  <2>1. y.from = x.from /\ y.through = through /\ y.faded = faded /\ y.late = late
    BY <1>4
  <2> QED BY <2>1 DEF Way
<1> QED BY <1>5, <1>6, <1>7 DEF late, y

LEMMA SignalGoesOn ==
    ASSUME NEW D, NEW S, IsSignal(S, D), NEW l \in Nat, NEW ids \in Seq(Nat), NEW t \in D
    PROVE  LET out == Faded(Passed(S, l, ids), t)
           IN  /\ IsSignal(out, D)
               /\ Carries(out) = {Longer(v, ids, t) : v \in Carries(S)}
               /\ \A y \in out : \E x \in S : y.late = x.late + l
<1> DEFINE F(x) == Gone(x, l, ids, t)
           out == Faded(Passed(S, l, ids), t)
<1>1. out = {F(x) : x \in S}
  BY DEF Faded, Passed, Gone
<1>2. ASSUME NEW x \in S
      PROVE  F(x) \in Paths(D) /\ F(x).late = x.late + l /\ Way(F(x)) = Longer(Way(x), ids, t)
  <2>1. x \in Paths(D)
    BY DEF IsSignal
  <2> QED BY <2>1, PathGoesOn
<1>3. Carries(out) = {Way(y) : y \in out} /\ Carries(S) = {Way(x) : x \in S}
  BY DEF Carries, Way
<1> HIDE DEF F, out
<1>4. Carries(out) = {Longer(v, ids, t) : v \in Carries(S)}
  BY <1>1, <1>2, <1>3
<1> QED BY <1>1, <1>2, <1>4 DEF out, IsSignal

LEMMA SignalIsLate ==
    ASSUME NEW D, NEW S, IsSignal(S, D), NEW m \in Nat
    PROVE  /\ IsSignal(Late(S, m), D)
           /\ Carries(Late(S, m)) = Carries(S)
           /\ \A y \in Late(S, m) : \E x \in S : y.late = x.late + m
<1> DEFINE F(x) == [x EXCEPT !.late = @ + m]
           out == Late(S, m)
<1>1. out = {F(x) : x \in S}
  BY DEF Late
<1>2. ASSUME NEW x \in S
      PROVE  F(x) \in Paths(D) /\ F(x).late = x.late + m /\ Way(F(x)) = Way(x)
  <2>1. x \in Paths(D)
    BY DEF IsSignal
  <2>2. F(x) \in Paths(D) /\ F(x).late = x.late + m
    BY <2>1 DEF Paths
  <2>3. F(x).from = x.from /\ F(x).through = x.through /\ F(x).faded = x.faded
    BY <2>1 DEF Paths
  <2> HIDE DEF F
  <2> QED BY <2>2, <2>3 DEF Way
<1>3. Carries(out) = {Way(y) : y \in out} /\ Carries(S) = {Way(x) : x \in S}
  BY DEF Carries, Way
<1> HIDE DEF F, out
<1>4. Carries(out) = Carries(S)
  BY <1>1, <1>2, <1>3
<1> QED BY <1>1, <1>2, <1>4 DEF out, IsSignal

\* What a track's first plugin finds.
LEMMA SignalStarts ==
    ASSUME NEW D, NEW t \in D, NEW track, NEW bus, DOMAIN bus = {"in", "monitor", "sc"}
    PROVE  /\ IsSource(track) => /\ Started(t, track, bus).in = Origin(t)
                                 /\ IsSignal(Origin(t), D)
                                 /\ Carries(Origin(t)) = {[from |-> t, through |-> <<>>, faded |-> <<>>]}
                                 /\ \A x \in Origin(t) : x.late = 0
           /\ ~IsSource(track) => Started(t, track, bus).in = bus.in
<1>1. IsSource(track) => Started(t, track, bus).in = Origin(t)
  BY DEF Started
<1>2. IsSignal(Origin(t), D)
  BY DEF IsSignal, Origin, Paths
<1>3. Carries(Origin(t)) = {[from |-> t, through |-> <<>>, faded |-> <<>>]}
  BY DEF Carries, Origin
<1>4. \A x \in Origin(t) : x.late = 0
  BY DEF Origin
<1>5. ~IsSource(track) => Started(t, track, bus).in = bus.in
  BY DEF Started
<1> QED BY <1>1, <1>2, <1>3, <1>4, <1>5

Top(n, path, t) == Largest({path[s] : s \in Into(n, t)})

\* A graph whose delays meet in reach, with what its plan says.
Laid(n, path, pdc, tracks, reach) ==
    /\ Whole(n) /\ Sound(n)
    /\ \A t \in DOMAIN n : /\ Top(n, path, t) \in Nat
                           /\ path[t] = ChainLatency(n[t].chain) + Top(n, path, t)
                           /\ Into(n, t) = {} => Top(n, path, t) = 0
    /\ \A e \in Edges(n) :
          /\ DelayOn(pdc, e) \in Nat
          /\ e.to \in reach => path[e.from] + DelayOn(pdc, e) = Top(n, path, e.to)
    /\ \A t \in DOMAIN n : IsPlanned(n[t].chain, tracks[t]) /\ ~Entangled(tracks[t].slots)
    /\ \A t \in reach : Into(n, t) \subseteq reach

\* The tracks done have given on their ways; in reach all of it is on time.
BusFlows(bus, y, n, path, reach, done, d) ==
    /\ DOMAIN bus = {"in", "monitor", "sc"}
    /\ IsSignal(bus.in, DOMAIN n) /\ IsSignal(bus.sc, DOMAIN n)
    /\ \A v : v \in Carries(bus.in) <=> \E s \in done : d \in n[s].dests /\ v \in y[s]
    /\ d \in reach => \A x \in bus.in \cup bus.sc : x.late = Top(n, path, d)
OutFlows(signal, way, path, reach, s) ==
    /\ Carries(signal) = way
    /\ s \in reach => \A x \in signal : x.late = path[s]
Flows(b, y, n, path, reach, done) ==
    /\ DOMAIN b.bus = DOMAIN n /\ DOMAIN b.out = DOMAIN n /\ DOMAIN y = DOMAIN n
    /\ \A d \in DOMAIN n : BusFlows(b.bus[d], y, n, path, reach, done, d)
    /\ \A s \in done : OutFlows(b.out[s].primary, y[s], path, reach, s)

LEMMA TrackFlows ==
    ASSUME NEW n, NEW path, NEW pdc, NEW tracks, NEW reach, Laid(n, path, pdc, tracks, reach),
           NEW b, NEW y, NEW done, done \subseteq DOMAIN n, Flows(b, y, n, path, reach, done),
           NEW t \in DOMAIN n, Into(n, t) \subseteq done, NEW dry
    PROVE  LET out == RunTrack(t, n[t], tracks[t], b.bus[t], dry, {})
           IN  /\ IsSignal(out.primary, DOMAIN n)
               /\ OutFlows(out.primary, WaysOn(n, y, t)[t], path, reach, t)
<1> DEFINE out == RunTrack(t, n[t], tracks[t], b.bus[t], dry, {})
           c == n[t].chain
           bus == b.bus[t]
           S == Started(t, n[t], bus).in
           top == Top(n, path, t)
<1>1. BusFlows(bus, y, n, path, reach, done, t)
  BY DEF Flows
<1>2. IsChain(c) /\ ChainLatency(c) \in Nat /\ ChainIds(c) \in Seq(Nat)
  <2>1. IsChain(c)
    BY WholeHasChains DEF Laid
  <2>2. IsSignal({}, DOMAIN n)
    BY DEF IsSignal
  <2> HIDE DEF c
  <2>3. PICK sig : Signalled(sig, c, {})
    BY <2>1, <2>2, ChainPasses
  <2> QED BY <2>1, <2>3 DEF Signalled
<1>3. /\ IsSignal(S, DOMAIN n) /\ Carries(S) = WaysTo(n, y, t)
      /\ t \in reach => \A x \in S : x.late = top
  <2>1. DOMAIN bus = {"in", "monitor", "sc"}
    BY <1>1 DEF BusFlows
  <2>2. CASE IsSource(n[t])
    <3>1. /\ S = Origin(t) /\ IsSignal(Origin(t), DOMAIN n)
          /\ Carries(Origin(t)) = {[from |-> t, through |-> <<>>, faded |-> <<>>]}
          /\ \A x \in Origin(t) : x.late = 0
      <4> HIDE DEF bus
      <4> QED BY <2>1, <2>2, SignalStarts
    <3>2. Into(n, t) = {}
      <4>1. \A s \in DOMAIN n : t \notin n[s].dests /\ t \notin n[s].sidechain
        BY <2>2 DEF Laid, Sound, IsSource
      <4> QED BY <4>1 DEF Into, Targets
    <3>3. top = 0
      BY <3>2 DEF Laid
    <3> HIDE DEF S, top
    <3> QED BY <2>2, <3>1, <3>3 DEF WaysTo
  <2>3. CASE ~IsSource(n[t])
    <3>1. S = bus.in
      <4> HIDE DEF bus
      <4> QED BY <2>1, <2>3, SignalStarts
    <3>2. \A v : v \in Carries(bus.in) <=> \E s \in done : t \in n[s].dests /\ v \in y[s]
      BY <1>1 DEF BusFlows
    <3>4. \A s : s \in done /\ t \in n[s].dests <=> s \in DOMAIN n /\ t \in n[s].dests
      BY DEF Into, Targets
    <3>5. \A v : v \in WaysTo(n, y, t) <=> \E s \in DOMAIN n : t \in n[s].dests /\ v \in y[s]
      BY <2>3 DEF WaysTo
    <3>3. Carries(bus.in) = WaysTo(n, y, t)
      BY <3>2, <3>4, <3>5
    <3> HIDE DEF S, top, bus
    <3> QED BY <1>1, <3>1, <3>3 DEF BusFlows, top
  <2> QED BY <2>2, <2>3
<1>4. out.primary = Faded(Passed(S, ChainLatency(c), ChainIds(c)), t)
  <2>1. IsPlanned(c, tracks[t]) /\ ~Entangled(tracks[t].slots)
    BY DEF Laid
  <2> DEFINE track == n[t]
             p == tracks[t]
  <2>2. IsChain(track.chain) /\ IsPlanned(track.chain, p) /\ ~Entangled(p.slots)
        /\ IsSignal(Started(t, track, bus).in, DOMAIN n)
    BY <1>2, <1>3, <2>1
  <2> HIDE DEF bus, track, p
  <2>3. RunTrack(t, track, p, bus, dry, {}).primary
        = Faded(Passed(Started(t, track, bus).in, ChainLatency(track.chain), ChainIds(track.chain)), t)
    BY <2>2, TrackRuns
  <2> QED BY <2>3 DEF bus, track, p
<1> HIDE DEF out, S, c, top
<1>5. /\ IsSignal(out.primary, DOMAIN n)
      /\ Carries(out.primary) = {Longer(v, ChainIds(c), t) : v \in Carries(S)}
      /\ \A z \in out.primary : \E x \in S : z.late = x.late + ChainLatency(c)
  BY <1>2, <1>3, <1>4, SignalGoesOn
<1>6. WaysOn(n, y, t)[t] = {Longer(v, ChainIds(c), t) : v \in WaysTo(n, y, t)}
  <2>1. t \in DOMAIN y
    BY DEF Flows
  <2> QED BY <2>1 DEF WaysOn, Longer, c
<1>7. t \in reach => \A z \in out.primary : z.late = path[t]
  <2>1. path[t] = ChainLatency(c) + top /\ top \in Nat
    BY DEF Laid, c, top
  <2>2. ASSUME t \in reach, NEW z \in out.primary PROVE z.late = path[t]
    <3>1. PICK x \in S : z.late = x.late + ChainLatency(c)
      BY <1>5
    <3>2. x.late = top
      BY <1>3, <2>2
    <3>3. z.late = top + ChainLatency(c)
      BY <3>1, <3>2
    <3> QED BY <1>2, <2>1, <3>3
  <2> QED BY <2>2
<1>8. OutFlows(out.primary, WaysOn(n, y, t)[t], path, reach, t)
  BY <1>3, <1>5, <1>6, <1>7 DEF OutFlows
<1> QED BY <1>5, <1>8 DEF out

\* A send along an edge.
LEMMA SendIsOnTime ==
    ASSUME NEW n, NEW path, NEW pdc, NEW tracks, NEW reach, Laid(n, path, pdc, tracks, reach),
           NEW e \in Edges(n), NEW t, NEW d, e.from = t, e.to = d,
           NEW signal, NEW way, IsSignal(signal, DOMAIN n), OutFlows(signal, way, path, reach, t)
    PROVE  LET sent == Late(signal, DelayOn(pdc, e))
           IN  /\ IsSignal(sent, DOMAIN n) /\ Carries(sent) = way
               /\ d \in reach => \A x \in sent : x.late = Top(n, path, d)
<1>1. t \in Into(n, d)
  BY DEF Edges, Into, Targets
<1>2. DelayOn(pdc, e) \in Nat /\ (d \in reach => path[t] + DelayOn(pdc, e) = Top(n, path, d))
  BY DEF Laid
<1> DEFINE delay == DelayOn(pdc, e)
           sent == Late(signal, delay)
<1> HIDE DEF delay
<1>3. /\ IsSignal(sent, DOMAIN n) /\ Carries(sent) = Carries(signal)
      /\ \A z \in sent : \E x \in signal : z.late = x.late + delay
  BY <1>2, SignalIsLate DEF delay
<1>4. ASSUME d \in reach, NEW z \in sent PROVE z.late = Top(n, path, d)
  <2>1. t \in reach
    BY <1>1, <1>4 DEF Laid
  <2>2. PICK x \in signal : z.late = x.late + delay
    BY <1>3, <1>4
  <2>3. x.late = path[t]
    BY <2>1 DEF OutFlows
  <2> QED BY <1>2, <1>4, <2>2, <2>3 DEF delay
<1> HIDE DEF sent
<1> QED BY <1>3, <1>4 DEF OutFlows, sent, delay

LEMMA Joining ==
    ASSUME NEW D, NEW S, NEW T, IsSignal(S, D), IsSignal(T, D), NEW U, U = S \cup T
    PROVE  IsSignal(U, D) /\ Carries(U) = Carries(S) \cup Carries(T)
BY DEF IsSignal, Carries

LEMMA FlowsOn ==
    ASSUME NEW n, NEW path, NEW pdc, NEW plan, NEW reach, Laid(n, path, pdc, plan.tracks, reach),
           NEW b, NEW y, NEW done, done \subseteq DOMAIN n, Flows(b, y, n, path, reach, done),
           NEW t \in DOMAIN n, Into(n, t) \subseteq done, t \notin done, NEW dry
    PROVE  Flows(TrackRun(n, plan, pdc, dry, b, t), WaysOn(n, y, t), n, path, reach, done \cup {t})
<1> DEFINE out == RunTrack(t, n[t], plan.tracks[t], b.bus[t], dry, {})
           z == WaysOn(n, y, t)
           next == TrackRun(n, plan, pdc, dry, b, t)
           Dest(d) == [from |-> t, to |-> d, aux |-> FALSE]
           Side(d) == [from |-> t, to |-> d, aux |-> TRUE]
           SentTo(e) == Late(out.primary, DelayOn(pdc, e))
           In(d) == IF d \in n[t].dests THEN SentTo(Dest(d)) ELSE Silence
           Sc(d) == IF d \in n[t].sidechain THEN SentTo(Side(d)) ELSE Silence
<1>1. IsSignal(out.primary, DOMAIN n) /\ OutFlows(out.primary, z[t], path, reach, t)
  BY TrackFlows
<1>2. DOMAIN b.bus = DOMAIN n /\ DOMAIN b.out = DOMAIN n /\ DOMAIN y = DOMAIN n
  BY DEF Flows
<1>3. DOMAIN z = DOMAIN n /\ \A s \in done : z[s] = y[s]
  BY <1>2 DEF WaysOn
<1>4. next.bus = Sends(b.bus, t, n[t], out, pdc) /\ next.out = [b.out EXCEPT ![t] = out]
  BY DEF TrackRun, After
<1> HIDE DEF out, z, next
<1>5. DOMAIN next.bus = DOMAIN n /\ DOMAIN next.out = DOMAIN n
  BY <1>2, <1>4 DEF Sends
<1>6. ASSUME NEW d \in DOMAIN n
      PROVE  /\ DOMAIN next.bus[d] = {"in", "monitor", "sc"}
             /\ next.bus[d].in = b.bus[d].in \cup In(d)
             /\ next.bus[d].sc = b.bus[d].sc \cup Sc(d)
  BY <1>2, <1>4 DEF Sends, DelayOn
<1> HIDE DEF Dest, Side
<1>7. ASSUME NEW d \in DOMAIN n
      PROVE  /\ IsSignal(In(d), DOMAIN n) /\ IsSignal(Sc(d), DOMAIN n)
             /\ Carries(In(d)) = IF d \in n[t].dests THEN z[t] ELSE {}
             /\ d \in reach => \A x \in In(d) \cup Sc(d) : x.late = Top(n, path, d)
  <2>1. d \in n[t].dests =>
           /\ IsSignal(SentTo(Dest(d)), DOMAIN n) /\ Carries(SentTo(Dest(d))) = z[t]
           /\ d \in reach => \A x \in SentTo(Dest(d)) : x.late = Top(n, path, d)
    <3> SUFFICES ASSUME d \in n[t].dests
                 PROVE  /\ IsSignal(SentTo(Dest(d)), DOMAIN n) /\ Carries(SentTo(Dest(d))) = z[t]
                        /\ d \in reach => \A x \in SentTo(Dest(d)) : x.late = Top(n, path, d)
      OBVIOUS
    <3> DEFINE e == Dest(d)
    <3>1. e \in Edges(n) /\ e.from = t /\ e.to = d
      BY DEF Dest, Side, Edges
    <3> HIDE DEF e
    <3> QED BY <1>1, <3>1, SendIsOnTime DEF e
  <2>2. d \in n[t].sidechain =>
           /\ IsSignal(SentTo(Side(d)), DOMAIN n)
           /\ d \in reach => \A x \in SentTo(Side(d)) : x.late = Top(n, path, d)
    <3> SUFFICES ASSUME d \in n[t].sidechain
                 PROVE  /\ IsSignal(SentTo(Side(d)), DOMAIN n)
                        /\ d \in reach => \A x \in SentTo(Side(d)) : x.late = Top(n, path, d)
      OBVIOUS
    <3> DEFINE e == Side(d)
    <3>1. e \in Edges(n) /\ e.from = t /\ e.to = d
      BY DEF Dest, Side, Edges
    <3> HIDE DEF e
    <3> QED BY <1>1, <3>1, SendIsOnTime DEF e
  <2>3. IsSignal(Silence, DOMAIN n) /\ Carries(Silence) = {}
    BY DEF IsSignal, Silence, Carries
  <2>4. \A x : x \notin Silence
    BY DEF Silence
  <2> HIDE DEF SentTo
  <2> QED BY <2>1, <2>2, <2>3, <2>4
<1> HIDE DEF In, Sc
<1>8. ASSUME NEW d \in DOMAIN n
      PROVE  BusFlows(next.bus[d], z, n, path, reach, done \cup {t}, d)
  <2> DEFINE bus == b.bus[d]
             now == next.bus[d]
  <2>1. /\ IsSignal(bus.in, DOMAIN n) /\ IsSignal(bus.sc, DOMAIN n)
        /\ \A v : v \in Carries(bus.in) <=> \E s \in done : d \in n[s].dests /\ v \in y[s]
        /\ d \in reach => \A x \in bus.in \cup bus.sc : x.late = Top(n, path, d)
    BY DEF Flows, BusFlows
  <2>2. now.in = bus.in \cup In(d) /\ now.sc = bus.sc \cup Sc(d) /\ DOMAIN now = {"in", "monitor", "sc"}
    BY <1>6
  <2> HIDE DEF bus, now
  <2>3. /\ IsSignal(now.in, DOMAIN n) /\ IsSignal(now.sc, DOMAIN n)
        /\ Carries(now.in) = Carries(bus.in) \cup Carries(In(d))
    <3>1. IsSignal(In(d), DOMAIN n) /\ IsSignal(Sc(d), DOMAIN n)
      BY <1>7
    <3>2. IsSignal(now.in, DOMAIN n) /\ Carries(now.in) = Carries(bus.in) \cup Carries(In(d))
      BY <2>1, <2>2, <3>1, Joining
    <3>3. IsSignal(now.sc, DOMAIN n)
      BY <2>1, <2>2, <3>1, Joining
    <3> QED BY <3>2, <3>3
  <2>5. d \in reach => \A x \in now.in \cup now.sc : x.late = Top(n, path, d)
    BY <1>7, <2>1, <2>2
  <2>6. \A v : v \in Carries(now.in) <=> \E s \in done \cup {t} : d \in n[s].dests /\ v \in z[s]
    <3>1. \A v : v \in Carries(In(d)) <=> d \in n[t].dests /\ v \in z[t]
      BY <1>7
    <3>2. \A v : v \in Carries(bus.in) <=> \E s \in done : d \in n[s].dests /\ v \in z[s]
      BY <1>3, <2>1
    <3> QED BY <2>3, <3>1, <3>2
  <2>7. BusFlows(now, z, n, path, reach, done \cup {t}, d)
    BY <2>2, <2>3, <2>5, <2>6 DEF BusFlows
  <2> QED BY <2>7 DEF now
<1>9. ASSUME NEW s \in done \cup {t} PROVE OutFlows(next.out[s].primary, z[s], path, reach, s)
  <2>1. CASE s = t
    BY <1>1, <1>2, <1>4, <2>1
  <2>2. CASE s # t
    <3>1. s \in done /\ next.out[s] = b.out[s] /\ z[s] = y[s]
      BY <1>2, <1>3, <1>4, <2>2
    <3> QED BY <3>1 DEF Flows
  <2> QED BY <2>1, <2>2
<1> QED BY <1>3, <1>5, <1>8, <1>9 DEF Flows, next, z

LEMMA PlanIsLaid ==
    ASSUME NEW n, NEW o, Wired(n, o), Sound(n), Loopless(n), Whole(n),
           NEW plan, plan = PlanRoutes(n, o),
           \A t \in DOMAIN n : ~Entangled(plan.tracks[t].slots)
    PROVE  /\ Ordered(n, plan.topo)
           /\ Laid(n, PathOf(n, plan.topo), plan.delays, plan.tracks,
                   ReverseReach(n, plan.topo, OutputsOf(n, "full")))
<1> DEFINE q == TopoOrder(n, o)
           path == PathOf(n, q)
           delays == EdgeDelays(n, q, path)
           tracks == PlanTracks(n, q, delays)
           full == OutputsOf(n, "full")
           reach == ReverseReach(n, q, full)
<1>1. Ordered(n, q)
  BY WalkIsOrdered
<1>2. plan.topo = q /\ plan.delays = delays /\ plan.tracks = tracks
  BY PlanIs
<1> HIDE DEF q
<1>3. IsFiniteSet(DOMAIN n)
  BY <1>1 DEF Ordered
<1>4. /\ path \in [DOMAIN n -> Nat]
      /\ \A t \in DOMAIN n : path[t] = ChainLatency(n[t].chain) + Top(n, path, t)
  <2>1. Own(n) \in [DOMAIN n -> Nat] /\ \A t \in DOMAIN n : Own(n)[t] = ChainLatency(n[t].chain)
    BY OwnIs DEF Own
  <2> HIDE DEF Own
  <2>2. /\ path \in [DOMAIN n -> Nat]
        /\ \A t \in DOMAIN n : path[t] = Own(n)[t] + Largest({path[s] : s \in Into(n, t)})
    BY <1>1, <2>1, PathIs DEF PathOf
  <2> QED BY <2>1, <2>2 DEF Top
<1> HIDE DEF path
<1>5. ASSUME NEW t \in DOMAIN n PROVE Top(n, path, t) \in Nat /\ (Into(n, t) = {} => Top(n, path, t) = 0)
  <2> DEFINE I == Into(n, t)
  <2>1. IsFiniteSet(I) /\ \A s \in I : path[s] \in Nat
    <3>1. I \in SUBSET DOMAIN n
      BY DEF Into
    <3> QED BY <1>3, <1>4, <3>1, FS_Subset
  <2> HIDE DEF I
  <2>2. /\ Largest({path[s] : s \in I}) \in Nat
        /\ Largest({path[s] : s \in I}) \in {path[s] : s \in I} \cup {0}
    BY <2>1, LargestIs
  <2> QED BY <2>2 DEF Top, I
<1> HIDE DEF delays
<1>6. /\ full \subseteq reach /\ \A t \in reach : Into(n, t) \subseteq reach
  <2>1. full \in SUBSET DOMAIN n
    BY DEF OutputsOf, Outputs
  <2> HIDE DEF full
  <2> QED BY <1>1, <2>1, ReachIsClosed
<1>7. ASSUME NEW e \in Edges(n)
      PROVE  /\ DelayOn(delays, e) \in Nat
             /\ e.to \in reach => path[e.from] + DelayOn(delays, e) = Top(n, path, e.to)
  <2>1. CASE e.to \in reach
    <3> DEFINE t == e.to
    <3>1. t \in ReverseReach(n, q, OutputsOf(n, "full")) /\ e.to = t
      BY <2>1
    <3> HIDE DEF t
    <3>2. delays = EdgeDelays(n, q, path)
      BY DEF delays
    <3>3. path \in [DOMAIN n -> Nat]
      BY <1>4
    <3>4. /\ DelayOn(delays, e) \in Nat
          /\ path[e.from] + DelayOn(delays, e) = Largest({path[s] : s \in Into(n, t)})
      BY <1>1, <3>1, <3>2, <3>3, DelaysMeet
    <3> QED BY <3>1, <3>4 DEF Top
  <2>2. CASE e.to \notin reach
    <3>1. e \notin DOMAIN delays
      BY <2>2 DEF delays, EdgeDelays, Merges
    <3> QED BY <2>2, <3>1 DEF DelayOn
  <2> QED BY <2>1, <2>2
<1>8. \A t \in DOMAIN n : IsPlanned(n[t].chain, tracks[t])
  BY <1>1, TracksArePlanned
<1> HIDE DEF tracks, reach
<1>9. Laid(n, path, delays, tracks, reach)
  BY <1>2, <1>4, <1>5, <1>6, <1>7, <1>8 DEF Laid
<1> QED BY <1>1, <1>2, <1>9 DEF path, reach

LEMMA BlockFlows ==
    ASSUME NEW n, NEW plan, Ordered(n, plan.topo), NEW path, NEW pdc, NEW reach,
           Laid(n, path, pdc, plan.tracks, reach), NEW dry
    PROVE  Flows(Block(n, plan, pdc, dry, {}), Ways(n, plan.topo, PrimaryProcesses),
                 n, path, reach, DOMAIN n)
<1> DEFINE q == plan.topo
           L == Len(q)
<1>0. L \in Nat /\ DOMAIN q = 1..L /\ \A i \in 1..L : q[i] \in DOMAIN n
  BY LenProperties, ElementOfSeq DEF Ordered
<1>1. PICK w : Blocking(n, plan, pdc, dry, w) /\ Block(n, plan, pdc, dry, {}) = w[L]
  BY <1>0, BlockTurns
<1>2. PICK y : Walking(n, q, y) /\ Ways(n, q, PrimaryProcesses) = y[L]
  BY <1>0, WaysTurn
<1> DEFINE Good(k) == Flows(w[k], y[k], n, path, reach, Before(q, k))
           I == {k \in 0..L : Good(k)}
<1>o. /\ Once(q) /\ \A d \in DOMAIN n : Has(q, d)
      /\ \A j \in 1..L : Into(n, q[j]) \subseteq Before(q, j - 1)
  BY DEF Ordered
<1> HIDE DEF L
<1>3. 0 \in I
  <2>1. Before(q, 0) = {}
    BY DEF Before
  <2>2. IsSignal({}, DOMAIN n) /\ Carries({}) = {}
    BY DEF IsSignal, Carries
  <2> DEFINE b == w[0]
  <2>3. /\ DOMAIN b.bus = DOMAIN n /\ DOMAIN b.out = DOMAIN n
        /\ \A d \in DOMAIN n : b.bus[d] = [in |-> {}, monitor |-> {}, sc |-> {}]
    BY <1>1 DEF Blocking, Silence
  <2>4. DOMAIN y[0] = DOMAIN n
    BY <1>2 DEF Walking
  <2> HIDE DEF b
  <2>5. ASSUME NEW d \in DOMAIN n PROVE BusFlows(b.bus[d], y[0], n, path, reach, {}, d)
    <3> DEFINE bus == b.bus[d]
    <3>1. DOMAIN bus = {"in", "monitor", "sc"} /\ bus.in = {} /\ bus.sc = {}
      BY <2>3
    <3> HIDE DEF bus
    <3>2. BusFlows(bus, y[0], n, path, reach, {}, d)
      BY <2>2, <3>1 DEF BusFlows
    <3> QED BY <3>2 DEF bus
  <2>6. Flows(b, y[0], n, path, reach, {})
    BY <2>3, <2>4, <2>5 DEF Flows
  <2>7. Good(0)
    BY <2>1, <2>6 DEF b
  <2> HIDE DEF Good
  <2> QED BY <1>0, <2>7
<1>4. ASSUME NEW k \in 1..L, k - 1 \in I PROVE k \in I
  <2> DEFINE t == q[k]
             done == Before(q, k - 1)
  <2>1. Good(k - 1)
    BY <1>4
  <2>2. w[k] = TrackRun(n, plan, pdc, dry, w[k - 1], t) /\ y[k] = WaysOn(n, y[k - 1], t)
    BY <1>1, <1>2 DEF Blocking, Walking, L
  <2>3. t \in DOMAIN n /\ done \subseteq DOMAIN n /\ Into(n, t) \subseteq done
    <3>1. \A i \in 1..(k - 1) : i \in 1..L
      BY <1>0
    <3>2. \A i \in 1..L : q[i] \in DOMAIN n
      BY <1>0
    <3>3. done \subseteq DOMAIN n
      BY <3>1, <3>2 DEF Before
    <3>4. Into(n, q[k]) \subseteq Before(q, k - 1)
      <4> HIDE DEF q
      <4> QED BY <1>o
    <3> QED BY <3>2, <3>3, <3>4
  <2>4. t \notin done
    <3> SUFFICES ASSUME NEW i \in 1..(k - 1), q[i] = q[k] PROVE FALSE
      BY DEF Before
    <3>1. i \in 1..L /\ i # k
      BY <1>0
    <3> QED BY <1>o, <3>1 DEF Once, L
  <2>5. Before(q, k) = done \cup {t}
    <3>1. 1..k = (1..(k - 1)) \cup {k}
      BY <1>0
    <3> QED BY <3>1 DEF Before
  <2> HIDE DEF t, done, q
  <2>6. Flows(TrackRun(n, plan, pdc, dry, w[k - 1], t), WaysOn(n, y[k - 1], t),
              n, path, reach, done \cup {t})
    BY <2>1, <2>3, <2>4, FlowsOn DEF done
  <2>7. Good(k) /\ k \in 0..L
    BY <1>0, <2>2, <2>5, <2>6
  <2> HIDE DEF Good
  <2> QED BY <2>7
<1> HIDE DEF I
<1>5. L \in I
  <2>1. \A k \in 0..L : k \in I
    BY <1>0, <1>3, <1>4, Counting
  <2>2. L \in 0..L
    BY <1>0
  <2> QED BY <2>1, <2>2
<1>6. Good(L)
  BY <1>5 DEF I
<1>7. Before(q, L) = DOMAIN n
  <2>1. \A d \in DOMAIN n : \E j \in 1..L : q[j] = d
    BY <1>o DEF Has, L
  <2>2. \A j \in 1..L : q[j] \in DOMAIN n
    BY <1>0
  <2> QED BY <2>1, <2>2 DEF Before
<1> QED BY <1>1, <1>2, <1>6, <1>7

(* One block through the graph a plan was made for. A full-PDC output     *)
(* plays every way to it, through every plugin in force, late by the total *)
(* of its plan, and wherever one listens all is on time: whatever the      *)
(* tracks, the chains, their latencies and the dry lines, as long as no    *)
(* chain's paths are entangled.                                            *)
THEOREM BlockIsAligned ==
    ASSUME NEW n, NEW o, Wired(n, o), Sound(n), Loopless(n), Whole(n),
           NEW plan, plan = PlanRoutes(n, o),
           \A t \in DOMAIN n : ~Entangled(plan.tracks[t].slots), NEW dry
    PROVE  LET b == Block(n, plan, plan.delays, dry, {})
               full == OutputsOf(n, "full")
           IN  /\ \A t \in full :
                     /\ Carries(Sink(n, b, t)) = Ways(n, plan.topo, PrimaryProcesses)[t]
                     /\ \A p \in Sink(n, b, t) : p.late = plan.total[t]
               /\ \A t \in ReverseReach(n, plan.topo, full) :
                     \A p, q \in b.bus[t].in \cup b.bus[t].sc : p.late = q.late
<1> DEFINE b == Block(n, plan, plan.delays, dry, {})
           full == OutputsOf(n, "full")
           topo == plan.topo
           path == PathOf(n, topo)
           reach == ReverseReach(n, topo, full)
           ways == Ways(n, topo, PrimaryProcesses)
<1>1. Ordered(n, topo) /\ Laid(n, path, plan.delays, plan.tracks, reach)
  BY PlanIsLaid
<1>2. Flows(b, ways, n, path, reach, DOMAIN n)
  <2> HIDE DEF path, reach
  <2> QED BY <1>1, BlockFlows
<1>3. full \subseteq DOMAIN n /\ full \subseteq reach /\ reach \subseteq DOMAIN n
  <2>1. full \in SUBSET DOMAIN n
    BY DEF OutputsOf, Outputs
  <2> HIDE DEF full
  <2> QED BY <1>1, <2>1, ReachIsClosed
<1>4. \A t \in full : plan.total[t] = path[t]
  BY PlanIs
<1>5. \A t \in full : Sink(n, b, t) = b.out[t].primary
  BY DEF OutputsOf, Sink
<1> HIDE DEF b, full, topo, path, reach, ways
<1>6. ASSUME NEW t \in full
      PROVE  Carries(Sink(n, b, t)) = ways[t] /\ \A p \in Sink(n, b, t) : p.late = plan.total[t]
  <2>1. OutFlows(b.out[t].primary, ways[t], path, reach, t)
    BY <1>2, <1>3 DEF Flows
  <2> QED BY <1>3, <1>4, <1>5, <2>1 DEF OutFlows
<1>7. ASSUME NEW t \in reach
      PROVE  \A p, q \in b.bus[t].in \cup b.bus[t].sc : p.late = q.late
  <2>1. BusFlows(b.bus[t], ways, n, path, reach, DOMAIN n, t)
    BY <1>2, <1>3 DEF Flows
  <2> QED BY <2>1 DEF BusFlows
<1> QED BY <1>6, <1>7 DEF b, full, topo, reach, ways
-----------------------------------------------------------------------------
(***************************************************************************)
(* Every graph the audio thread gets is of tracks that were the engine's,  *)
(* and its plan is the planner's.                                          *)
(***************************************************************************)
PlannedFor(g, n, o) == g.node = n /\ g.order = o /\ g.plan = PlanRoutes(n, o)
Laying == graph' = graph \/ PlannedFor(graph', node', order')

LEMMA PublishLays ==
    ASSUME NEW n, NEW o, NEW plan, plan = PlanRoutes(n, o), NEW skipped,
           Publish(n, o, plan, skipped), node' = n, order' = o
    PROVE  Laying
<1>1. graph'.node = n /\ graph'.order = o /\ graph'.plan = plan
  BY DEF Publish
<1> QED BY <1>1 DEF Laying, PlannedFor

LEMMA SwapLays == ASSUME Swap(node', order') PROVE Laying
<1>1. PICK plan : plan = PlanRoutes(node', order') /\ SwapPlanned(node', order', plan)
  BY DEF Swap
<1>2. CASE \E skipped \in BOOLEAN : Publish(node', order', plan, skipped)
  BY <1>1, <1>2, PublishLays
<1>3. CASE UNCHANGED graph
  BY <1>3 DEF Laying
<1> QED BY <1>1, <1>2, <1>3 DEF SwapPlanned

LEMMA RecoverLays == ASSUME NEW n, Recover(n), order' = order PROVE Laying
<1>1. PICK plan : plan = PlanRoutes(n, order) /\ node' = n /\ RecoverPlanned(n, plan)
  BY DEF Recover
<1>2. CASE plan.ok
  <2>1. graph'.node = n /\ graph'.order = order /\ graph'.plan = plan
    BY <1>1, <1>2 DEF RecoverPlanned
  <2> QED BY <1>1, <2>1 DEF Laying, PlannedFor
<1>3. CASE ~plan.ok
  BY <1>1, <1>3 DEF Laying, RecoverPlanned
<1> QED BY <1>2, <1>3

LEMMA AcceptLays ==
    ASSUME NEW tried, NEW plan, plan = PlanRoutes(tried, order), Accept(tried, plan),
           order' = order
    PROVE  Laying
<1>1. PICK skipped \in BOOLEAN : Publish(tried, order, plan, skipped)
  BY DEF Accept
<1>2. node' = tried
  BY DEF Accept
<1> QED BY <1>1, <1>2, PublishLays

LEMMA AttemptLays == ASSUME NEW new, Attempt(new) PROVE Laying
<1> DEFINE tried == Ensured(new, order)
<1>1. PICK plan : plan = PlanRoutes(tried, order) /\ AttemptPlanned(new, tried, plan)
  BY DEF Attempt, AttemptEnsured
<1>2. order' = order
  BY DEF Attempt
<1> HIDE DEF tried
<1>3. Accept(tried, plan) \/ \E n : Recover(n)
  BY <1>1 DEF AttemptPlanned
<1> QED BY <1>1, <1>2, <1>3, AcceptLays, RecoverLays

LEMMA SettleLays ==
    ASSUME NEW tried, NEW held, NEW back, Settle(tried, held, back) PROVE Laying
<1>1. PICK plan : plan = PlanRoutes(tried, order) /\ SettlePlanned(tried, plan, held, back)
  BY DEF Settle
<1>2. order' = order
  BY <1>1 DEF SettlePlanned
<1>3. CASE node' = tried /\ \E skipped \in BOOLEAN : Publish(tried, order, plan, skipped)
  BY <1>1, <1>2, <1>3, PublishLays
<1>4. CASE \E n : Recover(n)
  BY <1>2, <1>4, RecoverLays
<1> QED BY <1>1, <1>3, <1>4 DEF SettlePlanned

LEMMA RefuseLays == ASSUME Refuse PROVE Laying
  BY DEF Refuse, Laying

LEMMA TracksLay ==
    /\ \A kind : TrackAdd(kind) => Laying
    /\ \A t : TrackRemove(t) => Laying
    /\ \A t, policy : SetPolicy(t, policy) => Laying
    /\ \A t, d : ToggleDest(t, d) => Laying
    /\ \A t, s : ToggleSidechain(t, s) => Laying
    /\ \A t, i : TrackMove(t, i) => Laying
    /\ EnsureSystemOutputs => Laying
    /\ TrackSet => Laying
<1>1. ASSUME NEW kind, TrackAdd(kind) PROVE Laying
  BY <1>1, RefuseLays, SwapLays DEF TrackAdd
<1>2. ASSUME NEW t, TrackRemove(t) PROVE Laying
  BY <1>2, RefuseLays, SwapLays DEF TrackRemove
<1>3. ASSUME NEW t, NEW policy, SetPolicy(t, policy) PROVE Laying
  BY <1>3, RefuseLays, AttemptLays DEF SetPolicy
<1>4. ASSUME NEW t, NEW d, ToggleDest(t, d) PROVE Laying
  BY <1>4, RefuseLays, AttemptLays DEF ToggleDest, SetDests
<1>5. ASSUME NEW t, NEW s, ToggleSidechain(t, s) PROVE Laying
  BY <1>5, RefuseLays, AttemptLays DEF ToggleSidechain, SetSidechain
<1>6. ASSUME NEW t, NEW i, TrackMove(t, i) PROVE Laying
  <2>1. node' = node /\ Swap(node, order')
    BY <1>6 DEF TrackMove
  <2> QED BY <2>1, SwapLays
<1>7. ASSUME EnsureSystemOutputs PROVE Laying
  <2>1. \E new : node' = new.node /\ order' = new.order /\ Swap(new.node, new.order)
    BY <1>7 DEF EnsureSystemOutputs
  <2> QED BY <2>1, SwapLays
<1>8. ASSUME TrackSet PROVE Laying
  <2>1. node' = node /\ order' = order /\ Swap(node, order)
    BY <1>8 DEF TrackSet
  <2> QED BY <2>1, SwapLays
<1> QED BY <1>1, <1>2, <1>3, <1>4, <1>5, <1>6, <1>7, <1>8

LEMMA PluginsLay ==
    /\ \A t, l : AddPlugin(t, l) => Laying
    /\ \A t, i : RemovePlugin(t, i) => Laying
    /\ \A t, i, j : MovePlugin(t, i, j) => Laying
    /\ \A t, i, flag : CommitBypassFlag(t, i, flag) => Laying
    /\ \A t, i, l : PrimaryLatencyChanged(t, i, l) => Laying
    /\ \A t, i, l : ShadowLatencyChanged(t, i, l) => Laying
<1>1. ASSUME NEW t, NEW new, NEW tried, AddTried(t, new, tried), order' = order PROVE Laying
  <2>1. PICK plan : plan = PlanRoutes(tried, order) /\ AddEnsured(t, new, tried, plan)
    BY <1>1 DEF AddTried
  <2>2. Accept(tried, plan) \/ \E n : Recover(n)
    BY <2>1 DEF AddEnsured
  <2> QED BY <1>1, <2>1, <2>2, AcceptLays, RecoverLays
<1>2. ASSUME NEW t, NEW l, AddPlugin(t, l) PROVE Laying
  BY <1>1, <1>2 DEF AddPlugin
<1>3. ASSUME NEW t, NEW i, RemovePlugin(t, i) PROVE Laying
  <2>1. order' = order /\ Swap(node', order)
    BY <1>3 DEF RemovePlugin
  <2> QED BY <2>1, SwapLays
<1>4. ASSUME NEW t, NEW i, NEW j, MovePlugin(t, i, j) PROVE Laying
  <2>1. order' = order /\ Swap(node', order)
    BY <1>4 DEF MovePlugin
  <2> QED BY <2>1, SwapLays
<1>5. ASSUME NEW t, NEW i, NEW flag, CommitBypassFlag(t, i, flag) PROVE Laying
  BY <1>5, AttemptLays DEF CommitBypassFlag
<1>6. ASSUME NEW t, NEW i, NEW l, PrimaryLatencyChanged(t, i, l) PROVE Laying
  BY <1>6, SettleLays DEF PrimaryLatencyChanged, PrimarySettles
<1>7. ASSUME NEW t, NEW i, NEW l, ShadowLatencyChanged(t, i, l) PROVE Laying
  BY <1>7, SettleLays DEF ShadowLatencyChanged, ShadowPrepared, ShadowSettles
<1> QED BY <1>2, <1>3, <1>4, <1>5, <1>6, <1>7

\* What the planner and the block are about: tracks the engine may have.
MayPlay(n, o) == Wired(n, o) /\ Sound(n) /\ Loopless(n) /\ Whole(n)
GraphIsPlanned ==
    MayPlay(graph.node, graph.order) /\ graph.plan = PlanRoutes(graph.node, graph.order)

LEMMA TracksMayPlay == ASSUME IInv, NeatInv PROVE MayPlay(node, order)
<1>1. DOMAIN node \subseteq Nat /\ Listed(order, DOMAIN node) /\ Sound(node) /\ Loopless(node)
  BY DEF IInv, Routed
<1>2. Whole(node)
  BY DEF NeatInv, Neat
<1>3. \A t \in DOMAIN node : Targets(node[t]) \subseteq DOMAIN node
  BY <1>1 DEF Sound, Targets
<1> QED BY <1>1, <1>2, <1>3 DEF MayPlay, Wired

LEMMA GraphStaysPlanned ==
    ASSUME GraphIsPlanned, IInv', NeatInv', [Next]_vars PROVE GraphIsPlanned'
<1>1. Laying
  <2>1. CASE Next
    BY <2>1, TracksLay, PluginsLay DEF Next
  <2>2. CASE UNCHANGED vars
    BY <2>2 DEF vars, Laying
  <2> QED BY <2>1, <2>2
<1>2. CASE graph' = graph
  BY <1>2 DEF GraphIsPlanned
<1>3. CASE PlannedFor(graph', node', order')
  <2>1. (MayPlay(node, order))'
    BY TracksMayPlay, PTL
  <2> QED BY <1>3, <2>1 DEF PlannedFor, GraphIsPlanned
<1> QED BY <1>1, <1>2, <1>3 DEF Laying

LEMMA GraphStartsPlanned == ASSUME Init, IInv, NeatInv PROVE GraphIsPlanned
<1>1. graph.node = node /\ graph.order = order /\ graph.plan = PlanRoutes(node, order)
  BY DEF Init, LoadedEnsured, Loaded
<1> QED BY <1>1, TracksMayPlay DEF GraphIsPlanned

\* The dry lines never matter: no plugin fails.
LEMMA PlannedIsAligned == ASSUME GraphIsPlanned PROVE FullOutputsAreAligned
<1> SUFFICES ASSUME LinesFollowPlan, \A t \in DOMAIN graph.node : ~Entangled(graph.plan.tracks[t].slots)
             PROVE  Aligned(Heard({}), OutputsOf(graph.node, "full"), WaysOf(PrimaryProcesses))
  BY DEF FullOutputsAreAligned
<1> DEFINE n == graph.node
           plan == graph.plan
           dry == DryDelays
           b == Block(n, plan, plan.delays, dry, {})
           ways == Ways(n, plan.topo, PrimaryProcesses)
           full == OutputsOf(n, "full")
<1>1. plan = PlanRoutes(n, graph.order) /\ MayPlay(n, graph.order)
  BY DEF GraphIsPlanned
<1>2. Heard({}) = b /\ WaysOf(PrimaryProcesses) = ways
  BY DEF LinesFollowPlan, Heard, WaysOf
<1> HIDE DEF n, plan, dry
<1>3. \A t \in DOMAIN n : ~Entangled(plan.tracks[t].slots)
  BY DEF n, plan
<1>4. /\ \A t \in full : Carries(Sink(n, b, t)) = ways[t] /\ \A p \in Sink(n, b, t) : p.late = plan.total[t]
      /\ \A t \in ReverseReach(n, plan.topo, full) :
            \A p, q \in b.bus[t].in \cup b.bus[t].sc : p.late = q.late
  BY <1>1, <1>3, BlockIsAligned DEF MayPlay
<1> HIDE DEF b, ways
<1>5. Aligned(b, full, ways)
  BY <1>4 DEF Aligned, PlaysWays, n, plan, full
<1> QED BY <1>2, <1>5 DEF full, n

(* Whatever the commands, whatever fails and is rolled back: once the delay *)
(* lines are set to what the published plan says, a full-PDC output plays  *)
(* every way to it through every plugin in force, late by the total of its *)
(* plan, and all that reaches it or a track before it comes together,      *)
(* unless a chain's paths are entangled.                                   *)
THEOREM OutputsStayAligned == Spec => []FullOutputsAreAligned
<1>1. Init => IInv /\ NeatInv
  BY InitKeeps, InitIsNeat
<1>2. Init => GraphIsPlanned
  BY <1>1, GraphStartsPlanned
<1>3. IInv /\ [Next]_vars => IInv'
  BY NextKeeps, StutterKeeps DEF Step
<1>4. NeatInv /\ [Next]_vars => NeatInv'
  BY NeatStays
<1>5. GraphIsPlanned /\ IInv' /\ NeatInv' /\ [Next]_vars => GraphIsPlanned'
  BY GraphStaysPlanned
<1>6. GraphIsPlanned => FullOutputsAreAligned
  BY PlannedIsAligned
<1> QED BY <1>1, <1>2, <1>3, <1>4, <1>5, <1>6, PTL DEF Spec
-----------------------------------------------------------------------------
(***************************************************************************)
(* What a low-latency output hears: the latency of a way.                  *)
(***************************************************************************)
LatencyIn(n, id) == SlotOf(n, id).latency
SlotIds(n) == {s.id : s \in Slots(n)}

LEMMA SlotIsFound ==
    ASSUME NEW n, Whole(n), NEW t \in DOMAIN n, NEW i \in DOMAIN n[t].chain
    PROVE  /\ n[t].chain[i] \in Slots(n) /\ n[t].chain[i].id \in SlotIds(n)
           /\ LatencyIn(n, n[t].chain[i].id) = n[t].chain[i].latency
<1> DEFINE s == n[t].chain[i]
<1>1. s \in Slots(n)
  BY DEF Slots
<1>2. ASSUME NEW x \in Slots(n), x.id = s.id PROVE x = s
  <2>1. PICK u \in DOMAIN n : \E j \in DOMAIN n[u].chain : x = n[u].chain[j]
    BY <1>2 DEF Slots
  <2>2. PICK j \in DOMAIN n[u].chain : x = n[u].chain[j]
    BY <2>1
  <2>3. n[t].chain[i].id = n[u].chain[j].id
    BY <1>2, <2>2
  <2>4. t = u /\ i = j
    BY <2>3 DEF Whole, IdsAreUnique
  <2> QED BY <2>2, <2>4
<1> HIDE DEF s
<1>3. SlotOf(n, s.id) = s
  BY <1>1, <1>2 DEF SlotOf
<1> QED BY <1>1, <1>3 DEF s, LatencyIn, SlotIds

LEMMA LatenciesAre == ASSUME NEW n, Whole(n), NEW id \in SlotIds(n) PROVE LatencyIn(n, id) \in Nat /\ id \in Nat
<1>1. PICK s \in Slots(n) : s.id = id
  BY DEF SlotIds
<1>2. PICK t \in DOMAIN n : \E i \in DOMAIN n[t].chain : s = n[t].chain[i]
  BY DEF Slots
<1>3. PICK i \in DOMAIN n[t].chain : s = n[t].chain[i]
  BY <1>2
<1>4. IsSlot(s)
  BY <1>3 DEF Whole
<1>5. LatencyIn(n, n[t].chain[i].id) = n[t].chain[i].latency
  BY SlotIsFound
<1> QED BY <1>1, <1>3, <1>4, <1>5 DEF IsSlot

Summing(w, n, way) ==
    /\ \A k \in 0..Len(way) : w[k] \in Nat
    /\ w[0] = 0 /\ w[Len(way)] = LatencyOf(n, way)
    /\ \A k \in 1..Len(way) : w[k] = w[k - 1] + LatencyIn(n, way[k])
LEMMA LatencyOfSums ==
    ASSUME NEW n, NEW way, Len(way) \in Nat, DOMAIN way = 1..Len(way),
           \A i \in 1..Len(way) : LatencyIn(n, way[i]) \in Nat
    PROVE  \E w : Summing(w, n, way)
<1> DEFINE S == Nat
           b == 0
           X == 1..Len(way)
           Op(a, id) == a + LatencyIn(n, id)
           F == [p \in X \X S |-> Op(p[2], way[p[1]])]
           Recur(it) == [s \in SUBSET X |->
                           IF s = {} THEN b ELSE Op(it[s \ {Max(s)}], way[Max(s)])]
           iter == CHOOSE it : it = Recur(it)
           w == [k \in 0..Len(way) |-> iter[1..k]]
<1>1. Len(way) \in Nat /\ DOMAIN way = X
  OBVIOUS
<1>2. /\ b \in S /\ F \in [X \X S -> S]
      /\ \A i \in X, a \in S : F[<<i, a>>] = Op(a, way[i])
  BY <1>1
<1>3. LatencyOf(n, way) = iter[X]
  BY <1>1 DEF LatencyOf, LatencyIn, FoldLeft, MapThenFoldSet
<1> HIDE DEF F, S, b
<1>4. PICK it : FoldedLeft(it, Len(way), S, b, F)
  BY <1>1, <1>2, LeftIterates
<1> HIDE DEF Op
<1>5. it = Recur(it)
  BY <1>2, <1>4 DEF FoldedLeft
<1>6. iter = Recur(iter)
  <2> HIDE DEF Recur
  <2> QED BY <1>5
<1> HIDE DEF iter
<1>7. iter[{}] = b
  BY <1>6
<1>8. \A s \in SUBSET X : s # {} /\ Max(s) \in X /\ iter[s \ {Max(s)}] \in S
          => iter[s] = F[<<Max(s), iter[s \ {Max(s)}]>>]
  BY <1>2, <1>6
<1>9. Walked(w, Len(way), S, b, F)
  <2> HIDE DEF Recur
  <2> QED BY <1>1, <1>2, <1>7, <1>8, LeftWalked
<1>10. w[Len(way)] = iter[X]
  BY <1>1
<1> HIDE DEF w, X
<1>11. \A k \in 1..Len(way) : w[k] = Op(w[k - 1], way[k])
  BY <1>2, <1>9 DEF Walked, X
<1>12. Summing(w, n, way)
  BY <1>3, <1>9, <1>10, <1>11 DEF Walked, Op, S, b, Summing
<1> QED BY <1>12

\* A plugin more on the way.
LEMMA LatencyGrows ==
    ASSUME NEW n, Whole(n), NEW way \in Seq(SlotIds(n)), NEW id \in SlotIds(n)
    PROVE  /\ LatencyOf(n, way) \in Nat
           /\ LatencyOf(n, Append(way, id)) = LatencyOf(n, way) + LatencyIn(n, id)
<1> DEFINE L == Len(way)
           far == Append(way, id)
<1>1. L \in Nat /\ DOMAIN way = 1..L /\ \A i \in 1..L : way[i] \in SlotIds(n)
  BY LenProperties, ElementOfSeq
<1>2. /\ far \in Seq(SlotIds(n)) /\ Len(far) = L + 1 /\ DOMAIN far = 1..(L + 1)
      /\ far[L + 1] = id /\ \A i \in 1..L : far[i] = way[i]
  BY <1>1, AppendProperties, LenProperties
<1>3. \A i \in 1..(L + 1) : far[i] \in SlotIds(n)
  BY <1>2, ElementOfSeq
<1> HIDE DEF L, far
<1>4. PICK w : Summing(w, n, way)
  <2>1. \A i \in 1..L : LatencyIn(n, way[i]) \in Nat
    BY <1>1, LatenciesAre
  <2> QED BY <1>1, <2>1, LatencyOfSums DEF L
<1>5. PICK v : Summing(v, n, far)
  <2>1. \A i \in 1..Len(far) : LatencyIn(n, far[i]) \in Nat
    BY <1>2, <1>3, LatenciesAre
  <2>2. Len(far) \in Nat /\ DOMAIN far = 1..Len(far)
    BY <1>1, <1>2
  <2> QED BY <2>1, <2>2, LatencyOfSums
<1> DEFINE I == {k \in 0..L : v[k] = w[k]}
<1>6. 0 \in I
  BY <1>1, <1>4, <1>5 DEF Summing
<1>7. ASSUME NEW k \in 1..L, k - 1 \in I PROVE k \in I
  <2>1. k \in 1..Len(far) /\ k \in 1..Len(way) /\ k \in 0..L
    BY <1>1, <1>2 DEF L
  <2>2. v[k] = v[k - 1] + LatencyIn(n, far[k]) /\ w[k] = w[k - 1] + LatencyIn(n, way[k])
    BY <1>4, <1>5, <2>1 DEF Summing
  <2> QED BY <1>2, <1>7, <2>1, <2>2
<1> HIDE DEF I
<1>8. L \in I
  <2>1. \A k \in 0..L : k \in I
    BY <1>1, <1>6, <1>7, Counting
  <2> QED BY <1>1, <2>1
<1>9. v[L] = LatencyOf(n, way) /\ v[L] \in Nat
  <2>1. v[L] = w[L]
    BY <1>8 DEF I
  <2>2. w[L] = LatencyOf(n, way) /\ \A k \in 0..L : w[k] \in Nat
    BY <1>4 DEF Summing, L
  <2> QED BY <1>1, <2>1, <2>2
<1>10. v[L + 1] = LatencyOf(n, far) /\ v[L + 1] = v[L] + LatencyIn(n, far[L + 1])
  <2>1. L + 1 \in 1..Len(far) /\ L + 1 = Len(far) /\ (L + 1) - 1 = L
    BY <1>1, <1>2
  <2> QED BY <1>5, <2>1 DEF Summing
<1> QED BY <1>2, <1>9, <1>10 DEF far

LEMMA LatencyOfNone == ASSUME NEW n PROVE LatencyOf(n, <<>>) = 0
<1> DEFINE way == <<>>
<1>1. Len(way) = 0 /\ DOMAIN way = 1..Len(way)
  OBVIOUS
<1>2. Len(way) \in Nat /\ \A i \in 1..Len(way) : LatencyIn(n, way[i]) \in Nat
  BY <1>1
<1> HIDE DEF way
<1>3. PICK w : Summing(w, n, way)
  BY <1>1, <1>2, LatencyOfSums
<1> QED BY <1>1, <1>3 DEF Summing, way

\* A signal that is late by the plugins on its way and by nothing else.
IsHeard(S, n) == \A x \in S : x.through \in Seq(SlotIds(n)) /\ x.late = LatencyOf(n, x.through)

LEMMA HeardThrough ==
    ASSUME NEW n, Whole(n), NEW S, IsHeard(S, n), IsSignal(S, DOMAIN n),
           NEW id \in SlotIds(n), NEW l, l = LatencyIn(n, id)
    PROVE  IsHeard(Through(S, id, l), n) /\ IsSignal(Through(S, id, l), DOMAIN n)
<1> DEFINE G(x) == [x EXCEPT !.late = @ + l, !.through = Append(@, id)]
<1>1. ASSUME NEW x \in S
      PROVE  /\ G(x) \in Paths(DOMAIN n) /\ G(x).through \in Seq(SlotIds(n))
             /\ G(x).late = LatencyOf(n, G(x).through)
  <2>1. x \in Paths(DOMAIN n) /\ x.through \in Seq(SlotIds(n)) /\ x.late = LatencyOf(n, x.through)
    BY DEF IsSignal, IsHeard
  <2>2. l \in Nat /\ id \in Nat
    BY LatenciesAre
  <2> DEFINE late == x.late + l
             through == Append(x.through, id)
  <2>3. late \in Nat /\ through \in Seq(Nat) /\ through \in Seq(SlotIds(n))
    <3>1. x.late \in Nat /\ x.through \in Seq(Nat)
      BY <2>1 DEF Paths
    <3>2. late \in Nat
      BY <2>2, <3>1
    <3> QED BY <2>1, <2>2, <3>1, <3>2, AppendProperties
  <2>4. late = LatencyOf(n, through)
    BY <2>1, LatencyGrows
  <2>5. G(x) = [x EXCEPT !.late = late, !.through = through]
    OBVIOUS
  <2> HIDE DEF late, through, G
  <2>6. G(x) \in Paths(DOMAIN n) /\ G(x).late = late /\ G(x).through = through
    BY <2>1, <2>3, <2>5 DEF Paths
  <2> QED BY <2>3, <2>4, <2>6
<1>2. Through(S, id, l) = {G(x) : x \in S}
  BY DEF Through
<1> HIDE DEF G
<1> QED BY <1>1, <1>2 DEF IsHeard, IsSignal

LEMMA HeardOn ==
    ASSUME NEW n, NEW S, IsHeard(S, n), IsSignal(S, DOMAIN n), NEW t \in DOMAIN n
    PROVE  IsHeard(Faded(S, t), n)
<1> DEFINE G(x) == [x EXCEPT !.faded = Append(@, t)]
<1>1. ASSUME NEW x \in S PROVE G(x).late = x.late /\ G(x).through = x.through
  <2>1. x \in Paths(DOMAIN n)
    BY DEF IsSignal
  <2> QED BY <2>1 DEF Paths
<1>2. Faded(S, t) = {G(x) : x \in S}
  BY DEF Faded
<1> HIDE DEF G
<1> QED BY <1>1, <1>2 DEF IsHeard

LEMMA HeardFrom == ASSUME NEW n, NEW t PROVE IsHeard(Origin(t), n)
<1>1. ASSUME NEW x \in Origin(t) PROVE x.late = 0 /\ x.through = <<>>
  BY DEF Origin
<1>2. <<>> \in Seq(SlotIds(n))
  BY EmptySeq
<1> QED BY <1>1, <1>2, LatencyOfNone DEF IsHeard

LEMMA HeardTogether ==
    ASSUME NEW n, NEW S, NEW T, IsHeard(S, n), IsHeard(T, n), NEW U, U = S \cup T
    PROVE  IsHeard(U, n)
BY DEF IsHeard

LEMMA LateByNothing == ASSUME NEW D, NEW S, IsSignal(S, D) PROVE Late(S, 0) = S
<1>1. ASSUME NEW x \in S PROVE [x EXCEPT !.late = @ + 0] = x
  <2>1. x \in Paths(D)
    BY DEF IsSignal
  <2>2. x.late + 0 = x.late
    BY <2>1 DEF Paths
  <2> DEFINE a == x.late + 0
  <2>3. a = x.late
    BY <2>2
  <2> HIDE DEF a
  <2>4. [x EXCEPT !.late = a] = x
    BY <2>1, <2>3 DEF Paths
  <2> QED BY <2>4 DEF a
<1> QED BY <1>1 DEF Late

(***************************************************************************)
(* A plugin bypassed for the monitor is, for the monitor path, as good as  *)
(* suspended: the ways of a low-latency output are those of the tracks     *)
(* with such plugins muted.                                                *)
(***************************************************************************)
MutedSlot(s) == [s EXCEPT !.state = IF s.monitorBypass THEN "suspended" ELSE s.state]
MutedChain(c) == [i \in 1..Len(c) |-> MutedSlot(c[i])]
Muted(n) == [t \in DOMAIN n |-> [n[t] EXCEPT !.chain = MutedChain(@)]]

LEMMA SlotIsMuted ==
    ASSUME NEW s, IsSlot(s)
    PROVE  /\ IsSlot(MutedSlot(s)) /\ (PrimaryProcesses(MutedSlot(s)) <=> Plays(s))
           /\ MutedSlot(s).id = s.id /\ MutedSlot(s).latency = s.latency
<1> DEFINE x == IF s.monitorBypass THEN "suspended" ELSE s.state
           m == [s EXCEPT !.state = x]
<1>1. x \in {"active", "suspended"} /\ (x # "suspended" <=> ~s.monitorBypass /\ s.state # "suspended")
  BY DEF IsSlot
<1>2. "state" \in DOMAIN s /\ DOMAIN m = DOMAIN s
  BY DEF IsSlot
<1> HIDE DEF x
<1>3. /\ m.state = x /\ m.id = s.id /\ m.latency = s.latency /\ m.bypass = s.bypass
      /\ m.shadow = s.shadow /\ m.shadowLatency = s.shadowLatency
  BY <1>2
<1>4. MutedSlot(s) = m
  BY DEF MutedSlot, x
<1> HIDE DEF m
<1>5. IsSlot(m)
  BY <1>1, <1>2, <1>3 DEF IsSlot
<1>6. PrimaryProcesses(m) <=> Plays(s)
  BY <1>1, <1>3 DEF PrimaryProcesses, Plays
<1> QED BY <1>3, <1>4, <1>5, <1>6

LEMMA ChainIsMuted ==
    ASSUME NEW c, IsChain(c)
    PROVE  /\ IsChain(MutedChain(c)) /\ Len(MutedChain(c)) = Len(c)
           /\ \A i \in 1..Len(c) :
                 /\ PrimaryProcesses(MutedChain(c)[i]) <=> Plays(c[i])
                 /\ MutedChain(c)[i].id = c[i].id /\ MutedChain(c)[i].latency = c[i].latency
<1> DEFINE m == MutedChain(c)
<1>1. Len(c) \in Nat /\ \A i \in 1..Len(c) : IsSlot(c[i])
  BY DEF IsChain
<1>2. DOMAIN m = 1..Len(c) /\ \A i \in 1..Len(c) : m[i] = MutedSlot(c[i])
  BY DEF MutedChain
<1>3. Len(m) = Len(c)
  <2>1. m \in [1..Len(c) -> Range(m)]
    BY <1>2 DEF Range, MutedChain
  <2>2. m \in Seq(Range(m))
    BY <1>1, <2>1, SeqDef
  <2> HIDE DEF m
  <2> QED BY <1>1, <1>2, <2>2, LenProperties
<1> HIDE DEF m
<1>4. \A i \in 1..Len(c) : /\ IsSlot(m[i]) /\ (PrimaryProcesses(m[i]) <=> Plays(c[i]))
                           /\ m[i].id = c[i].id /\ m[i].latency = c[i].latency
  BY <1>1, <1>2, SlotIsMuted
<1>5. IsChain(m)
  BY <1>1, <1>2, <1>3, <1>4 DEF IsChain
<1> QED BY <1>3, <1>4, <1>5 DEF m

PlayedIds(c) == FoldLeft(LAMBDA ids, s : IF Plays(s) THEN Append(ids, s.id) ELSE ids, <<>>, c)
LEMMA PlayedIdsAre == ASSUME NEW c, IsChain(c) PROVE PlayedIds(c) = ChainIds(MutedChain(c))
<1> DEFINE X == 1..Len(c)
           m == MutedChain(c)
           Op(a, s) == IF Plays(s) THEN Append(a, s.id) ELSE a
           Mop(a, s) == IF PrimaryProcesses(s) THEN Append(a, s.id) ELSE a
           One(it) == [s \in SUBSET X |-> IF s = {} THEN <<>> ELSE Op(it[s \ {Max(s)}], c[Max(s)])]
           Two(it) == [s \in SUBSET X |-> IF s = {} THEN <<>> ELSE Mop(it[s \ {Max(s)}], m[Max(s)])]
<1>1. Len(c) \in Nat /\ DOMAIN c = X /\ Len(m) = Len(c) /\ DOMAIN m = 1..Len(m)
  BY ChainIsMuted DEF IsChain
<1>2. \A i \in X : (PrimaryProcesses(m[i]) <=> Plays(c[i])) /\ m[i].id = c[i].id
  BY ChainIsMuted
<1> HIDE DEF m
<1>3. PlayedIds(c) = (CHOOSE it : it = One(it))[X]
  BY <1>1 DEF PlayedIds, FoldLeft, MapThenFoldSet
<1>4. ChainIds(m) = (CHOOSE it : it = Two(it))[X]
  <2>1. DOMAIN m = X
    BY <1>1
  <2> QED BY <2>1 DEF ChainIds, FoldLeft, MapThenFoldSet
<1>5. \A it : One(it) = Two(it)
  <2> SUFFICES ASSUME NEW it PROVE One(it) = Two(it)
    OBVIOUS
  <2>1. ASSUME NEW i \in X, NEW a PROVE Op(a, c[i]) = Mop(a, m[i])
    BY <1>2
  <2> HIDE DEF Op, Mop, X
  <2>2. ASSUME NEW s \in SUBSET X, s # {} PROVE Op(it[s \ {Max(s)}], c[Max(s)]) = Mop(it[s \ {Max(s)}], m[Max(s)])
    <3>1. Max(s) \in X
      <4>1. Max(s) \in s
        BY <1>1, <2>2, Ends DEF X
      <4> QED BY <4>1
    <3> QED BY <2>1, <3>1
  <2> QED BY <2>2
<1> HIDE DEF One, Two
<1>6. (CHOOSE it : it = One(it)) = (CHOOSE it : it = Two(it))
  BY <1>5
<1> QED BY <1>3, <1>4, <1>6 DEF m

LEMMA TracksAreMuted ==
    ASSUME NEW n, Whole(n)
    PROVE  /\ DOMAIN Muted(n) = DOMAIN n
           /\ \A t \in DOMAIN n : /\ Muted(n)[t].chain = MutedChain(n[t].chain)
                                  /\ Muted(n)[t].kind = n[t].kind /\ Muted(n)[t].dests = n[t].dests
<1>1. \A t \in DOMAIN n : {"kind", "role", "policy", "dests", "sidechain", "chain"} = DOMAIN n[t]
  BY DEF Whole, IsTrack
<1> QED BY <1>1 DEF Muted

\* The ways without the plugins bypassed for the monitor, track by track.
LEMMA PlayedWaysTurn ==
    ASSUME NEW n, Whole(n), NEW q, Len(q) \in Nat, DOMAIN q = 1..Len(q),
           \A i \in 1..Len(q) : q[i] \in DOMAIN n
    PROVE  \E w : Walking(Muted(n), q, w) /\ Ways(n, q, Plays) = w[Len(q)]
<1> DEFINE X == 1..Len(q)
           m == Muted(n)
           b == [t \in DOMAIN n |-> {}]
           x == [fold |-> "ways", n |-> m, q |-> q]
           On(a, i) == WaysOn(m, a, q[i])
           Goes(a, t) ==
               [a EXCEPT ![t] = {[v EXCEPT !.through = @ \o PlayedIds(n[t].chain), !.faded = Append(@, t)] :
                                    v \in WaysTo(n, a, t)}]
           Recur(it) == [s \in SUBSET X |-> IF s = {} THEN b ELSE Goes(it[s \ {Max(s)}], q[Max(s)])]
           iter == CHOOSE it : it = Recur(it)
<1>1. \A a, i : Turn(x, a, i) = On(a, i)
  BY DEF Turn
<1>2. Ways(n, q, Plays) = iter[X]
  BY DEF Ways, Chain, PlayedIds, FoldLeft, MapThenFoldSet, WaysTo
<1>m. /\ DOMAIN m = DOMAIN n
      /\ \A t \in DOMAIN n : /\ m[t].chain = MutedChain(n[t].chain)
                             /\ m[t].kind = n[t].kind /\ m[t].dests = n[t].dests
  BY TracksAreMuted
<1> HIDE DEF m
<1>g. ASSUME NEW a, NEW i \in X PROVE Goes(a, q[i]) = On(a, i)
  <2> DEFINE t == q[i]
  <2>1. t \in DOMAIN n
    OBVIOUS
  <2> HIDE DEF t
  <2>2. PlayedIds(n[t].chain) = ChainIds(m[t].chain)
    <3>1. IsChain(n[t].chain)
      BY <2>1, WholeHasChains
    <3> QED BY <1>m, <2>1, <3>1, PlayedIdsAre
  <2>3. WaysTo(n, a, t) = WaysTo(m, a, t)
    <3>1. IsSource(n[t]) <=> IsSource(m[t])
      BY <1>m, <2>1 DEF IsSource
    <3>2. {r \in DOMAIN n : t \in n[r].dests} = {r \in DOMAIN m : t \in m[r].dests}
      BY <1>m
    <3> QED BY <3>1, <3>2 DEF WaysTo
  <2>4. Goes(a, t) = WaysOn(m, a, t)
    BY <2>2, <2>3 DEF WaysOn
  <2> QED BY <2>4 DEF t
<1> HIDE DEF x, On, Goes
<1>3. \A it : TurnsUpto(it, x, b, Len(q)) <=> it = Recur(it)
  <2> HIDE DEF b
  <2>0. ASSUME NEW s \in SUBSET X, s # {} PROVE Max(s) \in X
    <3>1. Max(s) \in s
      BY <2>0, Ends
    <3> QED BY <3>1
  <2> HIDE DEF X
  <2>1. \A it : \A s \in SUBSET X : TurnsAt(it, x, b, s) = IF s = {} THEN b ELSE Goes(it[s \ {Max(s)}], q[Max(s)])
    BY <1>1, <1>g, <2>0 DEF TurnsAt
  <2>2. \A it : Recur(it) = [s \in SUBSET X |-> TurnsAt(it, x, b, s)]
    BY <2>1
  <2> HIDE DEF Recur
  <2> QED BY <2>2 DEF TurnsUpto, X
<1>4. Turned(x, b, Len(q)) = iter[X]
  <2> HIDE DEF Recur, b
  <2> QED BY <1>3 DEF Turned
<1>5. PICK w : Turning(w, x, b, Len(q)) /\ w[Len(q)] = Turned(x, b, Len(q))
  <2> HIDE DEF b
  <2> QED BY TurnsAre
<1> HIDE DEF iter
<1>6. w[0] = [t \in DOMAIN m |-> {}]
  BY <1>5, <1>m DEF Turning
<1>7. \A k \in 1..Len(q) : w[k] = WaysOn(m, w[k - 1], q[k])
  <2> HIDE DEF b
  <2> QED BY <1>1, <1>5 DEF Turning, On
<1> QED BY <1>2, <1>4, <1>5, <1>6, <1>7 DEF Walking, m

\* What Mirrored says of one chain.
Mirrors(c, slots) == \A k \in 1..Len(c) :
    /\ c[k].shadow = "none" \/ (c[k].shadow = "active" /\ c[k].shadowLatency = c[k].latency)
    /\ slots[k].shadow # "create"

\* The monitor path of a track that a low-latency output hears, with its plan.
Parts(sp, c, p) ==
    \E required, before \in BOOLEAN : required = TRUE /\ Parting(sp, c, required, before, p)

LEMMA MonitorsPlay ==
    ASSUME NEW c, NEW sp, NEW p, Parts(sp, c, p), Mirrors(c, p.slots), Len(c) \in Nat, NEW k \in 1..Len(c)
    PROVE  /\ ~sp[k] => (PrimaryProcesses(c[k]) <=> Plays(c[k]))
           /\ sp[k] /\ ~sp[k - 1] => ~Plays(c[k])
           /\ sp[k - 1] /\ Plays(c[k]) => /\ p.slots[k].monitor = "process"
                                          /\ c[k].shadowLatency = c[k].latency
           /\ sp[k - 1] /\ ~Plays(c[k]) => p.slots[k].monitor = "dry"
<1> DEFINE s == c[k]
           q == p.slots[k]
<1>1. k - 1 \in 0..Len(c) /\ k \in 0..Len(c)
  OBVIOUS
<1>p. PICK required \in BOOLEAN, before \in BOOLEAN :
         required = TRUE /\ Parting(sp, c, required, before, p)
  BY DEF Parts
<1>2. /\ sp[k - 1] \in BOOLEAN /\ sp[k] \in BOOLEAN
      /\ sp[k] <=> sp[k - 1] \/ (PrimaryProcesses(s) /\ s.monitorBypass)
  BY <1>1, <1>p DEF Parting, Splits
<1>3. sp[k - 1] => q.monitor = MonitorAction(s, TRUE, TRUE) /\ q.shadow = ShadowPlan(s, TRUE, TRUE)
  <2> SUFFICES ASSUME sp[k - 1] PROVE q.monitor = MonitorAction(s, TRUE, TRUE) /\ q.shadow = ShadowPlan(s, TRUE, TRUE)
    OBVIOUS
  <2>1. sp[k - 1] = TRUE
    BY <1>2
  <2> QED BY <1>p, <2>1 DEF Parting
<1>4. /\ s.shadow = "none" \/ (s.shadow = "active" /\ s.shadowLatency = s.latency)
      /\ q.shadow # "create"
  BY DEF Mirrors
<1> HIDE DEF s, q
<1>5. MonitorAction(s, TRUE, TRUE)
      = IF ~PrimaryProcesses(s) THEN "dry"
        ELSE IF s.monitorBypass \/ s.shadow = "none" THEN "dry"
        ELSE IF s.shadow = "active" THEN "process" ELSE "drain"
  BY DEF MonitorAction
<1>6. PrimaryProcesses(s) /\ ~s.monitorBypass /\ s.shadow = "none" => ShadowPlan(s, TRUE, TRUE) = "create"
  BY DEF ShadowPlan
<1>7. Plays(s) <=> PrimaryProcesses(s) /\ ~s.monitorBypass
  BY DEF Plays
<1>8. sp[k - 1] /\ Plays(s) => q.monitor = "process" /\ s.shadowLatency = s.latency
  BY <1>3, <1>4, <1>5, <1>6, <1>7
<1>9. sp[k - 1] /\ ~Plays(s) => q.monitor = "dry"
  BY <1>3, <1>5, <1>7
<1> QED BY <1>2, <1>7, <1>8, <1>9 DEF s, q

LEMMA PartsAre ==
    ASSUME NEW c, NEW sp, NEW p, Parts(sp, c, p), Mirrors(c, p.slots), Len(c) \in Nat, NEW k \in 1..Len(c)
    PROVE  LET s == c[k]
               q == p.slots[k]
           IN  /\ q.primary \in {"process", "dry", "drain"}
               /\ q.primary = "process" <=> PrimaryProcesses(s)
               /\ q.monitor \in Actions
               /\ ~sp[k] => ~sp[k - 1] /\ q.monitor = "reuse"
               /\ sp[k] /\ ~sp[k - 1] => q.primary = "process" /\ q.monitor = "dry"
               /\ sp[k - 1] => sp[k]
               /\ ~sp[k] => (PrimaryProcesses(s) <=> Plays(s))
               /\ sp[k] /\ ~sp[k - 1] => ~Plays(s)
               /\ sp[k - 1] /\ Plays(s) => q.monitor = "process" /\ s.shadowLatency = s.latency
               /\ sp[k - 1] /\ ~Plays(s) => q.monitor = "dry"
<1>1. PICK required \in BOOLEAN, before \in BOOLEAN :
         required = TRUE /\ Parting(sp, c, required, before, p)
  BY DEF Parts
<1>2. Len(c) \in Nat /\ (before => required)
  BY <1>1
<1>3. Parting(sp, c, required, before, p)
  BY <1>1
<1>4. /\ p.slots[k].primary \in {"process", "dry", "drain"}
      /\ p.slots[k].primary = "process" <=> PrimaryProcesses(c[k])
      /\ p.slots[k].monitor \in Actions
      /\ ~sp[k] => ~sp[k - 1] /\ p.slots[k].monitor = "reuse"
      /\ sp[k] /\ ~sp[k - 1] => p.slots[k].primary = "process" /\ p.slots[k].monitor = "dry"
      /\ sp[k - 1] => /\ sp[k] /\ p.slots[k].monitor # "reuse"
                      /\ p.slots[k].primary # "process" => p.slots[k].monitor = "dry"
  BY <1>2, <1>3, MonitorsAre
<1>6. /\ ~sp[k] => (PrimaryProcesses(c[k]) <=> Plays(c[k]))
      /\ sp[k] /\ ~sp[k - 1] => ~Plays(c[k])
      /\ sp[k - 1] /\ Plays(c[k]) => /\ p.slots[k].monitor = "process"
                                     /\ c[k].shadowLatency = c[k].latency
      /\ sp[k - 1] /\ ~Plays(c[k]) => p.slots[k].monitor = "dry"
  BY MonitorsPlay
<1> QED BY <1>4, <1>6

(***************************************************************************)
(* Where the monitor path is after slot k, and what it holds. Until the    *)
(* paths part it shares a buffer with the primary path; then it is in its  *)
(* own two, or was left in the one the primary path writes next, and no    *)
(* plugin may run in the primary path any more.                            *)
(***************************************************************************)
LeftBehind(r, k, slots) ==
    /\ r.monitor.in = r.primary.out
    /\ \E i, j \in 1..k : /\ i < j /\ slots[i].monitor = "reuse" /\ slots[j].monitor # "reuse"
                          /\ slots[j].primary = "process"
Hearing(r, k, sp, slots, signal) ==
    /\ Fit(r) /\ r.val[r.monitor.in] = signal
    /\ \/ r.primary = [in |-> "in", out |-> "alt"]
       \/ r.primary = [in |-> "alt", out |-> "in"]
    /\ ~sp[k] => Sharing(r, k, slots) /\ r.val[r.primary.in] = signal
    /\ sp[k] => Apart(r) \/ LeftBehind(r, k, slots)

LEMMA HearingStarts ==
    ASSUME NEW start, NEW sp, NEW slots, ~sp[0] => start.in = start.monitor
    PROVE  Hearing(Pointers(start), 0, sp, slots, start.monitor)
<1> DEFINE r == Pointers(start)
<1>1. /\ DOMAIN r = {"primary", "monitor", "val"}
      /\ r.primary = [in |-> "in", out |-> "alt"]
      /\ r.monitor = [in |-> "monitor_in", out |-> "monitor_alt"]
      /\ DOMAIN r.val = Bufs /\ r.val["in"] = start.in /\ r.val["monitor_in"] = start.monitor
  BY DEF Pointers, Bufs, Main
<1> HIDE DEF r
<1>2. Fit(r)
  BY <1>1 DEF Fit, Main
<1> QED BY <1>1, <1>2 DEF Hearing, Sharing, Apart, r

\* The gain is applied once: the paths share a buffer to the end, or end in two.
LEMMA HearingEnds ==
    ASSUME NEW r, NEW k, NEW sp, NEW slots, NEW signal, Hearing(r, k, sp, slots, signal),
           NEW split \in BOOLEAN, sp[k] = split, NEW t
    PROVE  /\ Ended(r, t, split).monitor = Faded(signal, t)
           /\ ~split => Ended(r, t, split).primary = Faded(signal, t)
<1> DEFINE once == [r.val EXCEPT ![r.primary.in] = Faded(@, t)]
           twice == [once EXCEPT ![r.monitor.in] = Faded(@, t)]
<1>1. /\ Fit(r) /\ r.val[r.monitor.in] = signal
      /\ r.primary.in \in Bufs /\ r.monitor.in \in Bufs /\ DOMAIN r.val = Bufs
  BY DEF Hearing, Fit, Bufs
<1>2. split => r.monitor.in # r.primary.in
  BY DEF Hearing, Apart, LeftBehind
<1>3. once[r.primary.in] = Faded(r.val[r.primary.in], t) /\ DOMAIN once = Bufs
      /\ (split => once[r.monitor.in] = r.val[r.monitor.in])
  BY <1>1, <1>2
<1>4. split => twice[r.monitor.in] = Faded(signal, t)
  <2> HIDE DEF once
  <2> QED BY <1>1, <1>3
<1>5. ~split => r.val[r.primary.in] = signal
  BY DEF Hearing
<1>6. /\ Ended(r, t, split).primary = IF split THEN twice[r.primary.in] ELSE once[r.primary.in]
      /\ Ended(r, t, split).monitor = IF split THEN twice[r.monitor.in] ELSE once[r.primary.in]
  BY DEF Ended, Given, Gained
<1> HIDE DEF once, twice
<1> QED BY <1>3, <1>4, <1>5, <1>6

LEMMA NotOverwritten ==
    ASSUME NEW slots, ~Overwritten(slots), NEW L \in Nat, DOMAIN slots = 1..L,
           NEW k \in 1..L, NEW i \in 1..(k - 1), NEW j \in 1..(k - 1),
           i < j, slots[i].monitor = "reuse", slots[j].monitor # "reuse", slots[j].primary = "process"
    PROVE  slots[k].primary # "process"
<1>1. i \in 1..L /\ j \in 1..L /\ j < k
  OBVIOUS
<1> QED BY <1>1 DEF Overwritten

LEMMA HearingKeeps ==
    ASSUME NEW c, IsChain(c), NEW sp, NEW p,
           Parts(sp, c, p), Mirrors(c, p.slots), ~Overwritten(p.slots),
           NEW k \in 1..Len(c), NEW r, NEW signal, Hearing(r, k - 1, sp, p.slots, signal), NEW dry
    PROVE  Hearing(RunSlot(r, c[k], p.slots[k], dry, {}), k, sp, p.slots,
                   IF Plays(c[k]) THEN Through(signal, c[k].id, c[k].latency) ELSE signal)
<1> DEFINE L == Len(c)
           slots == p.slots
           s == c[k]
           q == slots[k]
           next == RunSlot(r, s, q, dry, {})
           new == IF Plays(s) THEN Through(signal, s.id, s.latency) ELSE signal
<1>0. L \in Nat /\ DOMAIN slots = 1..L /\ k \in Nat
  BY DEF IsChain, Parting, Parts
<1>1. /\ q.primary \in {"process", "dry", "drain"}
      /\ q.primary = "process" <=> PrimaryProcesses(s)
      /\ q.monitor \in Actions
      /\ ~sp[k] => ~sp[k - 1] /\ q.monitor = "reuse"
      /\ sp[k] /\ ~sp[k - 1] => q.primary = "process" /\ q.monitor = "dry"
      /\ sp[k - 1] => sp[k]
      /\ ~sp[k] => (PrimaryProcesses(s) <=> Plays(s))
      /\ sp[k] /\ ~sp[k - 1] => ~Plays(s)
      /\ sp[k - 1] /\ Plays(s) => q.monitor = "process" /\ s.shadowLatency = s.latency
      /\ sp[k - 1] /\ ~Plays(s) => q.monitor = "dry"
  BY <1>0, PartsAre
<1>p. Plays(s) => PrimaryProcesses(s)
  BY DEF Plays
<1>3. Fit(r) /\ r.val[r.monitor.in] = signal
  BY DEF Hearing
<1>4. PICK m : Fit(m) /\ Slotted(r, m, next, s, q)
  <2> HIDE DEF s, q
  <2> QED BY <1>1, <1>3, SlotRuns
<1>5. \/ r.primary = [in |-> "in", out |-> "alt"]
      \/ r.primary = [in |-> "alt", out |-> "in"]
  BY DEF Hearing
<1> HIDE DEF s, q, next, slots
<1>6. /\ m.monitor = r.monitor
      /\ q.primary = "process" =>
            /\ m.primary = [in |-> r.primary.out, out |-> r.primary.in]
            /\ m.val[m.primary.in] = Through(r.val[r.primary.in], s.id, s.latency)
            /\ \A b \in Main : b # r.primary.out => m.val[b] = r.val[b]
      /\ q.primary # "process" => m = r
  <2>1. CASE q.primary = "process"
    BY <1>3, <1>4, <2>1 DEF Slotted, Swapped
  <2>2. CASE q.primary # "process"
    BY <1>4, <2>2 DEF Slotted
  <2> QED BY <2>1, <2>2
<1>7. \/ m.primary = [in |-> "in", out |-> "alt"]
      \/ m.primary = [in |-> "alt", out |-> "in"]
  BY <1>5, <1>6
<1> HIDE DEF new
<1>8. CASE ~sp[k]
  <2>1. ~sp[k - 1] /\ q.monitor = "reuse"
    BY <1>1, <1>8
  <2>2. next = [m EXCEPT !.monitor.in = m.primary.in]
    BY <1>4, <2>1 DEF Slotted, ReusePrimary
  <2>3. /\ DOMAIN next = DOMAIN m /\ next.primary = m.primary /\ next.val = m.val
        /\ next.monitor = [in |-> m.primary.in, out |-> m.monitor.out]
    BY <1>4, <2>2 DEF Fit
  <2>4. m.primary.in \in Main /\ m.monitor.out \in Main
    BY <1>4 DEF Fit
  <2>5. Fit(next)
    BY <1>4, <2>3, <2>4 DEF Fit
  <2>6. r.val[r.primary.in] = signal /\ Sharing(r, k - 1, slots)
    BY <2>1 DEF Hearing, slots
  <2>7. Sharing(next, k, slots)
    <3>1. next.monitor.out = "monitor_alt"
      BY <1>6, <2>3, <2>6 DEF Sharing
    <3> QED BY <1>0, <2>1, <2>3, <3>1 DEF Sharing, q
  <2>8. m.val[m.primary.in] = new
    BY <1>1, <1>6, <1>8, <2>6 DEF new
  <2>9. Hearing(next, k, sp, slots, new)
    BY <1>7, <1>8, <2>3, <2>5, <2>7, <2>8 DEF Hearing
  <2> QED BY <2>9 DEF next, new, s, q, slots
<1>9. CASE sp[k] /\ ~sp[k - 1]
  <2>1. q.primary = "process" /\ q.monitor = "dry" /\ new = signal
    BY <1>1, <1>9 DEF new
  <2>2. next = m
    BY <1>4, <2>1 DEF Slotted
  <2>3. Sharing(r, k - 1, slots)
    BY <1>9 DEF Hearing, slots
  <2>4. r.monitor \in [in : Main, out : Main]
    BY <1>3 DEF Fit
  <2>5. CASE k - 1 = 0
    <3>1. r.monitor.in = "monitor_in" /\ r.monitor.out = "monitor_alt"
      BY <2>3, <2>5 DEF Sharing
    <3>2. Apart(m)
      BY <1>6, <2>4, <3>1 DEF Apart
    <3>3. m.val[m.monitor.in] = new
      BY <1>3, <1>5, <1>6, <2>1, <2>4, <3>1
    <3> QED BY <1>4, <1>7, <1>9, <2>2, <3>2, <3>3 DEF Hearing, next, new, s, q, slots
  <2>6. CASE k - 1 # 0
    <3>1. r.monitor.in = r.primary.in /\ slots[k - 1].monitor = "reuse"
      BY <2>3, <2>6 DEF Sharing
    <3>2. m.monitor.in = m.primary.out
      BY <1>6, <2>1, <3>1
    <3>3. k - 1 \in 1..k /\ k \in 1..k /\ k - 1 < k
      BY <1>0, <2>6
    <3>4. LeftBehind(m, k, slots)
      BY <2>1, <3>1, <3>2, <3>3 DEF LeftBehind, q
    <3>5. m.val[m.monitor.in] = new
      BY <1>3, <1>5, <1>6, <2>1, <2>4, <3>1
    <3> QED BY <1>4, <1>7, <1>9, <2>2, <3>4, <3>5 DEF Hearing, next, new, s, q, slots
  <2> QED BY <2>5, <2>6
<1>10. CASE sp[k - 1]
  <2>1. /\ sp[k] /\ (Plays(s) => q.monitor = "process" /\ s.shadowLatency = s.latency)
        /\ ~Plays(s) => q.monitor = "dry"
    BY <1>1, <1>10
  <2>2. Apart(r) \/ LeftBehind(r, k - 1, slots)
    BY <1>10 DEF Hearing, slots
  <2>3. CASE Apart(r)
    <3>1. m.val[m.monitor.in] = signal /\ Apart(m)
      <4>1. r.monitor.in \in Main /\ r.monitor.in # r.primary.out
        BY <1>3, <1>5, <2>3 DEF Apart, Fit
      <4> QED BY <1>3, <1>6, <2>3, <4>1 DEF Apart
    <3>2. CASE Plays(s)
      <4>1. m.monitor.out # m.primary.in
        BY <1>7, <3>1 DEF Apart
      <4>2. Swapped(m, next, "monitor", s, s.shadowLatency)
        BY <1>4, <2>1, <3>2 DEF Slotted
      <4>3. /\ Fit(next) /\ next.primary = m.primary
            /\ next.monitor = [in |-> m.monitor.out, out |-> m.monitor.in]
            /\ next.val[m.monitor.out] = Through(m.val[m.monitor.in], s.id, s.shadowLatency)
        BY <4>2 DEF Swapped
      <4>4. Apart(next) /\ next.val[next.monitor.in] = new
        BY <2>1, <3>1, <3>2, <4>3 DEF Apart, new
      <4> QED BY <1>7, <2>1, <4>3, <4>4 DEF Hearing, next, new, s, q, slots
    <3>3. CASE ~Plays(s)
      <4>1. next = m /\ new = signal
        BY <1>4, <2>1, <3>3 DEF Slotted, new
      <4> QED BY <1>4, <1>7, <2>1, <3>1, <4>1 DEF Hearing, next, new, s, q, slots
    <3> QED BY <3>2, <3>3
  <2>4. CASE LeftBehind(r, k - 1, slots)
    <3>1. PICK i \in 1..(k - 1), j \in 1..(k - 1) :
             i < j /\ slots[i].monitor = "reuse" /\ slots[j].monitor # "reuse" /\ slots[j].primary = "process"
      BY <2>4 DEF LeftBehind
    <3>2. q.primary # "process"
      <4> HIDE DEF L
      <4> QED BY <1>0, <3>1, NotOverwritten DEF L, slots, q
    <3>3. i \in 1..k /\ j \in 1..k
      BY <1>0
    <3>4. m = r /\ ~Plays(s) /\ q.monitor = "dry" /\ next = m /\ new = signal
      BY <1>1, <1>p, <1>4, <1>6, <2>1, <3>2 DEF Slotted, new
    <3>5. LeftBehind(m, k, slots)
      BY <2>4, <3>1, <3>3, <3>4 DEF LeftBehind
    <3> QED BY <1>3, <1>5, <2>1, <3>4, <3>5 DEF Hearing, next, new, s, q, slots
  <2> QED BY <2>2, <2>3, <2>4
<1> QED BY <1>8, <1>9, <1>10

\* What the plugins in force for the monitor make of a signal, one after the other.
PlayedOn(sig, c, S) ==
    /\ sig[0] = S
    /\ \A k \in 1..Len(c) :
          sig[k] = IF Plays(c[k]) THEN Through(sig[k - 1], c[k].id, c[k].latency) ELSE sig[k - 1]
    /\ sig[Len(c)] = Passed(S, ChainLatency(MutedChain(c)), PlayedIds(c))

LEMMA ChainPlays ==
    ASSUME NEW c, IsChain(c), NEW D, NEW S, IsSignal(S, D)
    PROVE  \E sig : PlayedOn(sig, c, S)
<1> DEFINE m == MutedChain(c)
<1>1. /\ IsChain(m) /\ Len(m) = Len(c)
      /\ \A i \in 1..Len(c) : /\ PrimaryProcesses(m[i]) <=> Plays(c[i])
                              /\ m[i].id = c[i].id /\ m[i].latency = c[i].latency
  BY ChainIsMuted
<1>2. PlayedIds(c) = ChainIds(m)
  BY PlayedIdsAre
<1> HIDE DEF m
<1>3. PICK sig : Signalled(sig, m, S)
  BY <1>1, ChainPasses
<1>4. \A k \in 1..Len(c) :
          sig[k] = IF Plays(c[k]) THEN Through(sig[k - 1], c[k].id, c[k].latency) ELSE sig[k - 1]
  BY <1>1, <1>3 DEF Signalled
<1>5. sig[0] = S /\ sig[Len(c)] = Passed(S, ChainLatency(m), PlayedIds(c))
  BY <1>1, <1>2, <1>3 DEF Signalled
<1>6. PlayedOn(sig, c, S)
  BY <1>4, <1>5 DEF PlayedOn, m
<1> QED BY <1>6

\* The chain is planned for a monitor path, which starts where the primary one does
\* unless they have parted before.
PlannedToHear(c, p, start) ==
    \E required, before \in BOOLEAN :
        /\ required = TRUE /\ p = PlanChain(c, required, before)
        /\ before = FALSE => start.in = start.monitor

MonitorEnds(out, signal, t, p) ==
    /\ out.monitor = Faded(signal, t) /\ p.split \in BOOLEAN
    /\ p.split = FALSE => out.primary = out.monitor

LEMMA MonitorRuns ==
    ASSUME NEW t, NEW track, NEW bus, NEW dry, IsChain(track.chain),
           NEW p, PlannedToHear(track.chain, p, Started(t, track, bus)),
           Mirrors(track.chain, p.slots), ~Overwritten(p.slots),
           NEW sig, PlayedOn(sig, track.chain, Started(t, track, bus).monitor)
    PROVE  MonitorEnds(RunTrack(t, track, p, bus, dry, {}), sig[Len(track.chain)], t, p)
<1> DEFINE c == track.chain
           start == Started(t, track, bus)
           L == Len(c)
           out == RunTrack(t, track, p, bus, dry, {})
<1>0. IsChain(c) /\ L \in Nat /\ DOMAIN c = 1..L
  BY DEF IsChain
<1>1. PICK w : Running(w, c, p, dry, start) /\ out = Ended(w[L], t, p.split)
  BY <1>0, RunTrackRuns
<1>2. /\ PlannedToHear(c, p, start) /\ Mirrors(c, p.slots) /\ PlayedOn(sig, c, start.monitor)
  OBVIOUS
<1> HIDE DEF out, c, start
<1>p. PICK required \in BOOLEAN, before \in BOOLEAN :
         /\ required = TRUE /\ p = PlanChain(c, required, before)
         /\ before = FALSE => start.in = start.monitor
  BY <1>2 DEF PlannedToHear
<1>3. PICK sp : Parting(sp, c, required, before, p)
  BY <1>0, <1>p, PlanChainParts
<1>4. Parts(sp, c, p)
  BY <1>p, <1>3 DEF Parts
<1> DEFINE Good(k) == Hearing(w[k], k, sp, p.slots, sig[k])
           I == {k \in 0..L : Good(k)}
<1>5. 0 \in I
  <2>1. w[0] = Pointers(start) /\ sig[0] = start.monitor
    BY <1>1, <1>2 DEF Running, PlayedOn, L
  <2>2. sp[0] = before /\ sp[0] \in BOOLEAN
    BY <1>0, <1>3 DEF Parting
  <2>3. ~sp[0] => start.in = start.monitor
    BY <1>p, <2>2
  <2>4. Good(0)
    BY <2>1, <2>3, HearingStarts
  <2> HIDE DEF Good
  <2> QED BY <1>0, <2>4
<1>6. ASSUME NEW k \in 1..L, k - 1 \in I PROVE k \in I
  <2>1. Good(k - 1)
    BY <1>6
  <2>2. /\ w[k] = RunSlot(w[k - 1], c[k], p.slots[k], dry, {})
        /\ sig[k] = IF Plays(c[k]) THEN Through(sig[k - 1], c[k].id, c[k].latency) ELSE sig[k - 1]
    BY <1>1, <1>2 DEF Running, PlayedOn, L
  <2>3. Hearing(RunSlot(w[k - 1], c[k], p.slots[k], dry, {}), k, sp, p.slots,
                IF Plays(c[k]) THEN Through(sig[k - 1], c[k].id, c[k].latency) ELSE sig[k - 1])
    BY <1>0, <1>2, <1>4, <2>1, HearingKeeps
  <2>4. Good(k) /\ k \in 0..L
    BY <1>0, <2>2, <2>3
  <2> HIDE DEF Good
  <2> QED BY <2>4
<1> HIDE DEF I, L
<1>7. L \in I
  <2>1. \A k \in 0..L : k \in I
    BY <1>0, <1>5, <1>6, Counting
  <2>2. L \in 0..L
    BY <1>0
  <2> QED BY <2>1, <2>2
<1>8. Good(L)
  BY <1>7 DEF I
<1>9. p.split \in BOOLEAN /\ sp[L] = p.split
  <2>1. L \in 0..L
    BY <1>0
  <2> QED BY <1>3, <2>1 DEF Parting, L
<1>10. /\ Ended(w[L], t, p.split).monitor = Faded(sig[L], t)
       /\ ~p.split => Ended(w[L], t, p.split).primary = Faded(sig[L], t)
  BY <1>8, <1>9, HearingEnds
<1> QED BY <1>1, <1>9, <1>10 DEF MonitorEnds, out, L, c

LEMMA PlayedIsHeard ==
    ASSUME NEW n, Whole(n), NEW t \in DOMAIN n, NEW S, IsSignal(S, DOMAIN n), IsHeard(S, n),
           NEW c, c = n[t].chain, NEW sig, PlayedOn(sig, c, S)
    PROVE  IsSignal(sig[Len(c)], DOMAIN n) /\ IsHeard(sig[Len(c)], n)
<1> DEFINE L == Len(c)
           I == {k \in 0..L : IsSignal(sig[k], DOMAIN n) /\ IsHeard(sig[k], n)}
<1>0. L \in Nat /\ DOMAIN c = 1..L
  BY WholeHasChains DEF IsChain
<1>1. 0 \in I
  BY <1>0 DEF PlayedOn
<1>2. ASSUME NEW k \in 1..L, k - 1 \in I PROVE k \in I
  <2> DEFINE old == sig[k - 1]
             id == c[k].id
             l == c[k].latency
  <2>1. id \in SlotIds(n) /\ l = LatencyIn(n, id)
    BY <1>0, SlotIsFound
  <2>2. IsSignal(old, DOMAIN n) /\ IsHeard(old, n)
    BY <1>2
  <2>3. sig[k] = IF Plays(c[k]) THEN Through(old, id, l) ELSE old
    BY DEF PlayedOn
  <2> HIDE DEF old, id, l
  <2>4. IsHeard(Through(old, id, l), n) /\ IsSignal(Through(old, id, l), DOMAIN n)
    BY <2>1, <2>2, HeardThrough
  <2>5. k \in 0..L
    BY <1>0
  <2> QED BY <2>2, <2>3, <2>4, <2>5
<1> HIDE DEF L, I
<1>3. L \in I
  <2>1. \A k \in 0..L : k \in I
    BY <1>0, <1>1, <1>2, Counting
  <2>2. L \in 0..L
    BY <1>0
  <2> QED BY <2>1, <2>2
<1> QED BY <1>3 DEF I, L

\* The chain of a track as it is planned after the tracks before it.
PlanOf(n, low, split, t) ==
    PlanChain(n[t].chain, t \in low, t \in low /\ UsesInputBus(n[t]) /\ t \in split)
\* The tracks whose two input signals differ because of this one.
Diverting(n, low, delays, p, t) ==
    {d \in n[t].dests :
        LET e == [from |-> t, to |-> d, aux |-> FALSE]
        IN  /\ d \in low /\ UsesInputBus(n[d])
            /\ p.split \/ (e \in DOMAIN delays /\ delays[e] > 0)}
Splitting(n, q, low, delays, tracks, z) ==
    \A k \in 1..Len(q) :
        /\ tracks[q[k]] = PlanOf(n, low, z[k - 1], q[k])
        /\ z[k] = z[k - 1] \cup Diverting(n, low, delays, tracks[q[k]], q[k])

LEMMA TrackSplits ==
    ASSUME NEW n, NEW low, NEW delays, NEW acc, NEW t, t \in DOMAIN acc.plan
    PROVE  LET next == TrackPlanned(n, low, delays, acc, t)
               p == PlanOf(n, low, acc.split, t)
           IN  /\ DOMAIN next.plan = DOMAIN acc.plan /\ next.plan[t] = p
               /\ \A u \in DOMAIN acc.plan : u # t => next.plan[u] = acc.plan[u]
               /\ next.split = acc.split \cup Diverting(n, low, delays, p, t)
<1> DEFINE p == PlanOf(n, low, acc.split, t)
           next == TrackPlanned(n, low, delays, acc, t)
<1>1. /\ next.plan = [acc.plan EXCEPT ![t] = p]
      /\ next.split = acc.split \cup Diverting(n, low, delays, p, t)
  BY DEF TrackPlanned, PlanOf, Diverting
<1> HIDE DEF p, next
<1> QED BY <1>1 DEF p, next

LEMMA SplitsAre ==
    ASSUME NEW n, NEW q, Ordered(n, q), NEW delays,
           NEW low, low = ReverseReach(n, q, OutputsOf(n, "low")),
           NEW tracks, tracks = PlanTracks(n, q, delays)
    PROVE  \E z : Splitting(n, q, low, delays, tracks, z)
<1> DEFINE L == Len(q)
<1>0. L \in Nat /\ DOMAIN q = 1..L /\ \A i \in 1..L : q[i] \in DOMAIN n
  BY LenProperties, ElementOfSeq DEF Ordered
<1>1. PICK w : PlanningTracks(n, q, low, delays, w) /\ tracks = w[L].plan
  BY <1>0, PlanTracksTurns
<1> HIDE DEF L
<1> DEFINE P(i) == PlanOf(n, low, w[i - 1].split, q[i])
           Good(k) == DOMAIN w[k].plan = DOMAIN n /\ \A i \in 1..k : w[k].plan[q[i]] = P(i)
           I == {k \in 0..L : Good(k)}
           z == [k \in 0..L |-> w[k].split]
<1>2. 0 \in I
  BY <1>0, <1>1 DEF PlanningTracks
<1>3. ASSUME NEW k \in 1..L, DOMAIN w[k - 1].plan = DOMAIN n
      PROVE  /\ DOMAIN w[k].plan = DOMAIN n /\ w[k].plan[q[k]] = P(k)
             /\ \A u \in DOMAIN n : u # q[k] => w[k].plan[u] = w[k - 1].plan[u]
             /\ w[k].split = w[k - 1].split \cup Diverting(n, low, delays, P(k), q[k])
  <2> DEFINE acc == w[k - 1]
             t == q[k]
             next == TrackPlanned(n, low, delays, acc, t)
  <2>1. w[k] = next
    BY <1>1 DEF PlanningTracks, L
  <2>2. t \in DOMAIN acc.plan
    BY <1>0, <1>3
  <2> DEFINE p == PlanOf(n, low, acc.split, t)
  <2>3. P(k) = p
    OBVIOUS
  <2>d. DOMAIN acc.plan = DOMAIN n
    BY <1>3
  <2> HIDE DEF acc, t, P
  <2>4. /\ DOMAIN next.plan = DOMAIN acc.plan /\ next.plan[t] = p
        /\ \A u \in DOMAIN acc.plan : u # t => next.plan[u] = acc.plan[u]
        /\ next.split = acc.split \cup Diverting(n, low, delays, p, t)
    BY <2>2, TrackSplits
  <2> HIDE DEF next, p
  <2> QED BY <2>1, <2>3, <2>4, <2>d DEF acc, t
<1>4. ASSUME NEW k \in 1..L, k - 1 \in I PROVE k \in I
  <2>1. Good(k - 1)
    BY <1>4
  <2>3. /\ DOMAIN w[k].plan = DOMAIN n /\ w[k].plan[q[k]] = P(k)
        /\ \A u \in DOMAIN n : u # q[k] => w[k].plan[u] = w[k - 1].plan[u]
    BY <1>3, <2>1
  <2> HIDE DEF P
  <2>2. ASSUME NEW i \in 1..k PROVE w[k].plan[q[i]] = P(i)
    <3>1. CASE i = k
      BY <2>3, <3>1
    <3>2. CASE i # k
      <4>1. i \in 1..(k - 1) /\ i \in 1..L
        BY <1>0, <3>2
      <4>2. q[i] # q[k] /\ q[i] \in DOMAIN n
        BY <1>0, <3>2, <4>1 DEF Ordered, Once, L
      <4> QED BY <2>1, <2>3, <4>1, <4>2
    <3> QED BY <3>1, <3>2
  <2>4. k \in 0..L
    BY <1>0
  <2> QED BY <2>2, <2>3, <2>4
<1> HIDE DEF I
<1>5. \A k \in 0..L : k \in I
  BY <1>0, <1>2, <1>4, Counting
<1>6. \A k \in 1..L : tracks[q[k]] = P(k)
  <2>1. L \in 0..L
    BY <1>0
  <2>2. Good(L)
    BY <1>5, <2>1 DEF I
  <2> HIDE DEF P
  <2> QED BY <1>1, <2>2
<1>7. ASSUME NEW k \in 1..L
      PROVE  /\ tracks[q[k]] = PlanOf(n, low, z[k - 1], q[k])
             /\ z[k] = z[k - 1] \cup Diverting(n, low, delays, tracks[q[k]], q[k])
  <2>1. k - 1 \in 0..L /\ k \in 0..L
    BY <1>0
  <2>2. DOMAIN w[k - 1].plan = DOMAIN n
    BY <1>5, <2>1 DEF I
  <2>3. w[k].split = w[k - 1].split \cup Diverting(n, low, delays, P(k), q[k])
    BY <1>3, <2>2
  <2>4. z[k - 1] = w[k - 1].split /\ z[k] = w[k].split
    BY <2>1
  <2> HIDE DEF z
  <2> QED BY <1>6, <2>3, <2>4
<1> HIDE DEF z
<1>8. Splitting(n, q, low, delays, tracks, z)
  BY <1>7 DEF Splitting, L
<1> QED BY <1>8

\* A track whose input has not diverged starts with one signal in both paths.
LEMMA PlanHears ==
    ASSUME NEW n, NEW low, NEW split, NEW t \in low, NEW start,
           (UsesInputBus(n[t]) /\ t \in split) \/ start.in = start.monitor
    PROVE  PlannedToHear(n[t].chain, PlanOf(n, low, split, t), start)
<1> DEFINE required == t \in low
           before == t \in low /\ UsesInputBus(n[t]) /\ t \in split
<1>1. required \in BOOLEAN /\ before \in BOOLEAN /\ required = TRUE
  OBVIOUS
<1>2. before = FALSE => start.in = start.monitor
  OBVIOUS
<1>3. PlanOf(n, low, split, t) = PlanChain(n[t].chain, required, before)
  BY DEF PlanOf
<1> HIDE DEF required, before
<1> QED BY <1>1, <1>2, <1>3 DEF PlannedToHear

\* A graph as a low-latency output needs it, with the plans of its tracks.
Attuned(n, pdc, tracks, low) ==
    /\ Whole(n) /\ Sound(n)
    /\ \A e \in Edges(n) : DelayOn(pdc, e) \in Nat
    /\ low \subseteq DOMAIN n /\ \A t \in low : Into(n, t) \subseteq low
    /\ \A t \in DOMAIN n : Mirrors(n[t].chain, tracks[t].slots) /\ ~Overwritten(tracks[t].slots)

\* The tracks done have given on what the monitor path plays; split has what
\* the planner takes to differ from the primary path.
BusHears(bus, y, n, split, done, d) ==
    /\ DOMAIN bus = {"in", "monitor", "sc"}
    /\ IsSignal(bus.monitor, DOMAIN n) /\ IsHeard(bus.monitor, n)
    /\ \A v : v \in Carries(bus.monitor) <=> \E s \in done : d \in n[s].dests /\ v \in y[s]
    /\ ~(UsesInputBus(n[d]) /\ d \in split) => bus.in = bus.monitor
OutHears(signal, way, n) == Carries(signal) = way /\ IsHeard(signal, n)
Hears(b, y, n, low, split, done) ==
    /\ DOMAIN b.bus = DOMAIN n /\ DOMAIN b.out = DOMAIN n /\ DOMAIN y = DOMAIN n
    /\ \A d \in low : BusHears(b.bus[d], y, n, split, done, d)
    /\ \A s \in done : s \in low => OutHears(b.out[s].monitor, y[s], n)

\* What a track that a low-latency output hears gives on.
TrackGives(out, way, n, p) ==
    /\ IsSignal(out.monitor, DOMAIN n) /\ OutHears(out.monitor, way, n)
    /\ p.split \in BOOLEAN /\ (p.split = FALSE => out.primary = out.monitor)

LEMMA MonitorStarts ==
    ASSUME NEW t, NEW track, NEW bus, DOMAIN bus = {"in", "monitor", "sc"}
    PROVE  /\ IsSource(track) => /\ Started(t, track, bus).in = Origin(t)
                                 /\ Started(t, track, bus).monitor = Origin(t)
           /\ ~IsSource(track) => Started(t, track, bus) = bus
<1>1. IsSource(track) => /\ Started(t, track, bus).in = Origin(t)
                         /\ Started(t, track, bus).monitor = Origin(t)
  BY DEF Started
<1>2. ~IsSource(track) => Started(t, track, bus) = bus
  BY DEF Started
<1> QED BY <1>1, <1>2

LEMMA TrackHears ==
    ASSUME NEW n, NEW pdc, NEW tracks, NEW low, Attuned(n, pdc, tracks, low),
           NEW b, NEW y, NEW split, NEW done, done \subseteq DOMAIN n, Hears(b, y, n, low, split, done),
           NEW t \in low, Into(n, t) \subseteq done, NEW dry,
           NEW p, p = tracks[t], p = PlanOf(n, low, split, t)
    PROVE  TrackGives(RunTrack(t, n[t], p, b.bus[t], dry, {}), WaysOn(Muted(n), y, t)[t], n, p)
<1> DEFINE out == RunTrack(t, n[t], p, b.bus[t], dry, {})
           c == n[t].chain
           bus == b.bus[t]
           start == Started(t, n[t], bus)
           S == start.monitor
           m == Muted(n)
<1>1. BusHears(bus, y, n, split, done, t) /\ t \in DOMAIN n
  BY DEF Hears, Attuned
<1>m. /\ DOMAIN m = DOMAIN n
      /\ \A s \in DOMAIN n : /\ m[s].chain = MutedChain(n[s].chain)
                             /\ m[s].kind = n[s].kind /\ m[s].dests = n[s].dests
  BY TracksAreMuted DEF Attuned
<1> HIDE DEF m
<1>2. IsChain(c)
  BY <1>1, WholeHasChains DEF Attuned
<1>3. /\ IsSignal(S, DOMAIN n) /\ IsHeard(S, n) /\ Carries(S) = WaysTo(m, y, t)
      /\ (UsesInputBus(n[t]) /\ t \in split) \/ start.in = S
  <2>1. DOMAIN bus = {"in", "monitor", "sc"}
    BY <1>1 DEF BusHears
  <2>2. CASE IsSource(n[t])
    <3>1. start.in = Origin(t) /\ start.monitor = Origin(t)
      <4> HIDE DEF bus
      <4> QED BY <2>1, <2>2, MonitorStarts
    <3>2. /\ IsSignal(Origin(t), DOMAIN n)
          /\ Carries(Origin(t)) = {[from |-> t, through |-> <<>>, faded |-> <<>>]}
      <4> HIDE DEF bus
      <4> QED BY <1>1, <2>1, <2>2, SignalStarts
    <3>3. IsHeard(Origin(t), n)
      BY HeardFrom
    <3>4. IsSource(m[t])
      BY <1>1, <1>m, <2>2 DEF IsSource
    <3> HIDE DEF start
    <3> QED BY <3>1, <3>2, <3>3, <3>4 DEF WaysTo
  <2>3. CASE ~IsSource(n[t])
    <3>1. start = bus
      <4> HIDE DEF bus
      <4> QED BY <2>1, <2>3, MonitorStarts
    <3> HIDE DEF start
    <3>2. \A v : v \in Carries(bus.monitor) <=> \E s \in done : t \in n[s].dests /\ v \in y[s]
      BY <1>1 DEF BusHears
    <3>3. \A s : s \in done /\ t \in n[s].dests <=> s \in DOMAIN n /\ t \in n[s].dests
      BY DEF Into, Targets
    <3>4. ~IsSource(m[t])
      BY <1>1, <1>m, <2>3 DEF IsSource
    <3>5. \A v : v \in WaysTo(m, y, t) <=> \E s \in DOMAIN n : t \in n[s].dests /\ v \in y[s]
      BY <1>m, <3>4 DEF WaysTo
    <3>6. Carries(bus.monitor) = WaysTo(m, y, t)
      BY <3>2, <3>3, <3>5
    <3> HIDE DEF bus
    <3> QED BY <1>1, <3>1, <3>6 DEF BusHears
  <2> QED BY <2>2, <2>3
<1> HIDE DEF start
<1>4. PICK sig : PlayedOn(sig, c, S)
  BY <1>2, <1>3, ChainPlays
<1>5. PlannedToHear(c, p, start)
  BY <1>3, PlanHears
<1>6. Mirrors(c, p.slots) /\ ~Overwritten(p.slots)
  BY <1>1 DEF Attuned
<1>7. /\ out.monitor = Faded(sig[Len(c)], t) /\ p.split \in BOOLEAN
      /\ p.split = FALSE => out.primary = out.monitor
  <2> DEFINE track == n[t]
  <2>1. /\ IsChain(track.chain) /\ PlannedToHear(track.chain, p, Started(t, track, bus))
        /\ PlayedOn(sig, track.chain, Started(t, track, bus).monitor)
        /\ Mirrors(track.chain, p.slots) /\ ~Overwritten(p.slots)
    BY <1>2, <1>4, <1>5, <1>6 DEF start
  <2> HIDE DEF track, bus
  <2>2. MonitorEnds(RunTrack(t, track, p, bus, dry, {}), sig[Len(track.chain)], t, p)
    BY <2>1, MonitorRuns
  <2> QED BY <2>2 DEF MonitorEnds, track, bus
<1> HIDE DEF out, S
<1>8. IsSignal(sig[Len(c)], DOMAIN n) /\ IsHeard(sig[Len(c)], n)
  <2>1. Whole(n) /\ c = n[t].chain
    BY DEF Attuned
  <2> HIDE DEF c
  <2> QED BY <1>1, <1>3, <1>4, <2>1, PlayedIsHeard
<1>9. IsHeard(out.monitor, n)
  BY <1>1, <1>7, <1>8, HeardOn
<1>10. ChainLatency(m[t].chain) \in Nat /\ ChainIds(m[t].chain) \in Seq(Nat) /\ PlayedIds(c) = ChainIds(m[t].chain)
  <2>1. IsChain(MutedChain(c)) /\ IsSignal({}, DOMAIN n)
    BY <1>2, ChainIsMuted DEF IsSignal
  <2>2. m[t].chain = MutedChain(c) /\ PlayedIds(c) = ChainIds(MutedChain(c))
    BY <1>1, <1>2, <1>m, PlayedIdsAre
  <2> DEFINE mc == MutedChain(c)
  <2> HIDE DEF mc
  <2>3. PICK g : Signalled(g, mc, {})
    BY <2>1, ChainPasses DEF mc
  <2> QED BY <2>2, <2>3 DEF Signalled, mc
<1>11. sig[Len(c)] = Passed(S, ChainLatency(m[t].chain), ChainIds(m[t].chain))
  BY <1>1, <1>4, <1>10, <1>m DEF PlayedOn
<1> DEFINE l == ChainLatency(m[t].chain)
           ids == ChainIds(m[t].chain)
<1>12. l \in Nat /\ ids \in Seq(Nat) /\ out.monitor = Faded(Passed(S, l, ids), t)
  BY <1>7, <1>10, <1>11
<1>13. WaysOn(m, y, t)[t] = {Longer(v, ids, t) : v \in WaysTo(m, y, t)}
  <2>1. t \in DOMAIN y
    BY <1>1 DEF Hears
  <2> QED BY <2>1 DEF WaysOn, Longer
<1> HIDE DEF l, ids
<1>14. /\ IsSignal(out.monitor, DOMAIN n)
       /\ Carries(out.monitor) = {Longer(v, ids, t) : v \in Carries(S)}
  BY <1>1, <1>3, <1>12, SignalGoesOn
<1> QED BY <1>3, <1>7, <1>9, <1>13, <1>14 DEF OutHears, TrackGives, out, m

\* What a track gives on to one that a low-latency output hears: to both its
\* inputs the same, unless the planner knows better.
SendHears(in, mon, n, way, diverts, t, d) ==
    /\ IsSignal(mon, DOMAIN n) /\ IsHeard(mon, n)
    /\ \A v : v \in Carries(mon) <=> d \in n[t].dests /\ v \in way
    /\ ~(UsesInputBus(n[d]) /\ d \in diverts) => in = mon

LEMMA SendIsHeard ==
    ASSUME NEW n, NEW pdc, NEW tracks, NEW low, Attuned(n, pdc, tracks, low),
           NEW t \in DOMAIN n, NEW d \in low, NEW p, NEW out, NEW way,
           t \in low => TrackGives(out, way, n, p),
           NEW e, e = [from |-> t, to |-> d, aux |-> FALSE]
    PROVE  SendHears(IF d \in n[t].dests THEN Late(out.primary, DelayOn(pdc, e)) ELSE Silence,
                     IF d \in n[t].dests THEN out.monitor ELSE Silence,
                     n, way, Diverting(n, low, pdc, p, t), t, d)
<1>1. d \in DOMAIN n
  BY DEF Attuned
<1>2. CASE d \notin n[t].dests
  <2>1. IsSignal(Silence, DOMAIN n) /\ IsHeard(Silence, n) /\ Carries(Silence) = {}
    BY DEF IsSignal, IsHeard, Silence, Carries
  <2> QED BY <1>2, <2>1 DEF SendHears
<1>3. CASE d \in n[t].dests
  <2>1. t \in low
    <3>1. t \in Into(n, d)
      BY <1>3 DEF Into, Targets
    <3> QED BY <3>1 DEF Attuned
  <2>2. UsesInputBus(n[d])
    BY <1>3 DEF Attuned, Sound, UsesInputBus
  <2>3. DelayOn(pdc, e) \in Nat
    <3>1. e \in Edges(n)
      BY <1>1, <1>3 DEF Edges
    <3> QED BY <3>1 DEF Attuned
  <2>4. d \notin Diverting(n, low, pdc, p, t) => Late(out.primary, DelayOn(pdc, e)) = out.monitor
    <3> SUFFICES ASSUME d \notin Diverting(n, low, pdc, p, t)
                 PROVE  Late(out.primary, DelayOn(pdc, e)) = out.monitor
      OBVIOUS
    <3>1. ~p.split /\ ~(e \in DOMAIN pdc /\ pdc[e] > 0)
      BY <1>3, <2>2 DEF Diverting
    <3>2. DelayOn(pdc, e) = 0
      BY <2>3, <3>1 DEF DelayOn
    <3>3. p.split = FALSE
      BY <2>1, <3>1 DEF TrackGives
    <3>4. out.primary = out.monitor /\ IsSignal(out.monitor, DOMAIN n)
      BY <2>1, <3>3 DEF TrackGives
    <3>5. Late(out.monitor, 0) = out.monitor
      BY <3>4, LateByNothing
    <3> QED BY <3>2, <3>4, <3>5
  <2>5. IsSignal(out.monitor, DOMAIN n) /\ IsHeard(out.monitor, n) /\ Carries(out.monitor) = way
    BY <2>1 DEF OutHears, TrackGives
  <2> QED BY <1>3, <2>2, <2>4, <2>5 DEF SendHears
<1> QED BY <1>2, <1>3

LEMMA BusHearsOn ==
    ASSUME NEW n, NEW bus, NEW now, NEW y, NEW z, NEW split, NEW diverts, NEW done, NEW t, NEW d,
           BusHears(bus, y, n, split, done, d), \A s \in done : z[s] = y[s],
           NEW in, NEW mon, SendHears(in, mon, n, z[t], diverts, t, d),
           DOMAIN now = {"in", "monitor", "sc"},
           now.in = bus.in \cup in, now.monitor = bus.monitor \cup mon
    PROVE  BusHears(now, z, n, split \cup diverts, done \cup {t}, d)
<1>1. /\ IsSignal(bus.monitor, DOMAIN n) /\ IsHeard(bus.monitor, n)
      /\ IsSignal(mon, DOMAIN n) /\ IsHeard(mon, n)
  BY DEF BusHears, SendHears
<1>2. IsSignal(now.monitor, DOMAIN n) /\ Carries(now.monitor) = Carries(bus.monitor) \cup Carries(mon)
  BY <1>1, Joining
<1>3. IsHeard(now.monitor, n)
  BY <1>1, HeardTogether
<1>4. \A v : v \in Carries(now.monitor) <=> \E s \in done \cup {t} : d \in n[s].dests /\ v \in z[s]
  <2>1. \A v : v \in Carries(mon) <=> d \in n[t].dests /\ v \in z[t]
    BY DEF SendHears
  <2>2. \A v : v \in Carries(bus.monitor) <=> \E s \in done : d \in n[s].dests /\ v \in z[s]
    BY DEF BusHears
  <2> QED BY <1>2, <2>1, <2>2
<1>5. ~(UsesInputBus(n[d]) /\ d \in split \cup diverts) => now.in = now.monitor
  BY DEF BusHears, SendHears
<1> QED BY <1>2, <1>3, <1>4, <1>5 DEF BusHears

LEMMA HearsOn ==
    ASSUME NEW n, NEW pdc, NEW plan, NEW low, Attuned(n, pdc, plan.tracks, low),
           NEW b, NEW y, NEW split, NEW done, done \subseteq DOMAIN n, Hears(b, y, n, low, split, done),
           NEW t \in DOMAIN n, Into(n, t) \subseteq done, t \notin done, NEW dry,
           NEW p, p = plan.tracks[t], p = PlanOf(n, low, split, t)
    PROVE  Hears(TrackRun(n, plan, pdc, dry, b, t), WaysOn(Muted(n), y, t), n, low,
                 split \cup Diverting(n, low, pdc, p, t), done \cup {t})
<1> DEFINE out == RunTrack(t, n[t], p, b.bus[t], dry, {})
           z == WaysOn(Muted(n), y, t)
           next == TrackRun(n, plan, pdc, dry, b, t)
           Dest(d) == [from |-> t, to |-> d, aux |-> FALSE]
           In(d) == IF d \in n[t].dests THEN Late(out.primary, DelayOn(pdc, Dest(d))) ELSE Silence
           Mon(d) == IF d \in n[t].dests THEN out.monitor ELSE Silence
           diverts == Diverting(n, low, pdc, p, t)
<1>1. t \in low => TrackGives(out, z[t], n, p)
  <2> DEFINE tracks == plan.tracks
             way == z[t]
  <2>1. Attuned(n, pdc, tracks, low) /\ p = tracks[t]
    OBVIOUS
  <2> HIDE DEF tracks
  <2> QED BY <2>1, TrackHears
<1>2. DOMAIN b.bus = DOMAIN n /\ DOMAIN b.out = DOMAIN n /\ DOMAIN y = DOMAIN n
  BY DEF Hears
<1>3. DOMAIN z = DOMAIN n /\ \A s \in done : z[s] = y[s]
  BY <1>2 DEF WaysOn
<1>4. next.bus = Sends(b.bus, t, n[t], out, pdc) /\ next.out = [b.out EXCEPT ![t] = out]
  BY DEF TrackRun, After
<1> HIDE DEF out, z, next
<1>5. DOMAIN next.bus = DOMAIN n /\ DOMAIN next.out = DOMAIN n
  BY <1>2, <1>4 DEF Sends
<1>6. ASSUME NEW d \in DOMAIN n
      PROVE  /\ DOMAIN next.bus[d] = {"in", "monitor", "sc"}
             /\ next.bus[d].in = b.bus[d].in \cup In(d)
             /\ next.bus[d].monitor = b.bus[d].monitor \cup Mon(d)
  BY <1>2, <1>4 DEF Sends, DelayOn
<1>7. ASSUME NEW d \in low PROVE SendHears(In(d), Mon(d), n, z[t], diverts, t, d)
  <2> DEFINE e == Dest(d)
             tracks == plan.tracks
             way == z[t]
  <2>1. e = [from |-> t, to |-> d, aux |-> FALSE] /\ Attuned(n, pdc, tracks, low)
    OBVIOUS
  <2>2. t \in low => TrackGives(out, way, n, p)
    BY <1>1
  <2> HIDE DEF e, tracks, way
  <2>3. SendHears(IF d \in n[t].dests THEN Late(out.primary, DelayOn(pdc, e)) ELSE Silence,
                  IF d \in n[t].dests THEN out.monitor ELSE Silence,
                  n, way, Diverting(n, low, pdc, p, t), t, d)
    BY <2>1, <2>2, SendIsHeard
  <2> QED BY <2>3 DEF e, way
<1> HIDE DEF In, Mon, diverts
<1>8. ASSUME NEW d \in low PROVE BusHears(next.bus[d], z, n, split \cup diverts, done \cup {t}, d)
  <2> DEFINE bus == b.bus[d]
             now == next.bus[d]
             in == In(d)
             mon == Mon(d)
  <2>1. d \in DOMAIN n
    BY DEF Attuned
  <2>2. /\ BusHears(bus, y, n, split, done, d) /\ SendHears(in, mon, n, z[t], diverts, t, d)
        /\ DOMAIN now = {"in", "monitor", "sc"}
        /\ now.in = bus.in \cup in /\ now.monitor = bus.monitor \cup mon
    BY <1>6, <1>7, <2>1 DEF Hears
  <2> HIDE DEF bus, now, in, mon
  <2>3. BusHears(now, z, n, split \cup diverts, done \cup {t}, d)
    BY <1>3, <2>2, BusHearsOn
  <2> QED BY <2>3 DEF now
<1>9. ASSUME NEW s \in done \cup {t}, s \in low PROVE OutHears(next.out[s].monitor, z[s], n)
  <2>1. CASE s = t
    BY <1>1, <1>2, <1>4, <1>9, <2>1 DEF TrackGives
  <2>2. CASE s # t
    <3>1. s \in done /\ next.out[s] = b.out[s] /\ z[s] = y[s]
      BY <1>2, <1>3, <1>4, <2>2
    <3> QED BY <1>9, <3>1 DEF Hears
  <2> QED BY <2>1, <2>2
<1> QED BY <1>3, <1>5, <1>8, <1>9 DEF Hears, next, z, diverts

LEMMA BlockHears ==
    ASSUME NEW n, NEW plan, Ordered(n, plan.topo), NEW pdc,
           NEW low, low = ReverseReach(n, plan.topo, OutputsOf(n, "low")),
           plan.tracks = PlanTracks(n, plan.topo, pdc),
           Attuned(n, pdc, plan.tracks, low), NEW dry
    PROVE  \E split : Hears(Block(n, plan, pdc, dry, {}), Ways(n, plan.topo, Plays),
                            n, low, split, DOMAIN n)
<1> DEFINE q == plan.topo
           L == Len(q)
           tracks == plan.tracks
<1>0. L \in Nat /\ DOMAIN q = 1..L /\ \A i \in 1..L : q[i] \in DOMAIN n
  BY LenProperties, ElementOfSeq DEF Ordered
<1>1. PICK w : Blocking(n, plan, pdc, dry, w) /\ Block(n, plan, pdc, dry, {}) = w[L]
  BY <1>0, BlockTurns
<1>a. Whole(n)
  BY DEF Attuned
<1>2. PICK y : Walking(Muted(n), q, y) /\ Ways(n, q, Plays) = y[L]
  BY <1>0, <1>a, PlayedWaysTurn
<1>3. PICK z : Splitting(n, q, low, pdc, tracks, z)
  <2> HIDE DEF q, tracks
  <2>1. Ordered(n, q) /\ low = ReverseReach(n, q, OutputsOf(n, "low")) /\ tracks = PlanTracks(n, q, pdc)
    BY DEF q, tracks
  <2> QED BY <2>1, SplitsAre
<1>d. DOMAIN Muted(n) = DOMAIN n
  BY <1>a, TracksAreMuted
<1> DEFINE Good(k) == Hears(w[k], y[k], n, low, z[k], Before(q, k))
           I == {k \in 0..L : Good(k)}
<1>o. /\ Once(q) /\ \A d \in DOMAIN n : Has(q, d)
      /\ \A j \in 1..L : Into(n, q[j]) \subseteq Before(q, j - 1)
  BY DEF Ordered
<1> HIDE DEF L
<1>4. 0 \in I
  <2>1. Before(q, 0) = {}
    BY DEF Before
  <2>2. IsSignal({}, DOMAIN n) /\ Carries({}) = {} /\ IsHeard({}, n)
    BY DEF IsSignal, Carries, IsHeard
  <2> DEFINE b == w[0]
             split == z[0]
  <2>3. /\ DOMAIN b.bus = DOMAIN n /\ DOMAIN b.out = DOMAIN n
        /\ \A d \in DOMAIN n : b.bus[d] = [in |-> {}, monitor |-> {}, sc |-> {}]
    BY <1>1 DEF Blocking, Silence
  <2>4. DOMAIN y[0] = DOMAIN n
    BY <1>2, <1>d DEF Walking
  <2> HIDE DEF b, split
  <2>5. ASSUME NEW d \in low PROVE BusHears(b.bus[d], y[0], n, split, {}, d)
    <3> DEFINE bus == b.bus[d]
    <3>0. d \in DOMAIN n
      BY DEF Attuned
    <3>1. DOMAIN bus = {"in", "monitor", "sc"} /\ bus.in = {} /\ bus.monitor = {}
      BY <2>3, <3>0
    <3> HIDE DEF bus
    <3>2. BusHears(bus, y[0], n, split, {}, d)
      BY <2>2, <3>1 DEF BusHears
    <3> QED BY <3>2 DEF bus
  <2>6. Hears(b, y[0], n, low, split, {})
    BY <2>3, <2>4, <2>5 DEF Hears
  <2>7. Good(0)
    BY <2>1, <2>6 DEF b, split
  <2> HIDE DEF Good
  <2> QED BY <1>0, <2>7
<1>5. ASSUME NEW k \in 1..L, k - 1 \in I PROVE k \in I
  <2> DEFINE t == q[k]
             done == Before(q, k - 1)
             split == z[k - 1]
             p == tracks[t]
             diverts == Diverting(n, low, pdc, p, t)
  <2>1. Good(k - 1)
    BY <1>5
  <2>2. /\ w[k] = TrackRun(n, plan, pdc, dry, w[k - 1], t) /\ y[k] = WaysOn(Muted(n), y[k - 1], t)
        /\ p = PlanOf(n, low, split, t) /\ z[k] = split \cup diverts
    <3> HIDE DEF tracks
    <3> QED BY <1>1, <1>2, <1>3 DEF Blocking, Walking, Splitting, L
  <2>3. t \in DOMAIN n /\ done \subseteq DOMAIN n /\ Into(n, t) \subseteq done
    <3>1. \A i \in 1..(k - 1) : i \in 1..L
      BY <1>0
    <3>2. \A i \in 1..L : q[i] \in DOMAIN n
      BY <1>0
    <3>3. done \subseteq DOMAIN n
      BY <3>1, <3>2 DEF Before
    <3>4. Into(n, q[k]) \subseteq Before(q, k - 1)
      <4> HIDE DEF q
      <4> QED BY <1>o
    <3> QED BY <3>2, <3>3, <3>4
  <2>4. t \notin done
    <3> SUFFICES ASSUME NEW i \in 1..(k - 1), q[i] = q[k] PROVE FALSE
      BY DEF Before
    <3>1. i \in 1..L /\ i # k
      BY <1>0
    <3> QED BY <1>o, <3>1 DEF Once, L
  <2>5. Before(q, k) = done \cup {t}
    <3>1. 1..k = (1..(k - 1)) \cup {k}
      BY <1>0
    <3> QED BY <3>1 DEF Before
  <2>t. p = plan.tracks[t]
    OBVIOUS
  <2> HIDE DEF t, done, q, split, p
  <2>6. Hears(TrackRun(n, plan, pdc, dry, w[k - 1], t), WaysOn(Muted(n), y[k - 1], t),
              n, low, split \cup Diverting(n, low, pdc, p, t), done \cup {t})
    <3>1. Hears(w[k - 1], y[k - 1], n, low, split, done)
      BY <2>1 DEF done, split
    <3>2. p = PlanOf(n, low, split, t)
      BY <2>2
    <3> DEFINE b == w[k - 1]
               x == y[k - 1]
    <3> HIDE DEF b, x
    <3>3. Hears(TrackRun(n, plan, pdc, dry, b, t), WaysOn(Muted(n), x, t),
                n, low, split \cup Diverting(n, low, pdc, p, t), done \cup {t})
      <4>1. Hears(b, x, n, low, split, done)
        BY <3>1 DEF b, x
      <4> QED BY <2>3, <2>4, <2>t, <3>2, <4>1, HearsOn
    <3> QED BY <3>3 DEF b, x
  <2>7. Good(k) /\ k \in 0..L
    BY <1>0, <2>2, <2>5, <2>6
  <2> HIDE DEF Good
  <2> QED BY <2>7
<1> HIDE DEF I
<1>6. L \in I
  <2>1. \A k \in 0..L : k \in I
    BY <1>0, <1>4, <1>5, Counting
  <2>2. L \in 0..L
    BY <1>0
  <2> QED BY <2>1, <2>2
<1>7. Good(L)
  BY <1>6 DEF I
<1>8. Before(q, L) = DOMAIN n
  <2>1. \A d \in DOMAIN n : \E j \in 1..L : q[j] = d
    BY <1>o DEF Has, L
  <2>2. \A j \in 1..L : q[j] \in DOMAIN n
    BY <1>0
  <2> QED BY <2>1, <2>2 DEF Before
<1> QED BY <1>1, <1>2, <1>7, <1>8

LEMMA DelaysAreNatural ==
    ASSUME NEW n, NEW o, Wired(n, o), Sound(n), Loopless(n), Whole(n),
           NEW plan, plan = PlanRoutes(n, o), NEW e \in Edges(n)
    PROVE  DelayOn(plan.delays, e) \in Nat
<1> DEFINE q == TopoOrder(n, o)
           path == PathOf(n, q)
           delays == EdgeDelays(n, q, path)
<1>1. Ordered(n, q)
  BY WalkIsOrdered
<1>2. plan.delays = delays
  BY PlanIs
<1> HIDE DEF q
<1>3. path \in [DOMAIN n -> Nat]
  <2>1. Own(n) \in [DOMAIN n -> Nat] /\ \A t \in DOMAIN n : Own(n)[t] = ChainLatency(n[t].chain)
    BY OwnIs DEF Own
  <2> HIDE DEF Own
  <2> QED BY <1>1, <2>1, PathIs DEF PathOf
<1> HIDE DEF path
<1>4. CASE e.to \in ReverseReach(n, q, OutputsOf(n, "full"))
  <2> DEFINE t == e.to
  <2>1. t \in ReverseReach(n, q, OutputsOf(n, "full")) /\ e.to = t
    BY <1>4
  <2> HIDE DEF t
  <2>2. DelayOn(delays, e) \in Nat
    BY <1>1, <1>3, <2>1, DelaysMeet
  <2> QED BY <1>2, <2>2
<1>5. CASE e.to \notin ReverseReach(n, q, OutputsOf(n, "full"))
  <2>1. e \notin DOMAIN delays
    BY <1>5 DEF EdgeDelays, Merges
  <2> HIDE DEF delays
  <2> QED BY <1>2, <2>1 DEF DelayOn
<1> QED BY <1>4, <1>5

(* One block through the graph a plan was made for. A low-latency output   *)
(* plays every way to it without the plugins bypassed for the monitor, and *)
(* each as late as the plugins on it alone: no delay line of the full-PDC  *)
(* paths and no plugin that it left is between, whatever the tracks, the   *)
(* chains and the dry lines, as long as the shadows it needs are active    *)
(* and as late as their plugins, and no monitor path is left in a buffer   *)
(* that a later plugin writes.                                             *)
THEOREM BlockIsAtOnce ==
    ASSUME NEW n, NEW o, Wired(n, o), Sound(n), Loopless(n), Whole(n),
           NEW plan, plan = PlanRoutes(n, o),
           \A t \in DOMAIN n : /\ Mirrors(n[t].chain, plan.tracks[t].slots)
                               /\ ~Overwritten(plan.tracks[t].slots),
           NEW dry
    PROVE  LET b == Block(n, plan, plan.delays, dry, {})
           IN  \A t \in OutputsOf(n, "low") :
                  /\ Carries(Sink(n, b, t)) = Ways(n, plan.topo, Plays)[t]
                  /\ \A x \in Sink(n, b, t) : x.late = LatencyOf(n, x.through)
<1> DEFINE b == Block(n, plan, plan.delays, dry, {})
           lows == OutputsOf(n, "low")
           topo == plan.topo
           pdc == plan.delays
           low == ReverseReach(n, topo, lows)
           ways == Ways(n, topo, Plays)
<1>1. Ordered(n, topo) /\ plan.tracks = PlanTracks(n, topo, pdc)
  <2> DEFINE q == TopoOrder(n, o)
  <2>1. Ordered(n, q)
    BY WalkIsOrdered
  <2>2. plan.topo = q /\ plan.tracks = PlanTracks(n, q, plan.delays)
    BY PlanIs
  <2> QED BY <2>1, <2>2
<1>2. \A e \in Edges(n) : DelayOn(pdc, e) \in Nat
  BY DelaysAreNatural
<1>3. /\ lows \subseteq DOMAIN n /\ lows \subseteq low /\ low \subseteq DOMAIN n
      /\ \A t \in low : Into(n, t) \subseteq low
  <2>1. lows \in SUBSET DOMAIN n
    BY DEF OutputsOf, Outputs
  <2> HIDE DEF lows, topo
  <2> QED BY <1>1, <2>1, ReachIsClosed
<1>4. Attuned(n, pdc, plan.tracks, low)
  <2> HIDE DEF low, pdc
  <2> QED BY <1>2, <1>3 DEF Attuned
<1>5. PICK split : Hears(b, ways, n, low, split, DOMAIN n)
  BY <1>1, <1>4, BlockHears
<1>6. \A t \in lows : Sink(n, b, t) = b.out[t].monitor
  BY DEF OutputsOf, Sink
<1> HIDE DEF b, lows, low, ways
<1>7. ASSUME NEW t \in lows
      PROVE  Carries(Sink(n, b, t)) = ways[t] /\ \A x \in Sink(n, b, t) : x.late = LatencyOf(n, x.through)
  <2>1. OutHears(b.out[t].monitor, ways[t], n)
    BY <1>3, <1>5 DEF Hears
  <2> QED BY <1>6, <2>1 DEF OutHears, IsHeard
<1> QED BY <1>7 DEF b, lows, ways, topo

LEMMA PlannedIsHeard == ASSUME GraphIsPlanned PROVE LowOutputsHearTheirPlugins
<1> SUFFICES ASSUME LinesFollowPlan, Mirrored,
                    \A t \in DOMAIN graph.node : ~Overwritten(graph.plan.tracks[t].slots)
             PROVE  PlaysAtOnce(Heard({}), WaysOf(Plays))
  BY DEF LowOutputsHearTheirPlugins
<1> DEFINE n == graph.node
           plan == graph.plan
           dry == DryDelays
           b == Block(n, plan, plan.delays, dry, {})
           ways == Ways(n, plan.topo, Plays)
<1>1. plan = PlanRoutes(n, graph.order) /\ MayPlay(n, graph.order)
  BY DEF GraphIsPlanned
<1>2. Heard({}) = b /\ WaysOf(Plays) = ways
  BY DEF LinesFollowPlan, Heard, WaysOf
<1>3. ASSUME NEW t \in DOMAIN n PROVE Mirrors(n[t].chain, plan.tracks[t].slots)
  <2>1. IsChain(n[t].chain)
    BY <1>1, WholeHasChains DEF MayPlay
  <2> DEFINE c == n[t].chain
  <2>2. ASSUME NEW k \in DOMAIN c
        PROVE  /\ c[k].shadow = "none" \/ (c[k].shadow = "active" /\ c[k].shadowLatency = c[k].latency)
               /\ plan.tracks[t].slots[k].shadow # "create"
    <3>1. c[k] \in Slots(n)
      BY DEF Slots
    <3> QED BY <3>1 DEF Mirrored
  <2>3. DOMAIN c = 1..Len(c)
    BY <2>1 DEF IsChain
  <2> HIDE DEF c, n, plan
  <2>4. Mirrors(c, plan.tracks[t].slots)
    BY <2>2, <2>3 DEF Mirrors
  <2> QED BY <2>4 DEF c
<1>4. \A t \in DOMAIN n : ~Overwritten(plan.tracks[t].slots)
  OBVIOUS
<1> HIDE DEF n, plan, dry
<1>5. \A t \in OutputsOf(n, "low") :
         /\ Carries(Sink(n, b, t)) = ways[t]
         /\ \A x \in Sink(n, b, t) : x.late = LatencyOf(n, x.through)
  BY <1>1, <1>3, <1>4, BlockIsAtOnce DEF MayPlay
<1> HIDE DEF b, ways
<1>6. PlaysAtOnce(b, ways)
  BY <1>5 DEF PlaysAtOnce, n
<1> QED BY <1>2, <1>6

(* Whatever the commands, whatever fails and is rolled back: once the delay *)
(* lines are set to what the published plan says and every shadow in use is *)
(* active and as late as its plugin, a low-latency output plays every way   *)
(* to it without the plugins bypassed for the monitor, each as late as the *)
(* plugins on it alone, unless a monitor path is left in a buffer that a    *)
(* later plugin writes.                                                    *)
THEOREM LowOutputsStayHeard == Spec => []LowOutputsHearTheirPlugins
<1>1. Init => IInv /\ NeatInv
  BY InitKeeps, InitIsNeat
<1>2. Init => GraphIsPlanned
  BY <1>1, GraphStartsPlanned
<1>3. IInv /\ [Next]_vars => IInv'
  BY NextKeeps, StutterKeeps DEF Step
<1>4. NeatInv /\ [Next]_vars => NeatInv'
  BY NeatStays
<1>5. GraphIsPlanned /\ IInv' /\ NeatInv' /\ [Next]_vars => GraphIsPlanned'
  BY GraphStaysPlanned
<1>6. GraphIsPlanned => LowOutputsHearTheirPlugins
  BY PlannedIsHeard
<1> QED BY <1>1, <1>2, <1>3, <1>4, <1>5, <1>6, PTL DEF Spec
-----------------------------------------------------------------------------
(***************************************************************************)
(* The delay lines are set to the published plan but where a retirement    *)
(* failed: no other failure and no rollback leaves them to an older one.   *)
(***************************************************************************)
Faulting == Well \/ \E f : Ill(f)
Retargeting ==
    /\ Faulting
    /\ UNCHANGED <<graph, lines>> \/ LinesFollowPlan' \/ Ill("retire")
LinesInv == LinesFollowPlan \/ ("retire" \in FaultKinds /\ faults # 0)

LEMMA LinesAreSet ==
    ASSUME NEW n, NEW o, NEW m, NEW plan, plan = PlanRoutes(n, o), lines' = LinesFor(m, plan, FALSE),
           graph'.plan = plan
    PROVE  LinesFollowPlan'
<1> DEFINE q == TopoOrder(n, o)
           path == PathOf(n, q)
           delays == plan.delays
<1>1. plan.delays = EdgeDelays(n, q, path)
  BY PlanIs
<1>2. delays = [e \in DOMAIN delays |-> delays[e]]
  BY <1>1 DEF EdgeDelays
<1>3. lines'.pdc = [e \in DOMAIN delays |-> delays[e]]
  BY DEF LinesFor
<1> QED BY <1>2, <1>3 DEF LinesFollowPlan

LEMMA PublishRetargets ==
    ASSUME NEW n, NEW o, NEW plan, plan = PlanRoutes(n, o), NEW skipped \in BOOLEAN,
           Publish(n, o, plan, skipped)
    PROVE  Retargeting
<1>1. CASE skipped
  BY <1>1 DEF Publish, Retargeting, Faulting
<1>2. CASE ~skipped
  <2>1. skipped = FALSE
    BY <1>2
  <2>2. lines' = LinesFor(n, plan, FALSE) /\ graph'.plan = plan /\ Well
    BY <2>1 DEF Publish
  <2>3. LinesFollowPlan'
    BY <2>2, LinesAreSet
  <2> QED BY <2>2, <2>3 DEF Retargeting, Faulting
<1> QED BY <1>1, <1>2

LEMMA SwapRetargets == ASSUME NEW n, NEW o, Swap(n, o) PROVE Retargeting
<1>1. PICK plan : plan = PlanRoutes(n, o) /\ SwapPlanned(n, o, plan)
  BY DEF Swap
<1>2. CASE \E skipped \in BOOLEAN : Publish(n, o, plan, skipped)
  BY <1>1, <1>2, PublishRetargets
<1>3. CASE UNCHANGED <<graph, lines>> /\ IF plan.ok THEN Ill("swap") ELSE Well
  BY <1>3 DEF Retargeting, Faulting
<1> QED BY <1>1, <1>2, <1>3 DEF SwapPlanned

LEMMA RecoverRetargets == ASSUME NEW n, Recover(n), Faulting PROVE Retargeting
<1>1. PICK plan : plan = PlanRoutes(n, order) /\ RecoverPlanned(n, plan)
  BY DEF Recover
<1>2. CASE plan.ok
  <2>1. lines' = LinesFor(n, plan, FALSE) /\ graph'.plan = plan
    BY <1>1, <1>2 DEF RecoverPlanned
  <2>2. LinesFollowPlan'
    BY <1>1, <2>1, LinesAreSet
  <2> QED BY <2>2 DEF Retargeting
<1>3. CASE ~plan.ok
  BY <1>1, <1>3 DEF RecoverPlanned, Retargeting
<1> QED BY <1>2, <1>3

LEMMA AcceptRetargets ==
    ASSUME NEW tried, NEW plan, plan = PlanRoutes(tried, order), Accept(tried, plan)
    PROVE  Retargeting
<1>1. PICK skipped \in BOOLEAN : Publish(tried, order, plan, skipped)
  BY DEF Accept
<1> QED BY <1>1, PublishRetargets

LEMMA RejectFaults == ASSUME NEW fits, NEW fault, Reject(fits, fault) PROVE Faulting
BY DEF Reject, Faulting

LEMMA AttemptRetargets == ASSUME NEW new, Attempt(new) PROVE Retargeting
<1> DEFINE tried == Ensured(new, order)
<1>1. PICK plan : plan = PlanRoutes(tried, order) /\ AttemptPlanned(new, tried, plan)
  BY DEF Attempt, AttemptEnsured
<1> HIDE DEF tried
<1>2. CASE \E fault \in {"prepare", "swap"} : Reject(plan.ok, fault) /\ \E n : Recover(n)
  BY <1>2, RejectFaults, RecoverRetargets
<1> QED BY <1>1, <1>2, AcceptRetargets DEF AttemptPlanned

LEMMA SettleRetargets ==
    ASSUME NEW tried, NEW held, NEW back, Settle(tried, held, back) PROVE Retargeting
<1>1. PICK plan : plan = PlanRoutes(tried, order) /\ SettlePlanned(tried, plan, held, back)
  BY DEF Settle
<1>2. CASE \E skipped \in BOOLEAN : Publish(tried, order, plan, skipped)
  BY <1>1, <1>2, PublishRetargets
<1>3. CASE (IF plan.ok THEN Ill("swap") ELSE Well) /\ \E n : Recover(n)
  <2>1. Faulting
    BY <1>3 DEF Faulting
  <2> QED BY <1>3, <2>1, RecoverRetargets
<1> QED BY <1>1, <1>2, <1>3 DEF SettlePlanned

LEMMA RefuseRetargets == ASSUME Refuse PROVE Retargeting
  BY DEF Refuse, Retargeting, Faulting

LEMMA TracksRetarget ==
    /\ \A kind : TrackAdd(kind) => Retargeting
    /\ \A t : TrackRemove(t) => Retargeting
    /\ \A t, policy : SetPolicy(t, policy) => Retargeting
    /\ \A t, d : ToggleDest(t, d) => Retargeting
    /\ \A t, s : ToggleSidechain(t, s) => Retargeting
    /\ \A t, i : TrackMove(t, i) => Retargeting
    /\ EnsureSystemOutputs => Retargeting
    /\ TrackSet => Retargeting
<1>1. ASSUME NEW kind, TrackAdd(kind) PROVE Retargeting
  BY <1>1, RefuseRetargets, SwapRetargets DEF TrackAdd
<1>2. ASSUME NEW t, TrackRemove(t) PROVE Retargeting
  BY <1>2, RefuseRetargets, SwapRetargets DEF TrackRemove
<1>3. ASSUME NEW t, NEW policy, SetPolicy(t, policy) PROVE Retargeting
  BY <1>3, RefuseRetargets, AttemptRetargets DEF SetPolicy
<1>4. ASSUME NEW t, NEW d, ToggleDest(t, d) PROVE Retargeting
  BY <1>4, RefuseRetargets, AttemptRetargets DEF ToggleDest, SetDests
<1>5. ASSUME NEW t, NEW s, ToggleSidechain(t, s) PROVE Retargeting
  BY <1>5, RefuseRetargets, AttemptRetargets DEF ToggleSidechain, SetSidechain
<1>6. ASSUME NEW t, NEW i, TrackMove(t, i) PROVE Retargeting
  BY <1>6, SwapRetargets DEF TrackMove
<1>7. ASSUME EnsureSystemOutputs PROVE Retargeting
  <2>1. \E new : Swap(new.node, new.order)
    BY <1>7 DEF EnsureSystemOutputs
  <2> QED BY <2>1, SwapRetargets
<1>8. ASSUME TrackSet PROVE Retargeting
  BY <1>8, SwapRetargets DEF TrackSet
<1> QED BY <1>1, <1>2, <1>3, <1>4, <1>5, <1>6, <1>7, <1>8

LEMMA PluginsRetarget ==
    /\ \A t, l : AddPlugin(t, l) => Retargeting
    /\ \A t, i : RemovePlugin(t, i) => Retargeting
    /\ \A t, i, j : MovePlugin(t, i, j) => Retargeting
    /\ \A t, i, flag : CommitBypassFlag(t, i, flag) => Retargeting
    /\ \A t, i, l : PrimaryLatencyChanged(t, i, l) => Retargeting
    /\ \A t, i, l : ShadowLatencyChanged(t, i, l) => Retargeting
<1>1. ASSUME NEW t, NEW new, NEW tried, AddTried(t, new, tried) PROVE Retargeting
  <2>1. PICK plan : plan = PlanRoutes(tried, order) /\ AddEnsured(t, new, tried, plan)
    BY <1>1 DEF AddTried
  <2>2. CASE \E fault \in {"prepare", "swap"} : Reject(plan.ok, fault) /\ \E n : Recover(n)
    BY <2>2, RejectFaults, RecoverRetargets
  <2> QED BY <2>1, <2>2, AcceptRetargets DEF AddEnsured
<1>2. ASSUME NEW t, NEW l, AddPlugin(t, l) PROVE Retargeting
  BY <1>1, <1>2 DEF AddPlugin
<1>3. ASSUME NEW t, NEW i, RemovePlugin(t, i) PROVE Retargeting
  BY <1>3, SwapRetargets DEF RemovePlugin
<1>4. ASSUME NEW t, NEW i, NEW j, MovePlugin(t, i, j) PROVE Retargeting
  BY <1>4, SwapRetargets DEF MovePlugin
<1>5. ASSUME NEW t, NEW i, NEW flag, CommitBypassFlag(t, i, flag) PROVE Retargeting
  BY <1>5, AttemptRetargets DEF CommitBypassFlag
<1>6. ASSUME NEW t, NEW i, NEW l, PrimaryLatencyChanged(t, i, l) PROVE Retargeting
  BY <1>6, SettleRetargets DEF PrimaryLatencyChanged, PrimarySettles
<1>7. ASSUME NEW t, NEW i, NEW l, ShadowLatencyChanged(t, i, l) PROVE Retargeting
  BY <1>7, SettleRetargets DEF ShadowLatencyChanged, ShadowPrepared, ShadowSettles
<1> QED BY <1>2, <1>3, <1>4, <1>5, <1>6, <1>7

LEMMA NextRetargets == ASSUME Next PROVE Retargeting
  BY TracksRetarget, PluginsRetarget DEF Next

LEMMA LinesStay == ASSUME NeatInv, LinesInv, [Next]_vars PROVE LinesInv'
<1>1. CASE Next
  <2>1. Retargeting
    BY <1>1, NextRetargets
  <2>2. faults' = faults \/ faults' # 0
    BY <2>1, FaultIsKept DEF Retargeting, Faulting, Well
  <2>3. CASE UNCHANGED <<graph, lines>>
    <3>1. LinesFollowPlan' = LinesFollowPlan
      BY <2>3 DEF LinesFollowPlan
    <3> QED BY <2>2, <3>1 DEF LinesInv
  <2>4. CASE Ill("retire")
    <3>1. faults' # 0 /\ "retire" \in FaultKinds
      BY <2>4, FaultIsKept DEF Ill
    <3> QED BY <3>1 DEF LinesInv
  <2> QED BY <2>1, <2>3, <2>4 DEF Retargeting, LinesInv
<1>2. CASE UNCHANGED vars
  <2>1. UNCHANGED <<graph, lines, faults>>
    BY <1>2 DEF vars
  <2> QED BY <2>1 DEF LinesInv, LinesFollowPlan
<1> QED BY <1>1, <1>2

(* The delay lines follow the published plan, however shadows or swaps fail *)
(* and commands are rolled back, until a retirement throws after a commit. *)
THEOREM LinesFollowUntilRetireThrows ==
    Spec => []((faults = 0 \/ "retire" \notin FaultKinds) => LinesFollowPlan)
<1>1. Init => NeatInv /\ LinesInv
  <2>1. ASSUME Init PROVE LinesFollowPlan
    BY <2>1 DEF Init, LoadedEnsured, Loaded, LinesFollowPlan
  <2> QED BY <2>1, InitIsNeat DEF LinesInv
<1>2. NeatInv /\ LinesInv /\ [Next]_vars => NeatInv' /\ LinesInv'
  BY NeatStays, LinesStay
<1>3. LinesInv => ((faults = 0 \/ "retire" \notin FaultKinds) => LinesFollowPlan)
  BY DEF LinesInv
<1> QED BY <1>1, <1>2, <1>3, PTL DEF Spec

(* And every commit mends them: a step that publishes another graph or sets *)
(* a line leaves them as the plan then published says, unless the           *)
(* retirement of that very step throws.                                    *)
THEOREM EveryCommitRetargets ==
    Spec => [][UNCHANGED <<graph, lines>> \/ LinesFollowPlan' \/ Ill("retire")]_vars
<1>1. Next => UNCHANGED <<graph, lines>> \/ LinesFollowPlan' \/ Ill("retire")
  BY NextRetargets DEF Retargeting
<1> QED BY <1>1, PTL DEF Spec

(* As long as no retirement throws, then, nothing need be asked of the      *)
(* lines: full-PDC outputs play every way to them through every plugin in   *)
(* force, all in time, whatever is rolled back, if no chain is entangled.  *)
COROLLARY OutputsPlayInTime ==
    Spec => []((faults = 0 \/ "retire" \notin FaultKinds)
               /\ (\A t \in DOMAIN graph.node : ~Entangled(graph.plan.tracks[t].slots))
               => Aligned(Heard({}), OutputsOf(graph.node, "full"), WaysOf(PrimaryProcesses)))
<1>1. FullOutputsAreAligned /\ ((faults = 0 \/ "retire" \notin FaultKinds) => LinesFollowPlan)
      => ((faults = 0 \/ "retire" \notin FaultKinds)
          /\ (\A t \in DOMAIN graph.node : ~Entangled(graph.plan.tracks[t].slots))
          => Aligned(Heard({}), OutputsOf(graph.node, "full"), WaysOf(PrimaryProcesses)))
  BY DEF FullOutputsAreAligned
<1> QED BY <1>1, OutputsStayAligned, LinesFollowUntilRetireThrows, PTL
=============================================================================
