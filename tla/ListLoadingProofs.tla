--------------------------- MODULE ListLoadingProofs ---------------------------
(***************************************************************************)
(* Proofs about ListLoading, for lists of any length and labels of any     *)
(* kind: a loaded list is canonical, and it blocks what the text names.    *)
(***************************************************************************)
EXTENDS ListLoading, SequenceTheorems, WellFoundedInduction, TLAPS

\* Order among the names of a slice, and membership in it.
Strict(s) == \A j, k \in DOMAIN s : j < k => Before(s[j], s[k])
In(s, x) == \E j \in DOMAIN s : s[j] = x

-------------------------------------------------------------------------------
(***************************************************************************)
(* Numbers and strings.                                                    *)
(***************************************************************************)
\* A set of numbers that is not empty has a least element.
LEMMA LeastNumber ==
  ASSUME NEW I \in SUBSET Nat, I # {}
  PROVE  \E n \in I : \A m \in I : n <= m
<1> DEFINE R == OpToRel(<, Nat)
<1>1. IsWellFoundedOn(R, Nat)
  BY NatLessThanWellFounded
<1>2. PICK n \in I : \A m \in I : <<m, n>> \notin R
  <2> HIDE DEF R
  <2> QED BY <1>1, WFMin
<1>3. \A m \in I : n <= m
  <2> TAKE m \in I
  <2>1. m \in Nat /\ n \in Nat
    OBVIOUS
  <2>2. <<m, n>> \notin R
    BY <1>2
  <2>3. ~(m < n)
    BY <2>1, <2>2 DEF OpToRel
  <2> QED BY <2>1, <2>3
<1> QED BY <1>3

\* A set of numbers with a bound has a greatest element.
LEMMA GreatestNumber ==
  ASSUME NEW N \in Nat, NEW I \in SUBSET (1..N), I # {}
  PROVE  \E n \in I : \A m \in I : m <= n
<1> DEFINE J == {N - n : n \in I}
<1>1. J \in SUBSET Nat /\ J # {}
  <2>1. \A n \in I : N - n \in Nat
    OBVIOUS
  <2>2. J \in SUBSET Nat
    BY <2>1
  <2>3. PICK n \in I : TRUE
    OBVIOUS
  <2>4. N - n \in J
    OBVIOUS
  <2> QED BY <2>2, <2>4
<1>2. PICK j \in J : \A m \in J : j <= m
  <2> HIDE DEF J
  <2> QED BY <1>1, LeastNumber
<1>3. PICK n \in I : j = N - n
  OBVIOUS
<1>4. \A m \in I : m <= n
  <2> TAKE m \in I
  <2>1. N - n <= N - m
    BY <1>2, <1>3
  <2> QED BY <2>1
<1> QED BY <1>4

\* What has a positive predecessor is greater than one.
LEMMA OneLess == \A a, b \in Nat \ {0} : b = a - 1 => a > 1
OBVIOUS

\* What is two or more is not one.
LEMMA NotOne == \A a \in Nat : a >= 2 => a # 1
OBVIOUS

\* No string is before itself.
LEMMA BeforeIrreflexive ==
  ASSUME NEW s \in Seq(Labels)
  PROVE  ~Before(s, s)
BY CodeAssumption DEF Before

\* The order of strings is transitive.
LEMMA BeforeTransitive ==
  ASSUME NEW s \in Seq(Labels), NEW t \in Seq(Labels), NEW u \in Seq(Labels),
         Before(s, t), Before(t, u)
  PROVE  Before(s, u)
<1>1. PICK a \in 1..Len(t) :
        /\ \A j \in 1..(a - 1) : j <= Len(s) /\ s[j] = t[j]
        /\ a > Len(s) \/ code[s[a]] < code[t[a]]
  BY DEF Before
<1>2. PICK b \in 1..Len(u) :
        /\ \A j \in 1..(b - 1) : j <= Len(t) /\ t[j] = u[j]
        /\ b > Len(t) \/ code[t[b]] < code[u[b]]
  BY DEF Before
<1> USE CodeAssumption
<1>3. CASE a < b
  <2>1. a \in 1..Len(u) /\ t[a] = u[a]
    BY <1>1, <1>2, <1>3
  <2>2. \A j \in 1..(a - 1) : j <= Len(s) /\ s[j] = u[j]
    BY <1>1, <1>2, <1>3
  <2> QED BY <1>1, <2>1, <2>2 DEF Before
<1>4. CASE a = b
  <2>1. \A j \in 1..(a - 1) : j <= Len(s) /\ s[j] = u[j]
    BY <1>1, <1>2, <1>4
  <2>2. a > Len(s) \/ code[s[a]] < code[u[a]]
    <3> SUFFICES ASSUME a <= Len(s) PROVE code[s[a]] < code[u[a]]
      OBVIOUS
    <3>1. code[s[a]] \in Nat /\ code[t[a]] \in Nat /\ code[u[a]] \in Nat
      BY <1>4
    <3> QED BY <1>1, <1>2, <1>4, <3>1
  <2> QED BY <1>4, <2>1, <2>2 DEF Before
<1>5. CASE b < a
  <2>1. b <= Len(s) /\ s[b] = t[b] /\ b <= Len(t)
    BY <1>1, <1>5
  <2>2. \A j \in 1..(b - 1) : j <= Len(s) /\ s[j] = u[j]
    BY <1>1, <1>2, <1>5
  <2>3. code[s[b]] < code[u[b]]
    BY <1>2, <2>1
  <2> QED BY <2>2, <2>3 DEF Before
<1> QED BY <1>3, <1>4, <1>5

\* In a slice in strict order the search finds what is there, and only that.
LEMMA HasIsIn ==
  ASSUME NEW s \in Seq(Seq(Labels)), Strict(s), NEW n
  PROVE  has(s, n) <=> In(s, n)
<1>1. ASSUME has(s, n) PROVE In(s, n)
  BY <1>1 DEF has, In
<1>2. ASSUME In(s, n) PROVE has(s, n)
  <2>1. PICK m \in DOMAIN s : s[m] = n
    BY <1>2 DEF In
  <2>2. ~Before(s[m], n)
    BY <2>1, BeforeIrreflexive
  <2>3. m - 1 = 0 \/ Before(s[m - 1], n)
    BY <2>1 DEF Strict
  <2>4. SearchStrings(s, n, m - 1)
    BY <2>2, <2>3 DEF SearchStrings
  <2>5. m - 1 \in 0..Len(s) /\ m - 1 < Len(s) /\ s[(m - 1) + 1] = n
    BY <2>1
  <2> QED BY <2>4, <2>5 DEF has
<1> QED BY <1>1, <1>2

-------------------------------------------------------------------------------
(***************************************************************************)
(* Suffixes of a name.                                                     *)
(***************************************************************************)
\* What From cuts out of a name.
LEMMA FromProperties ==
  ASSUME NEW n \in Seq(Labels), NEW k \in 1..Len(n)
  PROVE  /\ From(n, k) \in Seq(Labels)
         /\ Len(From(n, k)) = Len(n) - k + 1
         /\ \A j \in 1..(Len(n) - k + 1) : From(n, k)[j] = n[k + j - 1]
BY SubSeqProperties DEF From

\* A suffix of a suffix is a suffix.
LEMMA FromFrom ==
  ASSUME NEW n \in Seq(Labels), NEW k \in 1..Len(n), NEW j \in 1..(Len(n) - k + 1)
  PROVE  /\ k + j - 1 \in 1..Len(n)
         /\ From(From(n, k), j) = From(n, k + j - 1)
<1> DEFINE f == From(n, k)
           g == From(f, j)
           h == From(n, k + j - 1)
<1>1. /\ f \in Seq(Labels) /\ Len(f) = Len(n) - k + 1
      /\ \A m \in 1..(Len(n) - k + 1) : f[m] = n[k + m - 1]
  BY FromProperties
<1>2. k + j - 1 \in 1..Len(n) /\ j \in 1..Len(f)
  BY <1>1
<1>3. /\ h \in Seq(Labels) /\ Len(h) = Len(n) - (k + j - 1) + 1
      /\ \A m \in 1..(Len(n) - (k + j - 1) + 1) : h[m] = n[k + j - 1 + m - 1]
  BY <1>2, FromProperties
<1>4. /\ g \in Seq(Labels) /\ Len(g) = Len(f) - j + 1
      /\ \A m \in 1..(Len(f) - j + 1) : g[m] = f[j + m - 1]
  <2> HIDE DEF f
  <2> QED BY <1>1, <1>2, FromProperties
<1> HIDE DEF f, g, h
<1>5. Len(g) = Len(h)
  BY <1>1, <1>3, <1>4
<1>6. ASSUME NEW m \in 1..Len(g) PROVE g[m] = h[m]
  <2>1. g[m] = f[j + m - 1]
    BY <1>4, <1>1
  <2>2. j + m - 1 \in 1..(Len(n) - k + 1)
    BY <1>1, <1>4
  <2>3. f[j + m - 1] = n[k + (j + m - 1) - 1]
    BY <1>1, <2>2
  <2>4. h[m] = n[k + j - 1 + m - 1]
    BY <1>3, <1>5
  <2>5. k + (j + m - 1) - 1 = k + j - 1 + m - 1
    OBVIOUS
  <2> QED BY <2>1, <2>3, <2>4, <2>5
<1>7. g = h
  BY <1>3, <1>4, <1>5, <1>6, SeqEqual
<1> QED BY <1>2, <1>7 DEF f, g, h

\* The whole name is a suffix, and Tail is the next one.
LEMMA FromFirst ==
  ASSUME NEW n \in Seq(Labels), n # <<>>
  PROVE  /\ From(n, 1) = n
         /\ Len(n) > 1 => Tail(n) = From(n, 2)
<1>1. From(n, 1) = n
  <2>1. 1 \in 1..Len(n)
    BY EmptySeq
  <2>2. From(n, 1) \in Seq(Labels) /\ Len(From(n, 1)) = Len(n)
        /\ \A j \in 1..Len(n) : From(n, 1)[j] = n[j]
    BY <2>1, FromProperties
  <2> QED BY <2>2, SeqEqual
<1>2. ASSUME Len(n) > 1 PROVE Tail(n) = From(n, 2)
  <2>1. /\ From(n, 2) \in Seq(Labels) /\ Len(From(n, 2)) = Len(n) - 1
        /\ \A j \in 1..(Len(n) - 1) : From(n, 2)[j] = n[j + 1]
    BY <1>2, FromProperties
  <2>2. /\ Tail(n) \in Seq(Labels) /\ Len(Tail(n)) = Len(n) - 1
        /\ \A j \in 1..Len(Tail(n)) : Tail(n)[j] = n[j + 1]
    BY HeadTailProperties
  <2> QED BY <2>1, <2>2, SeqEqual
<1> QED BY <1>1, <1>2

\* hasAncestor: a proper suffix that is not the empty string is in the slice.
LEMMA HasAncestorIsIn ==
  ASSUME NEW s \in Seq(Seq(Labels)), Strict(s), NEW n \in Seq(Labels), n # <<>>
  PROVE  hasAncestor(s, n) <=> \E k \in 2..Len(n) : From(n, k) # EmptyString /\ In(s, From(n, k))
<1>1. ASSUME Len(n) > 1
      PROVE  hasAncestor(s, n) <=> \E k \in 2..Len(n) : From(n, k) # EmptyString /\ In(s, From(n, k))
  <2> DEFINE t == Tail(n)
  <2>1. t = From(n, 2)
    BY <1>1, FromFirst
  <2>2. t \in Seq(Labels) /\ Len(t) = Len(n) - 1
    BY <1>1, <2>1, FromProperties
  <2>3. \A k \in 1..Len(t) : From(t, k) = From(n, k + 1)
    <3> TAKE k \in 1..Len(t)
    <3>1. 2 \in 1..Len(n) /\ k \in 1..(Len(n) - 2 + 1)
      BY <1>1, <2>2
    <3>2. From(From(n, 2), k) = From(n, 2 + k - 1)
      BY <3>1, FromFrom
    <3>3. 2 + k - 1 = k + 1
      OBVIOUS
    <3> QED BY <2>1, <3>2, <3>3
  <2>4. hasAncestor(s, n) <=> \E k \in 1..Len(t) : From(t, k) # EmptyString /\ has(s, From(t, k))
    BY <1>1, <2>2 DEF hasAncestor, covers
  <2>5. \A x : has(s, x) <=> In(s, x)
    BY HasIsIn
  <2> HIDE DEF t
  <2>6. ASSUME NEW k \in 1..Len(t), From(t, k) # EmptyString, has(s, From(t, k))
        PROVE  \E m \in 2..Len(n) : From(n, m) # EmptyString /\ In(s, From(n, m))
    <3>1. k + 1 \in 2..Len(n) /\ From(t, k) = From(n, k + 1)
      BY <2>2, <2>3
    <3> QED BY <2>5, <2>6, <3>1
  <2>7. ASSUME NEW m \in 2..Len(n), From(n, m) # EmptyString, In(s, From(n, m))
        PROVE  \E k \in 1..Len(t) : From(t, k) # EmptyString /\ has(s, From(t, k))
    <3>1. m - 1 \in 1..Len(t) /\ (m - 1) + 1 = m
      BY <2>2
    <3>2. From(t, m - 1) = From(n, m)
      BY <2>3, <3>1
    <3> QED BY <2>5, <2>7, <3>1, <3>2
  <2> QED BY <2>4, <2>6, <2>7
<1>2. CASE ~(Len(n) > 1)
  BY <1>2 DEF hasAncestor
<1> QED BY <1>1, <1>2

-------------------------------------------------------------------------------
(***************************************************************************)
(* Trimming undoes what the spellings of a name put around it.             *)
(***************************************************************************)
\* A label put in front of a string, and one behind it.
LEMMA Pushed ==
  ASSUME NEW p \in Labels, NEW h \in Seq(Labels), NEW g \in Seq(Labels), g # <<>>
  PROVE  g = <<p>> \o h <=> g[1] = p /\ Tail(g) = h
<1>1. /\ <<p>> \o h \in Seq(Labels) /\ Len(<<p>> \o h) = Len(h) + 1
      /\ (<<p>> \o h)[1] = p
      /\ \A j \in 1..Len(h) : (<<p>> \o h)[j + 1] = h[j]
  <2> DEFINE a == <<p>>
  <2>1. a \in Seq(Labels) /\ Len(a) = 1 /\ a[1] = p
    OBVIOUS
  <2> HIDE DEF a
  <2>2. /\ a \o h \in Seq(Labels) /\ Len(a \o h) = Len(a) + Len(h)
        /\ \A m \in 1..(Len(a) + Len(h)) : (a \o h)[m] = IF m <= Len(a) THEN a[m] ELSE h[m - Len(a)]
    BY <2>1, ConcatProperties
  <2>3. \A j \in 1..Len(h) : (a \o h)[j + 1] = h[j]
    BY <2>1, <2>2
  <2> QED BY <2>1, <2>2, <2>3 DEF a
<1>2. /\ Tail(g) \in Seq(Labels) /\ Len(Tail(g)) = Len(g) - 1
      /\ \A j \in 1..Len(Tail(g)) : Tail(g)[j] = g[j + 1]
  BY HeadTailProperties
<1> DEFINE c == <<p>> \o h
<1>3. c \in Seq(Labels) /\ Len(c) = Len(h) + 1 /\ c[1] = p /\ \A j \in 1..Len(h) : c[j + 1] = h[j]
  BY <1>1
<1> HIDE DEF c
<1>4. ASSUME g = c PROVE g[1] = p /\ Tail(g) = h
  BY <1>2, <1>3, <1>4, SeqEqual
<1>5. ASSUME g[1] = p, Tail(g) = h PROVE g = c
  <2>1. Len(g) = Len(c)
    <3>1. Len(h) = Len(g) - 1
      BY <1>2, <1>5, Zenon
    <3>2. Len(g) \in Nat
      OBVIOUS
    <3> QED BY <1>3, <3>1, <3>2
  <2>2. ASSUME NEW m \in 1..Len(g) PROVE g[m] = c[m]
    <3>1. CASE m = 1
      BY <1>3, <1>5, <3>1
    <3>2. CASE m # 1
      <4>1. m - 1 \in 1..Len(h) /\ (m - 1) + 1 = m
        BY <1>3, <2>1, <3>2
      <4>2. c[m] = h[m - 1] /\ g[m] = Tail(g)[m - 1]
        BY <1>2, <1>3, <1>5, <4>1
      <4> QED BY <1>5, <4>2
    <3> QED BY <3>1, <3>2
  <2> QED BY <1>3, <2>1, <2>2, SeqEqual
<1> QED BY <1>4, <1>5 DEF c

\* All labels but the last.
LEMMA ButLast ==
  ASSUME NEW g \in Seq(Labels), g # <<>>
  PROVE  /\ SubSeq(g, 1, Len(g) - 1) \in Seq(Labels)
         /\ Len(SubSeq(g, 1, Len(g) - 1)) = Len(g) - 1
         /\ \A j \in 1..(Len(g) - 1) : SubSeq(g, 1, Len(g) - 1)[j] = g[j]
<1>1. Len(g) \in Nat \ {0}
  BY EmptySeq
<1> DEFINE n == Len(g) - 1
<1>2. n \in Nat /\ \A j \in 1..n : g[j] \in Labels
  BY <1>1
<1> HIDE DEF n
<1>3. /\ SubSeq(g, 1, n) \in Seq(Labels)
      /\ Len(SubSeq(g, 1, n)) = IF 1 <= n THEN n - 1 + 1 ELSE 0
      /\ \A j \in 1..(n - 1 + 1) : SubSeq(g, 1, n)[j] = g[1 + j - 1]
  BY <1>2, SubSeqProperties
<1>4. /\ SubSeq(g, 1, n) \in Seq(Labels) /\ Len(SubSeq(g, 1, n)) = n
      /\ \A j \in 1..n : SubSeq(g, 1, n)[j] = g[j]
  <2>1. \A j \in 1..n : j \in 1..(n - 1 + 1) /\ 1 + j - 1 = j
    BY <1>2
  <2>2. Len(SubSeq(g, 1, n)) = n
    BY <1>2, <1>3
  <2>3. \A j \in 1..n : SubSeq(g, 1, n)[j] = g[j]
    BY <1>3, <2>1
  <2> QED BY <1>3, <2>2, <2>3
<1> QED BY <1>4 DEF n

\* The same at the other end.
LEMMA Appended ==
  ASSUME NEW p \in Labels, NEW h \in Seq(Labels), NEW g \in Seq(Labels), g # <<>>
  PROVE  g = h \o <<p>> <=> g[Len(g)] = p /\ SubSeq(g, 1, Len(g) - 1) = h
<1> DEFINE c == h \o <<p>>
<1>1. /\ c \in Seq(Labels) /\ Len(c) = Len(h) + 1 /\ c[Len(h) + 1] = p
      /\ \A j \in 1..Len(h) : c[j] = h[j]
  <2> DEFINE a == <<p>>
  <2>1. a \in Seq(Labels) /\ Len(a) = 1 /\ a[1] = p
    OBVIOUS
  <2> HIDE DEF a
  <2>2. /\ h \o a \in Seq(Labels) /\ Len(h \o a) = Len(h) + Len(a)
        /\ \A m \in 1..(Len(h) + Len(a)) : (h \o a)[m] = IF m <= Len(h) THEN h[m] ELSE a[m - Len(h)]
    BY <2>1, ConcatProperties
  <2>3. (h \o a)[Len(h) + 1] = p /\ \A j \in 1..Len(h) : (h \o a)[j] = h[j]
    BY <2>1, <2>2
  <2> QED BY <2>1, <2>2, <2>3 DEF a
<1> DEFINE t == SubSeq(g, 1, Len(g) - 1)
<1>2. /\ t \in Seq(Labels) /\ Len(t) = Len(g) - 1 /\ Len(g) \in Nat \ {0}
      /\ \A j \in 1..(Len(g) - 1) : t[j] = g[j]
  <2>1. Len(g) \in Nat \ {0}
    BY EmptySeq
  <2> QED BY <2>1, ButLast
<1> HIDE DEF c, t
<1>3. ASSUME g = c PROVE g[Len(g)] = p /\ t = h
  <2>1. Len(t) = Len(h) /\ \A j \in 1..Len(t) : t[j] = h[j]
    BY <1>1, <1>2, <1>3
  <2>2. t = h
    BY <1>2, <2>1, SeqEqual
  <2> QED BY <1>1, <1>3, <2>2
<1>4. ASSUME g[Len(g)] = p, t = h PROVE g = c
  <2>1. Len(g) = Len(c) /\ \A m \in 1..Len(g) : g[m] = c[m]
    BY <1>1, <1>2, <1>4
  <2> QED BY <1>1, <2>1, SeqEqual
<1> QED BY <1>3, <1>4 DEF c, t

\* What TrimLabel turns into a string that does not begin with the label.
LEMMA TrimLabelUndoes ==
  ASSUME NEW p \in Labels, NEW h \in Seq(Labels), h # <<>>, h[1] # p,
         NEW g \in Seq(Labels), g # <<>>
  PROVE  TrimLabel(g, p) = h <=> g = h \/ g = <<p>> \o h
<1>1. g = <<p>> \o h <=> g[1] = p /\ Tail(g) = h
  BY Pushed
<1>2. Len(g) \in Nat \ {0} /\ Len(h) \in Nat \ {0}
  BY EmptySeq
<1>3. Len(Tail(g)) = Len(g) - 1
  BY HeadTailProperties
<1>4. CASE g[1] = p
  <2>1. Tail(g) = h => Len(g) > 1
    BY <1>2, <1>3
  <2> QED BY <1>1, <1>4, <2>1 DEF TrimLabel
<1>5. CASE g[1] # p
  BY <1>1, <1>5 DEF TrimLabel
<1> QED BY <1>4, <1>5

\* What TrimDot turns into a string that does not end in a dot.
LEMMA TrimDotUndoes ==
  ASSUME NEW h \in Seq(Labels), h # <<>>, h[Len(h)] # "",
         NEW g \in Seq(Labels), g # <<>>
  PROVE  TrimDot(g) = h <=> g = h \/ g = h \o <<"">>
<1>1. g = h \o <<"">> <=> g[Len(g)] = "" /\ SubSeq(g, 1, Len(g) - 1) = h
  <2>1. "" \in Labels
    BY LabelsAssumption
  <2> QED BY <2>1, Appended
<1>2. Len(g) \in Nat \ {0} /\ Len(h) \in Nat \ {0}
  BY EmptySeq
<1>3. Len(SubSeq(g, 1, Len(g) - 1)) = Len(g) - 1
  BY ButLast
<1>4. CASE g[Len(g)] = ""
  <2>1. SubSeq(g, 1, Len(g) - 1) = h => Len(h) = Len(g) - 1
    BY <1>3, Zenon
  <2>2. Len(h) = Len(g) - 1 => Len(g) > 1
    BY <1>2, OneLess, Zenon
  <2> QED BY <1>1, <1>4, <2>1, <2>2 DEF TrimDot
<1>5. CASE g[Len(g)] # ""
  BY <1>1, <1>5 DEF TrimDot
<1> QED BY <1>4, <1>5

\* Trimming leaves a string that is not empty as such.
LEMMA TrimType ==
  ASSUME NEW g \in Seq(Labels), g # <<>>
  PROVE  /\ TrimDot(g) \in Seq(Labels) /\ TrimDot(g) # <<>>
         /\ \A p : TrimLabel(g, p) \in Seq(Labels) /\ TrimLabel(g, p) # <<>>
<1>1. Len(g) \in Nat \ {0}
  BY EmptySeq
<1>2. Len(g) > 1 => SubSeq(g, 1, Len(g) - 1) \in Seq(Labels) /\ Len(SubSeq(g, 1, Len(g) - 1)) = Len(g) - 1
  BY ButLast
<1>3. Tail(g) \in Seq(Labels) /\ Len(Tail(g)) = Len(g) - 1
  BY HeadTailProperties
<1>4. Len(<<>>) = 0
  OBVIOUS
<1>5. Len(g) > 1 => SubSeq(g, 1, Len(g) - 1) # <<>> /\ Tail(g) # <<>>
  <2>1. Len(g) > 1 => Len(g) - 1 # 0
    BY <1>1
  <2> QED BY <1>2, <1>3, <1>4, <2>1, Zenon
<1>6. TrimDot(g) \in Seq(Labels) /\ TrimDot(g) # <<>>
  BY <1>2, <1>5, Zenon DEF TrimDot
<1>7. \A p : TrimLabel(g, p) \in Seq(Labels) /\ TrimLabel(g, p) # <<>>
  BY <1>3, <1>5, Zenon DEF TrimLabel
<1> QED BY <1>6, <1>7

\* ToLower keeps a string a string of that many labels.
LEMMA ToLowerType ==
  ASSUME NEW c \in Seq(Labels), c # <<>>
  PROVE  ToLower(c) \in Seq(Labels) /\ ToLower(c) # <<>>
<1>1. Len(c) \in Nat \ {0} /\ DOMAIN c = 1..Len(c)
  BY EmptySeq
<1>2. ToLower(c) \in [1..Len(c) -> Labels]
  BY <1>1, LowerAssumption DEF ToLower
<1>3. ToLower(c) \in Seq(Labels)
  BY <1>1, <1>2, SeqDef
<1>4. DOMAIN ToLower(c) # DOMAIN <<>>
  BY <1>1, <1>2
<1> QED BY <1>3, <1>4

\* A trimmed field is a string.
LEMMA TrimmedType ==
  ASSUME NEW c \in Seq(Labels), c # <<>>
  PROVE  Trimmed(c) \in Seq(Labels) /\ Trimmed(c) # <<>>
<1> DEFINE f == ToLower(c)
           g == TrimDot(f)
           h == TrimLabel(g, "*")
<1>1. f \in Seq(Labels) /\ f # <<>>
  BY ToLowerType
<1> HIDE DEF f
<1>2. g \in Seq(Labels) /\ g # <<>>
  BY <1>1, TrimType
<1> HIDE DEF g
<1>3. h \in Seq(Labels) /\ h # <<>>
  BY <1>2, TrimType
<1> HIDE DEF h
<1>4. TrimLabel(h, "") \in Seq(Labels) /\ TrimLabel(h, "") # <<>>
  BY <1>3, TrimType
<1> QED BY <1>4 DEF Trimmed, f, g, h

\* The first and the last label of a string with one more in front.
LEMMA PushedEnds ==
  ASSUME NEW p \in Labels, NEW h \in Seq(Labels), h # <<>>
  PROVE  LET c == <<p>> \o h IN
         /\ c \in Seq(Labels) /\ c # <<>> /\ c[1] = p /\ c[Len(c)] = h[Len(h)]
<1> DEFINE a == <<p>>
           c == a \o h
<1>1. a \in Seq(Labels) /\ Len(a) = 1 /\ a[1] = p
  OBVIOUS
<1>2. Len(h) \in Nat \ {0}
  BY EmptySeq
<1> HIDE DEF a
<1>3. /\ c \in Seq(Labels) /\ Len(c) = Len(a) + Len(h)
      /\ \A m \in 1..(Len(a) + Len(h)) : c[m] = IF m <= Len(a) THEN a[m] ELSE h[m - Len(a)]
  BY <1>1, ConcatProperties
<1> HIDE DEF c
<1>4. c[1] = p
  <2>1. 1 \in 1..(Len(a) + Len(h)) /\ 1 <= Len(a)
    BY <1>1, <1>2
  <2> QED BY <1>1, <1>3, <2>1
<1>5. c[Len(c)] = h[Len(h)]
  <2>1. /\ Len(c) \in 1..(Len(a) + Len(h)) /\ ~(Len(c) <= Len(a)) /\ Len(c) - Len(a) = Len(h)
    BY <1>1, <1>2, <1>3
  <2> QED BY <1>3, <2>1
<1>6. c # <<>>
  <2>1. Len(c) # 0
    BY <1>1, <1>2, <1>3
  <2> QED BY <1>3, <2>1, EmptySeq
<1> QED BY <1>3, <1>4, <1>5, <1>6 DEF a, c

\* The eight spellings of a name, put together one label at a time.
LEMMA Spellings ==
  ASSUME NEW d \in Seq(Labels), NEW f
  PROVE  (\E before \in {<<>>, <<"*">>, <<"">>, <<"*", "">>}, after \in {<<>>, <<"">>} : f = before \o d \o after)
         <=> \E g \in {d, <<"">> \o d, <<"*">> \o d, <<"*">> \o (<<"">> \o d)} : f = g \/ f = g \o <<"">>
<1>1. "*" \in Labels /\ "" \in Labels
  BY LabelsAssumption
<1>2. PICK a \in Labels : a = "*"
  BY <1>1
<1>3. PICK b \in Labels : b = ""
  BY <1>1
<1>4. \A x \in Seq(Labels) : <<>> \o x = x /\ x \o <<>> = x
  BY ConcatEmptySeq
<1>5. <<a, b>> \o d = <<a>> \o (<<b>> \o d)
  <2>1. <<a>> \in Seq(Labels) /\ <<b>> \in Seq(Labels)
    OBVIOUS
  <2>2. <<a>> \o (<<b>> \o d) = (<<a>> \o <<b>>) \o d
    BY <2>1, ConcatAssociative
  <2>3. <<a>> \o <<b>> = <<a, b>>
    <3> DEFINE x == <<a>>
               y == <<b>>
               z == <<a, b>>
    <3>1. /\ x \in Seq(Labels) /\ Len(x) = 1 /\ x[1] = a
          /\ y \in Seq(Labels) /\ Len(y) = 1 /\ y[1] = b
          /\ z \in Seq(Labels) /\ Len(z) = 2 /\ z[1] = a /\ z[2] = b
      OBVIOUS
    <3> HIDE DEF x, y, z
    <3>2. /\ x \o y \in Seq(Labels) /\ Len(x \o y) = Len(x) + Len(y)
          /\ \A m \in 1..(Len(x) + Len(y)) : (x \o y)[m] = IF m <= Len(x) THEN x[m] ELSE y[m - Len(x)]
      BY <3>1, ConcatProperties
    <3>3. Len(x \o y) = Len(z) /\ (x \o y)[1] = z[1] /\ (x \o y)[2] = z[2]
      BY <3>1, <3>2
    <3>4. x \o y = z
      BY <3>1, <3>2, <3>3, SeqEqual
    <3> QED BY <3>4 DEF x, y, z
  <2> QED BY <2>2, <2>3
<1>6. <<a>> \o d \in Seq(Labels) /\ <<b>> \o d \in Seq(Labels) /\ <<a>> \o (<<b>> \o d) \in Seq(Labels)
  <2>1. <<a>> \in Seq(Labels) /\ <<b>> \in Seq(Labels)
    OBVIOUS
  <2> QED BY <2>1, ConcatProperties
<1>7. /\ (\E before \in {<<>>, <<a>>, <<b>>, <<a, b>>}, after \in {<<>>, <<b>>} : f = before \o d \o after)
         <=> \E g \in {d, <<b>> \o d, <<a>> \o d, <<a>> \o (<<b>> \o d)} : f = g \/ f = g \o <<b>>
  <2> DEFINE ad == <<a>> \o d
             bd == <<b>> \o d
             abd == <<a>> \o (<<b>> \o d)
  <2>1. /\ <<>> \o d \o <<>> = d /\ <<>> \o d \o <<b>> = d \o <<b>>
        /\ ad \o <<>> = ad /\ bd \o <<>> = bd
        /\ <<a, b>> \o d \o <<>> = abd /\ <<a, b>> \o d \o <<b>> = abd \o <<b>>
    BY <1>4, <1>5, <1>6
  <2> QED BY <2>1, Zenon
<1> QED BY <1>2, <1>3, <1>7

\* What trimming turns into a string without "*" and "" among its labels.
LEMMA TrimmedUndoes ==
  ASSUME NEW d \in Seq(Labels), d # <<>>, d[1] # "*", d[1] # "", d[Len(d)] # "",
         NEW f \in Seq(Labels), f # <<>>
  PROVE  TrimLabel(TrimLabel(TrimDot(f), "*"), "") = d
         <=> \E g \in {d, <<"">> \o d, <<"*">> \o d, <<"*">> \o (<<"">> \o d)} : f = g \/ f = g \o <<"">>
<1>1. "*" \in Labels /\ "" \in Labels /\ "*" # ""
  BY LabelsAssumption
<1> DEFINE e == <<"">> \o d
           ae == <<"*">> \o e
           ad == <<"*">> \o d
           t == TrimDot(f)
           u == TrimLabel(t, "*")
<1>2. e \in Seq(Labels) /\ e # <<>> /\ e[1] = "" /\ e[Len(e)] = d[Len(d)]
  BY <1>1, PushedEnds
<1>3. ad \in Seq(Labels) /\ ad # <<>> /\ ad[Len(ad)] = d[Len(d)]
  BY <1>1, PushedEnds
<1>4. t \in Seq(Labels) /\ t # <<>>
  BY TrimType
<1> HIDE DEF t
<1>5. u \in Seq(Labels) /\ u # <<>>
  BY <1>4, TrimType
<1> HIDE DEF u, e
<1>6. ae \in Seq(Labels) /\ ae # <<>> /\ ae[Len(ae)] = e[Len(e)]
  BY <1>1, <1>2, PushedEnds
<1> HIDE DEF ad, ae
<1>7. TrimLabel(u, "") = d <=> u = d \/ u = e
  BY <1>1, <1>5, TrimLabelUndoes, Zenon DEF e
<1>8. (u = d <=> t = d \/ t = ad) /\ (u = e <=> t = e \/ t = ae)
  <2>1. TrimLabel(t, "*") = d <=> t = d \/ t = ad
    BY <1>1, <1>4, TrimLabelUndoes, Zenon DEF ad
  <2>2. e[1] # "*"
    BY <1>1, <1>2, Zenon
  <2>3. TrimLabel(t, "*") = e <=> t = e \/ t = ae
    BY <1>1, <1>2, <1>4, <2>2, TrimLabelUndoes, Zenon DEF ae
  <2> QED BY <2>1, <2>3 DEF u
<1>9. \A g \in {d, e, ad, ae} : t = g <=> f = g \/ f = g \o <<"">>
  <2> TAKE g \in {d, e, ad, ae}
  <2>1. g \in Seq(Labels) /\ g # <<>> /\ g[Len(g)] # ""
    BY <1>2, <1>3, <1>6, Zenon
  <2>2. TrimDot(f) = g <=> f = g \/ f = g \o <<"">>
    BY <2>1, TrimDotUndoes, Zenon
  <2> QED BY <2>2 DEF t
<1>10. TrimLabel(u, "") = d <=> \E g \in {d, e, ad, ae} : f = g \/ f = g \o <<"">>
  BY <1>7, <1>8, <1>9, Zenon
<1> QED BY <1>10, Zenon DEF t, u, e, ad, ae

(***************************************************************************)
(* normalizeEntry makes of a field the domain it names, and rejects the    *)
(* field if it names none (parse.go, 70-85).                               *)
(***************************************************************************)
THEOREM EntryIsNamed ==
  ASSUME NEW c \in Seq(Labels), c # <<>>, NEW d \in Seq(Labels)
  PROVE  (Accept(Trimmed(c)) /\ Trimmed(c) = d) <=> (Domain(d) /\ Names(c, d))
<1> DEFINE f == ToLower(c)
<1>1. Accept(d) <=> Domain(d)
  <2>1. Len(EmptyString) = 1
    BY DEF EmptyString
  <2>2. Len(d) > 1 <=> Len(d) >= 2
    OBVIOUS
  <2>3. Len(d) >= 2 => d # EmptyString
    <3>1. Len(d) \in Nat
      OBVIOUS
    <3> QED BY <2>1, <3>1, NotOne, Zenon
  <2> QED BY <2>2, <2>3, Zenon DEF Accept, Domain, isIP, isDomainName
<1>2. ASSUME Domain(d) PROVE Trimmed(c) = d <=> Names(c, d)
  <2>1. /\ Len(d) \in Nat /\ Len(d) >= 2
        /\ \A k \in 1..Len(d) : d[k] \in GoodLabels
    BY <1>2 DEF Domain
  <2>2. d[1] \in GoodLabels /\ d[Len(d)] \in GoodLabels /\ d # <<>>
    BY <2>1
  <2>3. \A l \in GoodLabels : l # "*" /\ l # ""
    BY LabelsAssumption
  <2>4. f \in Seq(Labels) /\ f # <<>>
    BY ToLowerType
  <2> HIDE DEF f
  <2>5. TrimLabel(TrimLabel(TrimDot(f), "*"), "") = d
         <=> \E g \in {d, <<"">> \o d, <<"*">> \o d, <<"*">> \o (<<"">> \o d)} : f = g \/ f = g \o <<"">>
    <3>1. d[1] # "*" /\ d[1] # "" /\ d[Len(d)] # ""
      BY <2>2, <2>3, Zenon
    <3> QED BY <2>2, <2>4, <3>1, TrimmedUndoes
  <2>6. TrimLabel(TrimLabel(TrimDot(f), "*"), "") = d
        <=> \E before \in {<<>>, <<"*">>, <<"">>, <<"*", "">>}, after \in {<<>>, <<"">>} : f = before \o d \o after
    BY <2>5, Spellings
  <2> QED BY <2>6, Zenon DEF Trimmed, Names, f
<1> QED BY <1>1, <1>2

-------------------------------------------------------------------------------
(***************************************************************************)
(* The fields of a line, and the candidates among them.                    *)
(***************************************************************************)
\* A field before the comment is a string that is not empty.
Fielded(line) == line \in Seq((Seq(Labels) \ {<<>>}) \cup {Hash})

\* Where the comment begins: the fields are the first n, and a "#" or nothing follows.
CutAt(line, n) ==
  /\ n \in 0..Len(line)
  /\ n = Len(line) \/ line[n + 1] = Hash
  /\ \A k \in 1..n : line[k] # Hash

\* A line has such a place.
LEMMA FieldsAreCut ==
  ASSUME NEW line, Fielded(line)
  PROVE  \E n : CutAt(line, n) /\ Fields(line) = SubSeq(line, 1, n)
<1> DEFINE marks == {k \in DOMAIN line : line[k] = Hash}
           P(n) == n + 1 \in marks \cup {Len(line) + 1} /\ \A k \in marks : n < k
           stops == marks \cup {Len(line) + 1}
<1>1. DOMAIN line = 1..Len(line) /\ Len(line) \in Nat
  BY DEF Fielded
<1>2. marks \in SUBSET (1..Len(line)) /\ stops \in SUBSET Nat /\ stops # {}
  BY <1>1
<1>3. PICK m \in stops : \A k \in stops : m <= k
  <2> HIDE DEF stops
  <2> QED BY <1>2, LeastNumber
<1>4. m \in 1..(Len(line) + 1)
  BY <1>1, <1>2
<1>5. m - 1 \in 0..Len(line) /\ (m - 1) + 1 = m
  BY <1>1, <1>4
<1>6. \A k \in marks : m - 1 < k
  <2> TAKE k \in marks
  <2>1. m <= k
    BY <1>3
  <2> QED BY <1>2, <1>4, <2>1
<1>7. P(m - 1)
  BY <1>3, <1>5, <1>6
<1>8. PICK n \in 0..Len(line) : P(n) /\ Fields(line) = SubSeq(line, 1, n)
  <2>1. \E n \in 0..Len(line) : P(n)
    BY <1>5, <1>7
  <2> DEFINE c == CHOOSE n \in 0..Len(line) : P(n)
  <2>2. c \in 0..Len(line) /\ P(c)
    <3> HIDE DEF P
    <3> QED BY <2>1
  <2>3. Fields(line) = SubSeq(line, 1, c)
    BY DEF Fields
  <2> HIDE DEF c
  <2> QED BY <2>2, <2>3
<1>9. CutAt(line, n)
  <2>1. n = Len(line) \/ line[n + 1] = Hash
    <3>1. n + 1 \in marks \/ n + 1 = Len(line) + 1
      BY <1>8
    <3>2. CASE n + 1 \in marks
      BY <3>2
    <3>3. CASE n + 1 = Len(line) + 1
      <4>1. n \in Nat /\ \A a, b \in Nat : a + 1 = b + 1 => a = b
        BY <1>1
      <4> QED BY <1>1, <3>3, <4>1, Zenon
    <3> QED BY <3>1, <3>2, <3>3
  <2>2. ASSUME NEW k \in 1..n, line[k] = Hash PROVE FALSE
    <3>1. k \in marks
      BY <1>1, <2>2
    <3>2. n < k
      BY <1>8, <3>1
    <3> QED BY <3>2
  <2> QED BY <2>1, <2>2 DEF CutAt
<1> QED BY <1>8, <1>9

\* The fields that are before the cut.
LEMMA FieldsOf ==
  ASSUME NEW line, Fielded(line), NEW n, CutAt(line, n)
  PROVE  LET f == SubSeq(line, 1, n) IN
         /\ f \in Seq(Seq(Labels) \ {<<>>}) /\ Len(f) = n
         /\ \A k \in 1..n : f[k] = line[k]
<1>1. n \in Nat /\ Len(line) \in Nat /\ n <= Len(line)
  BY DEF CutAt, Fielded
<1>2. \A k \in 1..n : line[k] \in Seq(Labels) \ {<<>>}
  <2> TAKE k \in 1..n
  <2>1. k \in 1..Len(line)
    BY <1>1
  <2>2. line[k] \in (Seq(Labels) \ {<<>>}) \cup {Hash}
    BY <2>1 DEF Fielded
  <2> QED BY <2>2 DEF CutAt
<1> DEFINE S == Seq(Labels) \ {<<>>}
<1> HIDE DEF S
<1>3. /\ SubSeq(line, 1, n) \in Seq(S)
      /\ Len(SubSeq(line, 1, n)) = IF 1 <= n THEN n - 1 + 1 ELSE 0
      /\ \A k \in 1..(n - 1 + 1) : SubSeq(line, 1, n)[k] = line[1 + k - 1]
  <2>1. \A k \in 1..n : line[k] \in S
    BY <1>2 DEF S
  <2> QED BY <1>1, <2>1, SubSeqProperties
<1>4. n - 1 + 1 = n /\ Len(SubSeq(line, 1, n)) = n
  BY <1>1, <1>3
<1>5. \A k \in 1..n : SubSeq(line, 1, n)[k] = line[k]
  <2>1. \A k \in 1..n : k \in 1..(n - 1 + 1) /\ 1 + k - 1 = k
    BY <1>1
  <2> QED BY <1>3, <2>1
<1> QED BY <1>3, <1>4, <1>5 DEF S

\* Candidates are fields, and those that Lists reads.
LEMMA CandidatesAreListed ==
  ASSUME NEW line, Fielded(line)
  PROVE  /\ Candidates(line) \in Seq(Seq(Labels) \ {<<>>})
         /\ \A d : Lists(line, d) <=> \E j \in DOMAIN Candidates(line) : Names(Candidates(line)[j], d)
<1> DEFINE S == Seq(Labels) \ {<<>>}
           f == Fields(line)
           c == Candidates(line)
<1>1. PICK n : CutAt(line, n) /\ f = SubSeq(line, 1, n)
  BY FieldsAreCut
<1>2. f \in Seq(S) /\ Len(f) = n /\ \A k \in 1..n : f[k] = line[k]
  <2> HIDE DEF f
  <2> QED BY <1>1, FieldsOf
<1>3. n \in Nat /\ Len(line) \in Nat /\ n <= Len(line) /\ DOMAIN line = 1..Len(line)
  BY <1>1 DEF CutAt, Fielded
<1>4. c = IF n >= 2 /\ line[1] \in IPs THEN Tail(f) ELSE IF n = 1 THEN f ELSE <<>>
  <2>1. n >= 2 => f[1] = line[1]
    BY <1>2, <1>3
  <2> HIDE DEF f
  <2>2. c = IF Len(f) >= 2 /\ isIP(f[1]) THEN Tail(f) ELSE IF Len(f) = 1 THEN f ELSE <<>>
    BY DEF Candidates, f
  <2> QED BY <1>2, <2>1, <2>2, Zenon DEF isIP
<1> HIDE DEF c, f, S
\* Lists in terms of the cut.
<1>5. ASSUME NEW k \in 1..Len(line)
      PROVE  (\A j \in 1..k : line[j] # Hash) <=> k <= n
  <2> DEFINE N == Len(line)
  <2>0. N \in Nat /\ k \in Nat /\ 1 <= k /\ k <= N /\ n \in Nat
    BY <1>3
  <2> HIDE DEF N
  <2>1. ASSUME k <= n PROVE \A j \in 1..k : line[j] # Hash
    <3>1. \A j \in 1..k : j \in 1..n
      BY <2>0, <2>1
    <3> QED BY <1>1, <3>1, Zenon DEF CutAt
  <2>2. ASSUME ~(k <= n) PROVE \E j \in 1..k : line[j] = Hash
    <3>1. n + 1 \in 1..k /\ n # N
      BY <2>0, <2>2
    <3> QED BY <1>1, <3>1, Zenon DEF CutAt, N
  <2> QED BY <2>1, <2>2
<1>6. ASSUME 1 <= n PROVE (Len(line) = 1 \/ line[2] = Hash) <=> n = 1
  <2>1. ASSUME Len(line) = 1 PROVE n = 1
    BY <1>3, <1>6, <2>1
  <2>2. ASSUME line[2] = Hash PROVE n = 1
    <3>1. ~(2 <= n)
      <4>1. ASSUME 2 <= n PROVE 2 \in 1..n
        BY <1>3, <4>1
      <4> QED BY <1>1, <2>2, <4>1 DEF CutAt
    <3> QED BY <1>3, <1>6, <3>1
  <2>3. ASSUME n = 1 PROVE Len(line) = 1 \/ line[2] = Hash
    BY <1>1, <2>3 DEF CutAt
  <2> QED BY <2>1, <2>2, <2>3
<1>7. \A d : Lists(line, d) <=>
        \E k \in 1..n : (IF k = 1 THEN n = 1 ELSE line[1] \in IPs) /\ Names(line[k], d)
  <2> TAKE d
  <2>1. ASSUME Lists(line, d)
        PROVE \E k \in 1..n : (IF k = 1 THEN n = 1 ELSE line[1] \in IPs) /\ Names(line[k], d)
    <3>1. PICK k \in 1..Len(line) :
            /\ \A j \in 1..k : line[j] # Hash
            /\ IF k = 1 THEN Len(line) = 1 \/ line[2] = Hash ELSE line[1] \in IPs
            /\ Names(line[k], d)
      BY <1>3, <2>1 DEF Lists
    <3>2. k <= n
      BY <1>5, <3>1
    <3>3. k \in 1..n /\ 1 <= n
      BY <1>3, <3>2
    <3>4. IF k = 1 THEN n = 1 ELSE line[1] \in IPs
      BY <1>6, <3>1, <3>3
    <3> QED BY <3>1, <3>3, <3>4
  <2>2. ASSUME NEW k \in 1..n, IF k = 1 THEN n = 1 ELSE line[1] \in IPs, Names(line[k], d)
        PROVE  Lists(line, d)
    <3>1. k \in 1..Len(line) /\ k <= n /\ 1 <= n
      BY <1>3
    <3>2. \A j \in 1..k : line[j] # Hash
      BY <1>5, <3>1
    <3>3. IF k = 1 THEN Len(line) = 1 \/ line[2] = Hash ELSE line[1] \in IPs
      BY <1>6, <2>2, <3>1
    <3> QED BY <1>3, <2>2, <3>1, <3>2, <3>3 DEF Lists
  <2> QED BY <2>1, <2>2
<1>8. CASE n >= 2 /\ line[1] \in IPs
  <2>1. c = Tail(f) /\ f # <<>>
    BY <1>2, <1>4, <1>8
  <2>2. c \in Seq(S) /\ Len(c) = n - 1 /\ \A j \in 1..Len(c) : c[j] = f[j + 1]
    BY <1>2, <2>1, HeadTailProperties
  <2>3. \A j \in 1..(n - 1) : j \in DOMAIN c /\ c[j] = line[j + 1]
    BY <1>2, <2>2
  <2>4. ASSUME NEW d, NEW k \in 1..n, IF k = 1 THEN n = 1 ELSE line[1] \in IPs, Names(line[k], d)
        PROVE  \E j \in DOMAIN c : Names(c[j], d)
    <3>1. k - 1 \in 1..(n - 1) /\ (k - 1) + 1 = k
      BY <1>3, <1>8, <2>4
    <3> QED BY <2>3, <2>4, <3>1
  <2>5. ASSUME NEW d, NEW j \in DOMAIN c, Names(c[j], d)
        PROVE  \E k \in 1..n : (IF k = 1 THEN n = 1 ELSE line[1] \in IPs) /\ Names(line[k], d)
    <3>1. j \in 1..(n - 1)
      BY <2>2
    <3>2. j + 1 \in 1..n /\ j + 1 # 1
      BY <1>3, <3>1
    <3> QED BY <1>8, <2>3, <2>5, <3>1, <3>2
  <2> QED BY <1>7, <2>2, <2>4, <2>5 DEF c, S
<1>9. CASE ~(n >= 2 /\ line[1] \in IPs) /\ n = 1
  <2>1. c = f
    BY <1>4, <1>9
  <2>2. c \in Seq(S) /\ DOMAIN c = 1..1 /\ c[1] = line[1]
    BY <1>2, <1>9, <2>1
  <2>3. \A k \in 1..1 : k = 1
    OBVIOUS
  <2>4. \A d : Lists(line, d) <=> \E j \in DOMAIN c : Names(c[j], d)
    BY <1>7, <1>9, <2>2, <2>3
  <2> QED BY <2>2, <2>4 DEF c, S
<1>10. CASE ~(n >= 2 /\ line[1] \in IPs) /\ n # 1
  <2>1. c = <<>>
    BY <1>4, <1>10
  <2>2. c \in Seq(S) /\ DOMAIN c = {}
    BY <2>1
  <2>3. ASSUME NEW d, NEW k \in 1..n, IF k = 1 THEN n = 1 ELSE line[1] \in IPs PROVE FALSE
    BY <1>3, <1>10, <2>3
  <2> QED BY <1>7, <2>2, <2>3 DEF c, S
<1> QED BY <1>8, <1>9, <1>10

-------------------------------------------------------------------------------
(***************************************************************************)
(* The inductive invariant.                                                *)
(***************************************************************************)
TypeInv ==
  /\ pc \in {"parse", "dedup", "prune", "loaded", "failed"}
  /\ lines \in Seq(Lines)
  /\ candidates \in Seq(Seq(Labels) \ {<<>>})
  /\ parsed \in Seq(Seq(Labels)) /\ array \in Seq(Seq(Labels)) /\ out \in Seq(Seq(Labels))
  /\ i \in Nat /\ kept \in Nat
  /\ pc = "parse" => i = 1 /\ kept = 0 /\ out = <<>>

\* A field that is a candidate of a line read so far, and a name such a field gives.
Found(c) == \E l \in DOMAIN lines : In(Candidates(lines[l]), c)
Given(d) == Accept(d) /\ \E l \in DOMAIN lines : \E j \in DOMAIN Candidates(lines[l]) : Trimmed(Candidates(lines[l])[j]) = d

\* Exactly the given names are parsed, but for the candidates still to be looked at.
ParseInv ==
  /\ pc # "parse" => candidates = <<>>
  /\ \A m \in DOMAIN candidates : Found(candidates[m])
  /\ \A m \in DOMAIN parsed : Given(parsed[m])
  /\ \A l \in DOMAIN lines : \A j \in DOMAIN Candidates(lines[l]) :
       LET c == Candidates(lines[l])[j] IN
       Accept(Trimmed(c)) => In(parsed, Trimmed(c)) \/ In(candidates, c)

\* The names at these places of the array are the parsed ones.
Holds(places) ==
  /\ \A j \in places : In(parsed, array[j])
  /\ \A m \in DOMAIN parsed : \E j \in places : array[j] = parsed[m]

NotAfter(s, t) == Before(s, t) \/ s = t

StrictTo(n) == \A j, k \in 1..n : j < k => Before(array[j], array[k])

\* deduped is in strict order and the rest is in order behind it.
DedupInv ==
  pc = "dedup" =>
    /\ out = <<>>
    /\ i \in 1..(Len(array) + 1) /\ kept < i /\ (kept = 0 => i = 1)
    /\ kept > 0 => array[kept] = last
    /\ StrictTo(kept)
    /\ \A j \in 1..kept, k \in i..Len(array) : NotAfter(array[j], array[k])
    /\ \A j, k \in i..Len(array) : j < k => NotAfter(array[j], array[k])
    /\ Holds((1..kept) \cup (i..Len(array)))

\* out is what has no ancestor in deduped, as far as the loop has come.
PruneInv ==
  pc \in {"prune", "loaded"} =>
    /\ kept <= Len(array) /\ i \in 1..(kept + 1) /\ (pc = "loaded" => i = kept + 1)
    /\ StrictTo(kept)
    /\ Holds(1..kept)
    /\ Strict(out)
    /\ \A m \in DOMAIN out : \E j \in 1..(i - 1) : out[m] = array[j] /\ ~hasAncestor(deduped, array[j])
    /\ \A j \in 1..(i - 1) : hasAncestor(deduped, array[j]) \/ In(out, array[j])

IInv == TypeInv /\ ParseInv /\ DedupInv /\ PruneInv

\* The lines are lines.
LEMMA LineType ==
  ASSUME NEW line \in Lines
  PROVE  Fielded(line)
BY TextAssumption DEF Fielded, Hash

\* The initial state.
LEMMA InitIInv == Init => IInv
<1> SUFFICES ASSUME Init PROVE IInv
  OBVIOUS
<1> USE DEF Init
<1>1. TypeInv
  BY DEF TypeInv
<1>2. ParseInv
  BY DEF ParseInv
<1>3. DedupInv /\ PruneInv
  BY DEF DedupInv, PruneInv
<1> QED BY <1>1, <1>2, <1>3 DEF IInv

\* sort.Strings rearranges the parsed names.
LEMMA Sorted ==
  ASSUME TypeInv, Sort
  PROVE  /\ array' \in Seq(Seq(Labels)) /\ Len(array') = Len(parsed)
         /\ \A j, k \in 1..Len(array') : j < k => NotAfter(array'[j], array'[k])
         /\ Holds(1..Len(array))'
<1>1. PICK p \in Bijection(DOMAIN parsed, DOMAIN parsed) : array' = [k \in DOMAIN parsed |-> parsed[p[k]]]
  BY DEF Sort
<1>2. /\ p \in [DOMAIN parsed -> DOMAIN parsed]
      /\ \A w \in DOMAIN parsed : \E v \in DOMAIN parsed : p[v] = w
  BY <1>1 DEF Bijection, Injection, Surjection, IsInjective
<1>3. DOMAIN parsed = 1..Len(parsed) /\ Len(parsed) \in Nat /\ \A k \in DOMAIN parsed : parsed[k] \in Seq(Labels)
  BY DEF TypeInv
<1>4. array' \in [1..Len(parsed) -> Seq(Labels)]
  <2>1. \A k \in DOMAIN parsed : p[k] \in DOMAIN parsed
    BY <1>2
  <2>2. \A k \in DOMAIN parsed : parsed[p[k]] \in Seq(Labels)
    BY <1>3, <2>1
  <2>3. array' \in [DOMAIN parsed -> Seq(Labels)]
    BY <1>1, <2>2, Zenon
  <2> QED BY <1>3, <2>3
<1>5. array' \in Seq(Seq(Labels)) /\ DOMAIN array' = 1..Len(parsed) /\ Len(array') = Len(parsed)
  <2> DEFINE S == Seq(Labels)
             N == Len(parsed)
  <2>1. array' \in [1..N -> S] /\ N \in Nat
    BY <1>3, <1>4
  <2> HIDE DEF S, N
  <2>2. array' \in Seq(S) /\ DOMAIN array' = 1..N /\ Len(array') = N
    BY <2>1
  <2> QED BY <2>2 DEF S, N
<1>6. \A j, k \in 1..Len(array') : j < k => NotAfter(array'[j], array'[k])
  <2>1. Ascending(array')
    BY DEF Sort
  <2> QED BY <1>5, <2>1 DEF Ascending, NotAfter
<1>7. Holds(1..Len(array))'
  <2>1. parsed' = parsed
    BY DEF Sort
  <2>2. ASSUME NEW j \in 1..Len(parsed) PROVE \E m \in DOMAIN parsed : parsed[m] = array'[j]
    <3>1. array'[j] = parsed[p[j]] /\ p[j] \in DOMAIN parsed
      BY <1>1, <1>2, <1>3
    <3> QED BY <3>1
  <2>3. ASSUME NEW m \in DOMAIN parsed PROVE \E j \in 1..Len(parsed) : array'[j] = parsed[m]
    <3>1. PICK v \in DOMAIN parsed : p[v] = m
      BY <1>2
    <3>2. array'[v] = parsed[m]
      BY <1>1, <3>1
    <3> QED BY <1>3, <3>2
  <2> QED BY <1>5, <2>1, <2>2, <2>3 DEF Holds, In
<1> QED BY <1>5, <1>6, <1>7

\* Every action keeps the types.
LEMMA TypeStep ==
  ASSUME IInv, Next
  PROVE  TypeInv'
<1> USE DEF IInv, TypeInv
<1>1. ASSUME NEW line \in Lines, ParseLine(line) PROVE TypeInv'
  <2>1. Candidates(line) \in Seq(Seq(Labels) \ {<<>>})
    BY LineType, CandidatesAreListed
  <2>2. lines' \in Seq(Lines)
    BY <1>1, AppendProperties DEF ParseLine
  <2> QED BY <1>1, <2>1, <2>2 DEF ParseLine
<1>2. CASE normalizeEntry
  <2>1. Head(candidates) \in Seq(Labels) /\ Head(candidates) # <<>>
        /\ Tail(candidates) \in Seq(Seq(Labels) \ {<<>>})
    <3>1. candidates # <<>>
      BY <1>2 DEF normalizeEntry
    <3>2. Head(candidates) \in Seq(Labels) \ {<<>>} /\ Tail(candidates) \in Seq(Seq(Labels) \ {<<>>})
      BY <3>1, HeadTailProperties
    <3> QED BY <3>2
  <2>2. Trimmed(Head(candidates)) \in Seq(Labels)
    BY <2>1, TrimmedType
  <2>3. parsed' \in Seq(Seq(Labels))
    BY <1>2, <2>2, AppendProperties DEF normalizeEntry
  <2> QED BY <1>2, <2>1, <2>3 DEF normalizeEntry
<1>3. CASE LoadFails
  BY <1>3 DEF LoadFails
<1>4. CASE Sort
  <2>1. array' \in Seq(Seq(Labels))
    BY <1>4, Sorted
  <2> QED BY <1>4, <2>1 DEF Sort
<1>5. CASE DedupStep
  <2>1. array' \in Seq(Seq(Labels))
    <3>1. array[i] \in Seq(Labels)
      BY <1>5 DEF DedupStep, DedupInv
    <3>2. [array EXCEPT ![kept + 1] = array[i]] \in Seq(Seq(Labels))
      <4> DEFINE S == Seq(Labels)
                 x == array[i]
      <4>1. x \in S /\ array \in Seq(S) /\ kept + 1 \in DOMAIN array
        BY <1>5, <3>1 DEF DedupStep, DedupInv
      <4> HIDE DEF S, x
      <4>2. [array EXCEPT ![kept + 1] = x] \in Seq(S)
        BY <4>1, ExceptSeq
      <4> QED BY <4>2 DEF S, x
    <3> QED BY <1>5, <3>2 DEF DedupStep
  <2> QED BY <1>5, <2>1 DEF DedupStep
<1>6. CASE DedupEnds
  BY <1>6 DEF DedupEnds
<1>7. CASE PruneStep
  <2>1. array[i] \in Seq(Labels)
    BY <1>7 DEF PruneStep, PruneInv
  <2>2. out' \in Seq(Seq(Labels))
    BY <1>7, <2>1, AppendProperties DEF PruneStep
  <2> QED BY <1>7, <2>2 DEF PruneStep
<1>8. CASE Loaded
  BY <1>8 DEF Loaded
<1> QED BY <1>1, <1>2, <1>3, <1>4, <1>5, <1>6, <1>7, <1>8 DEF Next

\* Membership in a slice that has grown by one, and in one without its head.
LEMMA InAppend ==
  ASSUME NEW S, NEW s \in Seq(S), NEW x \in S
  PROVE  \A y : In(Append(s, x), y) <=> In(s, y) \/ y = x
<1> DEFINE t == Append(s, x)
<1>1. /\ t \in Seq(S) /\ Len(t) = Len(s) + 1 /\ t[Len(s) + 1] = x
      /\ \A j \in 1..Len(s) : t[j] = s[j]
  BY AppendProperties
<1> HIDE DEF t
<1>2. DOMAIN t = 1..(Len(s) + 1) /\ DOMAIN s = 1..Len(s) /\ Len(s) \in Nat
  BY <1>1
<1>3. \A j \in 1..(Len(s) + 1) : j \in 1..Len(s) \/ j = Len(s) + 1
  BY <1>2
<1>4. \A j \in 1..Len(s) : j \in 1..(Len(s) + 1)
  BY <1>2
<1>5. Len(s) + 1 \in 1..(Len(s) + 1)
  BY <1>2
<1>6. \A y : In(t, y) <=> In(s, y) \/ y = x
  BY <1>1, <1>2, <1>3, <1>4, <1>5, Zenon DEF In
<1> QED BY <1>6 DEF t

\* The elements of a slice are its head and those of its tail.
LEMMA InTail ==
  ASSUME NEW S, NEW s \in Seq(S), s # <<>>
  PROVE  /\ \A y : In(s, y) <=> y = Head(s) \/ In(Tail(s), y)
         /\ Head(s) \in S
<1> DEFINE t == Tail(s)
<1>1. /\ t \in Seq(S) /\ Len(t) = Len(s) - 1 /\ Head(s) \in S /\ Head(s) = s[1]
      /\ \A j \in 1..Len(t) : t[j] = s[j + 1]
  BY HeadTailProperties
<1>2. Len(s) \in Nat \ {0}
  BY EmptySeq
<1> HIDE DEF t
<1>3. DOMAIN t = 1..(Len(s) - 1) /\ DOMAIN s = 1..Len(s) /\ 1 \in 1..Len(s)
  BY <1>1, <1>2
<1>4. \A j \in 1..Len(s) : j = 1 \/ (j - 1 \in 1..(Len(s) - 1) /\ (j - 1) + 1 = j)
  BY <1>2
<1>5. \A j \in 1..(Len(s) - 1) : j + 1 \in 1..Len(s) /\ t[j] = s[j + 1]
  BY <1>1, <1>2
<1>6. ASSUME NEW y, In(s, y) PROVE y = Head(s) \/ In(t, y)
  <2>1. PICK j \in 1..Len(s) : s[j] = y
    BY <1>3, <1>6 DEF In
  <2>2. CASE j = 1
    BY <1>1, <2>1, <2>2
  <2>3. CASE j # 1
    <3>1. t[j - 1] = y /\ j - 1 \in DOMAIN t
      BY <1>3, <1>4, <1>5, <2>1, <2>3
    <3> QED BY <3>1 DEF In
  <2> QED BY <2>2, <2>3
<1>7. ASSUME NEW y, In(t, y) PROVE In(s, y)
  <2>1. PICK j \in 1..(Len(s) - 1) : t[j] = y
    BY <1>3, <1>7 DEF In
  <2>2. j + 1 \in DOMAIN s /\ s[j + 1] = y
    BY <1>3, <1>5, <2>1
  <2> QED BY <2>2 DEF In
<1>8. In(s, Head(s))
  BY <1>1, <1>3 DEF In
<1>9. \A y : In(s, y) <=> y = Head(s) \/ In(t, y)
  BY <1>6, <1>7, <1>8, Zenon
<1> QED BY <1>1, <1>9 DEF t

\* ParseInv in terms of membership.
ParseSet ==
  /\ pc # "parse" => candidates = <<>>
  /\ \A c : In(candidates, c) => Found(c)
  /\ \A d : In(parsed, d) => Given(d)
  /\ \A c : Found(c) /\ Accept(Trimmed(c)) => In(parsed, Trimmed(c)) \/ In(candidates, c)

\* The two say the same.
LEMMA ParseInvIn == ParseInv <=> ParseSet
<1>1. (\A m \in DOMAIN candidates : Found(candidates[m])) <=> \A c : In(candidates, c) => Found(c)
  BY DEF In
<1>2. (\A m \in DOMAIN parsed : Given(parsed[m])) <=> \A d : In(parsed, d) => Given(d)
  BY DEF In
<1>3. (\A l \in DOMAIN lines : \A j \in DOMAIN Candidates(lines[l]) :
         LET c == Candidates(lines[l])[j] IN
         Accept(Trimmed(c)) => In(parsed, Trimmed(c)) \/ In(candidates, c))
      <=> \A c : Found(c) /\ Accept(Trimmed(c)) => In(parsed, Trimmed(c)) \/ In(candidates, c)
  <2> DEFINE P(c) == Accept(Trimmed(c)) => In(parsed, Trimmed(c)) \/ In(candidates, c)
  <2>1. (\A l \in DOMAIN lines : \A j \in DOMAIN Candidates(lines[l]) : P(Candidates(lines[l])[j]))
        <=> \A c : Found(c) => P(c)
    <3> HIDE DEF P
    <3> QED BY Zenon DEF Found, In
  <2> QED BY <2>1, Zenon
<1> QED BY <1>1, <1>2, <1>3 DEF ParseInv, ParseSet

\* Given in the same terms.
LEMMA GivenIsFound ==
  \A d : Given(d) <=> Accept(d) /\ \E c : Found(c) /\ Trimmed(c) = d
BY Zenon DEF Given, Found, In

\* The same after a step.
LEMMA ParseInvInAfter == ParseInv' <=> ParseSet'
BY ParseInvIn, PTL

\* And for Given.
LEMMA GivenIsFoundAfter ==
  \A d : Given(d)' <=> Accept(d) /\ \E c : Found(c)' /\ Trimmed(c) = d
BY Zenon DEF Given, Found, In

\* Every action keeps the parsed names those that the text gives.
LEMMA ParseStep ==
  ASSUME IInv, Next
  PROVE  ParseInv'
<1> SUFFICES ParseSet'
  BY ParseInvInAfter
<1>1. ParseSet /\ TypeInv
  BY ParseInvIn DEF IInv
<1> USE DEF TypeInv
<1>2. ASSUME NEW line \in Lines, ParseLine(line) PROVE ParseSet'
  <2>1. /\ candidates' = Candidates(line) /\ lines' = Append(lines, line)
        /\ candidates = <<>> /\ parsed' = parsed /\ pc' = "parse"
    BY <1>2 DEF ParseLine
  <2>2. \A c : Found(c)' <=> Found(c) \/ In(Candidates(line), c)
    <3>1. /\ Len(Append(lines, line)) = Len(lines) + 1 /\ Append(lines, line)[Len(lines) + 1] = line
          /\ \A l \in 1..Len(lines) : Append(lines, line)[l] = lines[l]
          /\ DOMAIN Append(lines, line) = 1..(Len(lines) + 1)
      BY <1>1, AppendProperties
    <3>2. DOMAIN lines = 1..Len(lines) /\ Len(lines) \in Nat
      BY <1>1
    <3>3. /\ \A l \in 1..(Len(lines) + 1) : l \in 1..Len(lines) \/ l = Len(lines) + 1
          /\ \A l \in 1..Len(lines) : l \in 1..(Len(lines) + 1)
          /\ Len(lines) + 1 \in 1..(Len(lines) + 1)
      BY <3>2
    <3>4. /\ DOMAIN lines' = 1..(Len(lines) + 1) /\ lines'[Len(lines) + 1] = line
          /\ \A l \in 1..Len(lines) : lines'[l] = lines[l]
      BY <2>1, <3>1, Zenon
    <3> QED BY <3>2, <3>3, <3>4, Zenon DEF Found
  <2>3. \A c : ~In(candidates, c)
    BY <2>1 DEF In
  <2>4. \A d : Given(d) => Given(d)'
    BY <2>2, GivenIsFound, GivenIsFoundAfter, Zenon
  <2> QED BY <1>1, <2>1, <2>2, <2>3, <2>4, Zenon DEF ParseSet
<1>3. CASE normalizeEntry
  <2> DEFINE h == Head(candidates)
  <2>1. /\ candidates # <<>> /\ candidates' = Tail(candidates) /\ lines' = lines /\ pc' = "parse"
        /\ parsed' = IF Accept(Trimmed(h)) THEN Append(parsed, Trimmed(h)) ELSE parsed
    BY <1>3 DEF normalizeEntry
  <2>2. /\ \A c : In(candidates, c) <=> c = h \/ In(candidates', c)
        /\ h \in Seq(Labels) \ {<<>>}
    BY <1>1, <2>1, InTail
  <2>3. Trimmed(h) \in Seq(Labels)
    BY <2>2, TrimmedType
  <2>4. \A d : In(parsed', d) <=> In(parsed, d) \/ (Accept(Trimmed(h)) /\ d = Trimmed(h))
    <3>1. CASE Accept(Trimmed(h))
      <4>1. parsed' = Append(parsed, Trimmed(h)) /\ parsed \in Seq(Seq(Labels))
        BY <1>1, <2>1, <3>1
      <4> DEFINE x == Trimmed(h)
                 S == Seq(Labels)
      <4>2. x \in S /\ parsed \in Seq(S)
        BY <2>3, <4>1
      <4> HIDE DEF x, S
      <4>3. \A d : In(Append(parsed, x), d) <=> In(parsed, d) \/ d = x
        BY <4>2, InAppend
      <4> QED BY <3>1, <4>1, <4>3, Zenon DEF x
    <3>2. CASE ~Accept(Trimmed(h))
      BY <2>1, <3>2, Zenon
    <3> QED BY <3>1, <3>2
  <2>5. \A c : Found(c)' <=> Found(c)
    BY <2>1 DEF Found
  <2>6. \A d : Given(d)' <=> Given(d)
    BY <2>5, GivenIsFound, GivenIsFoundAfter, Zenon
  <2>7. Found(h)
    BY <1>1, <2>2, Zenon DEF ParseSet
  <2>8. Accept(Trimmed(h)) => Given(Trimmed(h))
    BY <2>7, GivenIsFound, Zenon
  <2> HIDE DEF h
  <2> QED BY <1>1, <2>1, <2>2, <2>4, <2>5, <2>6, <2>7, <2>8, Zenon DEF ParseSet
<1>4. ASSUME UNCHANGED <<lines, candidates, parsed>>, pc' # "parse" => candidates = <<>> PROVE ParseSet'
  BY <1>1, <1>4 DEF ParseSet, Found, Given
<1>5. CASE LoadFails
  BY <1>4, <1>5 DEF LoadFails
<1>6. CASE Sort
  BY <1>4, <1>6 DEF Sort
<1>7. ASSUME DedupStep \/ DedupEnds \/ PruneStep \/ Loaded PROVE ParseSet'
  <2>1. UNCHANGED <<lines, candidates, parsed>> /\ pc # "parse"
    BY <1>7 DEF DedupStep, DedupEnds, PruneStep, Loaded
  <2>2. candidates = <<>>
    BY <1>1, <2>1 DEF ParseSet
  <2> QED BY <1>4, <2>1, <2>2
<1> QED BY <1>2, <1>3, <1>5, <1>6, <1>7 DEF Next

\* A step of the loop keeps deduped in strict order, and loses no name.
LEMMA DedupKeeps ==
  ASSUME IInv, DedupStep
  PROVE  DedupInv'
<1> DEFINE N == Len(array)
<1>1. /\ pc = "dedup" /\ pc' = "dedup" /\ out' = out /\ parsed' = parsed /\ i' = i + 1
      /\ out = <<>> /\ i \in 1..N /\ kept \in Nat /\ N \in Nat /\ kept < i /\ (kept = 0 => i = 1)
      /\ kept > 0 => array[kept] = last
      /\ array \in Seq(Seq(Labels))
  BY DEF IInv, TypeInv, DedupInv, DedupStep
<1>2. /\ \A j, k \in 1..kept : j < k => Before(array[j], array[k])
      /\ \A j \in 1..kept, k \in i..N : NotAfter(array[j], array[k])
      /\ \A j, k \in i..N : j < k => NotAfter(array[j], array[k])
  BY <1>1 DEF IInv, DedupInv, StrictTo
<1>3. /\ \A j \in (1..kept) \cup (i..N) : In(parsed, array[j])
      /\ \A m \in DOMAIN parsed : \E j \in (1..kept) \cup (i..N) : array[j] = parsed[m]
  BY <1>1 DEF IInv, DedupInv, Holds
<1>4. CASE i = 1 \/ array[i] # last
  <2> DEFINE S == Seq(Labels)
             x == array[i]
  <2>1. array' = [array EXCEPT ![kept + 1] = x] /\ kept' = kept + 1 /\ last' = x
    BY <1>4 DEF DedupStep
  <2>2. x \in S /\ array \in Seq(S) /\ kept + 1 \in 1..N
    BY <1>1
  <2>3. /\ array' \in Seq(S) /\ Len(array') = N
        /\ \A j \in 1..N : array'[j] = IF j = kept + 1 THEN x ELSE array[j]
    <3> HIDE DEF S, x
    <3> QED BY <2>1, <2>2, ExceptSeq
  <2>4. /\ array'[kept + 1] = array[i]
        /\ \A j \in 1..kept : array'[j] = array[j]
        /\ \A j \in (i + 1)..N : array'[j] = array[j]
    BY <1>1, <2>2, <2>3
  <2>5. \A j \in 1..(kept + 1) : j \in 1..kept \/ j = kept + 1
    BY <1>1
  <2>6. \A j \in 1..kept : Before(array[j], array[i])
    <3> TAKE j \in 1..kept
    <3>1. kept > 0 /\ kept \in 1..kept /\ i \in i..N /\ i # 1 /\ kept \in 1..N /\ j \in 1..N
      BY <1>1
    <3>2. NotAfter(array[kept], array[i]) /\ array[kept] # array[i]
      BY <1>1, <1>2, <1>4, <3>1
    <3>3. Before(array[kept], array[i])
      BY <3>2 DEF NotAfter
    <3>4. CASE j = kept
      BY <3>3, <3>4
    <3>5. CASE j # kept
      <4>1. j < kept
        BY <1>1, <3>5
      <4>2. Before(array[j], array[kept])
        BY <1>2, <3>1, <4>1
      <4>3. array[j] \in Seq(Labels) /\ array[kept] \in Seq(Labels) /\ array[i] \in Seq(Labels)
        BY <1>1, <3>1
      <4> QED BY <3>3, <4>2, <4>3, BeforeTransitive
    <3> QED BY <3>4, <3>5
  <2>7. StrictTo(kept)'
    <3>1. ASSUME NEW j \in 1..(kept + 1), NEW k \in 1..(kept + 1), j < k
          PROVE  Before(array'[j], array'[k])
      <4>1. j \in 1..kept
        BY <1>1, <3>1
      <4>2. CASE k \in 1..kept
        BY <1>2, <2>4, <3>1, <4>1, <4>2
      <4>3. CASE k = kept + 1
        BY <2>4, <2>6, <4>1, <4>3
      <4> QED BY <2>5, <4>2, <4>3
    <3> QED BY <2>1, <3>1 DEF StrictTo
  <2>8. ASSUME NEW j \in 1..(kept + 1), NEW k \in (i + 1)..N PROVE NotAfter(array'[j], array'[k])
    <3>1. k \in i..N /\ i \in i..N /\ i < k
      BY <1>1
    <3>2. CASE j \in 1..kept
      BY <1>2, <2>4, <3>1, <3>2
    <3>3. CASE j = kept + 1
      BY <1>2, <2>4, <3>1, <3>3
    <3> QED BY <2>5, <3>2, <3>3
  <2>9. \A j, k \in (i + 1)..N : j < k => NotAfter(array'[j], array'[k])
    <3>1. \A j \in (i + 1)..N : j \in i..N
      BY <1>1
    <3> QED BY <1>2, <2>4, <3>1
  <2>10. Holds((1..kept) \cup (i..Len(array)))'
    <3>1. \A j \in (1..(kept + 1)) \cup ((i + 1)..N) : In(parsed, array'[j])
      <4>1. i \in i..N /\ \A j \in (i + 1)..N : j \in i..N
        BY <1>1
      <4> QED BY <1>3, <2>4, <2>5, <4>1, Zenon
    <3>2. ASSUME NEW m \in DOMAIN parsed
          PROVE  \E j \in (1..(kept + 1)) \cup ((i + 1)..N) : array'[j] = parsed[m]
      <4>1. PICK j \in (1..kept) \cup (i..N) : array[j] = parsed[m]
        BY <1>3
      <4>2. CASE j \in 1..kept
        <5>1. j \in 1..(kept + 1)
          BY <1>1, <4>2
        <5> QED BY <2>4, <4>1, <4>2, <5>1
      <4>3. CASE j = i
        <5>1. kept + 1 \in 1..(kept + 1)
          BY <1>1
        <5> QED BY <2>4, <4>1, <4>3, <5>1
      <4>4. CASE j \in i..N /\ j # i
        <5>1. j \in (i + 1)..N
          BY <1>1, <4>4
        <5> QED BY <2>4, <4>1, <5>1
      <4> QED BY <4>1, <4>2, <4>3, <4>4
    <3> QED BY <1>1, <2>1, <2>3, <3>1, <3>2, Zenon DEF Holds
  <2>11. /\ (i + 1) \in 1..(N + 1) /\ kept + 1 < i + 1 /\ ~(kept + 1 = 0)
    BY <1>1
  <2>12. (kept' > 0 => array'[kept'] = last')
    BY <2>1, <2>4
  <2> HIDE DEF S, x, N
  <2>13. /\ out' = <<>> /\ pc' = "dedup" /\ i' \in 1..(Len(array') + 1) /\ kept' < i' /\ (kept' = 0 => i' = 1)
    BY <1>1, <2>1, <2>3, <2>11
  <2>14. /\ \A j \in 1..kept', k \in i'..Len(array') : NotAfter(array'[j], array'[k])
         /\ \A j, k \in i'..Len(array') : j < k => NotAfter(array'[j], array'[k])
    BY <1>1, <2>1, <2>3, <2>8, <2>9
  <2> QED BY <2>7, <2>10, <2>12, <2>13, <2>14, Zenon DEF DedupInv, NotAfter
<1>5. CASE ~(i = 1 \/ array[i] # last)
  <2>1. UNCHANGED <<array, kept, last>>
    BY <1>5 DEF DedupStep
  <2>2. kept \in 1..kept /\ array[kept] = array[i]
    BY <1>1, <1>5
  <2>3. \A j \in (i + 1)..N : j \in i..N
    BY <1>1
  <2>4. \A j \in i..N : j = i \/ j \in (i + 1)..N
    BY <1>1
  <2>5. /\ i + 1 \in 1..(N + 1) /\ kept < i + 1 /\ kept # 0
    BY <1>1, <2>2
  <2>6. Holds((1..kept) \cup (i..Len(array)))'
    <3>1. \A j \in (1..kept) \cup ((i + 1)..N) : In(parsed, array[j])
      BY <1>3, <2>3, Zenon
    <3>2. \A m \in DOMAIN parsed : \E j \in (1..kept) \cup ((i + 1)..N) : array[j] = parsed[m]
      BY <1>3, <2>2, <2>4, Zenon
    <3> QED BY <1>1, <2>1, <3>1, <3>2, Zenon DEF Holds
  <2>7. StrictTo(kept)'
    BY <1>2, <2>1 DEF StrictTo
  <2> QED BY <1>1, <1>2, <2>1, <2>3, <2>5, <2>6, <2>7 DEF DedupInv, NotAfter
<1> QED BY <1>4, <1>5

\* Every action keeps what the first loop relies on.
LEMMA DedupInvStep ==
  ASSUME IInv, Next
  PROVE  DedupInv'
<1>1. CASE Sort
  <2>1. /\ array' \in Seq(Seq(Labels)) /\ Len(array') = Len(parsed)
        /\ \A j, k \in 1..Len(array') : j < k => NotAfter(array'[j], array'[k])
        /\ Holds(1..Len(array))'
    BY <1>1, Sorted DEF IInv
  <2>2. i' = 1 /\ kept' = 0 /\ out' = <<>>
    BY <1>1 DEF Sort, IInv, TypeInv
  <2>3. (1..kept') \cup (i'..Len(array')) = 1..Len(array')
    BY <2>1, <2>2
  <2>4. Holds((1..kept) \cup (i..Len(array)))'
    BY <2>1, <2>3, Zenon DEF Holds
  <2>5. StrictTo(kept)' /\ \A j \in 1..kept', k \in i'..Len(array') : NotAfter(array'[j], array'[k])
    BY <2>2 DEF StrictTo
  <2>6. i' \in 1..(Len(array') + 1) /\ kept' < i'
    BY <2>1, <2>2
  <2> QED BY <2>1, <2>2, <2>4, <2>5, <2>6 DEF DedupInv, NotAfter
<1>2. CASE DedupStep
  BY <1>2, DedupKeeps
<1>3. CASE ~Sort /\ ~DedupStep
  <2>1. pc' # "dedup"
    BY <1>3 DEF Next, ParseLine, normalizeEntry, LoadFails, DedupEnds, PruneStep, Loaded
  <2> QED BY <2>1 DEF DedupInv
<1> QED BY <1>1, <1>2, <1>3

\* A step of the second loop keeps out in strict order and complete.
LEMMA PruneKeeps ==
  ASSUME IInv, PruneStep
  PROVE  PruneInv'
<1> DEFINE x == array[i]
           H(j) == hasAncestor(deduped, array[j])
           S == Seq(Labels)
<1>1. /\ pc = "prune" /\ pc' = "prune" /\ UNCHANGED <<array, kept, parsed>> /\ i' = i + 1
      /\ kept \in Nat /\ i \in 1..kept /\ kept <= Len(array) /\ Len(array) \in Nat
      /\ out \in Seq(S) /\ x \in S
      /\ StrictTo(kept) /\ Holds(1..kept) /\ Strict(out)
      /\ out' = IF H(i) THEN out ELSE Append(out, x)
  BY DEF IInv, TypeInv, PruneInv, PruneStep
<1>2. /\ \A m \in DOMAIN out : \E j \in 1..(i - 1) : out[m] = array[j] /\ ~H(j)
      /\ \A j \in 1..(i - 1) : H(j) \/ In(out, array[j])
  BY <1>1 DEF IInv, PruneInv
<1>3. StrictTo(kept)' /\ Holds(1..kept)' /\ \A j : hasAncestor(deduped, array[j])' <=> H(j)
  BY <1>1 DEF StrictTo, Holds, deduped
<1>4. /\ i' - 1 = i /\ i' \in 1..(kept' + 1) /\ kept' <= Len(array')
      /\ \A j \in 1..i : j \in 1..(i - 1) \/ j = i
      /\ \A j \in 1..(i - 1) : j \in 1..i /\ j \in 1..kept /\ j < i
      /\ i \in 1..i
  BY <1>1
<1> HIDE DEF H, S, x
<1>5. CASE H(i)
  <2>1. out' = out
    BY <1>1, <1>5
  <2>2. \A m \in DOMAIN out' : \E j \in 1..i : out'[m] = array[j] /\ ~H(j)
    <3>1. \A m \in DOMAIN out : \E j \in 1..i : out[m] = array[j] /\ ~H(j)
      BY <1>2, <1>4, Zenon
    <3> QED BY <2>1, <3>1
  <2>3. \A j \in 1..i : H(j) \/ In(out', array[j])
    <3>1. \A j \in 1..i : H(j) \/ In(out, array[j])
      BY <1>2, <1>4, <1>5, Zenon
    <3> QED BY <2>1, <3>1
  <2>4. /\ \A m \in DOMAIN out' : \E j \in 1..(i' - 1) : out'[m] = array'[j] /\ ~hasAncestor(deduped, array[j])'
        /\ \A j \in 1..(i' - 1) : hasAncestor(deduped, array[j])' \/ In(out', array'[j])
    BY <1>1, <1>3, <1>4, <2>2, <2>3, Zenon
  <2> QED BY <1>1, <1>3, <1>4, <2>1, <2>4 DEF PruneInv
<1>6. CASE ~H(i)
  <2>1. out' = Append(out, x)
    BY <1>1, <1>6
  <2>2. /\ out' \in Seq(S) /\ Len(out') = Len(out) + 1 /\ out'[Len(out) + 1] = x
        /\ \A m \in 1..Len(out) : out'[m] = out[m]
    BY <1>1, <2>1, AppendProperties
  <2>3. /\ DOMAIN out' = 1..(Len(out) + 1) /\ DOMAIN out = 1..Len(out) /\ Len(out) \in Nat
        /\ \A m \in 1..(Len(out) + 1) : m \in 1..Len(out) \/ m = Len(out) + 1
    BY <1>1, <2>2
  <2>4. \A y : In(out', y) <=> In(out, y) \/ y = x
    BY <1>1, <2>1, InAppend
  <2>5. \A m \in DOMAIN out' : \E j \in 1..i : out'[m] = array[j] /\ ~H(j)
    <3> TAKE m \in DOMAIN out'
    <3>1. CASE m \in 1..Len(out)
      BY <1>2, <1>4, <2>2, <2>3, <3>1, Zenon
    <3>2. CASE m = Len(out) + 1
      BY <1>4, <1>6, <2>2, <3>2, Zenon DEF x
    <3> QED BY <2>3, <3>1, <3>2
  <2>6. \A j \in 1..i : H(j) \/ In(out', array[j])
    BY <1>2, <1>4, <2>4, Zenon DEF x
  <2>7. \A m \in DOMAIN out : Before(out[m], x)
    <3> TAKE m \in DOMAIN out
    <3>1. PICK j \in 1..(i - 1) : out[m] = array[j]
      BY <1>2
    <3>2. j \in 1..kept /\ i \in 1..kept /\ j < i
      BY <1>1, <1>4
    <3>3. Before(array[j], array[i])
      BY <1>1, <3>2 DEF StrictTo
    <3> QED BY <3>1, <3>3 DEF x
  <2>8. Strict(out')
    <3> SUFFICES ASSUME NEW j \in DOMAIN out', NEW k \in DOMAIN out', j < k
                 PROVE  Before(out'[j], out'[k])
      BY DEF Strict
    <3>1. j \in 1..Len(out)
      BY <2>3
    <3>2. CASE k \in 1..Len(out)
      BY <1>1, <2>2, <2>3, <3>1, <3>2 DEF Strict
    <3>3. CASE k = Len(out) + 1
      BY <2>2, <2>3, <2>7, <3>1, <3>3
    <3> QED BY <2>3, <3>2, <3>3
  <2>9. /\ \A m \in DOMAIN out' : \E j \in 1..(i' - 1) : out'[m] = array'[j] /\ ~hasAncestor(deduped, array[j])'
        /\ \A j \in 1..(i' - 1) : hasAncestor(deduped, array[j])' \/ In(out', array'[j])
    BY <1>1, <1>3, <1>4, <2>5, <2>6, Zenon
  <2> QED BY <1>1, <1>3, <1>4, <2>8, <2>9 DEF PruneInv, Strict
<1> QED BY <1>5, <1>6

\* Every action keeps what the second loop relies on.
LEMMA PruneInvStep ==
  ASSUME IInv, Next
  PROVE  PruneInv'
<1>1. CASE DedupEnds
  <2>1. /\ pc = "dedup" /\ UNCHANGED <<array, kept, parsed, out>> /\ i' = 1 /\ pc' = "prune"
        /\ kept \in Nat /\ Len(array) \in Nat /\ i = Len(array) + 1 /\ kept < i /\ out = <<>>
        /\ StrictTo(kept) /\ Holds((1..kept) \cup (i..Len(array)))
    BY <1>1 DEF DedupEnds, IInv, TypeInv, DedupInv
  <2>2. (1..kept) \cup (i..Len(array)) = 1..kept /\ kept <= Len(array)
    BY <2>1
  <2>3. StrictTo(kept)' /\ Holds(1..kept)'
    BY <2>1, <2>2 DEF StrictTo, Holds
  <2>4. i' \in 1..(kept' + 1) /\ 1..(i' - 1) = {} /\ DOMAIN out' = {}
    BY <2>1
  <2> QED BY <2>1, <2>2, <2>3, <2>4 DEF PruneInv, Strict
<1>2. CASE PruneStep
  BY <1>2, PruneKeeps
<1>3. CASE Loaded
  <2>1. /\ pc = "prune" /\ UNCHANGED <<array, kept, parsed, out, i>> /\ i > kept /\ kept \in Nat
    BY <1>3 DEF Loaded, IInv, TypeInv
  <2>2. PruneInv
    BY DEF IInv
  <2>3. i = kept + 1
    BY <2>1, <2>2 DEF PruneInv
  <2> QED BY <2>1, <2>2, <2>3 DEF PruneInv, StrictTo, Holds, deduped
<1>4. CASE ~DedupEnds /\ ~PruneStep /\ ~Loaded
  <2>1. pc' \notin {"prune", "loaded"}
    BY <1>4 DEF Next, ParseLine, normalizeEntry, LoadFails, Sort, DedupStep
  <2> QED BY <2>1 DEF PruneInv
<1> QED BY <1>1, <1>2, <1>3, <1>4

\* Steps and stuttering.
LEMMA StepIInv ==
  ASSUME IInv, [Next]_vars
  PROVE  IInv'
<1>1. CASE Next
  BY <1>1, TypeStep, ParseStep, DedupInvStep, PruneInvStep DEF IInv
<1>2. CASE UNCHANGED vars
  <2> USE <1>2 DEF vars, IInv
  <2>1. TypeInv'
    BY DEF TypeInv
  <2>2. ParseInv'
    BY DEF ParseInv, Found, Given
  <2>3. DedupInv'
    BY DEF DedupInv, StrictTo, Holds
  <2>4. PruneInv'
    BY DEF PruneInv, StrictTo, Holds, deduped
  <2> QED BY <2>1, <2>2, <2>3, <2>4
<1> QED BY <1>1, <1>2

\* The invariant holds in every reachable state.
LEMMA Inductive == Spec => []IInv
BY InitIInv, StepIInv, PTL DEF Spec

-------------------------------------------------------------------------------
(***************************************************************************)
(* The theorems.                                                           *)
(***************************************************************************)
\* A name that is given is not the empty string.
LEMMA GivenIsNotEmpty ==
  ASSUME NEW d, Given(d)
  PROVE  d # EmptyString
BY Zenon DEF Given, Accept

\* The array's front is a slice in strict order, of the parsed names.
LEMMA DedupedIs ==
  ASSUME IInv, pc = "loaded"
  PROVE  /\ deduped \in Seq(Seq(Labels)) /\ Strict(deduped)
         /\ \A y : In(deduped, y) <=> \E j \in 1..kept : array[j] = y
         /\ \A y : In(deduped, y) <=> In(parsed, y)
<1> DEFINE S == Seq(Labels)
<1>1. /\ kept \in Nat /\ kept <= Len(array) /\ Len(array) \in Nat /\ array \in Seq(S)
      /\ StrictTo(kept) /\ Holds(1..kept)
  BY DEF IInv, TypeInv, PruneInv
<1>2. \A j \in 1..kept : array[j] \in S
  BY <1>1
<1> HIDE DEF S
<1>3. /\ deduped \in Seq(S)
      /\ Len(deduped) = IF 1 <= kept THEN kept - 1 + 1 ELSE 0
      /\ \A j \in 1..(kept - 1 + 1) : deduped[j] = array[1 + j - 1]
  BY <1>1, <1>2, SubSeqProperties DEF deduped
<1>4. Len(deduped) = kept /\ DOMAIN deduped = 1..kept
  BY <1>1, <1>3
<1>5. \A j \in 1..kept : deduped[j] = array[j]
  <2>1. \A j \in 1..kept : j \in 1..(kept - 1 + 1) /\ 1 + j - 1 = j
    BY <1>1
  <2> QED BY <1>3, <2>1
<1>6. Strict(deduped)
  BY <1>1, <1>4, <1>5, Zenon DEF Strict, StrictTo
<1>7. \A y : In(deduped, y) <=> \E j \in 1..kept : array[j] = y
  BY <1>4, <1>5, Zenon DEF In
<1>8. \A y : In(deduped, y) <=> In(parsed, y)
  <2>1. ASSUME NEW y, In(deduped, y) PROVE In(parsed, y)
    <3>1. PICK j \in 1..kept : array[j] = y
      BY <1>7, <2>1, Zenon
    <3> QED BY <1>1, <3>1, Zenon DEF Holds
  <2>2. ASSUME NEW y, In(parsed, y) PROVE In(deduped, y)
    <3>1. PICK m \in DOMAIN parsed : parsed[m] = y
      BY <2>2 DEF In
    <3>2. PICK j \in 1..kept : array[j] = parsed[m]
      BY <1>1 DEF Holds
    <3> QED BY <1>7, <3>1, <3>2, Zenon
  <2> QED BY <2>1, <2>2, Zenon
<1> QED BY <1>3, <1>6, <1>7, <1>8 DEF S

\* What a loaded list is: of the parsed names, those without an ancestor among them.
LEMMA LoadedIs ==
  ASSUME IInv, pc = "loaded"
  PROVE  \A y : In(out, y) <=> In(deduped, y) /\ ~hasAncestor(deduped, y)
<1>1. /\ kept \in Nat /\ i = kept + 1
      /\ \A m \in DOMAIN out : \E j \in 1..(i - 1) : out[m] = array[j] /\ ~hasAncestor(deduped, array[j])
      /\ \A j \in 1..(i - 1) : hasAncestor(deduped, array[j]) \/ In(out, array[j])
  BY DEF IInv, TypeInv, PruneInv
<1>2. i - 1 = kept
  BY <1>1
<1>3. \A y : In(deduped, y) <=> \E j \in 1..kept : array[j] = y
  BY DedupedIs
<1>4. ASSUME NEW y, In(out, y) PROVE In(deduped, y) /\ ~hasAncestor(deduped, y)
  <2>1. PICK m \in DOMAIN out : out[m] = y
    BY <1>4 DEF In
  <2>2. PICK j \in 1..kept : out[m] = array[j] /\ ~hasAncestor(deduped, array[j])
    BY <1>1, <1>2
  <2>3. array[j] = y
    BY <2>1, <2>2
  <2> QED BY <1>3, <2>2, <2>3, Zenon
<1>5. ASSUME NEW y, In(deduped, y), ~hasAncestor(deduped, y) PROVE In(out, y)
  <2>1. PICK j \in 1..kept : array[j] = y
    BY <1>3, <1>5, Zenon
  <2>2. hasAncestor(deduped, array[j]) \/ In(out, array[j])
    BY <1>1, <1>2
  <2> QED BY <1>5, <2>1, <2>2, Zenon
<1> QED BY <1>4, <1>5, Zenon

\* Once all lines are read, the parsed names are the domains the lines list.
LEMMA ParsedIsListed ==
  ASSUME IInv, pc = "loaded", NEW d \in Seq(Labels)
  PROVE  In(parsed, d) <=> Domain(d) /\ \E l \in DOMAIN lines : Lists(lines[l], d)
<1>1. ParseSet /\ lines \in Seq(Lines)
  BY ParseInvIn DEF IInv, TypeInv
<1>2. \A c : ~In(candidates, c)
  <2>1. candidates = <<>>
    BY <1>1 DEF ParseSet
  <2> QED BY <2>1 DEF In
<1>3. In(parsed, d) <=> Given(d)
  <2>1. ASSUME Given(d) PROVE In(parsed, d)
    <3>1. PICK c : Accept(d) /\ Found(c) /\ Trimmed(c) = d
      BY <2>1, GivenIsFound, Zenon
    <3> QED BY <1>1, <1>2, <3>1, Zenon DEF ParseSet
  <2> QED BY <1>1, <2>1, Zenon DEF ParseSet
<1>4. ASSUME NEW l \in DOMAIN lines
      PROVE  (Accept(d) /\ \E j \in DOMAIN Candidates(lines[l]) : Trimmed(Candidates(lines[l])[j]) = d)
             <=> Domain(d) /\ Lists(lines[l], d)
  <2> DEFINE s == Candidates(lines[l])
  <2>1. lines[l] \in Lines
    BY <1>1
  <2>2. /\ s \in Seq(Seq(Labels) \ {<<>>})
        /\ Lists(lines[l], d) <=> \E j \in DOMAIN s : Names(s[j], d)
    BY <2>1, LineType, CandidatesAreListed
  <2> HIDE DEF s
  <2>3. \A j \in DOMAIN s : s[j] \in Seq(Labels) /\ s[j] # <<>>
    BY <2>2
  <2>4. \A j \in DOMAIN s : (Accept(Trimmed(s[j])) /\ Trimmed(s[j]) = d) <=> (Domain(d) /\ Names(s[j], d))
    BY <2>3, EntryIsNamed
  <2>5. (Accept(d) /\ \E j \in DOMAIN s : Trimmed(s[j]) = d) <=> Domain(d) /\ Lists(lines[l], d)
    BY <2>2, <2>4, Zenon
  <2> QED BY <2>5 DEF s
<1>5. Given(d) <=> \E l \in DOMAIN lines :
         (Accept(d) /\ \E j \in DOMAIN Candidates(lines[l]) : Trimmed(Candidates(lines[l])[j]) = d)
  BY Zenon DEF Given
<1>6. Given(d) <=> \E l \in DOMAIN lines : Domain(d) /\ Lists(lines[l], d)
  BY <1>4, <1>5, Zenon
<1> QED BY <1>3, <1>6, Zenon

(***************************************************************************)
(* However long a list is, and whatever it holds, the slice the matcher    *)
(* searches is in strict order, and no name in it is above another: the    *)
(* binary search finds what is there, and size counts domains              *)
(* (matcher.go, 38-72).                                                    *)
(***************************************************************************)
THEOREM LoadedIsCanonical == Spec => []Canonical
<1>1. ASSUME IInv PROVE Canonical
  <2> SUFFICES ASSUME pc = "loaded", NEW j \in DOMAIN out, NEW k \in DOMAIN out
               PROVE  /\ j < k => Before(out[j], out[k])
                      /\ j # k => \A m \in DOMAIN out[j] : From(out[j], m) # out[k]
    BY DEF Canonical
  <2>1. Strict(out) /\ out \in Seq(Seq(Labels))
    BY <1>1 DEF IInv, PruneInv, TypeInv
  <2>2. j \in Nat /\ k \in Nat /\ out[j] \in Seq(Labels) /\ out[k] \in Seq(Labels)
    BY <2>1
  <2>3. ASSUME j # k, NEW m \in DOMAIN out[j], From(out[j], m) = out[k] PROVE FALSE
    <3>1. DOMAIN out[j] = 1..Len(out[j]) /\ Len(out[j]) \in Nat
      BY <2>2
    <3>2. out[j] # <<>>
      BY <3>1
    <3>3. CASE m = 1
      <4>1. out[j] = out[k]
        BY <2>2, <2>3, <3>2, <3>3, FromFirst
      <4>2. Before(out[j], out[k]) \/ Before(out[k], out[j])
        BY <2>1, <2>2, <2>3 DEF Strict
      <4> QED BY <2>2, <4>1, <4>2, BeforeIrreflexive
    <3>4. CASE m # 1
      <4>1. m \in 2..Len(out[j])
        BY <3>1, <3>4
      <4>2. In(out, out[j]) /\ In(out, out[k])
        BY Zenon DEF In
      <4>3. In(deduped, out[k]) /\ ~hasAncestor(deduped, out[j])
        BY <1>1, <4>2, LoadedIs
      <4>4. deduped \in Seq(Seq(Labels)) /\ Strict(deduped) /\ In(parsed, out[k])
        BY <1>1, <4>3, DedupedIs
      <4>5. out[k] # EmptyString
        <5>1. ParseSet
          BY <1>1, ParseInvIn DEF IInv
        <5>2. Given(out[k])
          BY <4>4, <5>1, Zenon DEF ParseSet
        <5> QED BY <5>2, GivenIsNotEmpty
      <4>6. hasAncestor(deduped, out[j]) <=>
              \E n \in 2..Len(out[j]) : From(out[j], n) # EmptyString /\ In(deduped, From(out[j], n))
        BY <2>2, <3>2, <4>4, HasAncestorIsIn
      <4> QED BY <2>3, <4>1, <4>3, <4>5, <4>6, Zenon
    <3> QED BY <3>3, <3>4
  <2>4. j < k => Before(out[j], out[k])
    BY <2>1 DEF Strict
  <2> QED BY <2>3, <2>4
<1> QED BY <1>1, Inductive, PTL

\* A query as the matcher sees it is a string.
LEMMA QueryType ==
  ASSUME NEW q \in Queries
  PROVE  normalizeQuery(q) \in Seq(Labels) /\ normalizeQuery(q) # <<>>
<1>1. q \in Seq(Labels) /\ q # <<>>
  BY TextAssumption
<1> DEFINE t == ToLower(q)
<1>2. t \in Seq(Labels) /\ t # <<>>
  BY <1>1, ToLowerType
<1> HIDE DEF t
<1>3. TrimDot(t) \in Seq(Labels) /\ TrimDot(t) # <<>>
  BY <1>2, TrimType
<1> QED BY <1>3 DEF normalizeQuery, t

(***************************************************************************)
(* However long a list is, a query is covered if and only if a line lists  *)
(* a domain whose subtree the query is in.  What the two loops drop is     *)
(* still covered: of the listed domains a query is in, the one with the    *)
(* fewest labels is never pruned (parse.go, 26-66; matcher.go, 41-72).     *)
(***************************************************************************)
THEOREM LoadedBlocksWhatItNames == Spec => []BlocksWhatItNames
<1>1. ASSUME IInv PROVE BlocksWhatItNames
  <2> SUFFICES ASSUME pc = "loaded", NEW q \in Queries
               PROVE  LET n == normalizeQuery(q) IN
                      covers(out, n) <=> \E k \in DOMAIN n : Domain(From(n, k)) /\ \E l \in DOMAIN lines : Lists(lines[l], From(n, k))
    BY DEF BlocksWhatItNames
  <2> DEFINE n == normalizeQuery(q)
             K == {k \in 1..Len(n) : In(parsed, From(n, k))}
  <2>1. n \in Seq(Labels) /\ n # <<>>
    BY QueryType
  <2> HIDE DEF n
  <2>2. DOMAIN n = 1..Len(n) /\ Len(n) \in Nat
    BY <2>1
  <2>3. \A k \in 1..Len(n) : From(n, k) \in Seq(Labels) /\ Len(From(n, k)) = Len(n) - k + 1
    BY <2>1, FromProperties
  <2>4. \A k \in 1..Len(n) : In(parsed, From(n, k)) <=>
          Domain(From(n, k)) /\ \E l \in DOMAIN lines : Lists(lines[l], From(n, k))
    BY <1>1, <2>3, ParsedIsListed
  <2>5. Strict(out) /\ out \in Seq(Seq(Labels))
    BY <1>1 DEF IInv, PruneInv, TypeInv
  <2>6. covers(out, n) <=> \E k \in 1..Len(n) : From(n, k) # EmptyString /\ In(out, From(n, k))
    <3>1. \A x : has(out, x) <=> In(out, x)
      BY <2>5, HasIsIn
    <3> QED BY <2>2, <3>1, Zenon DEF covers
  <2>7. /\ deduped \in Seq(Seq(Labels)) /\ Strict(deduped)
        /\ \A y : In(deduped, y) <=> In(parsed, y)
        /\ \A y : In(out, y) <=> In(deduped, y) /\ ~hasAncestor(deduped, y)
    BY <1>1, DedupedIs, LoadedIs
  <2>8. ASSUME NEW k \in 1..Len(n), In(parsed, From(n, k))
        PROVE  \E m \in 1..Len(n) : From(n, m) # EmptyString /\ In(out, From(n, m))
    <3>1. K \in SUBSET (1..Len(n)) /\ K # {}
      BY <2>8
    <3>2. PICK m \in K : \A j \in K : j <= m
      <4> HIDE DEF K
      <4> QED BY <2>2, <3>1, GreatestNumber
    <3>3. m \in 1..Len(n) /\ In(parsed, From(n, m))
      OBVIOUS
    <3> DEFINE d == From(n, m)
    <3>4. d \in Seq(Labels) /\ Len(d) = Len(n) - m + 1
      BY <2>3, <3>3
    <3>5. d # EmptyString
      <4>1. ParseSet
        BY <1>1, ParseInvIn DEF IInv
      <4>2. Given(d)
        BY <3>3, <4>1, Zenon DEF ParseSet
      <4> QED BY <4>2, GivenIsNotEmpty
    <3>6. ~hasAncestor(deduped, d)
      <4>1. d # <<>>
        <5>1. Len(d) # 0
          BY <2>2, <3>3, <3>4
        <5> QED BY <3>4, <5>1, EmptySeq
      <4>2. hasAncestor(deduped, d) <=> \E j \in 2..Len(d) : From(d, j) # EmptyString /\ In(deduped, From(d, j))
        <5> HIDE DEF d
        <5> QED BY <2>7, <3>4, <4>1, HasAncestorIsIn
      <4>3. ASSUME NEW j \in 2..Len(d), In(deduped, From(d, j)) PROVE FALSE
        <5>1. j \in 1..(Len(n) - m + 1) /\ j \in Nat /\ m \in Nat /\ j >= 2
          BY <2>2, <3>3, <3>4
        <5>2. m + j - 1 \in 1..Len(n) /\ From(d, j) = From(n, m + j - 1)
          BY <2>1, <3>3, <5>1, FromFrom
        <5>3. In(parsed, From(n, m + j - 1))
          BY <2>7, <4>3, <5>2, Zenon
        <5>4. m + j - 1 \in K
          BY <5>2, <5>3
        <5>5. m + j - 1 <= m
          BY <3>2, <5>4
        <5> QED BY <5>1, <5>5
      <4> QED BY <4>2, <4>3, Zenon
    <3>7. In(out, d)
      BY <2>7, <3>3, <3>6, Zenon
    <3> QED BY <3>3, <3>5, <3>7
  <2>9. ASSUME NEW k \in 1..Len(n), In(out, From(n, k)) PROVE In(parsed, From(n, k))
    BY <2>7, <2>9, Zenon
  <2>10. covers(out, n) <=> \E k \in 1..Len(n) : In(parsed, From(n, k))
    BY <2>6, <2>8, <2>9, Zenon
  <2>11. covers(out, n) <=> \E k \in DOMAIN n : Domain(From(n, k)) /\ \E l \in DOMAIN lines : Lists(lines[l], From(n, k))
    BY <2>2, <2>4, <2>10, Zenon
  <2> QED BY <2>11 DEF n
<1> QED BY <1>1, Inductive, PTL
===============================================================================
