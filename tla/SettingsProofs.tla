--------------------------- MODULE SettingsProofs ---------------------------
(***************************************************************************)
(* Proofs about the settings file, for every file of lines of any length   *)
(* over any characters: what LoadConfig's loop makes of the lines is what  *)
(* the definition says they mean (LoadIsMeaning), and what SaveConfig      *)
(* writes is read back the same (RoundTrip).  With these, the settings are *)
(* always the file that was loaded last, and Get returns what was right    *)
(* during the call, whenever SIGHUP comes between its looks.               *)
(*                                                                         *)
(* Both loops are recursive functions, and what they compute is shown by   *)
(* induction over the lines: the least line at which it failed would have  *)
(* a line before it (HasLeast, Climb, Iterates).                           *)
(***************************************************************************)
EXTENDS Settings, SequenceTheorems, FiniteSetTheorems, TLAPS

-----------------------------------------------------------------------------
(* Numbers and iterations.  The library's induction theorems take an       *)
(* operator; these take sets and functions, and rest on the least of a set.*)

\* A set of numbers has a least one.
LEMMA HasLeast ==
  ASSUME NEW T \in SUBSET Nat, T # {}
  PROVE  /\ Least(T) \in T
         /\ \A y \in T : Least(T) =< y
<1> DEFINE R == OpToRel(<, Nat)
<1>1. IsWellFoundedOn(R, Nat)
  BY NatLessThanWellFounded
<1>2. \A x, y \in Nat : y < x => <<y, x>> \in R
  BY DEF OpToRel
<1> HIDE DEF R
<1>3. PICK x \in T : \A y \in T : ~(<<y, x>> \in R)
  BY <1>1, WFMin
<1>4. ASSUME NEW y \in T PROVE x =< y
  <2>1. x \in Nat /\ y \in Nat /\ ~(y < x)
    BY <1>2, <1>3
  <2> QED
    BY <2>1
<1> QED
  BY <1>4 DEF Least

\* A bounded set of numbers has a greatest one.
LEMMA HasMost ==
  ASSUME NEW n \in Nat, NEW T \in SUBSET (0..n), T # {}
  PROVE  /\ Most(T) \in T
         /\ \A y \in T : Most(T) >= y
<1> DEFINE M == {n - y : y \in T}
<1>1. M \in SUBSET Nat /\ M # {}
  <2>1. \A y \in T : n - y \in Nat
    OBVIOUS
  <2> QED
    BY <2>1
<1> HIDE DEF M
<1>2. Least(M) \in M /\ \A y \in M : Least(M) =< y
  BY <1>1, HasLeast
<1>3. PICK x \in T : Least(M) = n - x
  BY <1>2 DEF M
<1>4. ASSUME NEW y \in T PROVE x >= y
  <2>1. n - y \in M
    BY DEF M
  <2>2. n - x =< n - y
    BY <1>2, <1>3, <2>1
  <2> QED
    BY <2>2
<1> QED
  BY <1>4 DEF Most

\* Induction up to N.
LEMMA Climb ==
  ASSUME NEW N \in Nat, NEW P, 0 \in P,
         \A n \in 0..(N - 1) : n \in P => n + 1 \in P
  PROVE  \A n \in 0..N : n \in P
<1> DEFINE T == (0..N) \ P
<1> SUFFICES ASSUME T # {} PROVE FALSE
  OBVIOUS
<1>1. T \in SUBSET Nat
  OBVIOUS
<1> HIDE DEF T
<1>2. Least(T) \in T /\ \A y \in T : Least(T) =< y
  BY <1>1, HasLeast
<1>3. PICK x \in T : \A y \in T : x =< y
  BY <1>2
<1>4. x \in 0..N /\ x \notin P
  BY <1>3 DEF T
<1>5. x # 0
  BY <1>4
<1>6. x - 1 \in 0..(N - 1) /\ (x - 1) + 1 = x
  BY <1>4, <1>5
<1>7. x - 1 \notin P
  BY <1>4, <1>6
<1>8. x - 1 \in T
  BY <1>4, <1>6, <1>7 DEF T
<1> QED
  BY <1>3, <1>6, <1>8

\* A loop of N turns over a state in A, with the turns h, has its N states.
IsLoop(f, N, A, b, h) ==
  /\ f \in [0..N -> A]
  /\ f[0] = b
  /\ \A n \in 1..N : f[n] = h[n][f[n - 1]]

\* Each loop has its states.
LEMMA Iterates ==
  ASSUME NEW N \in Nat, NEW A, NEW b \in A, NEW h \in [1..N -> [A -> A]]
  PROVE  \E f : IsLoop(f, N, A, b, h)
<1> DEFINE Good(f, n) == f[0] = b /\ \A k \in 1..n : f[k] = h[k][f[k - 1]]
           P == {n \in 0..N : \E f \in [0..n -> A] : Good(f, n)}
<1>1. 0 \in P
  <2> DEFINE f == [i \in 0..0 |-> b]
  <2>1. f \in [0..0 -> A] /\ Good(f, 0)
    OBVIOUS
  <2>2. 0 \in 0..N
    OBVIOUS
  <2> HIDE DEF f, Good
  <2> QED
    BY <2>1, <2>2
<1>2. ASSUME NEW n \in 0..(N - 1), n \in P PROVE n + 1 \in P
  <2>1. PICK f \in [0..n -> A] : Good(f, n)
    BY <1>2
  <2> DEFINE g == [i \in 0..(n + 1) |-> IF i = n + 1 THEN h[n + 1][f[n]] ELSE f[i]]
  <2>2. h[n + 1][f[n]] \in A
    <3>1. n + 1 \in 1..N /\ n \in 0..n
      OBVIOUS
    <3>2. h[n + 1] \in [A -> A] /\ f[n] \in A
      BY <3>1
    <3> QED
      BY <3>2
  <2>3. g \in [0..(n + 1) -> A]
    BY <2>2
  <2>4. g[n + 1] = h[n + 1][f[n]] /\ \A i \in 0..n : g[i] = f[i]
    OBVIOUS
  <2> HIDE DEF g
  <2>5. ASSUME NEW k \in 1..(n + 1) PROVE g[k] = h[k][g[k - 1]]
    <3>1. CASE k = n + 1
      BY <2>4, <3>1
    <3>2. CASE k # n + 1
      <4>1. k \in 1..n /\ k - 1 \in 0..n /\ k \in 0..n
        BY <3>2
      <4>2. g[k] = f[k] /\ g[k - 1] = f[k - 1]
        BY <2>4, <4>1
      <4> QED
        BY <2>1, <4>1, <4>2
    <3> QED
      BY <3>1, <3>2
  <2>6. g[0] = b
    BY <2>1, <2>4
  <2>7. Good(g, n + 1)
    BY <2>5, <2>6
  <2> HIDE DEF Good
  <2>8. n + 1 \in 0..N
    OBVIOUS
  <2> QED
    BY <2>3, <2>7, <2>8
<1> HIDE DEF P
<1>3. \A n \in 0..N : n \in P
  BY <1>1, <1>2, Climb
<1>4. N \in P
  BY <1>3
<1>5. PICK f \in [0..N -> A] : Good(f, N)
  BY <1>4 DEF P
<1> QED
  BY <1>5 DEF IsLoop
-----------------------------------------------------------------------------
(* Texts, and what trimming leaves of them.                                *)

\* What SubSeq takes of a line.
LEMMA Cut ==
  ASSUME NEW s \in Text, NEW m \in 1..(Len(s) + 1), NEW n \in 0..Len(s)
  PROVE  /\ SubSeq(s, m, n) \in Text
         /\ Len(SubSeq(s, m, n)) = IF m =< n THEN n - m + 1 ELSE 0
         /\ \A i \in 1..(n - m + 1) : SubSeq(s, m, n)[i] = s[m + i - 1]
<1>1. \A i \in m..n : s[i] \in Char
  BY ElementOfSeq DEF Text
<1>2. m \in Int /\ n \in Int
  BY LenProperties DEF Text
<1> QED
  BY <1>1, <1>2, SubSeqProperties DEF Text

\* Texts of the same characters are the same.
LEMMA SameText ==
  ASSUME NEW s \in Text, NEW t \in Text, Len(s) = Len(t),
         \A i \in 1..Len(s) : s[i] = t[i]
  PROVE  s = t
BY SeqEqual DEF Text

\* The length of a text, and its characters.
LEMMA TextLen ==
  ASSUME NEW s \in Text
  PROVE  /\ Len(s) \in Nat
         /\ s = <<>> <=> Len(s) = 0
         /\ \A i \in 1..Len(s) : s[i] \in Char
         /\ <<>> \in Text /\ Len(<<>>) = 0
BY LenProperties, EmptySeq, ElementOfSeq DEF Text

\* A piece of a piece is a piece.
LEMMA CutTwice ==
  ASSUME NEW s \in Text, NEW m \in 1..(Len(s) + 1), NEW n \in 0..Len(s), m =< n + 1,
         NEW i \in 1..(n - m + 2), NEW j \in 0..(n - m + 1)
  PROVE  SubSeq(SubSeq(s, m, n), i, j) = SubSeq(s, m + i - 1, m + j - 1)
<1> DEFINE t == SubSeq(s, m, n)
           u == SubSeq(t, i, j)
           w == SubSeq(s, m + i - 1, m + j - 1)
<1>0. Len(s) \in Nat
  BY TextLen
<1>1. t \in Text /\ Len(t) = n - m + 1
      /\ \A k \in 1..(n - m + 1) : t[k] = s[m + k - 1]
  BY <1>0, Cut
<1> HIDE DEF t
<1>2. i \in 1..(Len(t) + 1) /\ j \in 0..Len(t)
  BY <1>0, <1>1
<1>3. u \in Text /\ Len(u) = (IF i =< j THEN j - i + 1 ELSE 0)
      /\ \A k \in 1..(j - i + 1) : u[k] = t[i + k - 1]
  BY <1>1, <1>2, Cut
<1>4. m + i - 1 \in 1..(Len(s) + 1) /\ m + j - 1 \in 0..Len(s)
  BY <1>0
<1> HIDE DEF u
<1>5. w \in Text
      /\ Len(w) = (IF m + i - 1 =< m + j - 1 THEN (m + j - 1) - (m + i - 1) + 1 ELSE 0)
      /\ \A k \in 1..((m + j - 1) - (m + i - 1) + 1) : w[k] = s[(m + i - 1) + k - 1]
  BY <1>4, Cut
<1> HIDE DEF w
<1>6. Len(u) = Len(w)
  BY <1>0, <1>3, <1>5
<1>7. ASSUME NEW k \in 1..Len(u) PROVE u[k] = w[k]
  <2>1. k \in 1..(j - i + 1) /\ k \in 1..((m + j - 1) - (m + i - 1) + 1)
    BY <1>0, <1>3
  <2>2. i + k - 1 \in 1..(n - m + 1)
    BY <1>0, <2>1
  <2>3. u[k] = t[i + k - 1] /\ t[i + k - 1] = s[m + (i + k - 1) - 1]
    BY <1>1, <1>3, <2>1, <2>2
  <2>4. w[k] = s[(m + i - 1) + k - 1]
    BY <1>5, <2>1
  <2>5. m + (i + k - 1) - 1 = (m + i - 1) + k - 1
    BY <1>0, <2>1
  <2> QED
    BY <2>3, <2>4, <2>5
<1>8. u = w
  BY <1>3, <1>5, <1>6, <1>7, SameText
<1> QED
  BY <1>8 DEF t, u, w

\* From the first character that is no space.
LEMMA LeftIs ==
  ASSUME NEW s \in Text
  PROVE  /\ Inked(s) = {} => TrimLeft(s) = <<>>
         /\ Inked(s) # {} =>
              /\ Least(Inked(s)) \in 1..Len(s)
              /\ s[Least(Inked(s))] # Space
              /\ \A i \in 1..(Least(Inked(s)) - 1) : s[i] = Space
              /\ TrimLeft(s) = SubSeq(s, Least(Inked(s)), Len(s))
<1>1. CASE Inked(s) = {}
  BY <1>1 DEF TrimLeft
<1>2. CASE Inked(s) # {}
  <2>1. Len(s) \in Nat
    BY TextLen
  <2>2. Inked(s) \in SUBSET Nat
    BY <2>1 DEF Inked
  <2> DEFINE a == Least(Inked(s))
  <2>3. a \in Inked(s) /\ \A y \in Inked(s) : a =< y
    BY <1>2, <2>2, HasLeast
  <2> HIDE DEF a
  <2>4. a \in 1..Len(s) /\ s[a] # Space
    BY <2>3 DEF Inked
  <2>5. ASSUME NEW i \in 1..(a - 1) PROVE s[i] = Space
    <3>1. i \in 1..Len(s) /\ ~(a =< i)
      BY <2>1, <2>4
    <3> QED
      BY <2>3, <3>1 DEF Inked
  <2>6. TrimLeft(s) = SubSeq(s, a, Len(s))
    BY <1>2 DEF TrimLeft, a
  <2> QED
    BY <1>2, <2>4, <2>5, <2>6 DEF a
<1> QED
  BY <1>1, <1>2

\* Up to the last character that is no space.
LEMMA RightIs ==
  ASSUME NEW s \in Text, s # <<>>, s[1] # Space
  PROVE  \E b \in 1..Len(s) :
           /\ TrimRight(s) = SubSeq(s, 1, b)
           /\ s[b] # Space
           /\ \A i \in (b + 1)..Len(s) : s[i] = Space
<1>1. Len(s) \in Nat /\ Len(s) # 0
  BY TextLen
<1> DEFINE I == Inked(s) \cup {1}
           b == Most(I)
<1>2. I \in SUBSET (0..Len(s)) /\ I # {}
  BY <1>1 DEF Inked
<1>3. b \in I /\ \A y \in I : b >= y
  BY <1>1, <1>2, HasMost
<1>4. TrimRight(s) = SubSeq(s, 1, b)
  BY DEF TrimRight
<1> HIDE DEF b
<1>5. b \in 1..Len(s) /\ s[b] # Space
  BY <1>1, <1>3 DEF Inked
<1>6. ASSUME NEW i \in (b + 1)..Len(s) PROVE s[i] = Space
  <2>1. i \in 1..Len(s) /\ ~(b >= i)
    BY <1>1, <1>5
  <2> QED
    BY <1>3, <2>1 DEF Inked
<1> QED
  BY <1>4, <1>5, <1>6

\* s has its core from a to b, and spaces around it.
Core(s, a, b) == Solid(s, a, b) /\ Blank(s, 1..(a - 1) \cup (b + 1)..Len(s))

\* Trim leaves what lies between the two.
LEMMA TrimIs ==
  ASSUME NEW s \in Text
  PROVE  \/ /\ \A i \in 1..Len(s) : s[i] = Space
            /\ Trim(s) = <<>>
         \/ \E a, b \in 1..Len(s) : Core(s, a, b) /\ Trim(s) = SubSeq(s, a, b)
<1>0. Len(s) \in Nat
  BY TextLen
<1>1. CASE Inked(s) = {}
  <2>1. \A i \in 1..Len(s) : s[i] = Space
    BY <1>1 DEF Inked
  <2>2. Trim(s) = <<>>
    BY <1>1, LeftIs DEF Trim, TrimRight
  <2> QED
    BY <2>1, <2>2
<1>2. CASE Inked(s) # {}
  <2>1. PICK a \in 1..Len(s) : /\ s[a] # Space
                               /\ \A i \in 1..(a - 1) : s[i] = Space
                               /\ TrimLeft(s) = SubSeq(s, a, Len(s))
    BY <1>2, LeftIs
  <2> DEFINE t == SubSeq(s, a, Len(s))
  <2>2. t \in Text /\ Len(t) = Len(s) - a + 1
        /\ \A k \in 1..(Len(s) - a + 1) : t[k] = s[a + k - 1]
    BY <1>0, Cut
  <2> HIDE DEF t
  <2>3. t # <<>> /\ t[1] # Space
    BY <1>0, <2>1, <2>2, TextLen
  <2>4. PICK b \in 1..Len(t) : /\ TrimRight(t) = SubSeq(t, 1, b)
                               /\ t[b] # Space
                               /\ \A i \in (b + 1)..Len(t) : t[i] = Space
    BY <2>2, <2>3, RightIs
  <2> DEFINE c == a + b - 1
  <2>5. SubSeq(t, 1, b) = SubSeq(s, a, c)
    <3>1. a \in 1..(Len(s) + 1) /\ Len(s) \in 0..Len(s) /\ a =< Len(s) + 1
          /\ 1 \in 1..(Len(s) - a + 2) /\ b \in 0..(Len(s) - a + 1)
      BY <1>0, <2>2
    <3>2. SubSeq(SubSeq(s, a, Len(s)), 1, b) = SubSeq(s, a + 1 - 1, a + b - 1)
      BY <3>1, CutTwice
    <3> QED
      BY <3>2 DEF t
  <2>6. c \in 1..Len(s) /\ a =< c /\ s[c] # Space
    <3>1. b \in 1..(Len(s) - a + 1)
      BY <2>2
    <3>2. t[b] = s[a + b - 1]
      BY <2>2, <3>1
    <3> QED
      BY <1>0, <2>4, <3>1, <3>2
  <2>7. ASSUME NEW i \in (c + 1)..Len(s) PROVE s[i] = Space
    <3> DEFINE k == i - a + 1
    <3>1. k \in (b + 1)..Len(t) /\ k \in 1..(Len(s) - a + 1) /\ a + k - 1 = i
      BY <1>0, <2>2
    <3> QED
      BY <2>2, <2>4, <3>1
  <2>8. Core(s, a, c)
    BY <2>1, <2>6, <2>7 DEF Core, Solid, Blank
  <2>9. Trim(s) = SubSeq(s, a, c)
    BY <2>1, <2>4, <2>5 DEF Trim, t
  <2> QED
    BY <2>6, <2>8, <2>9
<1> QED
  BY <1>1, <1>2
-----------------------------------------------------------------------------
(* What one line is, by its definition.                                    *)

FirstInk(l, a) == l[a] # Space /\ \A i \in 1..(a - 1) : l[i] = Space

\* A line has one first character.
LEMMA FirstInkOnce ==
  ASSUME NEW l \in Text, NEW a \in 1..Len(l), NEW b \in 1..Len(l),
         FirstInk(l, a), FirstInk(l, b)
  PROVE  a = b
<1>1. Len(l) \in Nat
  BY TextLen
<1>2. ~(a < b) /\ ~(b < a)
  BY <1>1 DEF FirstInk
<1> QED
  BY <1>1, <1>2

\* What it means to be among the pairs of a line.
LEMMA PairsIn ==
  ASSUME NEW l, NEW x
  PROVE  x \in Pairs(l) <=>
           \E a, b, e, c, d \in 1..Len(l) :
             /\ IsPair(l, a, b, e, c, d)
             /\ x = <<SubSeq(l, a, b), SubSeq(l, c, d)>>
<1> DEFINE N == 1..Len(l)
<1>1. ASSUME x \in Pairs(l)
      PROVE  \E a, b, e, c, d \in N : /\ IsPair(l, a, b, e, c, d)
                                      /\ x = <<SubSeq(l, a, b), SubSeq(l, c, d)>>
  <2>1. PICK p \in N \X N \X N \X N \X N :
          /\ IsPair(l, p[1], p[2], p[3], p[4], p[5])
          /\ x = <<SubSeq(l, p[1], p[2]), SubSeq(l, p[4], p[5])>>
    BY <1>1 DEF Pairs
  <2>2. p[1] \in N /\ p[2] \in N /\ p[3] \in N /\ p[4] \in N /\ p[5] \in N
    OBVIOUS
  <2> QED
    BY <2>1, <2>2
<1>2. ASSUME NEW a \in N, NEW b \in N, NEW e \in N, NEW c \in N, NEW d \in N,
             IsPair(l, a, b, e, c, d),
             x = <<SubSeq(l, a, b), SubSeq(l, c, d)>>
      PROVE  x \in Pairs(l)
  <2> DEFINE p == <<a, b, e, c, d>>
  <2>1. p \in N \X N \X N \X N \X N
    OBVIOUS
  <2>2. p[1] = a /\ p[2] = b /\ p[3] = e /\ p[4] = c /\ p[5] = d
    OBVIOUS
  <2> HIDE DEF p
  <2>3. IsPair(l, p[1], p[2], p[3], p[4], p[5])
    BY <1>2, <2>2
  <2> QED
    BY <1>2, <2>1, <2>2, <2>3 DEF Pairs
<1> QED
  BY <1>1, <1>2

\* What it means to be among the sections of a line.
LEMMA SectionsIn ==
  ASSUME NEW l, NEW x
  PROVE  x \in Sections(l) <=>
           \E a, b, c \in 1..Len(l) : IsSection(l, a, b, c) /\ x = SubSeq(l, b, c)
<1> DEFINE N == 1..Len(l)
<1>1. ASSUME x \in Sections(l)
      PROVE  \E a, b, c \in N : IsSection(l, a, b, c) /\ x = SubSeq(l, b, c)
  <2>1. PICK p \in N \X N \X N :
          IsSection(l, p[1], p[2], p[3]) /\ x = SubSeq(l, p[2], p[3])
    BY <1>1 DEF Sections
  <2>2. p[1] \in N /\ p[2] \in N /\ p[3] \in N
    OBVIOUS
  <2> QED
    BY <2>1, <2>2
<1>2. ASSUME NEW a \in N, NEW b \in N, NEW c \in N,
             IsSection(l, a, b, c), x = SubSeq(l, b, c)
      PROVE  x \in Sections(l)
  <2> DEFINE p == <<a, b, c>>
  <2>1. p \in N \X N \X N
    OBVIOUS
  <2>2. p[1] = a /\ p[2] = b /\ p[3] = c
    OBVIOUS
  <2> HIDE DEF p
  <2>3. IsSection(l, p[1], p[2], p[3])
    BY <1>2, <2>2
  <2> QED
    BY <1>2, <2>1, <2>2, <2>3 DEF Sections
<1> QED
  BY <1>1, <1>2

\* What the places of a pair are, from left to right.
PairShape(l, a, b, e, c, d) ==
  /\ FirstInk(l, a) /\ l[a] \notin {"#", "["}
  /\ a =< b /\ b < e /\ e < c /\ c =< d
  /\ l[e] = "=" /\ \A i \in 1..(e - 1) : l[i] # "="
  /\ l[b] # Space /\ \A i \in (b + 1)..(e - 1) : l[i] = Space
  /\ l[c] # Space /\ \A i \in (e + 1)..(c - 1) : l[i] = Space
  /\ l[d] # Space /\ \A i \in (d + 1)..Len(l) : l[i] = Space

\* A pair is of this shape,
LEMMA PairPlaces ==
  ASSUME NEW l \in Text, NEW a \in 1..Len(l), NEW b \in 1..Len(l),
         NEW e \in 1..Len(l), NEW c \in 1..Len(l), NEW d \in 1..Len(l),
         IsPair(l, a, b, e, c, d)
  PROVE  PairShape(l, a, b, e, c, d)
<1>1. Len(l) \in Nat
  BY TextLen
<1>2. /\ a =< b /\ b < e /\ e < c /\ c =< d
      /\ l[a] # Space /\ l[b] # Space /\ l[c] # Space /\ l[d] # Space
      /\ l[e] = "=" /\ \A i \in a..b : l[i] # "="
      /\ l[a] \notin {"#", "["}
  BY DEF IsPair, Solid
<1>3. ASSUME NEW i \in 1..Len(l), i \notin a..b, i # e, i \notin c..d
      PROVE  l[i] = Space
  BY <1>3 DEF IsPair, Blank
<1>4. \A i \in 1..(a - 1) : l[i] = Space
  BY <1>1, <1>2, <1>3
<1>5. \A i \in (b + 1)..(e - 1) : l[i] = Space
  BY <1>1, <1>2, <1>3
<1>6. \A i \in (e + 1)..(c - 1) : l[i] = Space
  BY <1>1, <1>2, <1>3
<1>7. \A i \in (d + 1)..Len(l) : l[i] = Space
  BY <1>1, <1>2, <1>3
<1>8. \A i \in 1..(e - 1) : l[i] # "="
  <2> SUFFICES ASSUME NEW i \in 1..(e - 1) PROVE l[i] # "="
    OBVIOUS
  <2>1. CASE i < a
    <3>1. i \in 1..(a - 1)
      BY <1>1, <2>1
    <3> QED
      BY <1>4, <3>1 DEF Space
  <2>2. CASE i \in a..b
    BY <1>2, <2>2
  <2>3. CASE i > b
    <3>1. i \in (b + 1)..(e - 1)
      BY <1>1, <2>3
    <3> QED
      BY <1>5, <3>1 DEF Space
  <2> QED
    BY <1>1, <2>1, <2>2, <2>3
<1> QED
  BY <1>2, <1>4, <1>5, <1>6, <1>7, <1>8 DEF FirstInk, PairShape

\* ... and the other way round.
LEMMA PairAt ==
  ASSUME NEW l \in Text, NEW a \in 1..Len(l), NEW b \in 1..Len(l),
         NEW e \in 1..Len(l), NEW c \in 1..Len(l), NEW d \in 1..Len(l),
         PairShape(l, a, b, e, c, d)
  PROVE  IsPair(l, a, b, e, c, d)
<1>1. Len(l) \in Nat
  BY TextLen
<1> USE DEF PairShape
<1>2. Blank(l, (1..Len(l)) \ (a..b \cup {e} \cup c..d))
  BY <1>1 DEF Blank, FirstInk
<1>3. \A i \in a..b : l[i] # "="
  BY <1>1
<1> QED
  BY <1>2, <1>3 DEF IsPair, Solid, FirstInk

\* A line has one pair at most.
LEMMA PairOnce ==
  ASSUME NEW l \in Text, NEW p \in Pairs(l), NEW q \in Pairs(l)
  PROVE  p = q
<1>a. PICK a, b, e, c, d \in 1..Len(l) :
        IsPair(l, a, b, e, c, d) /\ p = <<SubSeq(l, a, b), SubSeq(l, c, d)>>
  BY PairsIn
<1>b. PICK aa, bb, ee, cc, dd \in 1..Len(l) :
        /\ IsPair(l, aa, bb, ee, cc, dd)
        /\ q = <<SubSeq(l, aa, bb), SubSeq(l, cc, dd)>>
  BY PairsIn
<1>0. Len(l) \in Nat
  BY TextLen
<1>1. PairShape(l, a, b, e, c, d)
  BY <1>a, PairPlaces
<1>2. PairShape(l, aa, bb, ee, cc, dd)
  BY <1>b, PairPlaces
<1> USE DEF PairShape
<1>3. a = aa
  BY <1>1, <1>2, FirstInkOnce
<1>4. e = ee
  <2>1. ~(e < ee) /\ ~(ee < e)
    BY <1>0, <1>1, <1>2
  <2> QED
    BY <2>1
<1>5. b = bb
  <2>1. ~(b < bb) /\ ~(bb < b)
    BY <1>0, <1>1, <1>2, <1>4
  <2> QED
    BY <2>1
<1>6. c = cc
  <2>1. ~(c < cc) /\ ~(cc < c)
    BY <1>0, <1>1, <1>2, <1>4
  <2> QED
    BY <2>1
<1>7. d = dd
  <2>1. ~(d < dd) /\ ~(dd < d)
    BY <1>0, <1>1, <1>2
  <2> QED
    BY <2>1
<1> QED
  BY <1>a, <1>b, <1>3, <1>5, <1>6, <1>7

\* e is where the bracket closes, or behind the line.
ClosesAt(l, a, e) ==
  /\ \A i \in (a + 1)..(e - 1) : l[i] # "]"
  /\ e =< Len(l) => l[e] = "]"

\* The places of a section, from left to right.
LEMMA SectionPlaces ==
  ASSUME NEW l \in Text, NEW a \in 1..Len(l), NEW b \in 1..Len(l),
         NEW c \in 1..Len(l), IsSection(l, a, b, c)
  PROVE  /\ FirstInk(l, a) /\ l[a] = "["
         /\ a < b /\ b =< c
         /\ l[b] # Space /\ \A i \in (a + 1)..(b - 1) : l[i] = Space
         /\ l[c] # Space
         /\ \E e \in (c + 1)..(Len(l) + 1) :
              /\ ClosesAt(l, a, e)
              /\ \A i \in (c + 1)..(e - 1) : l[i] = Space
<1>1. Len(l) \in Nat
  BY TextLen
<1>2. /\ l[a] = "[" /\ a < b /\ b =< c /\ l[b] # Space /\ l[c] # Space
      /\ \A i \in b..c : l[i] # "]"
      /\ \A i \in 1..(a - 1) : l[i] = Space
      /\ \A i \in (a + 1)..(b - 1) : l[i] = Space
  BY DEF IsSection, Solid, Blank
<1>3. PICK e \in (c + 1)..(Len(l) + 1) :
        /\ \A i \in (c + 1)..(e - 1) : l[i] = Space
        /\ e =< Len(l) => l[e] = "]"
  BY DEF IsSection, Blank
<1>4. \A i \in (a + 1)..(e - 1) : l[i] # "]"
  <2> SUFFICES ASSUME NEW i \in (a + 1)..(e - 1) PROVE l[i] # "]"
    OBVIOUS
  <2>1. CASE i < b
    <3>1. i \in (a + 1)..(b - 1)
      BY <1>1, <2>1
    <3> QED
      BY <1>2, <3>1 DEF Space
  <2>2. CASE i \in b..c
    BY <1>2, <2>2
  <2>3. CASE i > c
    <3>1. i \in (c + 1)..(e - 1)
      BY <1>1, <2>3
    <3> QED
      BY <1>3, <3>1 DEF Space
  <2> QED
    BY <1>1, <2>1, <2>2, <2>3
<1> QED
  BY <1>2, <1>3, <1>4 DEF FirstInk, ClosesAt, Space

\* ... and the other way round.
LEMMA SectionAt ==
  ASSUME NEW l \in Text, NEW a \in 1..Len(l), NEW b \in 1..Len(l),
         NEW c \in 1..Len(l), NEW e \in (c + 1)..(Len(l) + 1),
         FirstInk(l, a), l[a] = "[",
         a < b, b =< c,
         l[b] # Space, \A i \in (a + 1)..(b - 1) : l[i] = Space,
         l[c] # Space, \A i \in (c + 1)..(e - 1) : l[i] = Space,
         ClosesAt(l, a, e)
  PROVE  IsSection(l, a, b, c)
<1>1. Len(l) \in Nat
  BY TextLen
<1>2. \A i \in b..c : l[i] # "]"
  BY <1>1 DEF ClosesAt
<1>3. Blank(l, 1..(a - 1) \cup (a + 1)..(b - 1))
  BY DEF Blank, FirstInk
<1>4. Blank(l, (c + 1)..(e - 1)) /\ (e =< Len(l) => l[e] = "]")
  BY DEF Blank, ClosesAt
<1> QED
  BY <1>2, <1>3, <1>4 DEF IsSection, Solid

\* A bracket closes in one place.
LEMMA ClosesOnce ==
  ASSUME NEW l \in Text, NEW a \in 1..Len(l),
         NEW e \in (a + 1)..(Len(l) + 1), NEW f \in (a + 1)..(Len(l) + 1),
         ClosesAt(l, a, e), ClosesAt(l, a, f)
  PROVE  e = f
<1>1. Len(l) \in Nat
  BY TextLen
<1>2. ~(e < f) /\ ~(f < e)
  BY <1>1 DEF ClosesAt
<1> QED
  BY <1>1, <1>2

\* Looking for a character from the left.
LEMMA FirstOf ==
  ASSUME NEW s \in Text, NEW x
  PROVE  /\ Where(s, {x}) = {} => \A i \in 1..Len(s) : s[i] # x
         /\ Where(s, {x}) # {} =>
              /\ Least(Where(s, {x})) \in 1..Len(s)
              /\ s[Least(Where(s, {x}))] = x
              /\ \A i \in 1..(Least(Where(s, {x})) - 1) : s[i] # x
<1>1. Len(s) \in Nat
  BY TextLen
<1>2. CASE Where(s, {x}) = {}
  BY <1>2 DEF Where
<1>3. CASE Where(s, {x}) # {}
  <2>1. Where(s, {x}) \in SUBSET Nat
    BY <1>1 DEF Where
  <2> DEFINE a == Least(Where(s, {x}))
  <2>2. a \in Where(s, {x}) /\ \A y \in Where(s, {x}) : a =< y
    BY <1>3, <2>1, HasLeast
  <2> HIDE DEF a
  <2>3. a \in 1..Len(s) /\ s[a] = x
    BY <2>2 DEF Where
  <2>4. ASSUME NEW i \in 1..(a - 1) PROVE s[i] # x
    <3>1. i \in 1..Len(s) /\ ~(a =< i)
      BY <1>1, <2>3
    <3> QED
      BY <2>2, <3>1 DEF Where
  <2> QED
    BY <1>3, <2>3, <2>4 DEF a
<1> QED
  BY <1>2, <1>3
-----------------------------------------------------------------------------
(* A line is the same thing to the loop as to the definition.              *)

\* Maps of settings, and the state of the loop.
Map ==
  {m \in UNION {[D -> Text] : D \in SUBSET (Text \X Text)} :
     IsFiniteSet(DOMAIN m)}
State == [section : Text, map : Map]

IsNothing(l) ==
  /\ Sections(l) = {} /\ Pairs(l) = {}
  /\ \A acc \in State : LoadLine(acc, l) = acc

IsName(l, name) ==
  /\ name # <<>>
  /\ Sections(l) = {name} /\ Pairs(l) = {}
  /\ \A acc \in State : LoadLine(acc, l) = [acc EXCEPT !.section = name]

IsKeyAndValue(l, k, v) ==
  /\ k # <<>> /\ v # <<>>
  /\ Sections(l) = {} /\ Pairs(l) = {<<k, v>>}
  /\ \A acc \in State :
       LoadLine(acc, l) =
         IF acc.section = <<>> THEN acc
         ELSE [acc EXCEPT !.map = Put(@, acc.section, k, v)]

LineIs(l) ==
  \/ IsNothing(l)
  \/ \E name \in Text : IsName(l, name)
  \/ \E k, v \in Text : IsKeyAndValue(l, k, v)

\* What the loop looks at of a line whose first character is at a.
LEMMA Started ==
  ASSUME NEW l \in Text, NEW a \in 1..Len(l), FirstInk(l, a)
  PROVE  LET s == TrimLeft(l) IN
         /\ s = SubSeq(l, a, Len(l))
         /\ s \in Text /\ Len(s) = Len(l) - a + 1 /\ s # <<>> /\ s[1] = l[a]
         /\ \A k \in 1..(Len(l) - a + 1) : s[k] = l[a + k - 1]
<1>0. Len(l) \in Nat
  BY TextLen
<1>1. a \in Inked(l)
  BY DEF Inked, FirstInk
<1> DEFINE b == Least(Inked(l))
<1>2. b \in 1..Len(l) /\ l[b] # Space /\ (\A i \in 1..(b - 1) : l[i] = Space)
      /\ TrimLeft(l) = SubSeq(l, b, Len(l))
  BY <1>1, LeftIs
<1> HIDE DEF b
<1>3. b = a
  BY <1>2, FirstInkOnce DEF FirstInk
<1> DEFINE s == SubSeq(l, a, Len(l))
<1>4. s \in Text /\ Len(s) = Len(l) - a + 1
      /\ \A k \in 1..(Len(l) - a + 1) : s[k] = l[a + k - 1]
  BY <1>0, Cut
<1> HIDE DEF s
<1>5. s # <<>> /\ s[1] = l[a]
  <2>1. 1 \in 1..(Len(l) - a + 1) /\ a + 1 - 1 = a
    BY <1>0
  <2> QED
    BY <1>0, <1>4, <2>1, TextLen
<1> QED
  BY <1>2, <1>3, <1>4, <1>5 DEF s

\* A line that does not begin with a bracket has no section.
LEMMA NoSection ==
  ASSUME NEW l \in Text,
         \A a \in 1..Len(l) : FirstInk(l, a) => l[a] # "["
  PROVE  Sections(l) = {}
<1> SUFFICES ASSUME NEW x \in Sections(l) PROVE FALSE
  OBVIOUS
<1>1. PICK a, b, c \in 1..Len(l) : IsSection(l, a, b, c)
  BY SectionsIn
<1>2. FirstInk(l, a) /\ l[a] = "["
  BY <1>1, SectionPlaces
<1> QED
  BY <1>2

\* A line that begins with a bracket or as a comment has no pair.
LEMMA NoPair ==
  ASSUME NEW l \in Text,
         \A a \in 1..Len(l) : FirstInk(l, a) => l[a] \in {"#", "["}
  PROVE  Pairs(l) = {}
<1> SUFFICES ASSUME NEW x \in Pairs(l) PROVE FALSE
  OBVIOUS
<1>1. PICK a, b, e, c, d \in 1..Len(l) : IsPair(l, a, b, e, c, d)
  BY PairsIn
<1>2. PairShape(l, a, b, e, c, d)
  BY <1>1, PairPlaces
<1>3. FirstInk(l, a) /\ l[a] \notin {"#", "["}
  BY <1>2 DEF PairShape
<1> QED
  BY <1>3

\* A line of spaces is nothing, to both.
LEMMA BlankLine ==
  ASSUME NEW l \in Text, Inked(l) = {}
  PROVE  IsNothing(l)
<1>1. \A i \in 1..Len(l) : ~FirstInk(l, i)
  BY DEF Inked, FirstInk
<1>2. TrimLeft(l) = <<>>
  BY LeftIs
<1>3. \A acc \in State : LoadLine(acc, l) = acc
  BY <1>2 DEF LoadLine, IsComment
<1> QED
  BY <1>1, <1>3, NoSection, NoPair DEF IsNothing

\* A comment is nothing, to both.
LEMMA CommentLine ==
  ASSUME NEW l \in Text, NEW a \in 1..Len(l), FirstInk(l, a), l[a] = "#"
  PROVE  IsNothing(l)
<1>1. \A i \in 1..Len(l) : FirstInk(l, i) => l[i] = "#"
  BY FirstInkOnce
<1>2. Sections(l) = {}
  BY <1>1, NoSection
<1>3. Pairs(l) = {}
  BY <1>1, NoPair
<1>4. TrimLeft(l) # <<>> /\ TrimLeft(l)[1] = "#"
  BY Started
<1>5. IsComment(l)
  BY <1>4 DEF IsComment
<1>6. \A acc \in State : LoadLine(acc, l) = acc
  BY <1>5 DEF LoadLine
<1> QED
  BY <1>2, <1>3, <1>6 DEF IsNothing

\* The name the loop finds is what is between the brackets.
LEMMA NameFound ==
  ASSUME NEW l \in Text, NEW a \in 1..Len(l), FirstInk(l, a), l[a] = "["
  PROVE  \E e \in (a + 1)..(Len(l) + 1) :
           /\ ClosesAt(l, a, e)
           /\ SectionName(TrimLeft(l)) = Trim(SubSeq(l, a + 1, e - 1))
<1> DEFINE s == TrimLeft(l)
<1>0. Len(l) \in Nat
  BY TextLen
<1>1. /\ s = SubSeq(l, a, Len(l))
      /\ s \in Text /\ Len(s) = Len(l) - a + 1 /\ s # <<>> /\ s[1] = "["
      /\ \A k \in 1..(Len(l) - a + 1) : s[k] = l[a + k - 1]
  BY Started
<1> HIDE DEF s
<1>2. CASE Where(s, {"]"}) = {}
  <2> DEFINE e == Len(l) + 1
  <2>1. \A i \in 1..Len(s) : s[i] # "]"
    BY <1>1, <1>2, FirstOf
  <2>2. ASSUME NEW i \in (a + 1)..(e - 1) PROVE l[i] # "]"
    <3>1. i - a + 1 \in 1..(Len(l) - a + 1) /\ a + (i - a + 1) - 1 = i
      BY <1>0
    <3> QED
      BY <1>1, <2>1, <3>1
  <2>3. ClosesAt(l, a, e)
    BY <1>0, <2>2 DEF ClosesAt
  <2>4. Tail(s) = SubSeq(s, 2, Len(s))
    BY <1>1, TailIsSubSeq DEF Text
  <2>5. SubSeq(s, 2, Len(s)) = SubSeq(l, a + 1, Len(l))
    <3>1. a \in 1..(Len(l) + 1) /\ Len(l) \in 0..Len(l) /\ a =< Len(l) + 1
          /\ 2 \in 1..(Len(l) - a + 2) /\ Len(s) \in 0..(Len(l) - a + 1)
      BY <1>0, <1>1
    <3>2. SubSeq(SubSeq(l, a, Len(l)), 2, Len(s)) =
            SubSeq(l, a + 2 - 1, a + Len(s) - 1)
      BY <3>1, CutTwice
    <3>3. a + 2 - 1 = a + 1 /\ a + Len(s) - 1 = Len(l)
      BY <1>0, <1>1
    <3> QED
      BY <1>1, <3>2, <3>3
  <2>6. SectionName(s) = Trim(SubSeq(l, a + 1, e - 1))
    <3>1. e - 1 = Len(l)
      BY <1>0
    <3> QED
      BY <1>2, <2>4, <2>5, <3>1 DEF SectionName
  <2>7. e \in (a + 1)..(Len(l) + 1)
    BY <1>0
  <2> QED
    BY <2>3, <2>6, <2>7 DEF s
<1>3. CASE Where(s, {"]"}) # {}
  <2> DEFINE w == Least(Where(s, {"]"}))
             e == a + w - 1
  <2>1. w \in 1..Len(s) /\ s[w] = "]" /\ \A i \in 1..(w - 1) : s[i] # "]"
    BY <1>1, <1>3, FirstOf
  <2>2. SectionName(s) = Trim(SubSeq(s, 2, w - 1))
    BY <1>3 DEF SectionName
  <2> HIDE DEF w
  <2>3. w > 1
    <3>1. w # 1
      BY <1>1, <2>1
    <3> QED
      BY <1>0, <1>1, <2>1, <3>1
  <2>4. e \in (a + 1)..Len(l) /\ l[e] = "]"
    BY <1>0, <1>1, <2>1, <2>3
  <2>5. ASSUME NEW i \in (a + 1)..(e - 1) PROVE l[i] # "]"
    <3>1. i - a + 1 \in 1..(Len(l) - a + 1) /\ a + (i - a + 1) - 1 = i
          /\ i - a + 1 \in 1..(w - 1)
      BY <1>0, <1>1, <2>1
    <3> QED
      BY <1>1, <2>1, <3>1
  <2>6. ClosesAt(l, a, e)
    BY <2>4, <2>5 DEF ClosesAt
  <2>7. SubSeq(s, 2, w - 1) = SubSeq(l, a + 1, e - 1)
    <3>1. a \in 1..(Len(l) + 1) /\ Len(l) \in 0..Len(l) /\ a =< Len(l) + 1
          /\ 2 \in 1..(Len(l) - a + 2) /\ w - 1 \in 0..(Len(l) - a + 1)
      BY <1>0, <1>1, <2>1, <2>3
    <3>2. SubSeq(SubSeq(l, a, Len(l)), 2, w - 1) =
            SubSeq(l, a + 2 - 1, a + (w - 1) - 1)
      BY <3>1, CutTwice
    <3>3. a + 2 - 1 = a + 1 /\ a + (w - 1) - 1 = e - 1
      BY <1>0, <1>1, <2>1
    <3> QED
      BY <1>1, <3>2, <3>3
  <2>8. e \in (a + 1)..(Len(l) + 1)
    BY <1>0, <2>4
  <2> QED
    BY <2>2, <2>6, <2>7, <2>8 DEF s
<1> QED
  BY <1>2, <1>3

\* A line that begins with a bracket has a name, or is nothing.
LEMMA SectionLine ==
  ASSUME NEW l \in Text, NEW a \in 1..Len(l), FirstInk(l, a), l[a] = "["
  PROVE  IsNothing(l) \/ \E name \in Text : IsName(l, name)
<1>0. Len(l) \in Nat
  BY TextLen
<1>1. PICK e \in (a + 1)..(Len(l) + 1) :
        /\ ClosesAt(l, a, e)
        /\ SectionName(TrimLeft(l)) = Trim(SubSeq(l, a + 1, e - 1))
  BY NameFound
<1> DEFINE t == SubSeq(l, a + 1, e - 1)
<1>2. t \in Text /\ Len(t) = e - 1 - a
      /\ \A i \in 1..(e - 1 - a) : t[i] = l[a + i]
  <2>1. a + 1 \in 1..(Len(l) + 1) /\ e - 1 \in 0..Len(l)
    BY <1>0
  <2>2. /\ t \in Text
        /\ Len(t) = IF a + 1 =< e - 1 THEN (e - 1) - (a + 1) + 1 ELSE 0
        /\ \A i \in 1..((e - 1) - (a + 1) + 1) : t[i] = l[(a + 1) + i - 1]
    BY <2>1, Cut
  <2> HIDE DEF t
  <2>3. (e - 1) - (a + 1) + 1 = e - 1 - a /\ e - 1 - a \in Nat
    BY <1>0
  <2>4. \A i \in 1..(e - 1 - a) : (a + 1) + i - 1 = a + i
    BY <1>0
  <2> QED
    BY <1>0, <2>2, <2>3, <2>4
<1>3. Pairs(l) = {}
  <2>1. \A i \in 1..Len(l) : FirstInk(l, i) => l[i] = "["
    BY FirstInkOnce
  <2> QED
    BY <2>1, NoPair
<1>4. TrimLeft(l) # <<>> /\ TrimLeft(l)[1] = "["
  BY Started
<1>5. ~IsComment(l)
  BY <1>4 DEF IsComment
<1>6. \A acc : LoadLine(acc, l) = IF Trim(t) = <<>> THEN acc
                                  ELSE [acc EXCEPT !.section = Trim(t)]
  BY <1>1, <1>4, <1>5 DEF LoadLine
<1> HIDE DEF t
\* Whatever section the definition finds in l, it is in t.
<1>7. ASSUME NEW aa \in 1..Len(l), NEW b \in 1..Len(l), NEW c \in 1..Len(l),
             IsSection(l, aa, b, c)
      PROVE  /\ aa = a /\ b - a \in 1..Len(t) /\ c - a \in 1..Len(t)
             /\ Core(t, b - a, c - a)
  <2>1. /\ FirstInk(l, aa) /\ l[aa] = "["
        /\ aa < b /\ b =< c
        /\ l[b] # Space /\ \A i \in (aa + 1)..(b - 1) : l[i] = Space
        /\ l[c] # Space
    BY <1>7, SectionPlaces
  <2>2. PICK f \in (c + 1)..(Len(l) + 1) :
          ClosesAt(l, aa, f) /\ \A i \in (c + 1)..(f - 1) : l[i] = Space
    BY <1>7, SectionPlaces
  <2>3. aa = a
    BY <2>1, FirstInkOnce
  <2>4. f \in (a + 1)..(Len(l) + 1)
    BY <1>0, <2>1, <2>2, <2>3
  <2>5. f = e
    BY <1>1, <2>2, <2>3, <2>4, ClosesOnce
  <2>6. b - a \in 1..Len(t) /\ c - a \in 1..Len(t) /\ b - a =< c - a
    BY <1>0, <1>2, <2>1, <2>2, <2>3, <2>5
  <2>7. t[b - a] = l[b] /\ t[c - a] = l[c]
    <3>1. a + (b - a) = b /\ a + (c - a) = c
      BY <1>0
    <3> QED
      BY <1>2, <2>6, <3>1
  <2>8. ASSUME NEW i \in 1..(b - a - 1) PROVE t[i] = Space
    <3>1. i \in 1..(e - 1 - a) /\ a + i \in (a + 1)..(b - 1)
      BY <1>0, <1>2, <2>6
    <3> QED
      BY <1>2, <2>1, <2>3, <3>1
  <2>9. ASSUME NEW i \in (c - a + 1)..Len(t) PROVE t[i] = Space
    <3>1. i \in 1..(e - 1 - a) /\ a + i \in (c + 1)..(e - 1)
      BY <1>0, <1>2, <2>6
    <3> QED
      BY <1>2, <2>2, <2>5, <3>1
  <2> QED
    BY <2>1, <2>3, <2>6, <2>7, <2>8, <2>9 DEF Core, Solid, Blank
<1>8. CASE \A i \in 1..Len(t) : t[i] = Space
  <2>1. Trim(t) = <<>>
    <3>1. \A x, y \in 1..Len(t) : ~Core(t, x, y)
      BY <1>8 DEF Core, Solid
    <3> QED
      BY <1>2, <3>1, TrimIs
  <2>2. Sections(l) = {}
    <3> SUFFICES ASSUME NEW x \in Sections(l) PROVE FALSE
      OBVIOUS
    <3>1. PICK aa, b, c \in 1..Len(l) : IsSection(l, aa, b, c)
      BY SectionsIn
    <3>2. b - a \in 1..Len(t) /\ Core(t, b - a, c - a)
      BY <1>7, <3>1
    <3> QED
      BY <1>8, <3>2 DEF Core, Solid
  <2> QED
    BY <1>3, <1>6, <2>1, <2>2 DEF IsNothing
<1>9. CASE ~(\A i \in 1..Len(t) : t[i] = Space)
  <2>1. PICK x, y \in 1..Len(t) : Core(t, x, y) /\ Trim(t) = SubSeq(t, x, y)
    BY <1>2, <1>9, TrimIs
  <2>2. /\ x =< y /\ t[x] # Space /\ t[y] # Space
        /\ (\A i \in 1..(x - 1) : t[i] = Space)
        /\ \A i \in (y + 1)..Len(t) : t[i] = Space
    BY <2>1 DEF Core, Solid, Blank
  <2> DEFINE name == SubSeq(l, a + x, a + y)
  <2>3. a + x \in 1..Len(l) /\ a + y \in 1..Len(l)
    BY <1>0, <1>2
  <2>4. Trim(t) = name
    <3>1. a + 1 \in 1..(Len(l) + 1) /\ e - 1 \in 0..Len(l) /\ a + 1 =< (e - 1) + 1
          /\ x \in 1..((e - 1) - (a + 1) + 2) /\ y \in 0..((e - 1) - (a + 1) + 1)
      BY <1>0, <1>2
    <3>2. SubSeq(SubSeq(l, a + 1, e - 1), x, y) =
            SubSeq(l, (a + 1) + x - 1, (a + 1) + y - 1)
      BY <3>1, CutTwice
    <3>3. (a + 1) + x - 1 = a + x /\ (a + 1) + y - 1 = a + y
      BY <1>0, <1>2
    <3> QED
      BY <2>1, <3>2, <3>3 DEF t
  <2>5. name \in Text /\ name # <<>>
    <3>1. a + x \in 1..(Len(l) + 1) /\ a + y \in 0..Len(l) /\ a + x =< a + y
      BY <1>0, <1>2, <2>2, <2>3
    <3>2. name \in Text /\ Len(name) = (a + y) - (a + x) + 1
      BY <3>1, Cut
    <3>3. Len(name) # 0
      BY <1>0, <1>2, <2>2, <3>2
    <3> QED
      BY <3>2, <3>3, TextLen
  <2>6. IsSection(l, a, a + x, a + y)
    <3>1. a < a + x /\ a + x =< a + y /\ e \in ((a + y) + 1)..(Len(l) + 1)
      BY <1>0, <1>2, <2>2
    <3>2. l[a + x] # Space /\ l[a + y] # Space
      BY <1>2, <2>2
    <3>3. ASSUME NEW i \in (a + 1)..(a + x - 1) PROVE l[i] = Space
      <4>1. i - a \in 1..(x - 1) /\ i - a \in 1..(e - 1 - a) /\ a + (i - a) = i
        BY <1>0, <1>2
      <4> QED
        BY <1>2, <2>2, <4>1
    <3>4. ASSUME NEW i \in (a + y + 1)..(e - 1) PROVE l[i] = Space
      <4>1. i - a \in (y + 1)..Len(t) /\ i - a \in 1..(e - 1 - a) /\ a + (i - a) = i
        BY <1>0, <1>2
      <4> QED
        BY <1>2, <2>2, <4>1
    <3> QED
      BY <1>1, <2>3, <3>1, <3>2, <3>3, <3>4, SectionAt
  <2>7. name \in Sections(l)
    BY <2>3, <2>6, SectionsIn
  <2>8. ASSUME NEW z \in Sections(l) PROVE z = name
    <3>1. PICK aa, b, c \in 1..Len(l) : IsSection(l, aa, b, c) /\ z = SubSeq(l, b, c)
      BY SectionsIn
    <3>2. b - a \in 1..Len(t) /\ c - a \in 1..Len(t) /\ Core(t, b - a, c - a)
      BY <1>7, <3>1
    <3>3. /\ b - a =< c - a /\ t[b - a] # Space /\ t[c - a] # Space
          /\ (\A i \in 1..((b - a) - 1) : t[i] = Space)
          /\ \A i \in ((c - a) + 1)..Len(t) : t[i] = Space
      BY <3>2 DEF Core, Solid, Blank
    <3>4. ~(b - a < x) /\ ~(x < b - a) /\ ~(c - a < y) /\ ~(y < c - a)
      BY <1>0, <1>2, <2>2, <3>2, <3>3
    <3>5. b = a + x /\ c = a + y
      BY <1>0, <1>2, <3>2, <3>4
    <3> QED
      BY <3>1, <3>5
  <2>9. Sections(l) = {name}
    BY <2>7, <2>8
  <2> HIDE DEF name
  <2>10. IsName(l, name)
    BY <1>3, <1>6, <2>4, <2>5, <2>9 DEF IsName
  <2> QED
    BY <2>5, <2>10
<1> QED
  BY <1>8, <1>9

\* There is an equals sign at e and none before.
FirstSign(l, e) == l[e] = "=" /\ \A i \in 1..(e - 1) : l[i] # "="

LEMMA FirstSignOnce ==
  ASSUME NEW l \in Text, NEW e \in 1..Len(l), NEW f \in 1..Len(l),
         FirstSign(l, e), FirstSign(l, f)
  PROVE  e = f
<1>1. Len(l) \in Nat
  BY TextLen
<1>2. ~(e < f) /\ ~(f < e)
  BY <1>1 DEF FirstSign
<1> QED
  BY <1>1, <1>2

\* The sign of a line without leading space, if it has one.
LEMMA SignIs ==
  ASSUME NEW s \in Text
  PROVE  /\ Where(s, {"="}) = {} => \A i \in 1..Len(s) : s[i] # "="
         /\ Where(s, {"="}) # {} =>
              /\ Sign(s) \in 1..Len(s) /\ s[Sign(s)] = "="
              /\ \A i \in 1..(Sign(s) - 1) : s[i] # "="
BY FirstOf DEF Sign

\* Any other line has a key and a value, or is nothing.
LEMMA PairLine ==
  ASSUME NEW l \in Text, NEW a \in 1..Len(l), FirstInk(l, a),
         l[a] \notin {"#", "["}
  PROVE  IsNothing(l) \/ \E k, v \in Text : IsKeyAndValue(l, k, v)
<1> DEFINE s == TrimLeft(l)
<1>0. Len(l) \in Nat
  BY TextLen
<1>1. /\ s = SubSeq(l, a, Len(l))
      /\ s \in Text /\ Len(s) = Len(l) - a + 1 /\ s # <<>> /\ s[1] = l[a]
      /\ \A k \in 1..(Len(l) - a + 1) : s[k] = l[a + k - 1]
  BY Started
<1>2. Sections(l) = {}
  <2>1. \A i \in 1..Len(l) : FirstInk(l, i) => l[i] # "["
    BY FirstInkOnce
  <2> QED
    BY <2>1, NoSection
<1>3. ~IsComment(l)
  BY <1>1 DEF IsComment
<1>4. \A acc : LoadLine(acc, l) =
        IF \/ acc.section = <<>>
           \/ Where(s, {"="}) = {}
           \/ KeyOf(s) = <<>>
           \/ ValueOf(s) = <<>>
        THEN acc
        ELSE [acc EXCEPT !.map = Put(@, acc.section, KeyOf(s), ValueOf(s))]
  BY <1>1, <1>3 DEF LoadLine
<1> HIDE DEF s
<1>5. CASE Where(s, {"="}) = {}
  <2>1. \A i \in 1..Len(s) : s[i] # "="
    BY <1>1, <1>5, SignIs
  <2>2. Pairs(l) = {}
    <3> SUFFICES ASSUME NEW x \in Pairs(l) PROVE FALSE
      OBVIOUS
    <3>1. PICK aa, b, e, c, d \in 1..Len(l) : IsPair(l, aa, b, e, c, d)
      BY PairsIn
    <3>2. PairShape(l, aa, b, e, c, d)
      BY <3>1, PairPlaces
    <3>3. aa = a
      BY <3>2, FirstInkOnce DEF PairShape
    <3>4. l[e] = "=" /\ a < e
      BY <1>0, <3>2, <3>3 DEF PairShape
    <3>5. e - a + 1 \in 1..(Len(l) - a + 1) /\ a + (e - a + 1) - 1 = e
      BY <1>0, <3>4
    <3> QED
      BY <1>1, <2>1, <3>4, <3>5
  <2>3. \A acc \in State : LoadLine(acc, l) = acc
    BY <1>4, <1>5
  <2> QED
    BY <1>2, <2>2, <2>3 DEF IsNothing
<1>6. CASE Where(s, {"="}) # {}
  <2> DEFINE w == Sign(s)
             e == a + w - 1
  <2>1. w \in 1..Len(s) /\ s[w] = "=" /\ \A i \in 1..(w - 1) : s[i] # "="
    BY <1>1, <1>6, SignIs
  <2>2. KeyOf(s) = TrimRight(SubSeq(s, 1, w - 1))
        /\ ValueOf(s) = Trim(SubSeq(s, w + 1, Len(s)))
    BY DEF KeyOf, ValueOf
  <2> HIDE DEF w
  <2>3. e \in a..Len(l) /\ e \in 1..Len(l) /\ l[e] = "="
    BY <1>0, <1>1, <2>1
  <2>4. ASSUME NEW i \in 1..(e - 1) PROVE l[i] # "="
    <3>1. CASE i < a
      <4>1. i \in 1..(a - 1)
        BY <1>0, <3>1
      <4> QED
        BY <4>1 DEF FirstInk, Space
    <3>2. CASE i >= a
      <4>1. i - a + 1 \in 1..(Len(l) - a + 1) /\ a + (i - a + 1) - 1 = i
            /\ i - a + 1 \in 1..(w - 1)
        BY <1>0, <1>1, <2>1, <3>2
      <4> QED
        BY <1>1, <2>1, <4>1
    <3> QED
      BY <1>0, <3>1, <3>2
  <2>5. FirstSign(l, e)
    BY <2>3, <2>4 DEF FirstSign
  <2>6. CASE w = 1
    <3>1. SubSeq(s, 1, w - 1) = <<>>
      BY <2>6, SubSeqEmpty
    <3>2. KeyOf(s) = <<>>
      BY <2>2, <3>1 DEF TrimRight
    <3>3. Pairs(l) = {}
      <4> SUFFICES ASSUME NEW x \in Pairs(l) PROVE FALSE
        OBVIOUS
      <4>1. PICK aa, b, ee, c, d \in 1..Len(l) : IsPair(l, aa, b, ee, c, d)
        BY PairsIn
      <4>2. PairShape(l, aa, b, ee, c, d)
        BY <4>1, PairPlaces
      <4>3. aa = a
        BY <4>2, FirstInkOnce DEF PairShape
      <4>4. FirstSign(l, ee)
        BY <4>2 DEF PairShape, FirstSign
      <4>5. ee = e
        BY <2>3, <2>5, <4>4, FirstSignOnce
      <4> QED
        BY <1>0, <2>6, <4>2, <4>3, <4>5 DEF PairShape
    <3>4. \A acc \in State : LoadLine(acc, l) = acc
      BY <1>4, <3>2
    <3> QED
      BY <1>2, <3>3, <3>4 DEF IsNothing
  <2>7. CASE w # 1
    <3> DEFINE u == SubSeq(s, 1, w - 1)
               t == SubSeq(s, w + 1, Len(s))
    <3>1. u \in Text /\ Len(u) = w - 1 /\ u[1] = l[a]
          /\ \A i \in 1..(w - 1) : u[i] = s[i]
      <4>1. 1 \in 1..(Len(s) + 1) /\ w - 1 \in 0..Len(s) /\ 1 =< w - 1
        BY <1>0, <1>1, <2>1, <2>7
      <4>2. u \in Text /\ Len(u) = (w - 1) - 1 + 1
            /\ \A i \in 1..((w - 1) - 1 + 1) : u[i] = s[1 + i - 1]
        BY <1>1, <4>1, Cut
      <4> HIDE DEF u
      <4>3. (w - 1) - 1 + 1 = w - 1 /\ \A i \in 1..(w - 1) : 1 + i - 1 = i
        BY <1>0, <1>1, <2>1
      <4>4. \A i \in 1..(w - 1) : u[i] = s[i]
        BY <4>2, <4>3
      <4>5. 1 \in 1..(w - 1)
        BY <4>1
      <4> QED
        BY <1>1, <4>2, <4>3, <4>4, <4>5
    <3>2. t \in Text /\ Len(t) = Len(l) - e
          /\ \A i \in 1..(Len(l) - e) : t[i] = l[e + i]
      <4>1. w + 1 \in 1..(Len(s) + 1) /\ Len(s) \in 0..Len(s)
        BY <1>0, <1>1, <2>1
      <4>2. t \in Text
            /\ Len(t) = (IF w + 1 =< Len(s) THEN Len(s) - (w + 1) + 1 ELSE 0)
            /\ \A i \in 1..(Len(s) - (w + 1) + 1) : t[i] = s[(w + 1) + i - 1]
        BY <1>1, <4>1, Cut
      <4> HIDE DEF t
      <4>3. Len(s) - (w + 1) + 1 = Len(l) - e /\ Len(l) - e \in Nat
        BY <1>0, <1>1, <2>1
      <4>4. ASSUME NEW i \in 1..(Len(l) - e) PROVE t[i] = l[e + i]
        <5>1. i \in 1..(Len(s) - (w + 1) + 1)
              /\ (w + 1) + i - 1 \in 1..(Len(l) - a + 1)
              /\ a + ((w + 1) + i - 1) - 1 = e + i
          BY <1>0, <1>1, <2>1
        <5> QED
          BY <1>1, <4>2, <5>1
      <4>5. Len(t) = Len(l) - e
        <5>1. ~(w + 1 =< Len(s)) => Len(l) - e = 0
          BY <1>0, <1>1, <2>1
        <5> QED
          BY <4>2, <4>3, <5>1
      <4> QED
        BY <4>2, <4>4, <4>5
    <3>3. u # <<>> /\ u[1] # Space
      BY <1>0, <2>1, <2>7, <3>1, TextLen DEF FirstInk
    <3> HIDE DEF u
    <3>4. PICK x \in 1..Len(u) : /\ TrimRight(u) = SubSeq(u, 1, x)
                                 /\ u[x] # Space
                                 /\ \A i \in (x + 1)..Len(u) : u[i] = Space
      BY <3>1, <3>3, RightIs
    <3> DEFINE b == a + x - 1
               key == SubSeq(l, a, b)
    <3>5. b \in a..(e - 1) /\ b \in 1..Len(l) /\ l[b] # Space
          /\ \A i \in (b + 1)..(e - 1) : l[i] = Space
      <4>1. x \in 1..(w - 1) /\ x \in 1..(Len(l) - a + 1)
        BY <1>0, <1>1, <2>1, <3>1
      <4>2. u[x] = l[a + x - 1]
        BY <1>1, <3>1, <4>1
      <4>3. ASSUME NEW i \in (b + 1)..(e - 1) PROVE l[i] = Space
        <5>1. PICK h \in Int : h = i - a + 1
          OBVIOUS
        <5>2. h \in (x + 1)..Len(u) /\ h \in 1..(w - 1)
              /\ h \in 1..(Len(l) - a + 1) /\ a + h - 1 = i
          BY <1>0, <1>1, <2>1, <3>1, <4>1, <5>1
        <5>3. u[h] = Space
          BY <3>4, <5>2
        <5>4. u[h] = s[h]
          BY <3>1, <5>2
        <5>5. s[h] = l[i]
          BY <1>1, <5>2
        <5> QED
          BY <5>3, <5>4, <5>5
      <4> QED
        BY <1>0, <1>1, <2>1, <3>4, <4>1, <4>2, <4>3
    <3>6. KeyOf(s) = key
      <4>1. SubSeq(u, 1, x) = SubSeq(s, 1, x)
        <5>1. 1 \in 1..(Len(s) + 1) /\ w - 1 \in 0..Len(s) /\ 1 =< (w - 1) + 1
              /\ 1 \in 1..((w - 1) - 1 + 2) /\ x \in 0..((w - 1) - 1 + 1)
          BY <1>0, <1>1, <2>1, <3>1
        <5>2. SubSeq(SubSeq(s, 1, w - 1), 1, x) = SubSeq(s, 1 + 1 - 1, 1 + x - 1)
          BY <1>1, <5>1, CutTwice
        <5>3. 1 + 1 - 1 = 1 /\ 1 + x - 1 = x
          BY <3>1
        <5> QED
          BY <5>2, <5>3 DEF u
      <4>2. SubSeq(s, 1, x) = key
        <5>1. a \in 1..(Len(l) + 1) /\ Len(l) \in 0..Len(l) /\ a =< Len(l) + 1
              /\ 1 \in 1..(Len(l) - a + 2) /\ x \in 0..(Len(l) - a + 1)
          BY <1>0, <1>1, <2>1, <3>1
        <5>2. SubSeq(SubSeq(l, a, Len(l)), 1, x) = SubSeq(l, a + 1 - 1, a + x - 1)
          BY <5>1, CutTwice
        <5>3. a + 1 - 1 = a
          BY <1>0
        <5> QED
          BY <1>1, <5>2, <5>3
      <4> QED
        BY <2>2, <3>4, <4>1, <4>2 DEF u
    <3>7. key \in Text /\ key # <<>>
      <4>1. a \in 1..(Len(l) + 1) /\ b \in 0..Len(l) /\ a =< b
        BY <1>0, <3>5
      <4>2. key \in Text /\ Len(key) = b - a + 1
        BY <4>1, Cut
      <4>3. Len(key) # 0
        BY <1>0, <3>5, <4>2
      <4> QED
        BY <4>2, <4>3, TextLen
    <3> HIDE DEF key, t
    <3>8. CASE \A i \in 1..Len(t) : t[i] = Space
      <4>1. ValueOf(s) = <<>>
        <5>1. \A y, z \in 1..Len(t) : ~Core(t, y, z)
          BY <3>8 DEF Core, Solid
        <5>2. Trim(t) = <<>>
          BY <3>2, <5>1, TrimIs
        <5> QED
          BY <2>2, <5>2 DEF t
      <4>2. Pairs(l) = {}
        <5> SUFFICES ASSUME NEW z \in Pairs(l) PROVE FALSE
          OBVIOUS
        <5>1. PICK aa, bb, ee, c, d \in 1..Len(l) : IsPair(l, aa, bb, ee, c, d)
          BY PairsIn
        <5>2. PairShape(l, aa, bb, ee, c, d)
          BY <5>1, PairPlaces
        <5>3. ee = e
          <6>1. FirstSign(l, ee)
            BY <5>2 DEF PairShape, FirstSign
          <6> QED
            BY <2>3, <2>5, <6>1, FirstSignOnce
        <5>4. e < c /\ l[c] # Space
          BY <5>2, <5>3 DEF PairShape
        <5>5. c - e \in 1..(Len(l) - e) /\ e + (c - e) = c /\ c - e \in 1..Len(t)
          BY <1>0, <1>1, <2>1, <2>3, <3>2, <5>4
        <5> QED
          BY <3>2, <3>8, <5>4, <5>5
      <4>3. \A acc \in State : LoadLine(acc, l) = acc
        BY <1>4, <4>1
      <4> QED
        BY <1>2, <4>2, <4>3 DEF IsNothing
    <3>9. CASE ~(\A i \in 1..Len(t) : t[i] = Space)
      <4>1. PICK y, z \in 1..Len(t) : Core(t, y, z) /\ Trim(t) = SubSeq(t, y, z)
        BY <3>2, <3>9, TrimIs
      <4>2. /\ y =< z /\ t[y] # Space /\ t[z] # Space
            /\ (\A i \in 1..(y - 1) : t[i] = Space)
            /\ \A i \in (z + 1)..Len(t) : t[i] = Space
        BY <4>1 DEF Core, Solid, Blank
      <4> DEFINE c == e + y
                 d == e + z
                 value == SubSeq(l, c, d)
      <4> HIDE DEF e, value
      <4>3. c \in 1..Len(l) /\ d \in 1..Len(l) /\ e < c /\ c =< d
        <5>1. /\ y \in 1..(Len(l) - e) /\ z \in 1..(Len(l) - e) /\ y =< z
              /\ e \in 1..Len(l)
          BY <2>3, <3>2, <4>2
        <5> QED
          BY <1>0, <5>1
      <4>4. ValueOf(s) = value
        <5>1. SubSeq(s, w + 1, Len(s)) = SubSeq(l, e + 1, Len(l))
          <6>1. a \in 1..(Len(l) + 1) /\ Len(l) \in 0..Len(l) /\ a =< Len(l) + 1
                /\ w + 1 \in 1..(Len(l) - a + 2) /\ Len(s) \in 0..(Len(l) - a + 1)
            BY <1>0, <1>1, <2>1
          <6>2. SubSeq(SubSeq(l, a, Len(l)), w + 1, Len(s)) =
                  SubSeq(l, a + (w + 1) - 1, a + Len(s) - 1)
            BY <6>1, CutTwice
          <6>3. a + (w + 1) - 1 = e + 1 /\ a + Len(s) - 1 = Len(l)
            BY <1>0, <1>1, <2>1 DEF e
          <6> QED
            BY <1>1, <6>2, <6>3
        <5>2. e + 1 \in 1..(Len(l) + 1) /\ Len(l) \in 0..Len(l) /\ e + 1 =< Len(l) + 1
              /\ y \in 1..(Len(l) - (e + 1) + 2) /\ z \in 0..(Len(l) - (e + 1) + 1)
          <6>1. /\ y \in 1..(Len(l) - e) /\ z \in 1..(Len(l) - e)
                /\ e \in 1..Len(l)
            BY <2>3, <3>2
          <6> QED
            BY <1>0, <6>1
        <5>3. SubSeq(SubSeq(l, e + 1, Len(l)), y, z) =
                SubSeq(l, (e + 1) + y - 1, (e + 1) + z - 1)
          BY <5>2, CutTwice
        <5>4. (e + 1) + y - 1 = c /\ (e + 1) + z - 1 = d
          BY <1>0, <2>3, <3>2
        <5> QED
          BY <2>2, <4>1, <5>1, <5>3, <5>4 DEF t, value
      <4>5. value \in Text /\ value # <<>>
        <5>1. c \in 1..(Len(l) + 1) /\ d \in 0..Len(l)
          BY <1>0, <4>3
        <5>2. value \in Text /\ Len(value) = d - c + 1
          BY <4>3, <5>1, Cut DEF value
        <5>3. Len(value) # 0
          BY <1>0, <4>3, <5>2
        <5> QED
          BY <5>2, <5>3, TextLen
      <4>6. IsPair(l, a, b, e, c, d)
        <5>1. l[c] # Space /\ l[d] # Space
          BY <3>2, <4>2
        <5>2. ASSUME NEW i \in (e + 1)..(c - 1) PROVE l[i] = Space
          <6>1. i - e \in 1..(y - 1) /\ i - e \in 1..(Len(l) - e) /\ e + (i - e) = i
            BY <1>0, <1>1, <2>1, <2>3, <3>2
          <6> QED
            BY <3>2, <4>2, <6>1
        <5>3. ASSUME NEW i \in (d + 1)..Len(l) PROVE l[i] = Space
          <6>1. i - e \in (z + 1)..Len(t) /\ i - e \in 1..(Len(l) - e) /\ e + (i - e) = i
            BY <1>0, <1>1, <2>1, <2>3, <3>2
          <6> QED
            BY <3>2, <4>2, <6>1
        <5>4. a =< b /\ b < e
          BY <1>0, <2>3, <3>5
        <5> HIDE DEF b, c, d, e
        <5>5. PairShape(l, a, b, e, c, d)
          BY <2>3, <2>4, <3>5, <4>3, <5>1, <5>2, <5>3, <5>4 DEF PairShape
        <5> QED
          BY <2>3, <3>5, <4>3, <5>5, PairAt
      <4>7. <<key, value>> \in Pairs(l)
        <5> HIDE DEF b, c, d, e
        <5> QED
          BY <2>3, <3>5, <4>3, <4>6, PairsIn DEF key, value
      <4>8. ASSUME NEW q \in Pairs(l) PROVE q = <<key, value>>
        BY <4>7, PairOnce
      <4>9. Pairs(l) = {<<key, value>>}
        BY <4>7, <4>8
      <4> HIDE DEF value
      <4>10. IsKeyAndValue(l, key, value)
        BY <1>2, <1>4, <1>6, <3>6, <3>7, <4>4, <4>5, <4>9 DEF IsKeyAndValue
      <4> QED
        BY <3>7, <4>5, <4>10
    <3> QED
      BY <3>8, <3>9
  <2> QED
    BY <2>6, <2>7
<1> QED
  BY <1>5, <1>6

\* Every line is to the loop what it is to the definition.
LEMMA EveryLine ==
  ASSUME NEW l \in Text
  PROVE  LineIs(l)
<1>1. CASE Inked(l) = {}
  BY <1>1, BlankLine DEF LineIs
<1>2. CASE Inked(l) # {}
  <2>1. PICK a \in 1..Len(l) : FirstInk(l, a)
    BY <1>2, LeftIs DEF FirstInk
  <2> QED
    BY <2>1, CommentLine, SectionLine, PairLine DEF LineIs
<1> QED
  BY <1>1, <1>2
-----------------------------------------------------------------------------
(* The loop over the lines of a file.                                      *)

File == Seq(Text)

\* The lines of a file.
LEMMA FileLines ==
  ASSUME NEW file \in File
  PROVE  /\ Len(file) \in Nat
         /\ \A i \in 1..Len(file) : file[i] \in Text
BY LenProperties, ElementOfSeq DEF File

\* What it means to be a map of settings.
LEMMA MapIs ==
  ASSUME NEW m
  PROVE  m \in Map <=> /\ m = [p \in DOMAIN m |-> m[p]]
                       /\ DOMAIN m \subseteq Text \X Text
                       /\ IsFiniteSet(DOMAIN m)
                       /\ \A p \in DOMAIN m : m[p] \in Text
<1>1. ASSUME m \in Map
      PROVE  /\ m = [p \in DOMAIN m |-> m[p]]
             /\ DOMAIN m \subseteq Text \X Text
             /\ IsFiniteSet(DOMAIN m)
             /\ \A p \in DOMAIN m : m[p] \in Text
  <2>1. PICK D \in SUBSET (Text \X Text) : m \in [D -> Text]
    BY <1>1 DEF Map
  <2>2. IsFiniteSet(DOMAIN m)
    BY <1>1 DEF Map
  <2> QED
    BY <2>1, <2>2
<1>2. ASSUME m = [p \in DOMAIN m |-> m[p]],
             DOMAIN m \subseteq Text \X Text,
             IsFiniteSet(DOMAIN m),
             \A p \in DOMAIN m : m[p] \in Text
      PROVE  m \in Map
  <2>1. m \in [DOMAIN m -> Text]
    BY <1>2
  <2>2. m \in UNION {[D -> Text] : D \in SUBSET (Text \X Text)}
    BY <1>2, <2>1
  <2> QED
    BY <1>2, <2>2 DEF Map
<1> QED
  BY <1>1, <1>2

\* f is m but for the value v of q.
IsPut(f, m, q, v) ==
  /\ DOMAIN f = DOMAIN m \cup {q}
  /\ f[q] = v
  /\ \A p \in DOMAIN m : p # q => f[p] = m[p]

\* What operator[] and the assignment make of a map.
LEMMA PutIs ==
  ASSUME NEW m \in Map, NEW s \in Text, NEW k \in Text, NEW v \in Text
  PROVE  /\ Put(m, s, k, v) \in Map
         /\ IsPut(Put(m, s, k, v), m, <<s, k>>, v)
<1> DEFINE q == <<s, k>>
           f == Put(m, s, k, v)
<1>1. DOMAIN m \subseteq Text \X Text /\ IsFiniteSet(DOMAIN m)
      /\ \A p \in DOMAIN m : m[p] \in Text
  BY MapIs
<1>2. f = [p \in DOMAIN m \cup {q} |-> IF p = q THEN v ELSE m[p]]
  BY DEF Put
<1>3. q \in Text \X Text
  OBVIOUS
<1>4. IsFiniteSet(DOMAIN m \cup {q})
  BY <1>1, FS_AddElement
<1> HIDE DEF q, f
<1>5. DOMAIN f = DOMAIN m \cup {q} /\ f[q] = v
      /\ \A p \in DOMAIN m : p # q => f[p] = m[p]
  BY <1>2
<1>6. \A p \in DOMAIN f : f[p] \in Text
  BY <1>1, <1>5
<1>7. f = [p \in DOMAIN f |-> f[p]]
  BY <1>2
<1>8. f \in Map
  BY <1>1, <1>3, <1>4, <1>5, <1>6, <1>7, MapIs
<1> QED
  BY <1>5, <1>8 DEF q, f, IsPut

\* What clear() leaves.
LEMMA NoSettingsIs == NoSettings \in Map /\ DOMAIN NoSettings = {}
<1>1. DOMAIN NoSettings = {} /\ NoSettings = [p \in DOMAIN NoSettings |-> NoSettings[p]]
  BY DEF NoSettings
<1> QED
  BY <1>1, MapIs, FS_EmptySet

\* A turn of the loop keeps the types.
LEMMA LineKeepsState ==
  ASSUME NEW l \in Text, NEW acc \in State
  PROVE  LoadLine(acc, l) \in State
<1>0. LineIs(l)
  BY EveryLine
<1>1. CASE IsNothing(l)
  BY <1>1 DEF IsNothing
<1>2. CASE \E name \in Text : IsName(l, name)
  BY <1>2 DEF IsName, State
<1>3. CASE \E k, v \in Text : IsKeyAndValue(l, k, v)
  <2>1. PICK k, v \in Text : IsKeyAndValue(l, k, v)
    BY <1>3
  <2>2. acc.map \in Map /\ acc.section \in Text
    BY DEF State
  <2>3. Put(acc.map, acc.section, k, v) \in Map
    BY <2>2, PutIs
  <2> QED
    BY <2>1, <2>3 DEF IsKeyAndValue, State
<1> QED
  BY <1>0, <1>1, <1>2, <1>3 DEF LineIs

\* The loop makes its turns.
LEMMA TurnsAre ==
  ASSUME NEW lines \in File, NEW old
  PROVE  LET t == Turns(old, lines) IN
         /\ t[0] = [section |-> <<>>, map |-> NoSettings]
         /\ \A n \in 1..Len(lines) : t[n] = LoadLine(t[n - 1], lines[n])
         /\ \A n \in 0..Len(lines) : t[n] \in State
<1> DEFINE N == Len(lines)
           b == [section |-> <<>>, map |-> NoSettings]
           h == [n \in 1..N |-> [acc \in State |-> LoadLine(acc, lines[n])]]
           t == Turns(old, lines)
           Is(g) == g = [n \in 0..N |-> IF n = 0 THEN b
                                        ELSE LoadLine(g[n - 1], lines[n])]
<1>1. N \in Nat /\ \A i \in 1..N : lines[i] \in Text
  BY FileLines
<1>2. b \in State
  BY NoSettingsIs, TextLen, EmptySeq DEF State, Text
<1>3. h \in [1..N -> [State -> State]]
  BY <1>1, LineKeepsState
<1> HIDE DEF b
<1>a. PICK f : IsLoop(f, N, State, b, h)
  <2> HIDE DEF h, N
  <2> QED
    BY <1>1, <1>2, <1>3, Iterates
<1>4. f \in [0..N -> State] /\ f[0] = b /\ \A n \in 1..N : f[n] = h[n][f[n - 1]]
  <2> HIDE DEF h, N
  <2> QED
    BY <1>a DEF IsLoop
<1>5. \A n \in 1..N : f[n] = LoadLine(f[n - 1], lines[n])
  <2> SUFFICES ASSUME NEW n \in 1..N PROVE f[n] = LoadLine(f[n - 1], lines[n])
    OBVIOUS
  <2>1. n - 1 \in 0..N
    BY <1>1
  <2>2. f[n - 1] \in State
    BY <1>4, <2>1
  <2>3. h[n][f[n - 1]] = LoadLine(f[n - 1], lines[n])
    BY <2>2
  <2> QED
    BY <1>4, <2>3
<1>6. Is(f)
  <2>1. \A n \in 0..N : f[n] = IF n = 0 THEN b ELSE LoadLine(f[n - 1], lines[n])
    BY <1>1, <1>4, <1>5
  <2> QED
    BY <1>4, <2>1
<1>7. t = CHOOSE g : Is(g)
  BY DEF Turns, Cleared, b
<1>8. Is(t)
  <2> HIDE DEF Is, t
  <2> QED
    BY <1>6, <1>7
<1> HIDE DEF t
<1>9. t[0] = b /\ \A n \in 1..N : t[n] = LoadLine(t[n - 1], lines[n])
  <2>1. \A n \in 0..N : t[n] = IF n = 0 THEN b ELSE LoadLine(t[n - 1], lines[n])
    BY <1>8
  <2> QED
    BY <1>1, <2>1
<1>10. \A n \in 0..N : t[n] \in State
  <2> DEFINE P == {n \in 0..N : t[n] \in State}
  <2>1. 0 \in P
    BY <1>1, <1>2, <1>9
  <2>2. ASSUME NEW n \in 0..(N - 1), n \in P PROVE n + 1 \in P
    <3>1. n + 1 \in 1..N /\ (n + 1) - 1 = n /\ n + 1 \in 0..N
      BY <1>1
    <3>2. t[n + 1] = LoadLine(t[n], lines[n + 1])
      BY <1>9, <3>1
    <3>3. t[n + 1] \in State
      BY <1>1, <2>2, <3>1, <3>2, LineKeepsState
    <3> QED
      BY <3>1, <3>3
  <2> HIDE DEF P
  <2>3. \A n \in 0..N : n \in P
    <3> HIDE DEF N
    <3> QED
      BY <1>1, <2>1, <2>2, Climb
  <2> QED
    BY <2>3 DEF P
<1> QED
  BY <1>9, <1>10 DEF t, b
-----------------------------------------------------------------------------
(* What the loop has after n lines.                                        *)

\* The section that is open after n lines, <<>> before the first one.
OpenAfter(file, n, sec) ==
  IF sec = <<>> THEN \A h \in 1..n : Sections(file[h]) = {}
  ELSE \E i \in 1..n : /\ sec \in Sections(file[i])
                       /\ \A h \in (i + 1)..n : Sections(file[h]) = {}

\* A line has one section or one pair at most, none of them empty.
LEMMA LineParts ==
  ASSUME NEW l \in Text
  PROVE  /\ Sections(l) \subseteq Text \ {<<>>}
         /\ Pairs(l) \subseteq (Text \ {<<>>}) \X (Text \ {<<>>})
         /\ \A x, y \in Sections(l) : x = y
         /\ \A x, y \in Pairs(l) : x = y
BY EveryLine DEF LineIs, IsNothing, IsName, IsKeyAndValue

\* The loop's section is the one that is open.
LEMMA OpenIs ==
  ASSUME NEW file \in File, NEW old, NEW n \in 0..Len(file)
  PROVE  OpenAfter(file, n, Turns(old, file)[n].section)
<1> DEFINE N == Len(file)
           t == Turns(old, file)
           P == {i \in 0..N : OpenAfter(file, i, t[i].section)}
<1>1. N \in Nat /\ \A i \in 1..N : file[i] \in Text
  BY FileLines
<1>2. /\ t[0] = [section |-> <<>>, map |-> NoSettings]
      /\ \A i \in 1..N : t[i] = LoadLine(t[i - 1], file[i])
      /\ \A i \in 0..N : t[i] \in State
  BY TurnsAre
<1> HIDE DEF t, N
<1>3. 0 \in P
  BY <1>1, <1>2 DEF OpenAfter
<1>4. ASSUME NEW i \in 0..(N - 1), i \in P PROVE i + 1 \in P
  <2> DEFINE l == file[i + 1]
  <2>1. i + 1 \in 1..N /\ (i + 1) - 1 = i /\ i \in 0..N /\ i + 1 \in 0..N
    BY <1>1
  <2>2. t[i + 1] = LoadLine(t[i], l) /\ t[i] \in State /\ l \in Text
    BY <1>1, <1>2, <2>1
  <2>3. OpenAfter(file, i, t[i].section)
    BY <1>4
  <2>4. CASE \E name \in Text : IsName(l, name)
    <3>1. PICK name \in Text : IsName(l, name)
      BY <2>4
    <3>2. t[i + 1].section = name /\ name # <<>> /\ name \in Sections(l)
      <4>1. LoadLine(t[i], l) = [t[i] EXCEPT !.section = name]
        BY <2>2, <3>1 DEF IsName
      <4>2. [t[i] EXCEPT !.section = name].section = name
        BY <2>2 DEF State
      <4>3. name # <<>> /\ name \in Sections(l)
        BY <3>1 DEF IsName
      <4> QED
        BY <2>2, <4>1, <4>2, <4>3
    <3>3. \A h \in ((i + 1) + 1)..(i + 1) : Sections(file[h]) = {}
      BY <1>1
    <3>4. i + 1 \in 1..(i + 1)
      BY <1>1
    <3> QED
      BY <2>1, <3>2, <3>3, <3>4 DEF OpenAfter
  <2>5. CASE Sections(l) = {} /\ t[i + 1].section = t[i].section
    <3>1. CASE t[i].section = <<>>
      <4>1. \A h \in 1..i : Sections(file[h]) = {}
        BY <2>3, <3>1 DEF OpenAfter
      <4>2. \A h \in 1..(i + 1) : h \in 1..i \/ h = i + 1
        BY <1>1
      <4> QED
        BY <2>1, <2>5, <3>1, <4>1, <4>2 DEF OpenAfter
    <3>2. CASE t[i].section # <<>>
      <4>1. PICK j \in 1..i : /\ t[i].section \in Sections(file[j])
                              /\ \A h \in (j + 1)..i : Sections(file[h]) = {}
        BY <2>3, <3>2 DEF OpenAfter
      <4>2. \A h \in (j + 1)..(i + 1) : h \in (j + 1)..i \/ h = i + 1
        BY <1>1
      <4>3. \A h \in (j + 1)..(i + 1) : Sections(file[h]) = {}
        BY <2>5, <4>1, <4>2
      <4>4. j \in 1..(i + 1)
        BY <1>1
      <4> QED
        BY <2>1, <2>5, <3>2, <4>1, <4>3, <4>4 DEF OpenAfter
    <3> QED
      BY <3>1, <3>2
  <2>6. CASE IsNothing(l)
    BY <2>2, <2>5, <2>6 DEF IsNothing
  <2>7. CASE \E k, v \in Text : IsKeyAndValue(l, k, v)
    BY <2>2, <2>5, <2>7 DEF IsKeyAndValue, State
  <2> QED
    BY <2>2, <2>4, <2>6, <2>7, EveryLine DEF LineIs
<1> HIDE DEF P
<1>5. \A i \in 0..N : i \in P
  BY <1>1, <1>3, <1>4, Climb
<1>6. n \in P
  BY <1>5 DEF N
<1> QED
  BY <1>6 DEF P, t

\* A line gives what its pair says to the section that is open.
LEMMA GivesIs ==
  ASSUME NEW file \in File, NEW j \in 1..Len(file), NEW sec \in Text,
         OpenAfter(file, j - 1, sec), NEW p, NEW v
  PROVE  Gives(file, j, p, v) <=> /\ sec # <<>>
                                  /\ p[1] = sec
                                  /\ <<p[2], v>> \in Pairs(file[j])
<1>0. Len(file) \in Nat /\ \A i \in 1..Len(file) : file[i] \in Text
  BY FileLines
<1>1. ASSUME Gives(file, j, p, v) PROVE sec # <<>> /\ p[1] = sec
  <2>1. PICK i \in 1..(j - 1) :
          /\ p[1] \in Sections(file[i])
          /\ \A h \in (i + 1)..(j - 1) : Sections(file[h]) = {}
    BY <1>1 DEF Gives
  <2>2. sec # <<>>
    BY <2>1 DEF OpenAfter
  <2>3. PICK k \in 1..(j - 1) :
          /\ sec \in Sections(file[k])
          /\ \A h \in (k + 1)..(j - 1) : Sections(file[h]) = {}
    BY <2>2 DEF OpenAfter
  <2>4. ~(i < k) /\ ~(k < i)
    <3>1. i < k => k \in (i + 1)..(j - 1)
      BY <1>0
    <3>2. k < i => i \in (k + 1)..(j - 1)
      BY <1>0
    <3> QED
      BY <2>1, <2>3, <3>1, <3>2
  <2>5. i = k /\ file[i] \in Text
    BY <1>0, <2>4
  <2>6. p[1] = sec
    BY <2>1, <2>3, <2>5, LineParts
  <2> QED
    BY <2>2, <2>6
<1>2. ASSUME sec # <<>>, p[1] = sec, <<p[2], v>> \in Pairs(file[j])
      PROVE  Gives(file, j, p, v)
  BY <1>2 DEF Gives, OpenAfter
<1>3. Gives(file, j, p, v) => <<p[2], v>> \in Pairs(file[j])
  BY DEF Gives
<1> QED
  BY <1>1, <1>2, <1>3

\* A line gives nothing, or one value to one key of one section.
LEMMA OneTurn ==
  ASSUME NEW file \in File, NEW old, NEW j \in 1..Len(file)
  PROVE  LET t == Turns(old, file) IN
         \/ /\ \A p, v : ~Gives(file, j, p, v)
            /\ t[j].map = t[j - 1].map
         \/ \E s, k, v \in Text :
              /\ v # <<>>
              /\ \A p \in Text \X Text : \A w :
                   Gives(file, j, p, w) <=> p = <<s, k>> /\ w = v
              /\ t[j].map = Put(t[j - 1].map, s, k, v)
<1> DEFINE t == Turns(old, file)
           l == file[j]
           sec == t[j - 1].section
<1>0. Len(file) \in Nat /\ l \in Text /\ j - 1 \in 0..Len(file)
  BY FileLines
<1>1. t[j] = LoadLine(t[j - 1], l) /\ t[j - 1] \in State
  BY <1>0, TurnsAre
<1>2. OpenAfter(file, j - 1, sec)
  BY <1>0, OpenIs
<1>3. sec \in Text
  BY <1>1 DEF State
<1> HIDE DEF t
<1>4. \A p, v : Gives(file, j, p, v) <=> /\ sec # <<>>
                                         /\ p[1] = sec
                                         /\ <<p[2], v>> \in Pairs(l)
  <2> HIDE DEF sec
  <2> QED
    BY <1>2, <1>3, GivesIs
<1>5. CASE Pairs(l) = {} /\ t[j].map = t[j - 1].map
  BY <1>4, <1>5 DEF t
<1>6. CASE IsNothing(l)
  BY <1>1, <1>5, <1>6 DEF IsNothing
<1>7. CASE \E name \in Text : IsName(l, name)
  BY <1>1, <1>5, <1>7 DEF IsName, State
<1>8. CASE \E k, v \in Text : IsKeyAndValue(l, k, v)
  <2>1. PICK k, v \in Text : IsKeyAndValue(l, k, v)
    BY <1>8
  <2>2. Pairs(l) = {<<k, v>>} /\ v # <<>>
        /\ t[j] = IF sec = <<>> THEN t[j - 1]
                  ELSE [t[j - 1] EXCEPT !.map = Put(@, sec, k, v)]
    BY <1>1, <2>1 DEF IsKeyAndValue
  <2>3. CASE sec = <<>>
    BY <1>4, <2>2, <2>3 DEF t
  <2>4. CASE sec # <<>>
    <3>1. t[j].map = Put(t[j - 1].map, sec, k, v)
      BY <1>1, <2>2, <2>4 DEF State
    <3>2. ASSUME NEW p \in Text \X Text, NEW w
          PROVE  Gives(file, j, p, w) <=> p = <<sec, k>> /\ w = v
      <4>1. p = <<p[1], p[2]>>
        OBVIOUS
      <4>2. <<p[2], w>> \in Pairs(l) <=> p[2] = k /\ w = v
        BY <2>2
      <4>3. p = <<sec, k>> <=> p[1] = sec /\ p[2] = k
        BY <4>1
      <4> QED
        BY <1>4, <2>4, <4>2, <4>3
    <3> QED
      BY <1>3, <2>2, <3>1, <3>2 DEF t
  <2> QED
    BY <2>3, <2>4
<1> QED
  BY <1>0, <1>6, <1>7, <1>8, EveryLine DEF LineIs

\* The map has what the first n lines give, and of what they give to one key
\* the last.
MapAfter(file, n, m) ==
  /\ m \in Map
  /\ \A p \in Text \X Text : \A v :
       (\E j \in 1..n : Gives(file, j, p, v)) => p \in DOMAIN m
  /\ \A p \in DOMAIN m :
       /\ m[p] # <<>>
       /\ \E j \in 1..n : /\ Gives(file, j, p, m[p])
                          /\ \A i \in (j + 1)..n : \A v : ~Gives(file, i, p, v)

\* ... one line more, that gives one value.
LEMMA OnePut ==
  ASSUME NEW file, NEW i \in Nat, NEW m, MapAfter(file, i, m),
         NEW s \in Text, NEW k \in Text, NEW v \in Text, v # <<>>,
         \A p \in Text \X Text : \A w :
           Gives(file, i + 1, p, w) <=> p = <<s, k>> /\ w = v
  PROVE  MapAfter(file, i + 1, Put(m, s, k, v))
<1> DEFINE q == <<s, k>>
           mm == Put(m, s, k, v)
<1>1. m \in Map
  BY DEF MapAfter
<1>2. q \in Text \X Text
  OBVIOUS
<1>3. /\ mm \in Map
      /\ DOMAIN mm = DOMAIN m \cup {q} /\ mm[q] = v
      /\ \A p \in DOMAIN m : p # q => mm[p] = m[p]
  <2>1. mm \in Map /\ IsPut(mm, m, q, v)
    BY <1>1, PutIs
  <2> HIDE DEF mm, q
  <2> QED
    BY <2>1 DEF IsPut
<1>4. \A p \in Text \X Text : \A w : Gives(file, i + 1, p, w) <=> p = q /\ w = v
  OBVIOUS
<1> HIDE DEF q, mm
<1>5. DOMAIN mm \subseteq Text \X Text
  BY <1>3, MapIs
<1>a. \A j \in 1..(i + 1) : j \in 1..i \/ j = i + 1
  OBVIOUS
<1>b. \A j \in 1..i : \A h \in (j + 1)..(i + 1) : h \in (j + 1)..i \/ h = i + 1
  OBVIOUS
<1>c. \A j \in 1..i : j \in 1..(i + 1)
  OBVIOUS
<1>6. ASSUME NEW p \in Text \X Text, NEW w, NEW j \in 1..(i + 1),
             Gives(file, j, p, w)
      PROVE  p \in DOMAIN mm
  <2>1. CASE j = i + 1
    BY <1>3, <1>4, <1>6, <2>1
  <2>2. CASE j \in 1..i
    BY <1>3, <1>6, <2>2 DEF MapAfter
  <2> QED
    BY <1>a, <2>1, <2>2
<1>7. ASSUME NEW p \in DOMAIN mm
      PROVE  /\ mm[p] # <<>>
             /\ \E j \in 1..(i + 1) :
                  /\ Gives(file, j, p, mm[p])
                  /\ \A h \in (j + 1)..(i + 1) : \A w : ~Gives(file, h, p, w)
  <2>1. CASE p = q
    <3>1. Gives(file, i + 1, p, mm[p])
      BY <1>2, <1>3, <1>4, <2>1
    <3>2. i + 1 \in 1..(i + 1) /\ ((i + 1) + 1)..(i + 1) = {}
      OBVIOUS
    <3> QED
      BY <1>3, <1>4, <2>1, <3>1, <3>2
  <2>2. CASE p # q
    <3>1. p \in DOMAIN m /\ mm[p] = m[p]
      BY <1>3, <2>2
    <3>2. PICK j \in 1..i : /\ Gives(file, j, p, m[p])
                            /\ \A h \in (j + 1)..i : \A w : ~Gives(file, h, p, w)
      BY <3>1 DEF MapAfter
    <3>3. \A w : ~Gives(file, i + 1, p, w)
      BY <1>4, <1>5, <2>2
    <3>4. \A h \in (j + 1)..(i + 1) : \A w : ~Gives(file, h, p, w)
      BY <1>b, <3>2, <3>3
    <3>5. m[p] # <<>>
      BY <3>1 DEF MapAfter
    <3> QED
      BY <1>c, <3>1, <3>2, <3>4, <3>5
  <2> QED
    BY <2>1, <2>2
<1>8. MapAfter(file, i + 1, mm)
  BY <1>3, <1>6, <1>7 DEF MapAfter
<1> QED
  BY <1>8 DEF mm

\* After n turns, the map has what n lines give.
LEMMA MapHolds ==
  ASSUME NEW file \in File, NEW old, NEW n \in 0..Len(file)
  PROVE  MapAfter(file, n, Turns(old, file)[n].map)
<1> DEFINE N == Len(file)
           t == Turns(old, file)
           P == {i \in 0..N : MapAfter(file, i, t[i].map)}
<1>1. N \in Nat
  BY FileLines
<1>2. t[0].map = NoSettings /\ \A i \in 0..N : t[i].map \in Map
  BY TurnsAre DEF State
<1>3. 0 \in P
  BY <1>1, <1>2, NoSettingsIs DEF MapAfter
<1>4. ASSUME NEW i \in 0..(N - 1), i \in P PROVE i + 1 \in P
  <2> DEFINE m == t[i].map
             mm == t[i + 1].map
  <2>1. i + 1 \in 1..N /\ (i + 1) - 1 = i /\ i \in 0..N /\ i + 1 \in 0..N
    BY <1>1
  <2>2. MapAfter(file, i, m)
    BY <1>4
  <2>3. m \in Map /\ mm \in Map
    BY <1>2, <2>1
  <2>4. \/ /\ \A p, v : ~Gives(file, i + 1, p, v)
           /\ mm = m
        \/ \E s, k, v \in Text :
             /\ v # <<>>
             /\ \A p \in Text \X Text : \A w :
                  Gives(file, i + 1, p, w) <=> p = <<s, k>> /\ w = v
             /\ mm = Put(m, s, k, v)
    BY <2>1, OneTurn
  <2>5. \A j \in 1..(i + 1) : j \in 1..i \/ j = i + 1
    BY <1>1
  <2>6. \A j \in 1..i : \A h \in (j + 1)..(i + 1) : h \in (j + 1)..i \/ h = i + 1
    BY <1>1
  <2>7. \A j \in 1..i : j \in 1..(i + 1)
    BY <1>1
  <2> HIDE DEF m, mm
  <2>8. CASE (\A p, v : ~Gives(file, i + 1, p, v)) /\ mm = m
    <3>1. ASSUME NEW p \in Text \X Text, NEW v, NEW j \in 1..(i + 1),
                 Gives(file, j, p, v)
          PROVE  p \in DOMAIN m
      BY <2>2, <2>5, <2>8, <3>1 DEF MapAfter
    <3>2. ASSUME NEW p \in DOMAIN m
          PROVE  /\ m[p] # <<>>
                 /\ \E j \in 1..(i + 1) :
                      /\ Gives(file, j, p, m[p])
                      /\ \A h \in (j + 1)..(i + 1) : \A v : ~Gives(file, h, p, v)
      <4>1. m[p] # <<>>
        BY <2>2 DEF MapAfter
      <4>2. PICK j \in 1..i : /\ Gives(file, j, p, m[p])
                              /\ \A h \in (j + 1)..i : \A v : ~Gives(file, h, p, v)
        BY <2>2 DEF MapAfter
      <4>3. \A h \in (j + 1)..(i + 1) : \A v : ~Gives(file, h, p, v)
        BY <2>6, <2>8, <4>2
      <4> QED
        BY <2>7, <4>1, <4>2, <4>3
    <3>3. MapAfter(file, i + 1, mm)
      BY <2>3, <2>8, <3>1, <3>2 DEF MapAfter
    <3> QED
      BY <2>1, <3>3 DEF mm
  <2>9. CASE \E s, k, v \in Text :
               /\ v # <<>>
               /\ \A p \in Text \X Text : \A w :
                    Gives(file, i + 1, p, w) <=> p = <<s, k>> /\ w = v
               /\ mm = Put(m, s, k, v)
    <3>1. PICK s, k, v \in Text :
            /\ v # <<>>
            /\ \A p \in Text \X Text : \A w :
                 Gives(file, i + 1, p, w) <=> p = <<s, k>> /\ w = v
            /\ mm = Put(m, s, k, v)
      BY <2>9
    <3>2. MapAfter(file, i + 1, mm)
      BY <2>2, <3>1, OnePut
    <3> QED
      BY <2>1, <3>2 DEF mm
  <2> QED
    BY <2>4, <2>8, <2>9
<1> HIDE DEF P
<1>5. \A i \in 0..N : i \in P
  <2> HIDE DEF N
  <2> QED
    BY <1>1, <1>3, <1>4, Climb
<1>6. n \in P
  BY <1>5
<1> QED
  BY <1>6 DEF P

\* What the definition makes of a map that has what all lines give.
LEMMA GivenIs ==
  ASSUME NEW file \in File, NEW m, MapAfter(file, Len(file), m)
  PROVE  Given(file) = DOMAIN m
<1> DEFINE N == 1..Len(file)
<1>0. Len(file) \in Nat /\ \A i \in N : file[i] \in Text
  BY FileLines
<1>1. m \in Map
  BY DEF MapAfter
<1>2. DOMAIN m \subseteq Text \X Text
  BY <1>1, MapIs
<1>3. ASSUME NEW p \in Given(file) PROVE p \in DOMAIN m
  <2>1. PICK i \in N, j \in N :
          p \in {<<s, w[1]>> : s \in Sections(file[i]), w \in Pairs(file[j])}
    BY DEF Given
  <2>2. PICK s \in Sections(file[i]), w \in Pairs(file[j]) : p = <<s, w[1]>>
    BY <2>1
  <2>3. s \in Text /\ w \in Text \X Text
    BY <1>0, LineParts
  <2>4. p \in Text \X Text
    BY <2>2, <2>3
  <2>5. PICK h \in N : GivesAny(file, h, p)
    BY DEF Given
  <2>6. PICK v : Gives(file, h, p, v)
    BY <2>5 DEF GivesAny
  <2> QED
    BY <2>4, <2>6 DEF MapAfter
<1>4. ASSUME NEW p \in DOMAIN m PROVE p \in Given(file)
  <2>1. PICK j \in N : Gives(file, j, p, m[p])
    BY DEF MapAfter
  <2>2. p \in Text \X Text
    BY <1>2
  <2> DEFINE w == <<p[2], m[p]>>
  <2>3. w \in Pairs(file[j])
    BY <2>1 DEF Gives
  <2>4. PICK i \in 1..(j - 1) : p[1] \in Sections(file[i])
    BY <2>1 DEF Gives
  <2>5. i \in N
    BY <1>0
  <2>6. p = <<p[1], w[1]>>
    BY <2>2
  <2>7. GivesAny(file, j, p)
    BY <2>1, <2>3 DEF GivesAny
  <2> HIDE DEF w
  <2>8. p \in {<<s, x[1]>> : s \in Sections(file[i]), x \in Pairs(file[j])}
    BY <2>3, <2>4, <2>6
  <2> DEFINE S(g, h) == {<<s, x[1]>> : s \in Sections(file[g]), x \in Pairs(file[h])}
             U == UNION {S(g, h) : g \in N, h \in N}
  <2>9. Given(file) = {q \in U : \E h \in N : GivesAny(file, h, q)}
    BY DEF Given
  <2>10. p \in S(i, j)
    BY <2>8
  <2> HIDE DEF S
  <2>11. S(i, j) \in {S(g, h) : g \in N, h \in N}
    BY <2>5
  <2>12. p \in U
    BY <2>10, <2>11
  <2> HIDE DEF U
  <2> QED
    BY <2>7, <2>9, <2>12
<1> QED
  BY <1>3, <1>4

\* ... and it is what the file means.
LEMMA MeaningIs ==
  ASSUME NEW file \in File, NEW m, MapAfter(file, Len(file), m)
  PROVE  Meaning(file) = m
<1>0. Len(file) \in Nat /\ \A i \in 1..Len(file) : file[i] \in Text
  BY FileLines
<1>1. m \in Map
  BY DEF MapAfter
<1>2. m = [p \in DOMAIN m |-> m[p]]
  BY <1>1, MapIs
<1> DEFINE J(p) == {i \in 1..Len(file) : GivesAny(file, i, p)}
           V(p) == CHOOSE v \in {w[2] : w \in Pairs(file[Most(J(p))])} :
                     Gives(file, Most(J(p)), p, v)
<1>3. Meaning(file) = [p \in Given(file) |-> V(p)]
  BY DEF Meaning
<1>4. ASSUME NEW p \in DOMAIN m PROVE V(p) = m[p]
  <2>1. PICK j \in 1..Len(file) :
          /\ Gives(file, j, p, m[p])
          /\ \A i \in (j + 1)..Len(file) : \A v : ~Gives(file, i, p, v)
    BY DEF MapAfter
  <2>2. <<p[2], m[p]>> \in Pairs(file[j])
    BY <2>1 DEF Gives
  <2>3. j \in J(p)
    BY <2>1, <2>2 DEF GivesAny
  <2>4. \A i \in J(p) : i =< j
    <3>1. \A i \in 1..Len(file) : i =< j \/ i \in (j + 1)..Len(file)
      BY <1>0
    <3> QED
      BY <2>1, <3>1 DEF GivesAny
  <2>5. Most(J(p)) = j
    <3>1. J(p) \in SUBSET (0..Len(file)) /\ J(p) # {}
      BY <1>0, <2>3
    <3> DEFINE T == J(p)
    <3> HIDE DEF T
    <3>2. Most(T) \in T /\ \A y \in T : Most(T) >= y
      BY <1>0, <3>1, HasMost DEF T
    <3>3. Most(T) =< j /\ Most(T) >= j /\ Most(T) \in 0..Len(file)
      BY <2>3, <2>4, <3>1, <3>2 DEF T
    <3> QED
      BY <1>0, <3>3 DEF T
  <2>6. V(p) = CHOOSE v \in {w[2] : w \in Pairs(file[j])} : Gives(file, j, p, v)
    BY <2>5
  <2>7. m[p] \in {w[2] : w \in Pairs(file[j])}
    BY <2>2
  <2>8. ASSUME NEW v, Gives(file, j, p, v) PROVE v = m[p]
    <3>1. <<p[2], v>> \in Pairs(file[j]) /\ file[j] \in Text
      BY <1>0, <2>8 DEF Gives
    <3>2. <<p[2], v>> = <<p[2], m[p]>>
      BY <2>2, <3>1, LineParts
    <3> QED
      BY <3>2
  <2> HIDE DEF V
  <2> QED
    BY <2>1, <2>6, <2>7, <2>8
<1> HIDE DEF V
<1> QED
  BY <1>2, <1>3, <1>4, GivenIs

\* From a file without a line that is too long the loop reads what the
\* definition says, whatever the settings were.
THEOREM LoadIsMeaning ==
  ASSUME NEW file \in File, NEW old, TooLong(file) = {}
  PROVE  /\ Load(old, file) = Meaning(file)
         /\ MapAfter(file, Len(file), Load(old, file))
<1>1. Load(old, file) = Turns(old, file)[Len(file)].map
  BY DEF Load, LinesRead
<1>2. Len(file) \in 0..Len(file)
  BY FileLines
<1>3. MapAfter(file, Len(file), Load(old, file))
  BY <1>1, <1>2, MapHolds
<1> QED
  BY <1>3, MeaningIs

\* Whatever is read, a file or the beginning of one, is a map.
LEMMA LoadIsMap ==
  ASSUME NEW file \in File, NEW old
  PROVE  /\ Load(old, file) \in Map
         /\ \A p \in DOMAIN Load(old, file) : Load(old, file)[p] # <<>>
<1>1. LinesRead(file) \in File
  <2>1. CASE TooLong(file) = {}
    BY <2>1 DEF LinesRead
  <2>2. CASE TooLong(file) # {}
    <3>0. Len(file) \in Nat /\ \A i \in 1..Len(file) : file[i] \in Text
      BY FileLines
    <3> DEFINE T == TooLong(file)
               n == Least(T)
    <3>1. T \in SUBSET Nat /\ T # {}
      BY <2>2, <3>0 DEF TooLong
    <3> HIDE DEF T
    <3>2. n \in T
      BY <3>1, HasLeast
    <3>3. n \in 1..Len(file) /\ Len(file[n]) > Limit
      BY <3>2 DEF T, TooLong
    <3> HIDE DEF n
    <3>4. file[n] \in Text /\ Len(file[n]) \in Nat
      BY <3>0, <3>3, TextLen
    <3>5. Limit \in Nat /\ Limit > 0
      BY LimitAssumption
    <3>6. SubSeq(file[n], 1, Limit) \in Text
      <4>1. 1 \in 1..Len(file[n]) /\ Limit \in 1..Len(file[n])
        BY <3>3, <3>4, <3>5
      <4> QED
        BY <3>4, <4>1, SubSeqProperties DEF Text
    <3>7. SubSeq(file, 1, n - 1) \in File
      <4>1. \A h \in 1..(n - 1) : h \in 1..Len(file)
        BY <3>0, <3>3
      <4> QED
        BY <3>0, <3>3, <4>1, SubSeqProperties DEF File
    <3>8. Append(SubSeq(file, 1, n - 1), SubSeq(file[n], 1, Limit)) \in File
      BY <3>6, <3>7, AppendProperties DEF File
    <3> QED
      BY <2>2, <3>8 DEF LinesRead, n, T
  <2> QED
    BY <2>1, <2>2
<1> DEFINE lines == LinesRead(file)
<1>2. Load(old, file) = Turns(old, lines)[Len(lines)].map
  BY DEF Load
<1> HIDE DEF lines
<1>3. lines \in File
  BY <1>1 DEF lines
<1>4. Len(lines) \in 0..Len(lines)
  BY <1>3, FileLines
<1>5. MapAfter(lines, Len(lines), Load(old, file))
  BY <1>2, <1>3, <1>4, MapHolds
<1> QED
  BY <1>5 DEF MapAfter
-----------------------------------------------------------------------------
(* What a file can give is what a file can say.                            *)

Trimmed(s) == s # <<>> /\ s[1] # Space /\ s[Len(s)] # Space

AName(s) ==
  s \in Text /\ Trimmed(s) /\ \A i \in 1..Len(s) : s[i] # "]"
AKey(s) ==
  /\ s \in Text /\ Trimmed(s) /\ \A i \in 1..Len(s) : s[i] # "="
  /\ s[1] \notin {"#", "["}
AValue(s) == s \in Text /\ Trimmed(s)

\* A piece of a line that begins and ends with ink.
LEMMA PieceOf ==
  ASSUME NEW l \in Text, NEW a \in 1..Len(l), NEW b \in 1..Len(l), Solid(l, a, b)
  PROVE  LET s == SubSeq(l, a, b) IN
         /\ s \in Text /\ Trimmed(s) /\ Len(s) = b - a + 1 /\ s[1] = l[a]
         /\ \A i \in 1..Len(s) : \E j \in a..b : s[i] = l[j]
<1> DEFINE s == SubSeq(l, a, b)
<1>0. Len(l) \in Nat
  BY TextLen
<1>1. a =< b /\ l[a] # Space /\ l[b] # Space
  BY DEF Solid
<1>2. a \in 1..(Len(l) + 1) /\ b \in 0..Len(l)
  BY <1>0
<1>3. s \in Text /\ Len(s) = b - a + 1
      /\ \A i \in 1..(b - a + 1) : s[i] = l[a + i - 1]
  BY <1>1, <1>2, Cut
<1> HIDE DEF s
<1>4. 1 \in 1..(b - a + 1) /\ b - a + 1 \in 1..(b - a + 1)
      /\ a + 1 - 1 = a /\ a + (b - a + 1) - 1 = b
  BY <1>0, <1>1
<1>5. s[1] = l[a] /\ s[Len(s)] = l[b]
  BY <1>3, <1>4
<1>6. s # <<>>
  BY <1>3, <1>4, TextLen
<1>7. \A i \in 1..Len(s) : \E j \in a..b : s[i] = l[j]
  <2>1. \A i \in 1..(b - a + 1) : a + i - 1 \in a..b
    BY <1>0
  <2> QED
    BY <1>3, <2>1
<1>8. Trimmed(s)
  BY <1>1, <1>5, <1>6 DEF Trimmed
<1> QED
  BY <1>3, <1>5, <1>7, <1>8 DEF s

\* A section of a line is a name: trimmed, and without a bracket.
LEMMA SectionSaid ==
  ASSUME NEW l \in Text, NEW x \in Sections(l)
  PROVE  AName(x)
<1>1. PICK a, b, c \in 1..Len(l) : IsSection(l, a, b, c) /\ x = SubSeq(l, b, c)
  BY SectionsIn
<1>2. Solid(l, b, c) /\ \A i \in b..c : l[i] # "]"
  BY <1>1 DEF IsSection
<1> QED
  <2>1. x \in Text /\ Trimmed(x) /\ \A i \in 1..Len(x) : \E j \in b..c : x[i] = l[j]
    BY <1>1, <1>2, PieceOf
  <2>2. \A i \in 1..Len(x) : x[i] # "]"
    BY <1>2, <2>1
  <2> QED
    BY <2>1, <2>2 DEF AName

\* A pair of a line is a key and a value that can be written again.
LEMMA PairSaid ==
  ASSUME NEW l \in Text, NEW k, NEW v, <<k, v>> \in Pairs(l)
  PROVE  AKey(k) /\ AValue(v) /\ Len(k) + 1 + Len(v) =< Len(l)
<1>0. Len(l) \in Nat
  BY TextLen
<1> DEFINE x == <<k, v>>
<1>a. x \in Pairs(l) /\ x[1] = k /\ x[2] = v
  OBVIOUS
<1> HIDE DEF x
<1>1. PICK a, b, e, c, d \in 1..Len(l) :
        /\ IsPair(l, a, b, e, c, d)
        /\ x = <<SubSeq(l, a, b), SubSeq(l, c, d)>>
  BY <1>a, PairsIn
<1>2. /\ Solid(l, a, b) /\ Solid(l, c, d) /\ b < e /\ e < c
      /\ \A i \in a..b : l[i] # "="
      /\ l[a] \notin {"#", "["}
  BY <1>1 DEF IsPair
<1>3. k = SubSeq(l, a, b) /\ v = SubSeq(l, c, d)
  BY <1>a, <1>1
<1>4. /\ k \in Text /\ Trimmed(k) /\ Len(k) = b - a + 1 /\ k[1] = l[a]
      /\ \A i \in 1..Len(k) : \E j \in a..b : k[i] = l[j]
  <2>1. Solid(l, a, b)
    BY <1>2
  <2>2. k = SubSeq(l, a, b)
    BY <1>3
  <2> QED
    BY <2>1, <2>2, PieceOf
<1>5. \A i \in 1..Len(k) : k[i] # "="
  BY <1>2, <1>4
<1>6. v \in Text /\ Trimmed(v) /\ Len(v) = d - c + 1
  BY <1>2, <1>3, PieceOf
<1> QED
  BY <1>0, <1>2, <1>4, <1>5, <1>6 DEF AKey, AValue
-----------------------------------------------------------------------------
(* The lines SaveConfig writes.                                            *)

Heading(s) == <<"[">> \o s \o <<"]">>
Entry(k, v) == k \o <<"=">> \o v

\* Two texts behind each other.
LEMMA Joined ==
  ASSUME NEW s \in Text, NEW t \in Text
  PROVE  /\ s \o t \in Text
         /\ Len(s \o t) = Len(s) + Len(t)
         /\ \A i \in 1..Len(s) : (s \o t)[i] = s[i]
         /\ \A i \in 1..Len(t) : (s \o t)[Len(s) + i] = t[i]
<1>1. Len(s) \in Nat /\ Len(t) \in Nat
  BY TextLen
<1>2. /\ s \o t \in Text
      /\ Len(s \o t) = Len(s) + Len(t)
      /\ \A i \in 1..(Len(s) + Len(t)) :
           (s \o t)[i] = IF i =< Len(s) THEN s[i] ELSE t[i - Len(s)]
  BY ConcatProperties DEF Text
<1>3. \A i \in 1..Len(s) : i \in 1..(Len(s) + Len(t)) /\ i =< Len(s)
  BY <1>1
<1>4. \A i \in 1..Len(t) : /\ Len(s) + i \in 1..(Len(s) + Len(t))
                          /\ ~(Len(s) + i =< Len(s)) /\ Len(s) + i - Len(s) = i
  BY <1>1
<1> QED
  BY <1>2, <1>3, <1>4

\* Three, of which the middle one is a character.
IsJoined(l, s, c, t) ==
  /\ l \in Text /\ Len(l) = Len(s) + 1 + Len(t)
  /\ \A i \in 1..Len(s) : l[i] = s[i]
  /\ l[Len(s) + 1] = c
  /\ \A i \in 1..Len(t) : l[Len(s) + 1 + i] = t[i]

LEMMA JoinedBy ==
  ASSUME NEW s \in Text, NEW c \in Char, NEW t \in Text
  PROVE  IsJoined(s \o <<c>> \o t, s, c, t)
<1>0. Len(s) \in Nat /\ Len(t) \in Nat
  BY TextLen
<1>1. <<c>> \in Text /\ Len(<<c>>) = 1 /\ <<c>>[1] = c
  BY DEF Text
<1> DEFINE h == s \o <<c>>
<1>2. /\ h \in Text /\ Len(h) = Len(s) + 1
      /\ \A i \in 1..Len(s) : h[i] = s[i]
      /\ h[Len(s) + 1] = c
  BY <1>0, <1>1, Joined
<1> HIDE DEF h
<1> DEFINE l == h \o t
<1>3. /\ l \in Text /\ Len(l) = Len(h) + Len(t)
      /\ \A i \in 1..Len(h) : l[i] = h[i]
      /\ \A i \in 1..Len(t) : l[Len(h) + i] = t[i]
  BY <1>2, Joined
<1> HIDE DEF l
<1>4. \A i \in 1..Len(s) : i \in 1..Len(h)
  BY <1>0, <1>2
<1>5. Len(s) + 1 \in 1..Len(h)
  BY <1>0, <1>2
<1>6. \A i \in 1..Len(s) : l[i] = s[i]
  BY <1>2, <1>3, <1>4
<1>7. l[Len(s) + 1] = c
  BY <1>2, <1>3, <1>5
<1>8. \A i \in 1..Len(t) : l[Len(s) + 1 + i] = t[i]
  BY <1>2, <1>3
<1>9. Len(l) = Len(s) + 1 + Len(t)
  BY <1>2, <1>3
<1> QED
  BY <1>3, <1>6, <1>7, <1>8, <1>9 DEF l, h, IsJoined

\* The characters SaveConfig adds.
LEMMA Signs ==
  ASSUME NEW c \in {"[", "]", "="}
  PROVE  c \in Char /\ <<c>> \in Text /\ Len(<<c>>) = 1 /\ <<c>>[1] = c
<1>1. c \in Char
  BY CharAssumption
<1> QED
  BY <1>1 DEF Text

\* A piece that is s, character by character, is s.
LEMMA CutIs ==
  ASSUME NEW s \in Text, NEW l \in Text,
         NEW m \in 1..(Len(l) + 1), NEW n \in 0..Len(l), n - m + 1 = Len(s),
         \A i \in 1..Len(s) : l[m + i - 1] = s[i]
  PROVE  SubSeq(l, m, n) = s
<1>1. Len(s) \in Nat /\ Len(l) \in Nat
  BY TextLen
<1> DEFINE t == SubSeq(l, m, n)
<1>2. /\ t \in Text /\ Len(t) = (IF m =< n THEN n - m + 1 ELSE 0)
      /\ \A i \in 1..(n - m + 1) : t[i] = l[m + i - 1]
  BY Cut
<1> HIDE DEF t
<1>3. Len(t) = Len(s)
  BY <1>1, <1>2
<1>4. \A i \in 1..Len(s) : t[i] = s[i]
  BY <1>1, <1>2
<1>5. t = s
  BY <1>2, <1>3, <1>4, SameText
<1> QED
  BY <1>5 DEF t

\* The line written for a key is read as this key with its value.
LEMMA EntryIs ==
  ASSUME NEW k, AKey(k), NEW v, AValue(v)
  PROVE  /\ Entry(k, v) \in Text
         /\ Len(Entry(k, v)) = Len(k) + 1 + Len(v)
         /\ Pairs(Entry(k, v)) = {<<k, v>>}
         /\ Sections(Entry(k, v)) = {}
<1> DEFINE l == Entry(k, v)
           b == Len(k)
           n == Len(v)
<1>1. k \in Text /\ v \in Text /\ Trimmed(k) /\ Trimmed(v)
      /\ (\A i \in 1..b : k[i] # "=") /\ k[1] \notin {"#", "["}
  BY DEF AKey, AValue
<1>2. b \in Nat \ {0} /\ n \in Nat \ {0}
  BY <1>1, TextLen DEF Trimmed
<1>3. k[1] # Space /\ k[b] # Space /\ v[1] # Space /\ v[n] # Space
  BY <1>1 DEF Trimmed
<1>4. /\ l \in Text /\ Len(l) = b + 1 + n
      /\ \A i \in 1..b : l[i] = k[i]
      /\ l[b + 1] = "="
      /\ \A i \in 1..n : l[b + 1 + i] = v[i]
  <2>1. "=" \in Char
    BY Signs
  <2>2. Entry(k, v) = k \o <<"=">> \o v
    BY DEF Entry
  <2> HIDE DEF l
  <2>3. l = k \o <<"=">> \o v
    BY <2>2 DEF l
  <2>4. IsJoined(l, k, "=", v)
    BY <1>1, <2>1, <2>3, JoinedBy
  <2> QED
    BY <2>4 DEF IsJoined
<1> HIDE DEF l, b, n
<1>5. /\ 1 \in 1..Len(l) /\ b \in 1..Len(l) /\ b + 1 \in 1..Len(l)
      /\ b + 2 \in 1..Len(l) /\ b + 1 + n \in 1..Len(l)
      /\ 1 \in 1..b /\ b \in 1..b /\ 1 \in 1..n /\ n \in 1..n /\ b + 1 + 1 = b + 2
  BY <1>2, <1>4
<1>6. l[1] = k[1] /\ l[b] = k[b] /\ l[b + 2] = v[1] /\ l[b + 1 + n] = v[n]
  BY <1>4, <1>5
<1>7. Solid(l, 1, b) /\ Solid(l, b + 2, b + 1 + n)
  BY <1>2, <1>3, <1>6 DEF Solid
<1>8. \A i \in 1..b : l[i] # "="
  BY <1>1, <1>4 DEF b
<1>9. Blank(l, (1..Len(l)) \ (1..b \cup {b + 1} \cup (b + 2)..(b + 1 + n)))
  <2>1. (1..Len(l)) \ (1..b \cup {b + 1} \cup (b + 2)..(b + 1 + n)) = {}
    BY <1>2, <1>4
  <2> QED
    BY <2>1 DEF Blank
<1>10. IsPair(l, 1, b, b + 1, b + 2, b + 1 + n)
  BY <1>1, <1>2, <1>4, <1>6, <1>7, <1>8, <1>9 DEF IsPair
<1>11. SubSeq(l, 1, b) = k
  <2>1. b \in 0..Len(l) /\ 1 \in 1..(Len(l) + 1) /\ b - 1 + 1 = b
    BY <1>2, <1>4
  <2>2. \A i \in 1..b : 1 + i - 1 = i
    BY <1>2
  <2>3. \A i \in 1..Len(k) : l[1 + i - 1] = k[i]
    BY <1>4, <2>2 DEF b
  <2>4. b - 1 + 1 = Len(k)
    BY <2>1 DEF b
  <2> QED
    BY <1>1, <1>4, <2>1, <2>3, <2>4, CutIs
<1>12. SubSeq(l, b + 2, b + 1 + n) = v
  <2>1. b + 2 \in 1..(Len(l) + 1) /\ b + 1 + n \in 0..Len(l)
        /\ (b + 1 + n) - (b + 2) + 1 = n
    BY <1>2, <1>4
  <2>2. \A i \in 1..n : (b + 2) + i - 1 = b + 1 + i
    BY <1>2
  <2>3. \A i \in 1..Len(v) : l[(b + 2) + i - 1] = v[i]
    BY <1>4, <2>2 DEF n
  <2>4. (b + 1 + n) - (b + 2) + 1 = Len(v)
    BY <2>1 DEF n
  <2> QED
    BY <1>1, <1>4, <2>1, <2>3, <2>4, CutIs
<1>13. <<k, v>> \in Pairs(l)
  <2> DEFINE x == <<k, v>>
  <2>1. x = <<SubSeq(l, 1, b), SubSeq(l, b + 2, b + 1 + n)>>
    BY <1>11, <1>12
  <2> HIDE DEF x
  <2>2. x \in Pairs(l)
    BY <1>5, <1>10, <2>1, PairsIn
  <2> QED
    BY <2>2 DEF x
<1>14. LineIs(l)
  BY <1>4, EveryLine
<1>15. Sections(l) = {}
  BY <1>13, <1>14 DEF LineIs, IsNothing, IsName, IsKeyAndValue
<1>16. Pairs(l) = {<<k, v>>}
  BY <1>4, <1>13, LineParts
<1> QED
  BY <1>4, <1>15, <1>16 DEF l, b, n

\* The line written for a section is read as this section.
LEMMA HeadingIs ==
  ASSUME NEW s, AName(s)
  PROVE  /\ Heading(s) \in Text
         /\ Len(Heading(s)) = Len(s) + 2
         /\ Sections(Heading(s)) = {s}
         /\ Pairs(Heading(s)) = {}
<1> DEFINE l == Heading(s)
           n == Len(s)
<1>1. s \in Text /\ Trimmed(s) /\ \A i \in 1..n : s[i] # "]"
  BY DEF AName
<1>2. n \in Nat \ {0} /\ s[1] # Space /\ s[n] # Space
  BY <1>1, TextLen DEF Trimmed
<1>3. /\ l \in Text /\ Len(l) = n + 2 /\ l[1] = "["
      /\ \A i \in 1..n : l[i + 1] = s[i]
      /\ l[n + 2] = "]"
  <2> DEFINE o == <<"[">>
             e == <<"]">>
             h == o \o s
  <2>1. o \in Text /\ Len(o) = 1 /\ o[1] = "["
    BY Signs
  <2>2. e \in Text /\ Len(e) = 1 /\ e[1] = "]"
    BY Signs
  <2>3. l = h \o e
    BY DEF Heading
  <2> HIDE DEF o, e, l
  <2>4. /\ h \in Text /\ Len(h) = Len(o) + Len(s)
        /\ \A i \in 1..Len(o) : h[i] = o[i]
        /\ \A i \in 1..Len(s) : h[Len(o) + i] = s[i]
    BY <1>1, <2>1, Joined
  <2> HIDE DEF h, n
  <2>5. /\ l \in Text /\ Len(l) = Len(h) + Len(e)
        /\ \A i \in 1..Len(h) : l[i] = h[i]
        /\ \A i \in 1..Len(e) : l[Len(h) + i] = e[i]
    BY <2>2, <2>3, <2>4, Joined
  <2>6. Len(h) = n + 1 /\ h[1] = "[" /\ \A i \in 1..n : h[1 + i] = s[i]
    <3>1. 1 \in 1..Len(o) /\ Len(s) = n
      BY <2>1 DEF n
    <3> QED
      BY <1>2, <2>1, <2>4, <3>1
  <2>7. 1 \in 1..Len(h) /\ 1 \in 1..Len(e) /\ Len(h) + 1 = n + 2
        /\ \A i \in 1..n : i + 1 \in 1..Len(h) /\ i + 1 = 1 + i
    BY <1>2, <2>2, <2>6
  <2> QED
    BY <1>2, <2>2, <2>5, <2>6, <2>7
<1> HIDE DEF l, n
<1>4. /\ 1 \in 1..Len(l) /\ 2 \in 1..Len(l) /\ n + 1 \in 1..Len(l)
      /\ 1 \in 1..n /\ n \in 1..n /\ 1 + 1 = 2
  BY <1>2, <1>3
<1>5. l[2] = s[1] /\ l[n + 1] = s[n]
  BY <1>3, <1>4
<1>6. Solid(l, 2, n + 1)
  BY <1>2, <1>5 DEF Solid
<1>7. \A i \in 2..(n + 1) : l[i] # "]"
  <2>1. \A i \in 2..(n + 1) : i - 1 \in 1..n /\ (i - 1) + 1 = i
    BY <1>2
  <2>2. \A i \in 1..n : l[i + 1] # "]"
    BY <1>1, <1>3 DEF n
  <2> QED
    BY <2>1, <2>2
<1>8. Blank(l, 1..(1 - 1) \cup (1 + 1)..(2 - 1))
  <2>1. 1..(1 - 1) \cup (1 + 1)..(2 - 1) = {}
    OBVIOUS
  <2> QED
    BY <2>1 DEF Blank
<1>9. \E e \in (n + 1 + 1)..(Len(l) + 1) :
        Blank(l, (n + 1 + 1)..(e - 1)) /\ (e =< Len(l) => l[e] = "]")
  <2>1. n + 2 \in (n + 1 + 1)..(Len(l) + 1)
    BY <1>2, <1>3
  <2>3. n + 2 =< Len(l) => l[n + 2] = "]"
    BY <1>3
  <2> DEFINE e == n + 2
  <2>4. e \in (n + 1 + 1)..(Len(l) + 1)
    BY <2>1
  <2>5. Blank(l, (n + 1 + 1)..(e - 1))
    <3>1. (n + 1 + 1)..(e - 1) = {}
      BY <1>2
    <3> QED
      BY <3>1 DEF Blank
  <2>6. e =< Len(l) => l[e] = "]"
    BY <2>3
  <2> HIDE DEF e
  <2> QED
    BY <2>4, <2>5, <2>6
<1>10. IsSection(l, 1, 2, n + 1)
  BY <1>3, <1>6, <1>7, <1>8, <1>9 DEF IsSection
<1>11. SubSeq(l, 2, n + 1) = s
  <2>1. n + 1 \in 0..Len(l) /\ 2 \in 1..(Len(l) + 1) /\ n + 1 - 2 + 1 = n
    BY <1>2, <1>3
  <2>2. \A i \in 1..n : 2 + i - 1 = i + 1
    BY <1>2
  <2>3. \A i \in 1..Len(s) : l[2 + i - 1] = s[i]
    BY <1>3, <2>2 DEF n
  <2>4. n + 1 - 2 + 1 = Len(s)
    BY <2>1 DEF n
  <2> QED
    BY <1>1, <1>3, <2>1, <2>3, <2>4, CutIs
<1>12. s \in Sections(l)
  BY <1>4, <1>10, <1>11, SectionsIn
<1>13. LineIs(l)
  BY <1>3, EveryLine
<1>14. Sections(l) = {s} /\ Pairs(l) = {}
  BY <1>12, <1>13 DEF LineIs, IsNothing, IsName, IsKeyAndValue
<1> QED
  BY <1>3, <1>14 DEF l, n
-----------------------------------------------------------------------------
(* The file SaveConfig writes.                                             *)

GoodMap(m) ==
  m \in Map /\ \A p \in DOMAIN m : AName(p[1]) /\ AKey(p[2]) /\ AValue(m[p])

\* Line i is the one for the pair p of the map.
IsEntry(m, file, i, p) == file[i] = Entry(p[2], m[p])

\* ... and between it and the bracket of its section are only others.
At(m, file, j, p) ==
  /\ IsEntry(m, file, j, p)
  /\ \E i \in 1..(j - 1) :
       /\ file[i] = Heading(p[1])
       /\ \A h \in (i + 1)..(j - 1) : \E q \in DOMAIN m : IsEntry(m, file, h, q)

\* There is nothing in the file that is not from the map.
Regular(m, file) ==
  /\ file \in File
  /\ \A j \in 1..Len(file) :
       \/ file[j] = <<>>
       \/ \E s \in SectionsOf(m) : file[j] = Heading(s)
       \/ \E p \in DOMAIN m : At(m, file, j, p)

\* Section s is in the file, and all that belongs to it.
Holds(m, file, s) ==
  /\ \E j \in 1..Len(file) : file[j] = Heading(s)
  /\ \A p \in DOMAIN m : p[1] = s => \E j \in 1..Len(file) : At(m, file, j, p)

\* One file behind another.
LEMMA Behind ==
  ASSUME NEW f \in File, NEW g \in File
  PROVE  /\ f \o g \in File
         /\ Len(f) \in Nat /\ Len(g) \in Nat
         /\ Len(f \o g) = Len(f) + Len(g)
         /\ \A i \in 1..Len(f) : (f \o g)[i] = f[i]
         /\ \A i \in 1..Len(g) : (f \o g)[Len(f) + i] = g[i]
<1>1. Len(f) \in Nat /\ Len(g) \in Nat
  BY FileLines
<1>2. /\ f \o g \in File
      /\ Len(f \o g) = Len(f) + Len(g)
      /\ \A i \in 1..(Len(f) + Len(g)) :
           (f \o g)[i] = IF i =< Len(f) THEN f[i] ELSE g[i - Len(f)]
  BY ConcatProperties DEF File
<1>3. \A i \in 1..Len(f) : i \in 1..(Len(f) + Len(g)) /\ i =< Len(f)
  BY <1>1
<1>4. \A i \in 1..Len(g) : /\ Len(f) + i \in 1..(Len(f) + Len(g))
                          /\ ~(Len(f) + i =< Len(f)) /\ Len(f) + i - Len(f) = i
  BY <1>1
<1> QED
  BY <1>1, <1>2, <1>3, <1>4

\* An entry stays an entry when lines come behind it,
LEMMA AtFirst ==
  ASSUME NEW m, NEW f \in File, NEW g \in File, NEW j \in 1..Len(f), NEW p,
         At(m, f, j, p)
  PROVE  At(m, f \o g, j, p)
<1> DEFINE fg == f \o g
<1>1. Len(f) \in Nat /\ \A i \in 1..Len(f) : fg[i] = f[i]
  BY Behind
<1> HIDE DEF fg
<1>2. IsEntry(m, fg, j, p)
  BY <1>1 DEF At, IsEntry
<1>3. PICK i \in 1..(j - 1) :
        /\ f[i] = Heading(p[1])
        /\ \A h \in (i + 1)..(j - 1) : \E q \in DOMAIN m : IsEntry(m, f, h, q)
  BY DEF At
<1>4. i \in 1..Len(f) /\ \A h \in (i + 1)..(j - 1) : h \in 1..Len(f)
  BY <1>1
<1>5. \A h \in (i + 1)..(j - 1) : \E q \in DOMAIN m : IsEntry(m, fg, h, q)
  BY <1>1, <1>3, <1>4 DEF IsEntry
<1>6. fg[i] = Heading(p[1])
  BY <1>1, <1>3, <1>4
<1> QED
  BY <1>2, <1>5, <1>6 DEF At, fg

\* ... or in front.
LEMMA AtSecond ==
  ASSUME NEW m, NEW f \in File, NEW g \in File, NEW j \in 1..Len(g), NEW p,
         At(m, g, j, p)
  PROVE  At(m, f \o g, Len(f) + j, p)
<1> DEFINE fg == f \o g
           n == Len(f)
<1>1. n \in Nat /\ Len(g) \in Nat /\ \A i \in 1..Len(g) : fg[n + i] = g[i]
  BY Behind
<1> HIDE DEF fg, n
<1>2. IsEntry(m, fg, n + j, p)
  BY <1>1 DEF At, IsEntry
<1>3. PICK i \in 1..(j - 1) :
        /\ g[i] = Heading(p[1])
        /\ \A h \in (i + 1)..(j - 1) : \E q \in DOMAIN m : IsEntry(m, g, h, q)
  BY DEF At
<1>4. i \in 1..Len(g) /\ n + i \in 1..(n + j - 1)
      /\ \A h \in (n + i + 1)..(n + j - 1) : /\ h - n \in (i + 1)..(j - 1)
                                           /\ h - n \in 1..Len(g)
                                           /\ n + (h - n) = h
  BY <1>1
<1>5. ASSUME NEW h \in (n + i + 1)..(n + j - 1)
      PROVE  \E q \in DOMAIN m : IsEntry(m, fg, h, q)
  <2>1. PICK q \in DOMAIN m : IsEntry(m, g, h - n, q)
    BY <1>3, <1>4
  <2>2. fg[h] = g[h - n]
    BY <1>1, <1>4
  <2> QED
    BY <2>1, <2>2 DEF IsEntry
<1>6. fg[n + i] = Heading(p[1])
  BY <1>1, <1>3, <1>4
<1>7. At(m, fg, n + j, p)
  <2>1. PICK a \in Nat : a = n + i
    BY <1>1
  <2>2. PICK b \in Nat : b = n + j
    BY <1>1
  <2>3. a \in 1..(b - 1)
    BY <1>1, <2>1, <2>2
  <2>a. fg[a] = Heading(p[1])
    BY <1>6, <2>1
  <2>4. IsEntry(m, fg, b, p)
    BY <1>2, <2>2
  <2>5. \A h \in (a + 1)..(b - 1) : \E q \in DOMAIN m : IsEntry(m, fg, h, q)
    <3>1. \A h \in (a + 1)..(b - 1) : h \in (n + i + 1)..(n + j - 1)
      BY <1>1, <2>1, <2>2
    <3> QED
      BY <1>5, <3>1
  <2>6. At(m, fg, b, p)
    BY <2>3, <2>a, <2>4, <2>5 DEF At
  <2> QED
    BY <2>2, <2>6
<1> QED
  BY <1>7 DEF fg, n

\* So does all that belongs to a section,
LEMMA HoldsFirst ==
  ASSUME NEW m, NEW f \in File, NEW g \in File, NEW s, Holds(m, f, s)
  PROVE  Holds(m, f \o g, s)
<1> DEFINE fg == f \o g
<1>1. /\ Len(f) \in Nat /\ Len(g) \in Nat /\ Len(fg) = Len(f) + Len(g)
      /\ \A i \in 1..Len(f) : fg[i] = f[i]
  BY Behind
<1>2. \A i \in 1..Len(f) : i \in 1..Len(fg)
  BY <1>1
<1>3. \A i \in 1..Len(f) : \A p : At(m, f, i, p) => At(m, fg, i, p)
  BY AtFirst
<1> HIDE DEF fg
<1>4. \E j \in 1..Len(fg) : fg[j] = Heading(s)
  BY <1>1, <1>2 DEF Holds
<1>5. ASSUME NEW p \in DOMAIN m, p[1] = s
      PROVE  \E j \in 1..Len(fg) : At(m, fg, j, p)
  BY <1>2, <1>3, <1>5 DEF Holds
<1> QED
  BY <1>4, <1>5 DEF Holds, fg

\* ... on either side.
LEMMA HoldsSecond ==
  ASSUME NEW m, NEW f \in File, NEW g \in File, NEW s, Holds(m, g, s)
  PROVE  Holds(m, f \o g, s)
<1> DEFINE fg == f \o g
           n == Len(f)
<1>1. /\ n \in Nat /\ Len(g) \in Nat /\ Len(fg) = n + Len(g)
      /\ \A i \in 1..Len(g) : fg[n + i] = g[i]
  BY Behind
<1>2. \A i \in 1..Len(g) : n + i \in 1..Len(fg)
  BY <1>1
<1>3. \A i \in 1..Len(g) : \A p : At(m, g, i, p) => At(m, fg, n + i, p)
  BY AtSecond
<1> HIDE DEF fg, n
<1>4. \E j \in 1..Len(fg) : fg[j] = Heading(s)
  <2>1. PICK i \in 1..Len(g) : g[i] = Heading(s)
    BY DEF Holds
  <2> QED
    BY <1>1, <1>2, <2>1
<1>5. ASSUME NEW p \in DOMAIN m, p[1] = s
      PROVE  \E j \in 1..Len(fg) : At(m, fg, j, p)
  <2>1. PICK i \in 1..Len(g) : At(m, g, i, p)
    BY <1>5 DEF Holds
  <2> QED
    BY <1>2, <1>3, <2>1
<1> QED
  BY <1>4, <1>5 DEF Holds, fg

\* Two files from the map make one.
LEMMA RegularBoth ==
  ASSUME NEW m, NEW f, Regular(m, f), NEW g, Regular(m, g)
  PROVE  Regular(m, f \o g)
<1> DEFINE fg == f \o g
           n == Len(f)
<1>0. f \in File /\ g \in File
  BY DEF Regular
<1>1. /\ fg \in File
      /\ n \in Nat /\ Len(g) \in Nat /\ Len(fg) = n + Len(g)
      /\ \A i \in 1..n : fg[i] = f[i]
      /\ \A i \in 1..Len(g) : fg[n + i] = g[i]
  BY <1>0, Behind
<1>2. \A i \in 1..n : \A p : At(m, f, i, p) => At(m, fg, i, p)
  BY <1>0, AtFirst
<1>3. \A i \in 1..Len(g) : \A p : At(m, g, i, p) => At(m, fg, n + i, p)
  BY <1>0, AtSecond
<1> HIDE DEF fg
<1>4. ASSUME NEW j \in 1..Len(fg)
      PROVE  \/ fg[j] = <<>>
             \/ \E s \in SectionsOf(m) : fg[j] = Heading(s)
             \/ \E p \in DOMAIN m : At(m, fg, j, p)
  <2>1. CASE j \in 1..n
    BY <1>1, <1>2, <2>1 DEF Regular
  <2>2. CASE j > n
    <3>1. PICK i \in 1..Len(g) : j = n + i
      <4>1. j - n \in 1..Len(g) /\ j = n + (j - n)
        BY <1>1, <2>2
      <4> QED
        BY <4>1
    <3>2. fg[j] = g[i] /\ \A p : At(m, g, i, p) => At(m, fg, j, p)
      BY <1>1, <1>3, <3>1
    <3> QED
      BY <3>2 DEF Regular
  <2> QED
    BY <1>1, <2>1, <2>2
<1> QED
  BY <1>1, <1>4 DEF Regular, fg

\* A finite set as a sequence has each of its elements.
LEMMA ListIs ==
  ASSUME NEW S, IsFiniteSet(S)
  PROVE  /\ SetToSeq(S) \in Seq(S)
         /\ \A x \in S : \E i \in 1..Len(SetToSeq(S)) : SetToSeq(S)[i] = x
<1> DEFINE n == Cardinality(S)
           f == SetToSeq(S)
<1>1. n \in Nat /\ ExistsBijection(1..n, S)
  BY FS_CardinalityType
<1>2. \E g \in [1..n -> S] : IsInjective(g)
  <2>1. PICK g \in Bijection(1..n, S) : TRUE
    BY <1>1 DEF ExistsBijection
  <2> QED
    BY <2>1 DEF Bijection, Injection, IsInjective
<1>3. f \in [1..n -> S] /\ IsInjective(f)
  BY <1>2 DEF SetToSeq
<1> HIDE DEF f, n
<1>4. f \in Seq(S) /\ Len(f) = n
  BY <1>1, <1>3
<1>5. f \in Injection(1..n, S)
  BY <1>3 DEF Injection
<1>6. Cardinality(1..n) = Cardinality(S)
  <2>1. Cardinality(1..n) = n
    BY <1>1, FS_Interval
  <2> QED
    BY <2>1 DEF n
<1>7. f \in Surjection(1..n, S)
  BY <1>5, <1>6, FS_Injection
<1>8. \A x \in S : \E i \in 1..n : f[i] = x
  BY <1>7 DEF Surjection
<1> QED
  BY <1>4, <1>8 DEF f

\* What a function makes of a finite set.
LEMMA ImageFinite ==
  ASSUME NEW S, IsFiniteSet(S), NEW f, S \subseteq DOMAIN f
  PROVE  IsFiniteSet({f[x] : x \in S})
<1> DEFINE T == {f[x] : x \in S}
           g == [x \in S |-> f[x]]
<1>1. g \in Surjection(S, T)
  BY DEF Surjection
<1> HIDE DEF g, T
<1>2. IsFiniteSet(T)
  BY <1>1, FS_Surjection
<1> QED
  BY <1>2 DEF T

\* What a good map is made of.
LEMMA GoodParts ==
  ASSUME NEW m, GoodMap(m)
  PROVE  /\ m \in Map /\ IsFiniteSet(DOMAIN m)
         /\ \A p \in DOMAIN m : /\ AName(p[1]) /\ AKey(p[2]) /\ AValue(m[p])
                              /\ p = <<p[1], p[2]>> /\ p \in Text \X Text
         /\ IsFiniteSet(SectionsOf(m))
         /\ \A s \in SectionsOf(m) : AName(s)
<1>1. m \in Map /\ \A p \in DOMAIN m : AName(p[1]) /\ AKey(p[2]) /\ AValue(m[p])
  BY DEF GoodMap
<1>2. DOMAIN m \subseteq Text \X Text /\ IsFiniteSet(DOMAIN m)
  BY <1>1, MapIs
<1>3. \A p \in DOMAIN m : p = <<p[1], p[2]>> /\ p \in Text \X Text
  BY <1>2
<1>4. IsFiniteSet(SectionsOf(m))
  <2> DEFINE f == [p \in DOMAIN m |-> p[1]]
             T == {f[p] : p \in DOMAIN m}
  <2>1. SectionsOf(m) = T
    BY DEF SectionsOf
  <2>2. DOMAIN m \subseteq DOMAIN f
    OBVIOUS
  <2> HIDE DEF f
  <2>3. IsFiniteSet(T)
    BY <1>2, <2>2, ImageFinite
  <2> QED
    BY <2>1, <2>3
<1>5. \A s \in SectionsOf(m) : AName(s)
  BY <1>1 DEF SectionsOf
<1> QED
  BY <1>1, <1>2, <1>3, <1>4, <1>5

\* No line, and an empty one, are from any map.
LEMMA EmptyFile ==
  ASSUME NEW m
  PROVE  Regular(m, <<>>) /\ Regular(m, <<<<>>>>)
<1>1. <<>> \in File /\ Len(<<>>) = 0
  BY EmptySeq DEF File
<1>2. <<<<>>>> \in File /\ Len(<<<<>>>>) = 1 /\ <<<<>>>>[1] = <<>>
  <2> DEFINE e == <<>>
  <2>1. e \in Text
    BY <1>1, EmptySeq DEF Text
  <2> HIDE DEF e
  <2>2. <<e>> \in File /\ Len(<<e>>) = 1 /\ <<e>>[1] = e
    BY <2>1 DEF File
  <2> QED
    BY <2>2 DEF e
<1> QED
  BY <1>1, <1>2 DEF Regular

\* The lines of a section: the bracket, and an entry for each of its keys.
LEMMA SectionLinesAre ==
  ASSUME NEW m, GoodMap(m), NEW s \in SectionsOf(m)
  PROVE  /\ Regular(m, SectionLines(m, s))
         /\ Holds(m, SectionLines(m, s), s)
<1> DEFINE K == {p \in DOMAIN m : p[1] = s}
           E == {Entry(p[2], m[p]) : p \in K}
           o == <<Heading(s)>>
           g == SetToSeq(E)
           f == o \o g
<1>1. /\ IsFiniteSet(DOMAIN m) /\ AName(s)
      /\ \A p \in DOMAIN m : AKey(p[2]) /\ AValue(m[p])
  BY GoodParts
<1>2. SectionLines(m, s) = f
  BY DEF SectionLines, Heading, Entry
<1>3. E \subseteq Text
  BY <1>1, EntryIs
<1>4. IsFiniteSet(E)
  <2> DEFINE e == [p \in K |-> Entry(p[2], m[p])]
             T == {e[p] : p \in K}
  <2>1. E = T
    OBVIOUS
  <2>2. K \subseteq DOMAIN e
    OBVIOUS
  <2>3. IsFiniteSet(K)
    <3>1. K \in SUBSET DOMAIN m
      OBVIOUS
    <3> QED
      BY <1>1, <3>1, FS_Subset
  <2> HIDE DEF e, K
  <2>4. IsFiniteSet(T)
    BY <2>2, <2>3, ImageFinite
  <2> QED
    BY <2>1, <2>4 DEF K
<1>5. g \in Seq(E) /\ \A x \in E : \E i \in 1..Len(g) : g[i] = x
  <2> HIDE DEF E
  <2> QED
    BY <1>4, ListIs
<1>6. \A i \in 1..Len(g) : g[i] \in E
  <2> HIDE DEF g, E
  <2> QED
    BY <1>5, ElementOfSeq
<1>7. g \in File
  <2> HIDE DEF g, E
  <2> QED
    BY <1>3, <1>5 DEF File
<1>8. o \in File /\ Len(o) = 1 /\ o[1] = Heading(s)
  <2>1. Heading(s) \in Text
    BY <1>1, HeadingIs
  <2> QED
    BY <2>1 DEF File
<1> HIDE DEF g, o
<1>9. /\ f \in File /\ Len(g) \in Nat /\ Len(f) = 1 + Len(g)
      /\ f[1] = Heading(s)
      /\ \A i \in 1..Len(g) : f[1 + i] = g[i]
  <2>1. /\ f \in File /\ Len(g) \in Nat /\ Len(f) = Len(o) + Len(g)
        /\ \A i \in 1..Len(o) : f[i] = o[i]
        /\ \A i \in 1..Len(g) : f[Len(o) + i] = g[i]
    BY <1>7, <1>8, Behind
  <2>2. 1 \in 1..Len(o)
    BY <1>8
  <2> QED
    BY <1>8, <2>1, <2>2
<1> HIDE DEF f
<1>10. \A i \in 1..Len(g) : \E p \in K : IsEntry(m, f, 1 + i, p)
  BY <1>6, <1>9 DEF IsEntry
<1>11. ASSUME NEW i \in 1..Len(g), NEW p \in K, g[i] = Entry(p[2], m[p])
       PROVE  At(m, f, 1 + i, p)
  <2> DEFINE j == 1 + i
  <2>1. 1 \in 1..(j - 1) /\ \A h \in (1 + 1)..(j - 1) : h - 1 \in 1..Len(g) /\ 1 + (h - 1) = h
    BY <1>9
  <2>2. \A h \in (1 + 1)..(j - 1) : \E q \in DOMAIN m : IsEntry(m, f, h, q)
    BY <1>10, <2>1
  <2>3. IsEntry(m, f, j, p)
    BY <1>9, <1>11 DEF IsEntry
  <2> HIDE DEF j
  <2>4. At(m, f, j, p)
    BY <1>9, <2>1, <2>2, <2>3 DEF At
  <2> QED
    BY <2>4 DEF j
<1>12. \A i \in 1..Len(g) : \E p \in K : At(m, f, 1 + i, p)
  BY <1>6, <1>11
<1>13. \A p \in K : \E i \in 1..Len(g) : At(m, f, 1 + i, p)
  BY <1>5, <1>11
<1>14. \A i \in 1..Len(g) : 1 + i \in 1..Len(f)
  BY <1>9
<1>15. 1 \in 1..Len(f)
  BY <1>9
<1>16. \A j \in 1..Len(f) : j = 1 \/ (j - 1 \in 1..Len(g) /\ 1 + (j - 1) = j)
  BY <1>9
<1>17. Holds(m, f, s)
  <2>1. \A p \in DOMAIN m : p[1] = s => p \in K
    OBVIOUS
  <2> HIDE DEF K
  <2> QED
    BY <1>9, <1>13, <1>14, <1>15, <2>1 DEF Holds
<1>18. Regular(m, f)
  <2>1. ASSUME NEW j \in 1..Len(f)
        PROVE  \/ \E x \in SectionsOf(m) : f[j] = Heading(x)
               \/ \E p \in DOMAIN m : At(m, f, j, p)
    BY <1>9, <1>12, <1>16
  <2> QED
    BY <1>9, <2>1 DEF Regular
<1> QED
  BY <1>2, <1>17, <1>18

\* What is written after n of the sections.
LEMMA WrittenIs ==
  ASSUME NEW m, GoodMap(m), NEW sections \in Seq(SectionsOf(m)),
         NEW n \in 0..Len(sections)
  PROVE  /\ Regular(m, Written(m, sections)[n])
         /\ \A k \in 1..n : Holds(m, Written(m, sections)[n], sections[k])
<1> DEFINE N == Len(sections)
           sep(k) == IF k = 1 THEN <<>> ELSE <<<<>>>>
           more(l, k) == l \o sep(k) \o SectionLines(m, sections[k])
           h == [k \in 1..N |-> [l \in File |-> more(l, k)]]
           w == Written(m, sections)
           Is(g) == g = [k \in 0..N |-> IF k = 0 THEN <<>> ELSE more(g[k - 1], k)]
<1>1. N \in Nat /\ \A k \in 1..N : sections[k] \in SectionsOf(m)
  BY LenProperties, ElementOfSeq
<1>2. <<>> \in File
  BY EmptyFile DEF Regular
<1>3. \A k \in 1..N : /\ Regular(m, SectionLines(m, sections[k]))
                      /\ Holds(m, SectionLines(m, sections[k]), sections[k])
  BY <1>1, SectionLinesAre
<1>4. \A k \in 1..N : Regular(m, sep(k))
  BY EmptyFile
<1>5. ASSUME NEW k \in 1..N, NEW l \in File PROVE more(l, k) \in File
  <2>1. sep(k) \in File /\ SectionLines(m, sections[k]) \in File
    BY <1>3, <1>4 DEF Regular
  <2> HIDE DEF sep
  <2>2. l \o sep(k) \in File
    BY <2>1, Behind
  <2> QED
    BY <2>1, <2>2, Behind
<1>6. h \in [1..N -> [File -> File]]
  <2> HIDE DEF more
  <2> QED
    BY <1>5
<1>7. PICK f : IsLoop(f, N, File, <<>>, h)
  <2> HIDE DEF h, N
  <2> QED
    BY <1>1, <1>2, <1>6, Iterates
<1>8. f \in [0..N -> File] /\ f[0] = <<>> /\ \A k \in 1..N : f[k] = h[k][f[k - 1]]
  <2> HIDE DEF h, N
  <2> QED
    BY <1>7 DEF IsLoop
<1>9. \A k \in 1..N : f[k] = more(f[k - 1], k)
  <2> HIDE DEF more
  <2> SUFFICES ASSUME NEW k \in 1..N PROVE f[k] = more(f[k - 1], k)
    OBVIOUS
  <2>1. k - 1 \in 0..N
    BY <1>1
  <2>2. f[k - 1] \in File
    BY <1>8, <2>1
  <2>3. h[k][f[k - 1]] = more(f[k - 1], k)
    BY <2>2
  <2> QED
    BY <1>8, <2>3
<1>10. Is(f)
  <2> HIDE DEF more
  <2>1. \A k \in 0..N : f[k] = IF k = 0 THEN <<>> ELSE more(f[k - 1], k)
    BY <1>1, <1>8, <1>9
  <2> QED
    BY <1>8, <2>1
<1>11. w = CHOOSE g : Is(g)
  BY DEF Written
<1>12. Is(w)
  <2> HIDE DEF Is, w
  <2> QED
    BY <1>10, <1>11
<1> HIDE DEF w
<1>13. w[0] = <<>> /\ \A k \in 1..N : w[k] = more(w[k - 1], k)
  <2> HIDE DEF more
  <2>1. \A k \in 0..N : w[k] = IF k = 0 THEN <<>> ELSE more(w[k - 1], k)
    BY <1>12
  <2> QED
    BY <1>1, <2>1
<1> DEFINE P == {k \in 0..N : /\ Regular(m, w[k])
                              /\ \A i \in 1..k : Holds(m, w[k], sections[i])}
<1>14. 0 \in P
  BY <1>1, <1>13, EmptyFile
<1>15. ASSUME NEW k \in 0..(N - 1), k \in P PROVE k + 1 \in P
  <2> DEFINE s == sections[k + 1]
             l == SectionLines(m, s)
             before == w[k] \o sep(k + 1)
  <2>1. k + 1 \in 1..N /\ (k + 1) - 1 = k /\ k + 1 \in 0..N
    BY <1>1
  <2>2. w[k + 1] = before \o l
    BY <1>13, <2>1
  <2>3. Regular(m, w[k]) /\ \A i \in 1..k : Holds(m, w[k], sections[i])
    BY <1>15
  <2>4. Regular(m, sep(k + 1)) /\ Regular(m, l) /\ Holds(m, l, s)
    BY <1>3, <1>4, <2>1
  <2> HIDE DEF sep, l
  <2>5. Regular(m, before)
    BY <2>3, <2>4, RegularBoth
  <2>6. \A i \in 1..k : Holds(m, before, sections[i])
    BY <2>3, <2>4, HoldsFirst DEF Regular
  <2> HIDE DEF before, s
  <2>7. Regular(m, w[k + 1])
    BY <2>2, <2>4, <2>5, RegularBoth
  <2>8. \A i \in 1..k : Holds(m, w[k + 1], sections[i])
    BY <2>2, <2>4, <2>5, <2>6, HoldsFirst DEF Regular
  <2>9. Holds(m, w[k + 1], s)
    BY <2>2, <2>4, <2>5, HoldsSecond DEF Regular
  <2>10. \A i \in 1..(k + 1) : i \in 1..k \/ i = k + 1
    BY <1>1
  <2> QED
    BY <2>1, <2>7, <2>8, <2>9, <2>10 DEF s
<1> HIDE DEF P
<1>16. \A k \in 0..N : k \in P
  <2> HIDE DEF N
  <2> QED
    BY <1>1, <1>14, <1>15, Climb
<1>17. n \in P
  BY <1>16
<1> QED
  BY <1>17 DEF P, w

\* SaveConfig's file has all of the map, and nothing else.
LEMMA SavedRegular ==
  ASSUME NEW m, GoodMap(m)
  PROVE  /\ Regular(m, Saved(m))
         /\ \A s \in SectionsOf(m) : Holds(m, Saved(m), s)
<1> DEFINE S == SectionsOf(m)
           sections == SetToSeq(S)
           N == Len(sections)
<1>1. IsFiniteSet(S)
  BY GoodParts
<1>2. sections \in Seq(S) /\ \A x \in S : \E i \in 1..N : sections[i] = x
  <2> HIDE DEF S
  <2> QED
    BY <1>1, ListIs
<1>3. Saved(m) = Written(m, sections)[N]
  BY DEF Saved
<1> HIDE DEF sections
<1>4. N \in Nat
  BY <1>2, LenProperties
<1>5. /\ Regular(m, Written(m, sections)[N])
      /\ \A k \in 1..N : Holds(m, Written(m, sections)[N], sections[k])
  BY <1>2, <1>4, WrittenIs
<1> QED
  BY <1>2, <1>3, <1>5

\* One line does not give two things.
LEMMA GivesOnce ==
  ASSUME NEW file \in File, NEW j \in 1..Len(file),
         NEW p \in Text \X Text, NEW v, Gives(file, j, p, v),
         NEW q \in Text \X Text, NEW w, Gives(file, j, q, w)
  PROVE  p = q /\ v = w
<1> DEFINE sec == Turns(NoSettings, file)[j - 1].section
<1>0. Len(file) \in Nat /\ file[j] \in Text /\ j - 1 \in 0..Len(file)
  BY FileLines
<1>1. OpenAfter(file, j - 1, sec) /\ sec \in Text
  BY <1>0, OpenIs, TurnsAre DEF State
<1> HIDE DEF sec
<1>2. p[1] = sec /\ <<p[2], v>> \in Pairs(file[j])
  BY <1>1, GivesIs
<1>3. q[1] = sec /\ <<q[2], w>> \in Pairs(file[j])
  BY <1>1, GivesIs
<1>4. <<p[2], v>> = <<q[2], w>>
  BY <1>0, <1>2, <1>3, LineParts
<1>5. p[2] = q[2] /\ v = w
  BY <1>4
<1>6. p = <<p[1], p[2]>> /\ q = <<q[1], q[2]>>
  OBVIOUS
<1> QED
  BY <1>2, <1>3, <1>5, <1>6

\* A file with what is in the map, and nothing else, means the map.
LEMMA RegularMeans ==
  ASSUME NEW m, GoodMap(m), NEW file, Regular(m, file),
         \A s \in SectionsOf(m) : Holds(m, file, s)
  PROVE  MapAfter(file, Len(file), m)
<1> DEFINE N == Len(file)
<1>1. file \in File /\ N \in Nat /\ \A i \in 1..N : file[i] \in Text
  BY FileLines DEF Regular
<1>2. /\ m \in Map
      /\ \A p \in DOMAIN m : AName(p[1]) /\ AKey(p[2]) /\ AValue(m[p]) /\ p \in Text \X Text
  BY GoodParts
<1>3. ASSUME NEW j \in 1..N, NEW p \in DOMAIN m, At(m, file, j, p)
      PROVE  Gives(file, j, p, m[p])
  <2>1. Pairs(file[j]) = {<<p[2], m[p]>>}
    BY <1>2, <1>3, EntryIs DEF At, IsEntry
  <2>2. PICK i \in 1..(j - 1) :
          /\ file[i] = Heading(p[1])
          /\ \A h \in (i + 1)..(j - 1) : \E q \in DOMAIN m : IsEntry(m, file, h, q)
    BY <1>3 DEF At
  <2>3. Sections(file[i]) = {p[1]}
    BY <1>2, <2>2, HeadingIs
  <2>4. \A h \in (i + 1)..(j - 1) : Sections(file[h]) = {}
    BY <1>2, <2>2, EntryIs DEF IsEntry
  <2> QED
    BY <2>1, <2>3, <2>4 DEF Gives
<1>4. ASSUME NEW j \in 1..N, NEW p \in Text \X Text, NEW v, Gives(file, j, p, v)
      PROVE  p \in DOMAIN m /\ v = m[p]
  <2>1. Pairs(file[j]) # {}
    BY <1>4 DEF Gives
  <2>2. file[j] # <<>>
    <3>1. Pairs(<<>>) = {}
      <4>1. Len(<<>>) = 0
        BY TextLen, <1>1
      <4>2. \A x : x \notin Pairs(<<>>)
        BY <4>1, PairsIn
      <4> QED
        BY <4>2
    <3> QED
      BY <2>1, <3>1
  <2>3. \A s \in SectionsOf(m) : file[j] # Heading(s)
    <3>1. \A s \in SectionsOf(m) : AName(s)
      BY GoodParts
    <3> QED
      BY <2>1, <3>1, HeadingIs
  <2>4. PICK q \in DOMAIN m : At(m, file, j, q)
    BY <2>2, <2>3 DEF Regular
  <2>5. Gives(file, j, q, m[q]) /\ q \in Text \X Text
    BY <1>2, <1>3, <2>4
  <2>6. p = q /\ v = m[q]
    BY <1>1, <1>4, <2>5, GivesOnce
  <2> QED
    BY <2>6
<1>5. ASSUME NEW p \in DOMAIN m
      PROVE  /\ m[p] # <<>>
             /\ \E j \in 1..N : /\ Gives(file, j, p, m[p])
                               /\ \A i \in (j + 1)..N : \A v : ~Gives(file, i, p, v)
  <2> DEFINE J == {j \in 1..N : Gives(file, j, p, m[p])}
             j == Most(J)
  <2>1. J # {}
    <3>1. p[1] \in SectionsOf(m)
      BY DEF SectionsOf
    <3>2. PICK i \in 1..N : At(m, file, i, p)
      BY <3>1 DEF Holds
    <3> QED
      BY <1>3, <3>2
  <2>2. J \in SUBSET (0..N)
    BY <1>1
  <2> HIDE DEF J
  <2>3. j \in J /\ \A i \in J : j >= i
    BY <1>1, <2>1, <2>2, HasMost
  <2> HIDE DEF j
  <2>4. j \in 1..N /\ Gives(file, j, p, m[p])
    BY <2>3 DEF J
  <2>5. ASSUME NEW i \in (j + 1)..N, NEW v, Gives(file, i, p, v) PROVE FALSE
    <3>1. i \in 1..N /\ ~(j >= i)
      BY <1>1, <2>4
    <3>2. v = m[p]
      BY <1>2, <1>4, <2>5, <3>1
    <3>3. i \in J
      BY <2>5, <3>1, <3>2 DEF J
    <3> QED
      BY <2>3, <3>1, <3>3
  <2>6. m[p] # <<>>
    BY <1>2 DEF AValue, Trimmed
  <2> QED
    BY <2>4, <2>5, <2>6
<1> QED
  BY <1>2, <1>4, <1>5 DEF MapAfter

\* What a file without long lines gives can be written again.
LEMMA SaidIsGood ==
  ASSUME NEW file \in File, TooLong(file) = {},
         NEW m, MapAfter(file, Len(file), m)
  PROVE  /\ GoodMap(m)
         /\ \A p \in DOMAIN m : Len(p[2]) + 1 + Len(m[p]) =< Limit
<1>1. Len(file) \in Nat /\ \A i \in 1..Len(file) : file[i] \in Text
  BY FileLines
<1>2. ASSUME NEW p \in DOMAIN m
      PROVE  /\ AName(p[1]) /\ AKey(p[2]) /\ AValue(m[p])
             /\ Len(p[2]) + 1 + Len(m[p]) =< Limit
  <2>1. PICK j \in 1..Len(file) : Gives(file, j, p, m[p])
    BY DEF MapAfter
  <2>2. <<p[2], m[p]>> \in Pairs(file[j]) /\ file[j] \in Text
    BY <1>1, <2>1 DEF Gives
  <2>3. AKey(p[2]) /\ AValue(m[p]) /\ Len(p[2]) + 1 + Len(m[p]) =< Len(file[j])
    BY <2>2, PairSaid
  <2>4. PICK i \in 1..(j - 1) : p[1] \in Sections(file[i])
    BY <2>1 DEF Gives
  <2>5. AName(p[1])
    <3>1. i \in 1..Len(file)
      BY <1>1
    <3> QED
      BY <1>1, <2>4, <3>1, SectionSaid
  <2>6. ~(Len(file[j]) > Limit)
    BY DEF TooLong
  <2>7. /\ Len(file[j]) \in Nat /\ Len(p[2]) \in Nat /\ Len(m[p]) \in Nat
        /\ Limit \in Nat
    BY <2>2, <2>3, TextLen, LimitAssumption DEF AKey, AValue
  <2> QED
    BY <2>3, <2>5, <2>6, <2>7
<1> QED
  BY <1>2 DEF GoodMap, MapAfter

\* What SaveConfig writes is read back the same, unless the name of a section
\* fills a line without its second bracket.
THEOREM RoundTrip ==
  ASSUME NEW m, GoodMap(m), \A p \in DOMAIN m : Len(p[2]) + 1 + Len(m[p]) =< Limit,
         NEW old
  PROVE  IF \E s \in SectionsOf(m) : Len(s) + 2 > Limit THEN TooLong(Saved(m)) # {}
         ELSE TooLong(Saved(m)) = {} /\ Load(old, Saved(m)) = m
<1> DEFINE file == Saved(m)
<1>1. Regular(m, file) /\ \A s \in SectionsOf(m) : Holds(m, file, s)
  BY SavedRegular
<1> HIDE DEF file
<1>2. /\ \A s \in SectionsOf(m) : AName(s)
      /\ \A p \in DOMAIN m : AKey(p[2]) /\ AValue(m[p])
  BY GoodParts
<1>3. file \in File /\ Limit \in Nat
  BY <1>1, LimitAssumption DEF Regular
<1>4. ASSUME NEW s \in SectionsOf(m), Len(s) + 2 > Limit PROVE TooLong(file) # {}
  <2>1. PICK j \in 1..Len(file) : file[j] = Heading(s)
    BY <1>1 DEF Holds
  <2>2. Len(file[j]) > Limit
    BY <1>2, <1>4, <2>1, HeadingIs
  <2> QED
    BY <2>2 DEF TooLong
<1>5. ASSUME \A s \in SectionsOf(m) : ~(Len(s) + 2 > Limit)
      PROVE  TooLong(file) = {} /\ Load(old, file) = m
  <2>1. ASSUME NEW j \in 1..Len(file) PROVE ~(Len(file[j]) > Limit)
    <3>1. CASE file[j] = <<>>
      BY <1>3, <3>1
    <3>2. CASE \E s \in SectionsOf(m) : file[j] = Heading(s)
      BY <1>2, <1>5, <3>2, HeadingIs
    <3>3. CASE \E p \in DOMAIN m : At(m, file, j, p)
      <4>1. PICK p \in DOMAIN m : file[j] = Entry(p[2], m[p])
        BY <3>3 DEF At, IsEntry
      <4>2. Len(file[j]) = Len(p[2]) + 1 + Len(m[p])
        BY <1>2, <4>1, EntryIs
      <4>3. Len(p[2]) + 1 + Len(m[p]) =< Limit /\ Len(p[2]) \in Nat /\ Len(m[p]) \in Nat
        BY <1>2, TextLen DEF AKey, AValue
      <4> QED
        BY <1>3, <4>2, <4>3
    <3> QED
      BY <1>1, <3>1, <3>2, <3>3 DEF Regular
  <2>2. TooLong(file) = {}
    BY <2>1 DEF TooLong
  <2>3. MapAfter(file, Len(file), m)
    BY <1>1, RegularMeans
  <2>4. Meaning(file) = m
    BY <1>3, <2>3, MeaningIs
  <2> QED
    BY <1>3, <2>2, <2>4, LoadIsMeaning
<1> QED
  BY <1>4, <1>5 DEF file
-----------------------------------------------------------------------------
(* The invariant.                                                          *)

Whole == [p \in NotEmptied |-> settings[p]]

TypeOK ==
  /\ place \in Places \cup {"initial"}
  /\ disk \in File
  /\ path \in Searched \cup {"", "arg"}
  /\ settings \in Map
  /\ loaded \in File
  /\ running \in BOOLEAN /\ hung \in BOOLEAN
  /\ step \in {"idle", "section", "key", "value"}
  /\ asked \in [pair : Text \X Text, type : {"string", "int"}]
  /\ fault \in {"none", "freedHome", "tornMap"}

\* Get's own settings, empty ones, do not count; and this holds during a Get.
WholeFile == ~hung => TooLong(loaded) = {} /\ Whole = Meaning(loaded)

\* During a Get the right answer is among those seen.
RightSeen == step # "idle" => Right(settings, asked) \in seen

\* Nobody asks before main has loaded the settings.
NotYetAsked == ~running => step = "idle"

SettingsInv == TypeOK /\ WholeFile /\ RightSeen /\ NotYetAsked /\ GetIsCurrent

\* A map without empty values is whole.
LEMMA WholeMap ==
  ASSUME settings \in Map
  PROVE  /\ DOMAIN Whole = NotEmptied
         /\ \A p \in NotEmptied : Whole[p] = settings[p] /\ settings[p] # <<>>
         /\ (\A p \in DOMAIN settings : settings[p] # <<>>) => Whole = settings
<1>1. settings = [p \in DOMAIN settings |-> settings[p]]
  BY MapIs
<1>2. (\A p \in DOMAIN settings : settings[p] # <<>>) => NotEmptied = DOMAIN settings
  BY DEF NotEmptied
<1> QED
  BY <1>1, <1>2 DEF Whole, NotEmptied

\* What of a map is not empty.
Kept(m) == [p \in {q \in DOMAIN m : m[q] # <<>>} |-> m[p]]

\* What is loaded from a file without long lines is what the file means.
LEMMA FileWhole ==
  ASSUME NEW file \in File, TooLong(file) = {}, NEW old, NEW m, m = Load(old, file)
  PROVE  Kept(m) = Meaning(file)
<1>1. Meaning(file) = m /\ MapAfter(file, Len(file), m)
  BY LoadIsMeaning
<1>2. m \in Map /\ \A p \in DOMAIN m : m[p] # <<>>
  BY <1>1 DEF MapAfter
<1>3. m = [p \in DOMAIN m |-> m[p]]
  BY <1>2, MapIs
<1>4. {q \in DOMAIN m : m[q] # <<>>} = DOMAIN m
  BY <1>2
<1> QED
  BY <1>1, <1>3, <1>4 DEF Kept

\* No lines mean no settings.
LEMMA NothingMeant ==
  TooLong(<<>>) = {} /\ Meaning(<<>>) = NoSettings
<1>1. <<>> \in File /\ Len(<<>>) = 0
  BY EmptySeq DEF File
<1>2. TooLong(<<>>) = {}
  BY <1>1 DEF TooLong
<1>3. MapAfter(<<>>, Len(<<>>), NoSettings)
  BY <1>1, NoSettingsIs DEF MapAfter
<1> QED
  BY <1>1, <1>2, <1>3, MeaningIs

\* The pair of empty names that Init begins with has the type of a pair.
LEMMA NobodyAsked ==
  [pair |-> <<<<>>, <<>>>>, type |-> "string"]
    \in [pair : Text \X Text, type : {"string", "int"}]
<1> DEFINE e == <<>>
           both == <<e, e>>
<1>1. e \in Text
  BY EmptySeq DEF Text
<1> HIDE DEF e
<1>2. both \in Text \X Text
  BY <1>1
<1> HIDE DEF both
<1>3. [pair |-> both, type |-> "string"] \in [pair : Text \X Text, type : {"string", "int"}]
  BY <1>2
<1> QED
  BY <1>3 DEF both, e

\* The invariant holds at first,
LEMMA InitHolds == Init => SettingsInv
<1> SUFFICES ASSUME Init PROVE SettingsInv
  OBVIOUS
<1> USE DEF Init
<1>1. <<>> \in File /\ <<>> \in Text
  BY EmptySeq DEF File, Text
<1>2. settings \in Map /\ DOMAIN settings = {}
  BY NoSettingsIs
<1>3. disk \in File
  BY FilesAssumption DEF File
<1>4. asked \in [pair : Text \X Text, type : {"string", "int"}]
  BY NobodyAsked
<1>5. TypeOK
  BY <1>1, <1>2, <1>3, <1>4 DEF TypeOK, Searched
<1>6. WholeFile
  <2>1. Whole = settings
    BY <1>2, WholeMap
  <2> QED
    BY <2>1, NothingMeant DEF WholeFile
<1>7. RightSeen /\ NotYetAsked /\ GetIsCurrent
  BY DEF RightSeen, NotYetAsked, GetIsCurrent
<1> QED
  BY <1>5, <1>6, <1>7 DEF SettingsInv

\* LoadConfig takes all of the file it finds, and nothing if it finds none.
LEMMA LoadHolds ==
  ASSUME TypeOK, WholeFile, ~hung, LoadConfig, UNCHANGED <<disk, place>>
  PROVE  /\ settings' \in Map /\ loaded' \in File /\ hung' \in BOOLEAN
         /\ path' \in Searched \cup {"", "arg"}
         /\ WholeFile'
<1>1. path' \in Searched \cup {"", "arg"}
  BY DEF LoadConfig, PathFound, TypeOK
<1>2. CASE PathFound # "" /\ place = PathFound
  <2>1. settings' = Load(settings, disk) /\ loaded' = disk /\ hung' = (TooLong(disk) # {})
    BY <1>2 DEF LoadConfig
  <2>2. disk \in File
    BY DEF TypeOK
  <2>3. settings' \in Map
    BY <2>1, <2>2, LoadIsMap
  <2>4. ASSUME TooLong(disk) = {} PROVE Whole' = Meaning(disk)
    <3>1. Kept(settings') = Meaning(disk)
      BY <2>1, <2>2, <2>4, FileWhole
    <3> QED
      BY <3>1 DEF Whole, NotEmptied, Kept
  <2>5. WholeFile'
    BY <2>1, <2>4 DEF WholeFile
  <2> QED
    BY <1>1, <2>1, <2>2, <2>3, <2>5
<1>3. CASE ~(PathFound # "" /\ place = PathFound)
  <2>1. UNCHANGED <<settings, loaded, hung>>
    BY <1>3 DEF LoadConfig
  <2> QED
    BY <1>1, <2>1 DEF TypeOK, WholeFile, Whole, NotEmptied
<1> QED
  BY <1>2, <1>3

\* ... and no step breaks it: a reload puts a whole file in the place of a
\* whole file, and adds the right answer to those seen; operator[] adds what
\* is empty.
LEMMA NextHolds == SettingsInv /\ [Next]_vars => SettingsInv'
<1> SUFFICES ASSUME SettingsInv, [Next]_vars PROVE SettingsInv'
  OBVIOUS
<1>0. TypeOK /\ WholeFile /\ RightSeen /\ NotYetAsked /\ GetIsCurrent
  BY DEF SettingsInv
<1>1. CASE UNCHANGED vars
  BY <1>0, <1>1 DEF vars, diskVars, getVars, TypeOK, WholeFile, Whole, NotEmptied,
                    RightSeen, NotYetAsked, GetIsCurrent, SettingsInv
<1>a. ASSUME UNCHANGED <<settings, loaded, hung>> PROVE WholeFile'
  BY <1>0, <1>a DEF WholeFile, Whole, NotEmptied
<1>2. CASE ~hung /\ Start
  <2>1. UNCHANGED <<disk, place, asked, answer, seen>> /\ step' = step
    BY <1>2 DEF Start, diskVars, getVars
  <2>2. running' \in BOOLEAN /\ fault' \in {"none", "freedHome", "tornMap"}
    BY <1>0, <1>2 DEF Start, TypeOK
  <2>3. /\ settings' \in Map /\ loaded' \in File /\ hung' \in BOOLEAN
        /\ path' \in Searched \cup {"", "arg"}
        /\ WholeFile'
    <3>1. CASE LoadConfig
      BY <1>0, <1>2, <2>1, <3>1, LoadHolds
    <3>2. CASE UNCHANGED <<path, settings, loaded, hung>>
      BY <1>0, <1>a, <3>2 DEF TypeOK
    <3> QED
      BY <1>2, <3>1, <3>2 DEF Start
  <2>4. TypeOK'
    BY <1>0, <2>1, <2>2, <2>3 DEF TypeOK
  <2>5. step = "idle"
    BY <1>0, <1>2 DEF Start, NotYetAsked
  <2> QED
    BY <1>0, <2>1, <2>3, <2>4, <2>5 DEF RightSeen, NotYetAsked, GetIsCurrent, SettingsInv
<1>3. CASE ~hung /\ OnSIGHUP
  <2>1. /\ UNCHANGED <<disk, place, running, asked, answer, fault>> /\ step' = step
        /\ running /\ LoadConfig
        /\ seen' = IF step = "idle" THEN seen ELSE seen \cup {Right(settings', asked)}
    BY <1>3 DEF OnSIGHUP, diskVars
  <2>2. /\ settings' \in Map /\ loaded' \in File /\ hung' \in BOOLEAN
        /\ path' \in Searched \cup {"", "arg"}
        /\ WholeFile'
    BY <1>0, <1>3, <2>1, LoadHolds
  <2>3. TypeOK'
    BY <1>0, <2>1, <2>2 DEF TypeOK
  <2>4. RightSeen'
    BY <2>1 DEF RightSeen
  <2>5. NotYetAsked' /\ GetIsCurrent'
    BY <1>0, <2>1 DEF NotYetAsked, GetIsCurrent
  <2> QED
    BY <2>2, <2>3, <2>4, <2>5 DEF SettingsInv
<1>4. CASE SIGHUPFaults
  <2>1. /\ UNCHANGED <<disk, place, path, settings, loaded, running, hung>>
        /\ UNCHANGED <<step, asked, answer, seen>>
        /\ fault' \in {"none", "freedHome", "tornMap"}
    BY <1>4 DEF SIGHUPFaults, diskVars, getVars
  <2>2. TypeOK'
    BY <1>0, <2>1 DEF TypeOK
  <2> QED
    BY <1>0, <1>a, <2>1, <2>2 DEF RightSeen, NotYetAsked, GetIsCurrent, SettingsInv
<1>5. CASE Edit
  <2>1. /\ UNCHANGED <<path, settings, loaded, running, hung, fault>>
        /\ UNCHANGED <<step, asked, answer, seen>>
        /\ disk' \in Edits /\ place' \in Places
    BY <1>5 DEF Edit, getVars
  <2>2. TypeOK'
    BY <1>0, <2>1, FilesAssumption DEF TypeOK, File
  <2> QED
    BY <1>0, <1>a, <2>1, <2>2 DEF RightSeen, NotYetAsked, GetIsCurrent, SettingsInv
<1>6. ASSUME NEW pair \in Wanted, NEW type \in {"string", "int"}, CallGet(pair, type)
      PROVE  SettingsInv'
  <2>1. /\ UNCHANGED <<disk, place, path, settings, loaded, running, hung, fault>>
        /\ running /\ step' = "section"
        /\ asked' = [pair |-> pair, type |-> type]
        /\ seen' = {Right(settings, asked')}
    BY <1>6 DEF CallGet, diskVars
  <2>2. TypeOK'
    BY <1>0, <2>1, WantedAssumption DEF TypeOK
  <2>3. RightSeen' /\ NotYetAsked' /\ GetIsCurrent'
    BY <2>1 DEF RightSeen, NotYetAsked, GetIsCurrent
  <2> QED
    BY <1>a, <2>1, <2>2, <2>3 DEF SettingsInv
\* A look that finds nothing: the right answer is the default.
<1>b. asked.pair \notin DOMAIN settings => Right(settings, asked) = Default
  BY DEF Right
<1>7. CASE CountSection
  <2>1. /\ UNCHANGED <<disk, place, path, settings, loaded, running, hung, fault>>
        /\ UNCHANGED <<asked, seen>>
        /\ step = "section"
        /\ IF asked.pair[1] \in SectionsOf(settings)
           THEN step' = "key" /\ answer' = answer
           ELSE step' = "idle" /\ answer' = Default
    BY <1>7 DEF CountSection, diskVars, Return
  <2>2. TypeOK'
    BY <1>0, <2>1 DEF TypeOK
  <2>3. asked.pair[1] \notin SectionsOf(settings) => asked.pair \notin DOMAIN settings
    BY DEF SectionsOf
  <2>4. Right(settings, asked) \in seen
    BY <1>0, <2>1 DEF RightSeen
  <2>5. RightSeen' /\ NotYetAsked' /\ GetIsCurrent'
    BY <1>0, <1>b, <2>1, <2>3, <2>4 DEF RightSeen, NotYetAsked, GetIsCurrent
  <2> QED
    BY <1>a, <2>1, <2>2, <2>5 DEF SettingsInv
<1>8. CASE CountKey
  <2>1. /\ UNCHANGED <<disk, place, path, settings, loaded, running, hung, fault>>
        /\ UNCHANGED <<asked, seen>>
        /\ step = "key"
        /\ IF asked.pair \in DOMAIN settings
           THEN step' = "value" /\ answer' = answer
           ELSE step' = "idle" /\ answer' = Default
    BY <1>8 DEF CountKey, diskVars, Return
  <2>2. TypeOK'
    BY <1>0, <2>1 DEF TypeOK
  <2>3. Right(settings, asked) \in seen
    BY <1>0, <2>1 DEF RightSeen
  <2>4. RightSeen' /\ NotYetAsked' /\ GetIsCurrent'
    BY <1>0, <1>b, <2>1, <2>3 DEF RightSeen, NotYetAsked, GetIsCurrent
  <2> QED
    BY <1>a, <2>1, <2>2, <2>4 DEF SettingsInv
<1>9. CASE FetchValue
  <2> DEFINE v == Found(settings, asked.pair)
             s == asked.pair[1]
             k == asked.pair[2]
  <2>1. /\ UNCHANGED <<disk, place, path, loaded, running, hung, fault>>
        /\ UNCHANGED <<asked, seen>>
        /\ step = "value" /\ step' = "idle"
        /\ settings' = Put(settings, s, k, v)
        /\ answer' = Answer(asked.type, v)
    BY <1>9 DEF FetchValue, diskVars, Return
  <2>2. settings \in Map /\ s \in Text /\ k \in Text /\ asked.pair = <<s, k>>
    <3>1. settings \in Map /\ asked \in [pair : Text \X Text, type : {"string", "int"}]
      BY <1>0 DEF TypeOK
    <3>2. asked.pair \in Text \X Text
      BY <3>1
    <3> QED
      BY <3>1, <3>2
  <2>3. v \in Text
    <3>1. \A p \in DOMAIN settings : settings[p] \in Text
      BY <2>2, MapIs
    <3>2. <<>> \in Text
      BY EmptySeq DEF Text
    <3> QED
      BY <3>1, <3>2 DEF Found
  <2> HIDE DEF v, s, k
  <2>4. settings' \in Map /\ IsPut(settings', settings, asked.pair, v)
    BY <2>1, <2>2, <2>3, PutIs
  <2>5. TypeOK'
    BY <1>0, <2>1, <2>4 DEF TypeOK
  <2>6. NotEmptied' = NotEmptied /\ \A p \in NotEmptied : settings'[p] = settings[p]
    BY <2>4 DEF NotEmptied, IsPut, Found, v
  <2>7. WholeFile'
    <3>1. Whole' = Whole
      BY <2>6 DEF Whole
    <3> QED
      BY <1>0, <2>1, <3>1 DEF WholeFile
  <2>8. Right(settings, asked) \in seen
    BY <1>0, <2>1 DEF RightSeen
  <2>9. GetIsCurrent'
    <3>1. CASE asked.pair \in DOMAIN settings
      <4>1. answer' = Right(settings, asked)
        BY <2>1, <3>1 DEF Right, Found, v
      <4> QED
        BY <2>1, <2>8, <4>1 DEF GetIsCurrent
    <3>2. CASE asked.pair \notin DOMAIN settings
      <4>1. v = <<>>
        BY <3>2 DEF Found, v
      <4>2. Answer(asked.type, v) = <<>>
        <5>1. Len(<<>>) = 0
          BY EmptySeq
        <5>2. IsInt(<<>>)
          BY <5>1 DEF IsInt
        <5> QED
          BY <4>1, <5>2 DEF Answer
      <4> QED
        BY <1>b, <2>1, <2>8, <3>2, <4>2 DEF GetIsCurrent
    <3> QED
      BY <3>1, <3>2
  <2>10. RightSeen' /\ NotYetAsked'
    BY <2>1 DEF RightSeen, NotYetAsked
  <2> QED
    BY <2>5, <2>7, <2>9, <2>10 DEF SettingsInv
<1> QED
  BY <1>1, <1>2, <1>3, <1>4, <1>5, <1>6, <1>7, <1>8, <1>9 DEF Next

\* The strengthening: at every moment the settings, without what operator[]
\* put there, are the last file, and a Get in progress has seen the right
\* answer of this moment.
THEOREM SettingsInvariant == Spec => []SettingsInv
<1> QED
  BY InitHolds, NextHolds, PTL DEF Spec

\* Every variable keeps its type; m_Settings is a finite map from pairs of
\* names to values, whatever lines a file has.
THEOREM TypeCorrect == Spec => []TypeOK
<1>1. SettingsInv => TypeOK
  BY DEF SettingsInv
<1> QED
  BY <1>1, SettingsInvariant, PTL

\* Between two calls of Get the settings are what the last file means that
\* LoadConfig (SettingsFile.cpp:109-206) has opened, whatever files were
\* loaded before, and whatever was asked for.
THEOREM FileCorrect == Spec => []SettingsAreTheFile
<1>1. SettingsInv => SettingsAreTheFile
  BY DEF SettingsInv, WholeFile, Whole, SettingsAreTheFile
<1> QED
  BY <1>1, SettingsInvariant, PTL

\* Get and GetInt return an answer that was right during the call, or the
\* empty value operator[] inserts where a reload took the key away.
THEOREM GetCorrect == Spec => []GetIsCurrent
<1>1. SettingsInv => GetIsCurrent
  BY DEF SettingsInv
<1> QED
  BY <1>1, SettingsInvariant, PTL

\* At any time SaveConfig would write a file that LoadConfig reads back the
\* same, unless a section's name leaves no room for its second bracket.
THEOREM SavedCorrect == Spec => []SavedIsLoaded
<1>1. SettingsInv => SavedIsLoaded
  <2> SUFFICES ASSUME SettingsInv, ~hung PROVE SavedIsLoaded
    BY DEF SavedIsLoaded
  <2>1. TooLong(loaded) = {} /\ Whole = Meaning(loaded) /\ loaded \in File
    BY DEF SettingsInv, WholeFile, TypeOK
  <2>2. MapAfter(loaded, Len(loaded), Whole)
    BY <2>1, LoadIsMeaning
  <2> DEFINE m == Whole
  <2>3. GoodMap(m) /\ \A p \in DOMAIN m : Len(p[2]) + 1 + Len(m[p]) =< Limit
    BY <2>1, <2>2, SaidIsGood
  <2> HIDE DEF m
  <2>4. IF \E s \in SectionsOf(m) : Len(s) + 2 > Limit THEN TooLong(Saved(m)) # {}
        ELSE TooLong(Saved(m)) = {} /\ Load(settings, Saved(m)) = m
    BY <2>3, RoundTrip
  <2> QED
    BY <2>4 DEF SavedIsLoaded, m, Whole
<1> QED
  BY <1>1, SettingsInvariant, PTL
=============================================================================
