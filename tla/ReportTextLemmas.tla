-------------------------- MODULE ReportTextLemmas --------------------------
(***************************************************************************)
(* Lemmas about the texts of Reports: what the functions that StompText    *)
(* and Reports are built from make of every text, header, frame and file,  *)
(* up to what the receiver reads in the copy of the report of an event     *)
(* (ReadMessage).                                                          *)
(*                                                                         *)
(* What a recursive definition of StompText computes is proved by          *)
(* induction over the length of a text, in first-order form: about a set   *)
(* of numbers that has 0, and with every number the next (Numbers), or a   *)
(* set of sequences that has the empty one, and with every one those that  *)
(* are longer by an element (Sequences), or by a line (ByLines).           *)
(***************************************************************************)
EXTENDS Reports, SequenceTheorems, FiniteSetTheorems, WellFoundedInduction, TLAPS

(* The characters that occur anywhere *)
Letter == Char \cup Word \cup {Garbage}

Text == Seq(Letter)

-----------------------------------------------------------------------------
(* Numbers and sequences *)

(* A set of numbers has a least element. *)
LEMMA LeastNumber ==
  ASSUME NEW S \in SUBSET Nat, S # {}
  PROVE  \E x \in S : \A y \in S : x <= y
<1> DEFINE R == OpToRel(<, Nat)
<1>1. IsWellFoundedOn(R, Nat)
  BY NatLessThanWellFounded
<1>2. \E x \in S : \A y \in S : <<y, x>> \notin R
  <2> HIDE DEF R
  <2> QED BY <1>1, WFMin
<1>3. \A x, y \in Nat : <<y, x>> \in R <=> y < x
  BY DEF OpToRel
<1> HIDE DEF R
<1>4. PICK x \in S : \A y \in S : <<y, x>> \notin R
  BY <1>2
<1>5. ASSUME NEW y \in S
      PROVE  x <= y
  <2>1. x \in Nat /\ y \in Nat
    OBVIOUS
  <2>2. ~(y < x)
    BY <1>3, <1>4, <2>1
  <2> QED BY <2>1, <2>2
<1> QED BY <1>5

(* Induction, as a property of a set of numbers *)
LEMMA Numbers ==
  ASSUME NEW S \in SUBSET Nat, 0 \in S, \A n \in S : n + 1 \in S
  PROVE  S = Nat
<1> SUFFICES ASSUME Nat \ S # {} PROVE FALSE
  OBVIOUS
<1>1. PICK x \in Nat \ S : \A y \in Nat \ S : x <= y
  <2> DEFINE T == Nat \ S
  <2>1. T \in SUBSET Nat /\ T # {}
    OBVIOUS
  <2> HIDE DEF T
  <2>2. \E x \in T : \A y \in T : x <= y
    BY <2>1, LeastNumber
  <2> QED BY <2>2 DEF T
<1>2. x # 0 /\ x \in Nat
  OBVIOUS
<1>3. x - 1 \in Nat /\ ~(x <= x - 1)
  BY <1>2
<1>4. x - 1 \in S
  BY <1>1, <1>3
<1>5. (x - 1) + 1 \in S
  BY <1>4
<1>6. (x - 1) + 1 = x
  BY <1>2
<1> QED BY <1>5, <1>6

(* Induction over the last element, as a property of a set of sequences *)
LEMMA Sequences ==
  ASSUME NEW S, NEW P \in SUBSET Seq(S), <<>> \in P,
         \A s \in P, e \in S : Append(s, e) \in P
  PROVE  P = Seq(S)
<1> DEFINE N == {n \in Nat : \A s \in Seq(S) : Len(s) = n => s \in P}
<1>1. N \in SUBSET Nat
  OBVIOUS
<1>2. 0 \in N
  <2> SUFFICES ASSUME NEW s \in Seq(S), Len(s) = 0 PROVE s \in P
    OBVIOUS
  <2>1. s = <<>>
    BY EmptySeq
  <2> QED BY <2>1
<1>3. ASSUME NEW n \in N PROVE n + 1 \in N
  <2> SUFFICES ASSUME NEW s \in Seq(S), Len(s) = n + 1 PROVE s \in P
    OBVIOUS
  <2>1. s # <<>>
    BY EmptySeq
  <2>2. PICK t \in Seq(S), e \in S : s = Append(t, e)
    BY <2>1, SequenceEmptyOrAppend
  <2>3. Len(t) = n
    BY <2>2, AppendProperties
  <2>4. t \in P
    BY <2>3
  <2> QED BY <2>2, <2>4
<1> HIDE DEF N
<1>4. N = Nat
  BY <1>1, <1>2, <1>3, Numbers
<1>5. ASSUME NEW s \in Seq(S) PROVE s \in P
  <2>1. Len(s) \in N
    BY <1>4
  <2> QED BY <2>1 DEF N
<1> QED BY <1>5

(* A function on an interval from 0 is given by a base and a step. *)
Recursive(f, n, V, base, step) ==
  /\ f \in [0..n -> V]
  /\ f[0] = base
  /\ \A i \in 1..n : f[i] = step[<<i, f[i - 1]>>]

LEMMA Recursion ==
  ASSUME NEW V, NEW n \in Nat, NEW base \in V, NEW step \in [(1..n) \X V -> V]
  PROVE  \E f : Recursive(f, n, V, base, step)
<1> DEFINE Good(m, f) == f \in [0..m -> V] /\ f[0] = base
                           /\ \A i \in 1..m : f[i] = step[<<i, f[i - 1]>>]
           N == {m \in Nat : m <= n => \E f : Good(m, f)}
<1>1. 0 \in N
  <2>1. Good(0, [i \in 0..0 |-> base])
    OBVIOUS
  <2> QED BY <2>1
<1>2. ASSUME NEW m \in N PROVE m + 1 \in N
  <2> SUFFICES ASSUME m + 1 <= n PROVE \E f : Good(m + 1, f)
    OBVIOUS
  <2>1. PICK f : Good(m, f)
    OBVIOUS
  <2> DEFINE v == step[<<m + 1, f[m]>>]
             g == [i \in 0..(m + 1) |-> IF i = m + 1 THEN v ELSE f[i]]
  <2>2. f[m] \in V /\ m + 1 \in 1..n
    BY <2>1
  <2>3. v \in V
    BY <2>2
  <2>4. g \in [0..(m + 1) -> V]
    BY <2>1, <2>3
  <2>5. g[0] = base
    BY <2>1
  <2>6. ASSUME NEW i \in 1..(m + 1) PROVE g[i] = step[<<i, g[i - 1]>>]
    <3>1. CASE i = m + 1
      <4>1. i - 1 = m /\ m \in 0..(m + 1) /\ m # m + 1
        BY <3>1
      <4>2. g[i] = v /\ g[i - 1] = f[m]
        BY <3>1, <4>1
      <4> QED BY <3>1, <4>2
    <3>2. CASE i # m + 1
      BY <2>1, <3>2
    <3> QED BY <3>1, <3>2
  <2> HIDE DEF g, v
  <2>7. Good(m + 1, g)
    BY <2>4, <2>5, <2>6
  <2> QED BY <2>7
<1>3. N \in SUBSET Nat
  OBVIOUS
<1> HIDE DEF N
<1>4. N = Nat
  BY <1>1, <1>2, <1>3, Numbers
<1> QED BY <1>4 DEF N, Recursive

-----------------------------------------------------------------------------
(* Least, greatest, and the pieces of a text *)

(* The least and the greatest of the numbers up to n *)
LEMMA MinProperties ==
  ASSUME NEW S \in SUBSET Nat, S # {}
  PROVE  Min(S) \in S /\ \A x \in S : Min(S) <= x
<1>1. \E x \in S : \A y \in S : x <= y
  BY LeastNumber
<1> QED BY <1>1 DEF Min

LEMMA MaxProperties ==
  ASSUME NEW n \in Nat, NEW S \in SUBSET (1..n), S # {}
  PROVE  Max(S) \in S /\ \A x \in S : x <= Max(S)
<1> DEFINE T == {n - x : x \in S}
<1>1. T \in SUBSET Nat /\ T # {}
  <2>1. \A x \in S : x \in Nat /\ x <= n
    OBVIOUS
  <2>2. \A x \in S : n - x \in Nat
    BY <2>1
  <2> QED BY <2>2
<1>2. PICK t \in T : \A y \in T : t <= y
  <2> HIDE DEF T
  <2> QED BY <1>1, LeastNumber
<1>3. PICK x \in S : t = n - x
  BY <1>2
<1>4. ASSUME NEW y \in S PROVE x >= y
  <2>1. n - x <= n - y
    BY <1>2, <1>3
  <2>2. x \in Int /\ y \in Int
    OBVIOUS
  <2> QED BY <2>1, <2>2
<1>5. \E z \in S : \A y \in S : z >= y
  BY <1>4
<1>6. Max(S) \in S /\ \A y \in S : Max(S) >= y
  BY <1>5 DEF Max
<1>7. ASSUME NEW y \in S PROVE y <= Max(S)
  <2>1. \A z \in S : z \in Int
    OBVIOUS
  <2>2. Max(S) \in Int /\ y \in Int
    BY <1>6, <2>1
  <2> QED BY <1>6, <2>2
<1> QED BY <1>6, <1>7

-----------------------------------------------------------------------------
(* Two functions with the same recursion *)

(* Pieces(text, separator) is the value of such a function at Len(text). *)
PiecesStep(pieces, ch, separator) ==
  IF ch = separator THEN Append(pieces, <<>>)
  ELSE [pieces EXCEPT ![Len(pieces)] = Append(@, ch)]

ArePieces(f, text, separator) ==
  f = [n \in 0..Len(text) |->
         IF n = 0 THEN << <<>> >> ELSE PiecesStep(f[n - 1], text[n], separator)]

NonEmpty(S) == Seq(S) \ {<<>>}

LEMMA PiecesStepType ==
  ASSUME NEW S, NEW pieces \in NonEmpty(Seq(S)), NEW ch \in S, NEW separator
  PROVE  PiecesStep(pieces, ch, separator) \in NonEmpty(Seq(S))
<1>1. pieces \in Seq(Seq(S)) /\ Len(pieces) \in 1..Len(pieces)
  <2>1. Len(pieces) \in Nat \ {0}
    BY EmptySeq DEF NonEmpty
  <2> QED BY <2>1 DEF NonEmpty
<1>2. pieces[Len(pieces)] \in Seq(S)
  BY <1>1, ElementOfSeq
<1>3. Append(pieces[Len(pieces)], ch) \in Seq(S)
  BY <1>2, AppendProperties
<1>4. <<>> \in Seq(S)
  BY EmptySeq
<1>5. Append(pieces, <<>>) \in NonEmpty(Seq(S))
  BY <1>1, <1>4, AppendProperties DEF NonEmpty
<1>6. [pieces EXCEPT ![Len(pieces)] = Append(@, ch)] \in NonEmpty(Seq(S))
  <2>1. [pieces EXCEPT ![Len(pieces)] = Append(pieces[Len(pieces)], ch)] \in Seq(Seq(S))
    BY <1>1, <1>3, ExceptSeq
  <2>2. Len([pieces EXCEPT ![Len(pieces)] = Append(pieces[Len(pieces)], ch)]) # 0
    BY <1>1, <1>3, ExceptSeq
  <2>3. [pieces EXCEPT ![Len(pieces)] = Append(pieces[Len(pieces)], ch)] # <<>>
    BY <2>2, EmptySeq
  <2> QED BY <2>1, <2>3 DEF NonEmpty
<1> QED BY <1>5, <1>6 DEF PiecesStep

LEMMA PiecesExist ==
  ASSUME NEW S, NEW text \in Seq(S), NEW separator
  PROVE  \E f \in [0..Len(text) -> NonEmpty(Seq(S))] : ArePieces(f, text, separator)
<1> DEFINE V == NonEmpty(Seq(S))
           step == [p \in (1..Len(text)) \X V |-> PiecesStep(p[2], text[p[1]], separator)]
           base == << <<>> >>
<1>1. Len(text) \in Nat
  BY LenProperties
<1>2. base \in V
  BY EmptySeq DEF NonEmpty
<1>3. step \in [(1..Len(text)) \X V -> V]
  <2> SUFFICES ASSUME NEW p \in (1..Len(text)) \X V
               PROVE  PiecesStep(p[2], text[p[1]], separator) \in V
    OBVIOUS
  <2>1. p[1] \in 1..Len(text) /\ p[2] \in V
    OBVIOUS
  <2>2. text[p[1]] \in S
    BY <2>1, ElementOfSeq
  <2> QED BY <2>1, <2>2, PiecesStepType
<1>4. \E f : Recursive(f, Len(text), V, base, step)
  <2> HIDE DEF V, step, base
  <2> QED BY <1>1, <1>2, <1>3, Recursion
<1>5. PICK f \in [0..Len(text) -> V] :
        f[0] = base /\ \A i \in 1..Len(text) : f[i] = step[<<i, f[i - 1]>>]
  BY <1>4 DEF Recursive
<1>6. ASSUME NEW n \in 0..Len(text)
      PROVE  f[n] = IF n = 0 THEN << <<>> >> ELSE PiecesStep(f[n - 1], text[n], separator)
  <2>1. CASE n = 0
    BY <1>5, <2>1
  <2>2. CASE n # 0
    <3>1. n \in 1..Len(text) /\ n - 1 \in 0..Len(text)
      BY <1>1, <2>2
    <3>2. f[n - 1] \in V
      BY <1>5, <3>1
    <3>3. f[n] = step[<<n, f[n - 1]>>]
      BY <1>5, <3>1
    <3>4. step[<<n, f[n - 1]>>] = PiecesStep(f[n - 1], text[n], separator)
      <4> DEFINE q == <<n, f[n - 1]>>
      <4>1. q \in (1..Len(text)) \X V /\ q[1] = n /\ q[2] = f[n - 1]
        BY <3>1, <3>2
      <4> HIDE DEF q
      <4>2. step[q] = PiecesStep(q[2], text[q[1]], separator)
        BY <4>1
      <4> QED BY <4>1, <4>2 DEF q
    <3> QED BY <2>2, <3>3, <3>4
  <2> QED BY <2>1, <2>2
<1>7. ArePieces(f, text, separator)
  <2>1. f = [n \in 0..Len(text) |-> f[n]]
    BY <1>5
  <2> QED BY <1>6, <2>1 DEF ArePieces
<1> QED BY <1>5, <1>7

(* The pieces up to n depend on the text up to n. *)
LEMMA PiecesAgree ==
  ASSUME NEW f, NEW g, NEW s, NEW t, NEW separator, NEW n \in Nat,
         Len(s) \in Nat, Len(t) \in Nat, n <= Len(s), n <= Len(t),
         \A i \in 1..n : s[i] = t[i],
         ArePieces(f, s, separator), ArePieces(g, t, separator)
  PROVE  f[n] = g[n]
<1> DEFINE N == {k \in Nat : k <= n => f[k] = g[k]}
<1>1. N \in SUBSET Nat /\ 0 \in N
  BY DEF ArePieces
<1>2. ASSUME NEW k \in N PROVE k + 1 \in N
  <2> SUFFICES ASSUME k + 1 <= n PROVE f[k + 1] = g[k + 1]
    OBVIOUS
  <2>1. f[k] = g[k] /\ s[k + 1] = t[k + 1]
    OBVIOUS
  <2>2. /\ k + 1 \in 0..Len(s) /\ k + 1 \in 0..Len(t) /\ k + 1 # 0 /\ (k + 1) - 1 = k
    OBVIOUS
  <2>3. f[k + 1] = PiecesStep(f[k], s[k + 1], separator)
    BY <2>2 DEF ArePieces
  <2>4. g[k + 1] = PiecesStep(g[k], t[k + 1], separator)
    BY <2>2 DEF ArePieces
  <2> QED BY <2>1, <2>3, <2>4
<1> HIDE DEF N
<1>3. N = Nat
  BY <1>1, <1>2, Numbers
<1> QED BY <1>3 DEF N

LEMMA PiecesValue ==
  ASSUME NEW S, NEW text \in Seq(S), NEW separator
  PROVE  \E f \in [0..Len(text) -> NonEmpty(Seq(S))] :
           ArePieces(f, text, separator) /\ Pieces(text, separator) = f[Len(text)]
<1> DEFINE h == CHOOSE f : ArePieces(f, text, separator)
<1>1. PICK f \in [0..Len(text) -> NonEmpty(Seq(S))] : ArePieces(f, text, separator)
  BY PiecesExist
<1>2. ArePieces(h, text, separator)
  BY <1>1
<1>3. Pieces(text, separator) = h[Len(text)]
  BY DEF Pieces, ArePieces, PiecesStep
<1>4. Len(text) \in Nat
  BY LenProperties
<1>5. h[Len(text)] = f[Len(text)]
  <2> HIDE DEF h
  <2> QED BY <1>1, <1>2, <1>4, PiecesAgree
<1> QED BY <1>1, <1>3, <1>5

-----------------------------------------------------------------------------
(* Pieces of texts put together *)

LEMMA ConcatAppend ==
  ASSUME NEW S, NEW x \in Seq(S), NEW y \in Seq(S), NEW e \in S
  PROVE  x \o Append(y, e) = Append(x \o y, e)
<1>1. Append(y, e) = y \o <<e>> /\ <<e>> \in Seq(S) /\ x \o y \in Seq(S)
  BY AppendIsConcat, ConcatProperties
<1>2. Append(x \o y, e) = (x \o y) \o <<e>>
  BY <1>1, AppendIsConcat
<1> QED BY <1>1, <1>2, ConcatAssociative

(* Three sequences, in either grouping *)
AreSeqs(S, x, y, z) == x \in Seq(S) /\ y \in Seq(S) /\ z \in Seq(S)

LEMMA Regroup ==
  ASSUME NEW S, NEW x, NEW y, NEW z, AreSeqs(S, x, y, z)
  PROVE  (x \o y) \o z = x \o (y \o z)
BY ConcatAssociative DEF AreSeqs

(* Pieces, by the last character of the text *)
LEMMA PiecesType ==
  ASSUME NEW S, NEW text \in Seq(S), NEW separator
  PROVE  Pieces(text, separator) \in NonEmpty(Seq(S))
<1>1. PICK f \in [0..Len(text) -> NonEmpty(Seq(S))] :
        ArePieces(f, text, separator) /\ Pieces(text, separator) = f[Len(text)]
  BY PiecesValue
<1>2. Len(text) \in 0..Len(text)
  BY LenProperties
<1> QED BY <1>1, <1>2

LEMMA PiecesEmpty ==
  ASSUME NEW separator
  PROVE  Pieces(<<>>, separator) = << <<>> >>
<1> DEFINE S == {separator}
<1>1. <<>> \in Seq(S) /\ Len(<<>>) = 0
  BY EmptySeq
<1>2. PICK f \in [0..Len(<<>>) -> NonEmpty(Seq(S))] :
        ArePieces(f, <<>>, separator) /\ Pieces(<<>>, separator) = f[Len(<<>>)]
  BY <1>1, PiecesValue
<1>3. 0 \in 0..Len(<<>>)
  BY <1>1
<1> HIDE DEF S
<1>4. f[0] = << <<>> >>
  BY <1>2, <1>3 DEF ArePieces
<1> QED BY <1>1, <1>2, <1>4

LEMMA PiecesAppend ==
  ASSUME NEW S, NEW text \in Seq(S), NEW ch \in S, NEW separator
  PROVE  Pieces(Append(text, ch), separator) =
           PiecesStep(Pieces(text, separator), ch, separator)
<1> DEFINE longer == Append(text, ch)
           n == Len(text)
<1>1. /\ longer \in Seq(S) /\ Len(longer) = n + 1 /\ n \in Nat
      /\ \A i \in 1..n : longer[i] = text[i]
      /\ longer[n + 1] = ch
  BY AppendProperties, LenProperties
<1>2. PICK f \in [0..n -> NonEmpty(Seq(S))] :
        ArePieces(f, text, separator) /\ Pieces(text, separator) = f[n]
  BY PiecesValue
<1> HIDE DEF longer
<1>3. PICK g \in [0..Len(longer) -> NonEmpty(Seq(S))] :
        ArePieces(g, longer, separator) /\ Pieces(longer, separator) = g[Len(longer)]
  BY <1>1, PiecesValue
<1> HIDE DEF n
<1>4. g[n] = f[n]
  <2>1. n = Len(text) /\ n <= n /\ n <= Len(longer) /\ Len(longer) \in Nat
    BY <1>1 DEF n
  <2>2. ArePieces(g, longer, separator) /\ ArePieces(f, text, separator)
    BY <1>2, <1>3
  <2>3. \A i \in 1..n : longer[i] = text[i]
    BY <1>1
  <2> QED BY <1>1, <2>1, <2>2, <2>3, PiecesAgree
<1>5. n + 1 \in 0..Len(longer) /\ n + 1 # 0 /\ (n + 1) - 1 = n
  BY <1>1
<1>6. g[n + 1] = PiecesStep(g[n], longer[n + 1], separator)
  BY <1>3, <1>5 DEF ArePieces
<1> QED BY <1>1, <1>2, <1>3, <1>4, <1>6 DEF longer

(* A text without the separator is one piece. *)
LEMMA PiecesWhole ==
  ASSUME NEW S, NEW text \in Seq(S), NEW separator, \A i \in 1..Len(text) : text[i] # separator
  PROVE  Pieces(text, separator) = <<text>>
<1> DEFINE P == {t \in Seq(S) : (\A i \in 1..Len(t) : t[i] # separator)
                                  => Pieces(t, separator) = <<t>>}
<1>1. P \in SUBSET Seq(S)
  OBVIOUS
<1>2. <<>> \in P
  BY PiecesEmpty, EmptySeq
<1>3. ASSUME NEW t \in P, NEW ch \in S PROVE Append(t, ch) \in P
  <2> DEFINE longer == Append(t, ch)
  <2>1. /\ longer \in Seq(S) /\ Len(longer) = Len(t) + 1 /\ Len(t) \in Nat
        /\ \A i \in 1..Len(t) : longer[i] = t[i]
        /\ longer[Len(t) + 1] = ch
    BY AppendProperties, LenProperties
  <2> SUFFICES ASSUME \A i \in 1..Len(longer) : longer[i] # separator
               PROVE  Pieces(longer, separator) = <<longer>>
    BY <2>1
  <2> HIDE DEF longer
  <2>2. \A i \in 1..Len(t) : t[i] # separator
    <3>1. \A i \in 1..Len(t) : i \in 1..Len(longer)
      BY <2>1
    <3> QED BY <2>1, <3>1
  <2>3. ch # separator
    <3>1. Len(t) + 1 \in 1..Len(longer)
      BY <2>1
    <3> QED BY <2>1, <3>1
  <2>4. Pieces(t, separator) = <<t>>
    BY <2>2
  <2>5. Pieces(longer, separator) = PiecesStep(<<t>>, ch, separator)
    BY <2>4, PiecesAppend DEF longer
  <2>6. PiecesStep(<<t>>, ch, separator) = <<longer>>
    BY <2>3 DEF PiecesStep, longer
  <2> QED BY <2>5, <2>6
<1> HIDE DEF P
<1>4. P = Seq(S)
  BY <1>1, <1>2, <1>3, Sequences
<1> QED BY <1>4 DEF P

LEMMA StepOfConcat ==
  ASSUME NEW S, NEW s \in Seq(Seq(S)), NEW t \in NonEmpty(Seq(S)), NEW ch \in S, NEW separator
  PROVE  PiecesStep(s \o t, ch, separator) = s \o PiecesStep(t, ch, separator)
<1>1. /\ t \in Seq(Seq(S)) /\ Len(t) \in Nat \ {0} /\ Len(s) \in Nat
  BY EmptySeq, LenProperties DEF NonEmpty
<1>2. /\ s \o t \in Seq(Seq(S)) /\ Len(s \o t) = Len(s) + Len(t)
      /\ \A i \in 1..Len(s) + Len(t) : (s \o t)[i] = IF i <= Len(s) THEN s[i] ELSE t[i - Len(s)]
  BY <1>1, ConcatProperties
<1>3. <<>> \in Seq(S)
  BY EmptySeq
<1>4. CASE ch = separator
  <2>1. Append(s \o t, <<>>) = s \o Append(t, <<>>)
    <3> DEFINE T == Seq(S)
           e == <<>>
    <3>1. s \in Seq(T) /\ t \in Seq(T) /\ e \in T
      BY <1>1, <1>3
    <3> HIDE DEF T, e
    <3>2. s \o Append(t, e) = Append(s \o t, e)
      BY <3>1, ConcatAppend
    <3> QED BY <3>2 DEF e
  <2> QED BY <1>4, <2>1 DEF PiecesStep
<1>5. CASE ch # separator
  <2> DEFINE n == Len(s) + Len(t)
             last == Append(t[Len(t)], ch)
             a == [s \o t EXCEPT ![n] = last]
             b == [t EXCEPT ![Len(t)] = last]
  <2>1. t[Len(t)] \in Seq(S)
    BY <1>1, ElementOfSeq
  <2>2. last \in Seq(S)
    BY <2>1, AppendProperties
  <2>3. n \in 1..n /\ Len(t) \in 1..Len(t) /\ n > Len(s) /\ n - Len(s) = Len(t)
    BY <1>1
  <2>4. (s \o t)[n] = t[Len(t)]
    BY <1>2, <2>3
  <2>5. PiecesStep(s \o t, ch, separator) = a
    BY <1>2, <1>5, <2>4 DEF PiecesStep
  <2>6. PiecesStep(t, ch, separator) = b
    BY <1>5 DEF PiecesStep
  <2>7. /\ a \in Seq(Seq(S)) /\ Len(a) = n
        /\ \A j \in 1..n : a[j] = IF j = n THEN last ELSE (s \o t)[j]
    <3> DEFINE st == s \o t
    <3>1. st \in Seq(Seq(S)) /\ Len(st) = n /\ n \in 1..Len(st)
      BY <1>2, <2>3
    <3> HIDE DEF st, n, last
    <3>2. /\ [st EXCEPT ![n] = last] \in Seq(Seq(S))
          /\ Len([st EXCEPT ![n] = last]) = Len(st)
          /\ \A j \in 1..Len(st) : [st EXCEPT ![n] = last][j] = IF j = n THEN last ELSE st[j]
      BY <2>2, <3>1, ExceptSeq
    <3> QED BY <3>1, <3>2 DEF st
  <2>8. /\ b \in Seq(Seq(S)) /\ Len(b) = Len(t)
        /\ \A j \in 1..Len(t) : b[j] = IF j = Len(t) THEN last ELSE t[j]
    BY <1>1, <2>2, <2>3, ExceptSeq
  <2> HIDE DEF a, b, last
  <2>9. /\ s \o b \in Seq(Seq(S)) /\ Len(s \o b) = n
        /\ \A i \in 1..n : (s \o b)[i] = IF i <= Len(s) THEN s[i] ELSE b[i - Len(s)]
    <3>1. /\ s \o b \in Seq(Seq(S)) /\ Len(s \o b) = Len(s) + Len(b)
          /\ \A i \in 1..Len(s) + Len(b) :
               (s \o b)[i] = IF i <= Len(s) THEN s[i] ELSE b[i - Len(s)]
      BY <2>8, ConcatProperties
    <3> QED BY <2>8, <3>1
  <2>10. ASSUME NEW i \in 1..n PROVE a[i] = (s \o b)[i]
    <3>1. CASE i <= Len(s)
      <4>1. i # n /\ i \in Int
        BY <1>1, <3>1
      <4> QED BY <1>2, <2>7, <2>9, <3>1, <4>1
    <3>2. CASE ~(i <= Len(s))
      <4>1. i - Len(s) \in 1..Len(t) /\ (i = n <=> i - Len(s) = Len(t))
        BY <1>1, <3>2
      <4>2. a[i] = IF i = n THEN last ELSE t[i - Len(s)]
        BY <1>2, <2>7, <3>2
      <4>3. (s \o b)[i] = b[i - Len(s)]
        BY <2>9, <3>2
      <4> QED BY <2>8, <4>1, <4>2, <4>3
    <3> QED BY <3>1, <3>2
  <2>11. a = s \o b
    BY <2>7, <2>9, <2>10, SeqEqual
  <2> QED BY <2>5, <2>6, <2>11
<1> QED BY <1>4, <1>5

(* A separator ends a piece. *)
LEMMA PiecesConcat ==
  ASSUME NEW S, NEW s \in Seq(S), NEW t \in Seq(S), NEW separator \in S
  PROVE  Pieces(Append(s, separator) \o t, separator) =
           Pieces(s, separator) \o Pieces(t, separator)
<1> DEFINE head == Append(s, separator)
           P == {u \in Seq(S) : Pieces(head \o u, separator) =
                                  Pieces(s, separator) \o Pieces(u, separator)}
<1>1. head \in Seq(S)
  BY AppendProperties
<1>2. \A u \in Seq(S) : Pieces(u, separator) \in NonEmpty(Seq(S))
  BY PiecesType
<1>3. P \in SUBSET Seq(S)
  OBVIOUS
<1>4. <<>> \in P
  <2>1. head \o <<>> = head /\ <<>> \in Seq(S)
    BY <1>1, ConcatEmptySeq, EmptySeq
  <2>2. Pieces(head, separator) = Append(Pieces(s, separator), <<>>)
    BY PiecesAppend DEF PiecesStep
  <2>3. Append(Pieces(s, separator), <<>>) = Pieces(s, separator) \o << <<>> >>
    <3>1. Pieces(s, separator) \in Seq(Seq(S))
      BY <1>2 DEF NonEmpty
    <3> QED BY <2>1, <3>1, AppendIsConcat
  <2> QED BY <2>1, <2>2, <2>3, PiecesEmpty
<1>5. ASSUME NEW u \in P, NEW ch \in S PROVE Append(u, ch) \in P
  <2>1. Append(u, ch) \in Seq(S)
    BY AppendProperties
  <2>2. head \o Append(u, ch) = Append(head \o u, ch) /\ head \o u \in Seq(S)
    BY <1>1, ConcatAppend, ConcatProperties
  <2>3. Pieces(head \o Append(u, ch), separator)
          = PiecesStep(Pieces(s, separator) \o Pieces(u, separator), ch, separator)
    BY <2>2, PiecesAppend
  <2>4. PiecesStep(Pieces(s, separator) \o Pieces(u, separator), ch, separator)
          = Pieces(s, separator) \o PiecesStep(Pieces(u, separator), ch, separator)
    <3>1. Pieces(s, separator) \in Seq(Seq(S)) /\ Pieces(u, separator) \in NonEmpty(Seq(S))
      BY <1>2 DEF NonEmpty
    <3> QED BY <3>1, StepOfConcat
  <2>5. PiecesStep(Pieces(u, separator), ch, separator) = Pieces(Append(u, ch), separator)
    BY PiecesAppend
  <2> QED BY <2>1, <2>3, <2>4, <2>5
<1> HIDE DEF P
<1>6. P = Seq(S)
  BY <1>3, <1>4, <1>5, Sequences
<1> QED BY <1>6 DEF P

-----------------------------------------------------------------------------
(* Sequences of texts *)

(* FlattenSeq, by the last sequence *)
AreFlat(f, seqs) ==
  f = [i \in 1..Len(seqs) |-> IF i = 1 THEN seqs[i] ELSE f[i - 1] \o seqs[i]]

LEMMA FlatExist ==
  ASSUME NEW S, NEW seqs \in Seq(Seq(S))
  PROVE  \E f \in [1..Len(seqs) -> Seq(S)] : AreFlat(f, seqs)
<1> DEFINE V == Seq(S)
           n == Len(seqs)
           step == [p \in (1..n) \X V |-> p[2] \o seqs[p[1]]]
<1>1. n \in Nat
  BY LenProperties
<1>2. <<>> \in V
  BY EmptySeq
<1>3. step \in [(1..n) \X V -> V]
  <2> SUFFICES ASSUME NEW p \in (1..n) \X V
               PROVE  p[2] \o seqs[p[1]] \in V
    OBVIOUS
  <2>1. p[1] \in 1..n /\ p[2] \in V
    OBVIOUS
  <2>2. seqs[p[1]] \in Seq(S)
    BY <2>1, ElementOfSeq
  <2> QED BY <2>1, <2>2, ConcatProperties
<1>4. \E g : Recursive(g, n, V, <<>>, step)
  <2> HIDE DEF V, step, n
  <2> QED BY <1>1, <1>2, <1>3, Recursion
<1>5. PICK g \in [0..n -> V] :
        g[0] = <<>> /\ \A i \in 1..n : g[i] = step[<<i, g[i - 1]>>]
  BY <1>4 DEF Recursive
<1> DEFINE f == [i \in 1..n |-> g[i]]
<1>6. ASSUME NEW i \in 1..n
      PROVE  f[i] \in V /\ f[i] = IF i = 1 THEN seqs[i] ELSE f[i - 1] \o seqs[i]
  <2>1. i - 1 \in 0..n /\ i \in 0..n /\ (i # 1 => i - 1 \in 1..n)
    BY <1>1
  <2>2. g[i - 1] \in V /\ g[i] \in V /\ seqs[i] \in V
    BY <1>5, <2>1, ElementOfSeq
  <2>3. g[i] = g[i - 1] \o seqs[i]
    <3>1. g[i] = step[<<i, g[i - 1]>>]
      BY <1>5
    <3> DEFINE q == <<i, g[i - 1]>>
    <3>2. q \in (1..n) \X V /\ q[1] = i /\ q[2] = g[i - 1]
      BY <2>2
    <3> HIDE DEF q
    <3>3. step[q] = q[2] \o seqs[q[1]]
      BY <3>2
    <3> QED BY <3>1, <3>2, <3>3 DEF q
  <2>4. CASE i = 1
    <3>1. g[0] \o seqs[1] = seqs[1]
      BY <1>5, <2>2, <2>4, ConcatEmptySeq
    <3>2. i - 1 = 0
      BY <2>4
    <3> QED BY <2>2, <2>3, <2>4, <3>1, <3>2
  <2>5. CASE i # 1
    BY <2>1, <2>2, <2>3, <2>5
  <2> QED BY <2>4, <2>5
<1>7. f \in [1..n -> V] /\ AreFlat(f, seqs)
  <2>1. \A i \in 1..n : f[i] \in V
    BY <1>6
  <2>2. f \in [1..n -> V]
    BY <2>1
  <2>3. f = [i \in 1..n |-> IF i = 1 THEN seqs[i] ELSE f[i - 1] \o seqs[i]]
    <3>1. f = [i \in 1..n |-> f[i]]
      OBVIOUS
    <3> HIDE DEF f
    <3> QED BY <1>6, <3>1
  <2> QED BY <2>2, <2>3 DEF AreFlat
<1> QED BY <1>7

LEMMA FlatAgree ==
  ASSUME NEW f, NEW g, NEW s, NEW t, NEW n \in Nat,
         Len(s) \in Nat, Len(t) \in Nat, n <= Len(s), n <= Len(t),
         \A i \in 1..n : s[i] = t[i],
         AreFlat(f, s), AreFlat(g, t)
  PROVE  n > 0 => f[n] = g[n]
<1> DEFINE N == {k \in Nat : k <= n /\ k > 0 => f[k] = g[k]}
<1>1. N \in SUBSET Nat /\ 0 \in N
  OBVIOUS
<1>2. ASSUME NEW k \in N PROVE k + 1 \in N
  <2> SUFFICES ASSUME k + 1 <= n PROVE f[k + 1] = g[k + 1]
    OBVIOUS
  <2>1. (k > 0 => f[k] = g[k]) /\ s[k + 1] = t[k + 1]
    OBVIOUS
  <2>2. /\ k + 1 \in 1..Len(s) /\ k + 1 \in 1..Len(t) /\ (k + 1) - 1 = k
        /\ (k + 1 # 1 => k > 0)
    OBVIOUS
  <2>3. f[k + 1] = IF k + 1 = 1 THEN s[k + 1] ELSE f[k] \o s[k + 1]
    BY <2>2 DEF AreFlat
  <2>4. g[k + 1] = IF k + 1 = 1 THEN t[k + 1] ELSE g[k] \o t[k + 1]
    BY <2>2 DEF AreFlat
  <2> QED BY <2>1, <2>2, <2>3, <2>4
<1> HIDE DEF N
<1>3. N = Nat
  BY <1>1, <1>2, Numbers
<1> QED BY <1>3 DEF N

LEMMA FlattenEmpty == FlattenSeq(<<>>) = <<>>
BY DEF FlattenSeq

LEMMA FlattenValue ==
  ASSUME NEW S, NEW seqs \in Seq(Seq(S)), seqs # <<>>
  PROVE  \E f \in [1..Len(seqs) -> Seq(S)] :
           AreFlat(f, seqs) /\ FlattenSeq(seqs) = f[Len(seqs)]
<1> DEFINE h == CHOOSE f : AreFlat(f, seqs)
<1>1. PICK f \in [1..Len(seqs) -> Seq(S)] : AreFlat(f, seqs)
  BY FlatExist
<1>2. AreFlat(h, seqs)
  BY <1>1
<1>3. Len(seqs) \in Nat /\ Len(seqs) > 0
  BY EmptySeq
<1>4. FlattenSeq(seqs) = h[Len(seqs)]
  BY <1>3 DEF FlattenSeq, AreFlat
<1>5. h[Len(seqs)] = f[Len(seqs)]
  <2> HIDE DEF h
  <2> QED BY <1>1, <1>2, <1>3, FlatAgree
<1> QED BY <1>1, <1>4, <1>5

LEMMA FlattenType ==
  ASSUME NEW S, NEW seqs \in Seq(Seq(S))
  PROVE  FlattenSeq(seqs) \in Seq(S)
<1>1. CASE seqs = <<>>
  BY <1>1, FlattenEmpty, EmptySeq
<1>2. CASE seqs # <<>>
  <2>1. PICK f \in [1..Len(seqs) -> Seq(S)] :
          AreFlat(f, seqs) /\ FlattenSeq(seqs) = f[Len(seqs)]
    BY <1>2, FlattenValue
  <2>2. Len(seqs) \in 1..Len(seqs)
    BY <1>2, EmptySeq
  <2> QED BY <2>1, <2>2
<1> QED BY <1>1, <1>2

LEMMA FlattenAppend ==
  ASSUME NEW S, NEW seqs \in Seq(Seq(S)), NEW s \in Seq(S)
  PROVE  FlattenSeq(Append(seqs, s)) = FlattenSeq(seqs) \o s
<1> DEFINE longer == Append(seqs, s)
           n == Len(seqs)
<1>1. /\ longer \in Seq(Seq(S)) /\ longer # <<>> /\ Len(longer) = n + 1 /\ n \in Nat
      /\ \A i \in 1..n : longer[i] = seqs[i]
      /\ longer[n + 1] = s
  BY AppendProperties, LenProperties
<1> HIDE DEF longer
<1>2. PICK g \in [1..Len(longer) -> Seq(S)] :
        AreFlat(g, longer) /\ FlattenSeq(longer) = g[Len(longer)]
  BY <1>1, FlattenValue
<1>3. n + 1 \in 1..Len(longer) /\ (n + 1) - 1 = n
  BY <1>1
<1>4. g[n + 1] = IF n + 1 = 1 THEN s ELSE g[n] \o s
  BY <1>1, <1>2, <1>3 DEF AreFlat
<1>5. CASE seqs = <<>>
  <2>1. n = 0
    BY <1>5, EmptySeq
  <2>2. FlattenSeq(longer) = s
    BY <1>1, <1>2, <1>4, <2>1
  <2> QED BY <1>5, <2>2, FlattenEmpty, ConcatEmptySeq DEF longer
<1>6. CASE seqs # <<>>
  <2>1. PICK f \in [1..n -> Seq(S)] : AreFlat(f, seqs) /\ FlattenSeq(seqs) = f[n]
    BY <1>6, FlattenValue
  <2>2. n > 0 /\ n + 1 # 1
    BY <1>6, EmptySeq
  <2>3. g[n] = f[n]
    <3>1. n <= Len(longer) /\ n <= Len(seqs) /\ Len(longer) \in Nat /\ Len(seqs) \in Nat
      BY <1>1
    <3>2. n \in Nat /\ \A i \in 1..n : longer[i] = seqs[i]
      BY <1>1
    <3> HIDE DEF n
    <3> QED BY <1>2, <2>1, <2>2, <3>1, <3>2, FlatAgree
  <2> QED BY <1>1, <1>2, <1>4, <2>1, <2>2, <2>3 DEF longer
<1> QED BY <1>5, <1>6

LEMMA FlattenOne ==
  ASSUME NEW S, NEW s \in Seq(S)
  PROVE  FlattenSeq(<<s>>) = s
<1>1. <<>> \in Seq(Seq(S)) /\ <<s>> = Append(<<>>, s)
  BY EmptySeq
<1>2. FlattenSeq(<<s>>) = <<>> \o s
  BY <1>1, FlattenAppend, FlattenEmpty
<1> QED BY <1>2, ConcatEmptySeq

LEMMA FlattenConcat ==
  ASSUME NEW S, NEW a \in Seq(Seq(S)), NEW b \in Seq(Seq(S))
  PROVE  FlattenSeq(a \o b) = FlattenSeq(a) \o FlattenSeq(b)
<1> DEFINE T == Seq(S)
           P == {c \in Seq(T) : FlattenSeq(a \o c) = FlattenSeq(a) \o FlattenSeq(c)}
<1>1. P \in SUBSET Seq(T) /\ FlattenSeq(a) \in Seq(S)
  BY FlattenType
<1>2. <<>> \in P
  <2>1. a \o <<>> = a /\ <<>> \in Seq(T) /\ FlattenSeq(a) \o <<>> = FlattenSeq(a)
    BY <1>1, ConcatEmptySeq, EmptySeq
  <2> QED BY <2>1, FlattenEmpty
<1>3. ASSUME NEW c \in P, NEW s \in T PROVE Append(c, s) \in P
  <2>1. Append(c, s) \in Seq(T) /\ FlattenSeq(c) \in Seq(S) /\ a \o c \in Seq(T)
    BY AppendProperties, FlattenType, ConcatProperties
  <2>2. a \o Append(c, s) = Append(a \o c, s)
    <3>1. a \in Seq(T) /\ c \in Seq(T)
      OBVIOUS
    <3> HIDE DEF T
    <3> QED BY <3>1, ConcatAppend
  <2>3. FlattenSeq(a \o Append(c, s)) = FlattenSeq(a \o c) \o s
    BY <2>1, <2>2, FlattenAppend
  <2>4. FlattenSeq(Append(c, s)) = FlattenSeq(c) \o s
    BY FlattenAppend
  <2>5. (FlattenSeq(a) \o FlattenSeq(c)) \o s = FlattenSeq(a) \o (FlattenSeq(c) \o s)
    BY <1>1, <2>1, ConcatAssociative
  <2> QED BY <2>1, <2>3, <2>4, <2>5
<1> HIDE DEF P
<1>4. P = Seq(T)
  <2> HIDE DEF T
  <2> QED BY <1>1, <1>2, <1>3, Sequences
<1> QED BY <1>4 DEF P

-----------------------------------------------------------------------------
(* Joined pieces *)

(* The pieces of a text, put together again *)
EndEach(pieces, separator) == [i \in DOMAIN pieces |-> Append(pieces[i], separator)]

LEMMA EndEachType ==
  ASSUME NEW S, NEW pieces \in Seq(Seq(S)), NEW separator \in S
  PROVE  /\ EndEach(pieces, separator) \in Seq(Seq(S))
         /\ Len(EndEach(pieces, separator)) = Len(pieces)
         /\ \A i \in 1..Len(pieces) :
              EndEach(pieces, separator)[i] = Append(pieces[i], separator)
<1>1. DOMAIN pieces = 1..Len(pieces) /\ Len(pieces) \in Nat
  BY LenProperties
<1>2. \A i \in 1..Len(pieces) : Append(pieces[i], separator) \in Seq(S)
  BY ElementOfSeq, AppendProperties
<1> QED BY <1>1, <1>2 DEF EndEach

LEMMA EndEachAppend ==
  ASSUME NEW S, NEW pieces \in Seq(Seq(S)), NEW piece \in Seq(S), NEW separator \in S
  PROVE  EndEach(Append(pieces, piece), separator) =
           Append(EndEach(pieces, separator), Append(piece, separator))
<1> DEFINE T == Seq(S)
           longer == Append(pieces, piece)
           a == EndEach(longer, separator)
           b == Append(EndEach(pieces, separator), Append(piece, separator))
           n == Len(pieces)
<1>1. /\ longer \in Seq(T) /\ Len(longer) = n + 1 /\ n \in Nat
      /\ \A i \in 1..n : longer[i] = pieces[i]
      /\ longer[n + 1] = piece
  BY AppendProperties, LenProperties
<1> HIDE DEF longer
<1>2. /\ a \in Seq(T) /\ Len(a) = n + 1
      /\ \A i \in 1..(n + 1) : a[i] = Append(longer[i], separator)
  BY <1>1, EndEachType
<1>3. Append(piece, separator) \in T
  BY AppendProperties
<1>4. /\ b \in Seq(T) /\ Len(b) = n + 1
      /\ \A i \in 1..n : b[i] = Append(pieces[i], separator)
      /\ b[n + 1] = Append(piece, separator)
  <2> DEFINE e == EndEach(pieces, separator)
             x == Append(piece, separator)
  <2>1. e \in Seq(T) /\ Len(e) = n /\ \A i \in 1..n : e[i] = Append(pieces[i], separator)
    BY EndEachType
  <2>2. x \in T
    BY <1>3
  <2> HIDE DEF e, x, T
  <2>3. /\ Append(e, x) \in Seq(T) /\ Len(Append(e, x)) = n + 1
        /\ \A i \in 1..n : Append(e, x)[i] = e[i]
        /\ Append(e, x)[n + 1] = x
    BY <2>1, <2>2, AppendProperties
  <2> QED BY <2>1, <2>3 DEF e, x
<1> HIDE DEF a, b, T, n
<1>5. ASSUME NEW i \in 1..(n + 1) PROVE a[i] = b[i]
  <2>1. i \in 1..n \/ i = n + 1
    BY <1>1
  <2> QED BY <1>1, <1>2, <1>4, <2>1
<1>6. a = b
  BY <1>2, <1>4, <1>5, SeqEqual
<1> QED BY <1>6 DEF a, b, longer

LEMMA JoinPieces ==
  ASSUME NEW S, NEW text \in Seq(S), NEW separator \in S
  PROVE  FlattenSeq(EndEach(Pieces(text, separator), separator)) = Append(text, separator)
<1> DEFINE Join(pieces) == FlattenSeq(EndEach(pieces, separator))
           P == {t \in Seq(S) : Join(Pieces(t, separator)) = Append(t, separator)}
<1>1. P \in SUBSET Seq(S)
  OBVIOUS
<1>2. \A pieces \in Seq(Seq(S)), piece \in Seq(S) :
        /\ Join(pieces) \in Seq(S)
        /\ Join(Append(pieces, piece)) = Join(pieces) \o Append(piece, separator)
  <2> SUFFICES ASSUME NEW pieces \in Seq(Seq(S)), NEW piece \in Seq(S)
               PROVE  /\ Join(pieces) \in Seq(S)
                      /\ Join(Append(pieces, piece)) = Join(pieces) \o Append(piece, separator)
    OBVIOUS
  <2>1. Append(piece, separator) \in Seq(S) /\ EndEach(pieces, separator) \in Seq(Seq(S))
    BY AppendProperties, EndEachType
  <2>2. EndEach(Append(pieces, piece), separator) =
          Append(EndEach(pieces, separator), Append(piece, separator))
    BY EndEachAppend
  <2>3. FlattenSeq(Append(EndEach(pieces, separator), Append(piece, separator))) =
          FlattenSeq(EndEach(pieces, separator)) \o Append(piece, separator)
    BY <2>1, FlattenAppend
  <2> QED BY <2>1, <2>2, <2>3, FlattenType
<1>3. <<>> \in P
  <2>1. <<>> \in Seq(S) /\ <<>> \in Seq(Seq(S)) /\ Append(<<>>, separator) \in Seq(S)
    BY EmptySeq, AppendProperties
  <2>2. << <<>> >> = Append(<<>>, <<>>)
    OBVIOUS
  <2>3. Join(<< <<>> >>) = Join(<<>>) \o Append(<<>>, separator)
    BY <1>2, <2>1, <2>2
  <2>4. EndEach(<<>>, separator) = <<>>
    BY DEF EndEach
  <2>5. Join(<<>>) = <<>>
    BY <2>4, FlattenEmpty
  <2> QED BY <2>1, <2>3, <2>5, PiecesEmpty, ConcatEmptySeq
<1>4. ASSUME NEW t \in P, NEW ch \in S PROVE Append(t, ch) \in P
  <2> DEFINE pieces == Pieces(t, separator)
  <2>1. /\ pieces \in NonEmpty(Seq(S)) /\ Append(t, ch) \in Seq(S)
        /\ pieces \in Seq(Seq(S)) /\ pieces # <<>>
    BY PiecesType, AppendProperties DEF NonEmpty
  <2>2. Pieces(Append(t, ch), separator) = PiecesStep(pieces, ch, separator)
    BY PiecesAppend
  <2>3. Join(pieces) = Append(t, separator)
    OBVIOUS
  <2> HIDE DEF pieces
  <2>4. CASE ch = separator
    <3>1. <<>> \in Seq(S) /\ Append(<<>>, separator) = <<separator>>
      BY EmptySeq
    <3>2. Join(Append(pieces, <<>>)) = Append(t, separator) \o <<separator>>
      BY <1>2, <2>1, <2>3, <3>1
    <3>3. Append(t, separator) \in Seq(S)
      BY AppendProperties
    <3>4. Append(t, separator) \o <<separator>> = Append(Append(t, separator), separator)
      BY <3>3, AppendIsConcat
    <3> QED BY <2>1, <2>2, <2>4, <3>2, <3>4 DEF PiecesStep
  <2>5. CASE ch # separator
    <3> DEFINE T == Seq(S)
    <3>1. PICK front \in Seq(T), last \in T : pieces = Append(front, last)
      <4> HIDE DEF T
      <4>1. pieces \in Seq(T) /\ pieces # <<>>
        BY <2>1 DEF T
      <4> QED BY <4>1, SequenceEmptyOrAppend
    <3>2. /\ Len(pieces) = Len(front) + 1 /\ Len(front) \in Nat
          /\ pieces[Len(pieces)] = last
          /\ \A i \in 1..Len(front) : pieces[i] = front[i]
      BY <3>1, AppendProperties, LenProperties
    <3>3. Append(last, ch) \in T
      BY AppendProperties
    <3>4. PiecesStep(pieces, ch, separator) = Append(front, Append(last, ch))
      <4> DEFINE new == Append(last, ch)
                 a == [pieces EXCEPT ![Len(pieces)] = new]
                 b == Append(front, new)
                 n == Len(pieces)
      <4>1. PiecesStep(pieces, ch, separator) = a
        BY <2>5, <3>2 DEF PiecesStep
      <4>2. new \in T /\ pieces \in Seq(T) /\ n \in 1..n
        BY <2>1, <3>2, <3>3
      <4> HIDE DEF new, T
      <4>3. /\ a \in Seq(T) /\ Len(a) = n
            /\ \A j \in 1..n : a[j] = IF j = n THEN new ELSE pieces[j]
        BY <4>2, ExceptSeq
      <4>4. /\ b \in Seq(T) /\ Len(b) = n /\ b[n] = new
            /\ \A j \in 1..Len(front) : b[j] = front[j]
        BY <3>1, <3>2, <4>2, AppendProperties
      <4> HIDE DEF a, b, n
      <4>5. ASSUME NEW j \in 1..n PROVE a[j] = b[j]
        <5>1. j = n \/ (j # n /\ j \in 1..Len(front))
          BY <3>2 DEF n
        <5> QED BY <3>2, <4>3, <4>4, <5>1
      <4>6. a = b
        BY <4>3, <4>4, <4>5, SeqEqual
      <4> QED BY <4>1, <4>6 DEF b, new
    <3>5. Join(front) \o Append(last, separator) = Append(t, separator)
      BY <1>2, <2>3, <3>1
    <3>6. /\ Join(front) \in Seq(S) /\ last \in Seq(S) /\ Append(last, ch) \in Seq(S)
          /\ t \in Seq(S) /\ <<separator>> \in Seq(S) /\ <<ch>> \in Seq(S)
      BY <1>2, <3>1, <3>3
    <3> HIDE DEF Join, T
    <3>7. Join(front) \o last = t
      <4> DEFINE x == Join(front)
      <4>1. x \o Append(last, separator) = Append(x \o last, separator) /\ x \o last \in Seq(S)
        BY <3>6, ConcatAppend, ConcatProperties
      <4> HIDE DEF x
      <4>2. Append(x \o last, separator) = Append(t, separator)
        BY <3>5, <4>1 DEF x
      <4>3. x \o last \in Seq(S) /\ t \in Seq(S) /\ separator \in S
        BY <3>6, <4>1
      <4> DEFINE y == x \o last
      <4> HIDE DEF y
      <4>4. y = t
        <5>1. y \in Seq(S) /\ t \in Seq(S) /\ separator \in S
          BY <4>3 DEF y
        <5>2. Append(y, separator) = Append(t, separator)
          BY <4>2 DEF y
        <5> QED BY <5>1, <5>2, AppendInjective
      <4> QED BY <4>4 DEF x, y
    <3>8. Join(Append(front, Append(last, ch))) = Join(front) \o Append(Append(last, ch), separator)
      BY <1>2, <3>1, <3>6 DEF Join, T
    <3>9. Join(front) \o Append(Append(last, ch), separator) = Append(Append(t, ch), separator)
      <4> DEFINE x == Join(front)
      <4>1. x \o Append(Append(last, ch), separator) = Append(x \o Append(last, ch), separator)
        BY <3>6, ConcatAppend
      <4>2. x \o Append(last, ch) = Append(x \o last, ch)
        BY <3>6, ConcatAppend
      <4> QED BY <3>7, <4>1, <4>2
    <3> QED BY <2>1, <2>2, <3>4, <3>8, <3>9 DEF Join
  <2> QED BY <2>4, <2>5
<1> HIDE DEF P
<1>5. P = Seq(S)
  BY <1>1, <1>3, <1>4, Sequences
<1> QED BY <1>5 DEF P

-----------------------------------------------------------------------------
(* Characters, parts of texts, and lines *)

(* The facts about numbers and words that the proofs use *)
LEMMA Letters ==
  /\ Char \subseteq Letter /\ Word \subseteq Letter /\ Garbage \in Letter
  /\ NonAscii \subseteq Char /\ Number \subseteq Char
  /\ Newline \in Word /\ Colon \in Word /\ Blank \in Word /\ Slash \in Word /\ Nul \in Word
  /\ Commands \subseteq Word
  /\ {"destination", "MESSAGE", "message-id", "subscription", "id", "user", "city", "event name",
      "date time", "general information", "description", "Event Owner"} \subseteq Word
  /\ \A w \in Word \cup {Garbage, "true"} : w \notin NonAscii /\ w \notin Number
BY TextAssumption DEF Letter, Word, White, Commands

LEMMA DecodedLetters ==
  /\ \A ch \in Letter : DecodedChar(ch) \in Letter /\ DecodedChar(ch) \notin NonAscii
  /\ \A ch : DecodedChar(ch) # Garbage => ch = DecodedChar(ch)
  /\ \A ch \in Word : DecodedChar(ch) = ch
  /\ \A ch \in Word : ch # Garbage
BY Letters DEF DecodedChar, Garbage, Word, White, Commands, Newline, Blank, Colon, Slash, Nul

(* A part of a text *)
LEMMA PartType ==
  ASSUME NEW S, NEW s \in Seq(S), NEW m \in Nat \ {0}, NEW n \in Int, n <= Len(s)
  PROVE  /\ SubSeq(s, m, n) \in Seq(S)
         /\ Len(SubSeq(s, m, n)) = IF m <= n THEN n - m + 1 ELSE 0
         /\ \A i \in 1..(n - m + 1) : SubSeq(s, m, n)[i] = s[m + i - 1]
<1>1. \A i \in m..n : s[i] \in S
  BY ElementOfSeq, LenProperties
<1> QED BY <1>1, SubSeqProperties

LEMMA CutAt ==
  ASSUME NEW S, NEW s \in Seq(S), NEW n \in 0..Len(s)
  PROVE  SubSeq(s, 1, n) \o SubSeq(s, n + 1, Len(s)) = s
<1>1. /\ Len(s) \in Nat
      /\ 1 \in 1..(Len(s) + 1) /\ n \in (1 - 1)..Len(s) /\ Len(s) \in n..Len(s)
  BY LenProperties
<1>2. SubSeq(s, 1, n) \o SubSeq(s, n + 1, Len(s)) = SubSeq(s, 1, Len(s))
  BY <1>1, ConcatAdjacentSubSeq
<1> QED BY <1>2, SubSeqFull

(* The parts of a text that is put together from two *)
LEMMA PartsOfConcat ==
  ASSUME NEW S, NEW s \in Seq(S), NEW t \in Seq(S)
  PROVE  /\ SubSeq(s \o t, 1, Len(s)) = s
         /\ SubSeq(s \o t, Len(s) + 1, Len(s \o t)) = t
<1>1. /\ s \o t \in Seq(S) /\ Len(s \o t) = Len(s) + Len(t) /\ Len(s) \in Nat /\ Len(t) \in Nat
      /\ \A i \in 1..(Len(s) + Len(t)) : (s \o t)[i] = IF i <= Len(s) THEN s[i] ELSE t[i - Len(s)]
  BY ConcatProperties, LenProperties
<1> DEFINE st == s \o t
           a == SubSeq(st, 1, Len(s))
           b == SubSeq(st, Len(s) + 1, Len(st))
<1> HIDE DEF st
<1>2. /\ a \in Seq(S) /\ Len(a) = Len(s)
      /\ \A i \in 1..Len(s) : a[i] = st[i]
  <2>1. /\ a \in Seq(S) /\ Len(a) = IF 1 <= Len(s) THEN Len(s) - 1 + 1 ELSE 0
        /\ \A i \in 1..(Len(s) - 1 + 1) : a[i] = st[1 + i - 1]
    BY <1>1, PartType DEF st
  <2> QED BY <1>1, <2>1
<1>3. /\ b \in Seq(S) /\ Len(b) = Len(t)
      /\ \A i \in 1..Len(t) : b[i] = st[Len(s) + i]
  <2> DEFINE m == Len(s) + 1
             n == Len(st)
  <2>1. m \in Nat \ {0} /\ n \in Int /\ n <= Len(st) /\ n - m + 1 = Len(t)
    BY <1>1 DEF st
  <2>2. st \in Seq(S)
    BY <1>1 DEF st
  <2>3. /\ b \in Seq(S) /\ Len(b) = IF m <= n THEN n - m + 1 ELSE 0
        /\ \A i \in 1..(n - m + 1) : b[i] = st[m + i - 1]
    <3> HIDE DEF m, n
    <3>1. /\ SubSeq(st, m, n) \in Seq(S) /\ Len(SubSeq(st, m, n)) = IF m <= n THEN n - m + 1 ELSE 0
          /\ \A i \in 1..(n - m + 1) : SubSeq(st, m, n)[i] = st[m + i - 1]
      BY <2>1, <2>2, PartType
    <3> QED BY <3>1 DEF m, n
  <2> QED BY <1>1, <2>1, <2>3 DEF st
<1> HIDE DEF a, b
<1>4. a = s
  <2>1. \A i \in 1..Len(a) : a[i] = s[i]
    BY <1>1, <1>2 DEF st
  <2> QED BY <1>2, <2>1, SeqEqual
<1>5. b = t
  <2>1. \A i \in 1..Len(b) : b[i] = t[i]
    BY <1>1, <1>3 DEF st
  <2> QED BY <1>3, <2>1, SeqEqual
<1> QED BY <1>4, <1>5 DEF a, b, st

(* The first end of a frame *)
LEMMA EndsProperties ==
  ASSUME NEW S, NEW s \in Seq(S)
  PROVE  /\ Ends(s) \in 0..Len(s)
         /\ Ends(s) = 0 => \A i \in 1..Len(s) : s[i] # Nul
         /\ Ends(s) # 0 => s[Ends(s)] = Nul /\ \A i \in 1..(Ends(s) - 1) : s[i] # Nul
<1> DEFINE I == {i \in 1..Len(s) : s[i] = Nul}
<1>1. Ends(s) = IF I # {} THEN Min(I) ELSE 0
  BY DEF Ends, SelectInSeq
<1>2. Len(s) \in Nat
  BY LenProperties
<1>3. CASE I = {}
  BY <1>1, <1>2, <1>3
<1>4. CASE I # {}
  <2>1. I \in SUBSET Nat
    BY <1>2
  <2>2. Min(I) \in I /\ \A x \in I : Min(I) <= x
    <3> HIDE DEF I
    <3> QED BY <1>4, <2>1, MinProperties
  <2> DEFINE m == Min(I)
  <2>3. m \in 1..Len(s) /\ s[m] = Nul /\ \A x \in 1..Len(s) : s[x] = Nul => m <= x
    BY <2>2
  <2>4. Ends(s) = m
    BY <1>1, <1>4
  <2> HIDE DEF m
  <2> QED BY <1>2, <2>3, <2>4
<1> QED BY <1>3, <1>4

LEMMA EndsValue ==
  ASSUME NEW S, NEW s \in Seq(S), NEW n \in 1..Len(s),
         s[n] = Nul, \A i \in 1..(n - 1) : s[i] # Nul
  PROVE  Ends(s) = n
<1>1. /\ Ends(s) \in 0..Len(s)
      /\ Ends(s) = 0 => \A i \in 1..Len(s) : s[i] # Nul
      /\ Ends(s) # 0 => s[Ends(s)] = Nul /\ \A i \in 1..(Ends(s) - 1) : s[i] # Nul
  BY EndsProperties
<1>2. Len(s) \in Nat
  BY LenProperties
<1>3. Ends(s) # 0
  BY <1>1
<1>4. ~(Ends(s) < n)
  BY <1>1, <1>2, <1>3
<1>5. ~(n < Ends(s))
  BY <1>1, <1>2, <1>3
<1> QED BY <1>1, <1>2, <1>4, <1>5

(* The characters of bytes *)
LEMMA CharactersType ==
  ASSUME NEW bytes \in Text
  PROVE  /\ Characters(bytes) \in Text
         /\ Len(Characters(bytes)) = Len(bytes)
         /\ \A i \in 1..Len(bytes) : Characters(bytes)[i] = DecodedChar(bytes[i])
<1>1. /\ DOMAIN bytes = 1..Len(bytes) /\ Len(bytes) \in Nat
      /\ \A i \in 1..Len(bytes) : bytes[i] \in Letter
  BY LenProperties, ElementOfSeq DEF Text
<1>2. \A i \in 1..Len(bytes) : DecodedChar(bytes[i]) \in Letter
  BY <1>1, DecodedLetters
<1> DEFINE n == Len(bytes)
<1>3. Characters(bytes) = [i \in 1..n |-> DecodedChar(bytes[i])]
  BY <1>1 DEF Characters
<1>4. [i \in 1..n |-> DecodedChar(bytes[i])] \in Seq(Letter)
  BY <1>1, <1>2
<1>5. Len([i \in 1..n |-> DecodedChar(bytes[i])]) = n
  BY <1>1
<1> QED BY <1>3, <1>4, <1>5 DEF Text

LEMMA CharactersConcat ==
  ASSUME NEW a \in Text, NEW b \in Text
  PROVE  Characters(a \o b) = Characters(a) \o Characters(b)
<1> DEFINE x == Characters(a \o b)
           ca == Characters(a)
           cb == Characters(b)
           y == ca \o cb
<1>1. /\ a \o b \in Text /\ Len(a \o b) = Len(a) + Len(b) /\ Len(a) \in Nat /\ Len(b) \in Nat
      /\ \A i \in 1..(Len(a) + Len(b)) : (a \o b)[i] = IF i <= Len(a) THEN a[i] ELSE b[i - Len(a)]
  BY ConcatProperties, LenProperties DEF Text
<1>2. /\ x \in Text /\ Len(x) = Len(a) + Len(b)
      /\ \A i \in 1..(Len(a) + Len(b)) : x[i] = DecodedChar((a \o b)[i])
  BY <1>1, CharactersType
<1>3. /\ ca \in Text /\ Len(ca) = Len(a) /\ \A i \in 1..Len(a) : ca[i] = DecodedChar(a[i])
      /\ cb \in Text /\ Len(cb) = Len(b) /\ \A i \in 1..Len(b) : cb[i] = DecodedChar(b[i])
  BY CharactersType
<1> HIDE DEF x, ca, cb
<1>4. /\ y \in Text /\ Len(y) = Len(a) + Len(b)
      /\ \A i \in 1..(Len(a) + Len(b)) : y[i] = IF i <= Len(a) THEN ca[i] ELSE cb[i - Len(a)]
  <2>1. ca \in Seq(Letter) /\ cb \in Seq(Letter)
    BY <1>3 DEF Text
  <2>2. /\ ca \o cb \in Seq(Letter) /\ Len(ca \o cb) = Len(ca) + Len(cb)
        /\ \A i \in 1..(Len(ca) + Len(cb)) :
             (ca \o cb)[i] = IF i <= Len(ca) THEN ca[i] ELSE cb[i - Len(ca)]
    BY <2>1, ConcatProperties
  <2>3. y = ca \o cb
    OBVIOUS
  <2> HIDE DEF y
  <2> QED BY <1>3, <2>2, <2>3 DEF Text
<1> HIDE DEF y
<1>5. ASSUME NEW i \in 1..Len(x) PROVE x[i] = y[i]
  <2>1. i \in 1..(Len(a) + Len(b))
    BY <1>2
  <2>2. CASE i <= Len(a)
    <3>1. i \in 1..Len(a)
      BY <1>1, <2>1, <2>2
    <3> QED BY <1>1, <1>2, <1>3, <1>4, <2>1, <2>2, <3>1
  <2>3. CASE ~(i <= Len(a))
    <3>1. i - Len(a) \in 1..Len(b)
      BY <1>1, <2>1, <2>3
    <3> QED BY <1>1, <1>2, <1>3, <1>4, <2>1, <2>3, <3>1
  <2> QED BY <2>2, <2>3
<1>6. x = y
  BY <1>2, <1>4, <1>5, SeqEqual DEF Text
<1> QED BY <1>6 DEF x, y, ca, cb

(* The lines of a text *)
LEMMA LinesType ==
  ASSUME NEW S, Newline \in S, NEW lines \in Seq(Seq(S))
  PROVE  Lines(lines) \in Seq(S) /\ Lines(lines) = FlattenSeq(EndEach(lines, Newline))
<1>1. Lines(lines) = FlattenSeq(EndEach(lines, Newline))
  BY DEF Lines, EndEach
<1>2. EndEach(lines, Newline) \in Seq(Seq(S))
  BY EndEachType
<1> QED BY <1>1, <1>2, FlattenType

LEMMA LinesEmpty == Lines(<<>>) = <<>>
<1>1. Lines(<<>>) = FlattenSeq(EndEach(<<>>, Newline))
  BY DEF Lines, EndEach
<1>2. EndEach(<<>>, Newline) = <<>>
  BY DEF EndEach
<1> QED BY <1>1, <1>2, FlattenEmpty

LEMMA LinesAppend ==
  ASSUME NEW S, Newline \in S, NEW lines \in Seq(Seq(S)), NEW line \in Seq(S)
  PROVE  Lines(Append(lines, line)) = Lines(lines) \o Append(line, Newline)
<1>1. /\ Append(lines, line) \in Seq(Seq(S)) /\ Append(line, Newline) \in Seq(S)
      /\ EndEach(lines, Newline) \in Seq(Seq(S))
  BY AppendProperties, EndEachType
<1>2. EndEach(Append(lines, line), Newline) = Append(EndEach(lines, Newline), Append(line, Newline))
  BY EndEachAppend
<1>3. FlattenSeq(Append(EndEach(lines, Newline), Append(line, Newline))) =
        FlattenSeq(EndEach(lines, Newline)) \o Append(line, Newline)
  BY <1>1, FlattenAppend
<1> QED BY <1>1, <1>2, <1>3, LinesType

LEMMA LinesConcat ==
  ASSUME NEW S, Newline \in S, NEW a \in Seq(Seq(S)), NEW b \in Seq(Seq(S))
  PROVE  Lines(a \o b) = Lines(a) \o Lines(b)
<1> DEFINE T == Seq(S)
           P == {c \in Seq(T) : Lines(a \o c) = Lines(a) \o Lines(c)}
<1>1. P \in SUBSET Seq(T) /\ Lines(a) \in Seq(S) /\ a \in Seq(T)
  BY LinesType
<1>2. <<>> \in P
  <2>1. a \o <<>> = a /\ <<>> \in Seq(T) /\ Lines(a) \o <<>> = Lines(a)
    BY <1>1, ConcatEmptySeq, EmptySeq
  <2> QED BY <2>1, LinesEmpty
<1>3. ASSUME NEW c \in P, NEW s \in T PROVE Append(c, s) \in P
  <2>1. /\ Append(c, s) \in Seq(T) /\ Lines(c) \in Seq(S) /\ a \o c \in Seq(T)
        /\ Append(s, Newline) \in Seq(S)
    BY AppendProperties, LinesType, ConcatProperties
  <2>2. a \o Append(c, s) = Append(a \o c, s)
    <3>1. a \in Seq(T) /\ c \in Seq(T)
      OBVIOUS
    <3> HIDE DEF T
    <3> QED BY <3>1, ConcatAppend
  <2>3. Lines(a \o Append(c, s)) = Lines(a \o c) \o Append(s, Newline)
    BY <2>1, <2>2, LinesAppend
  <2>4. Lines(Append(c, s)) = Lines(c) \o Append(s, Newline)
    BY LinesAppend
  <2>5. (Lines(a) \o Lines(c)) \o Append(s, Newline) = Lines(a) \o (Lines(c) \o Append(s, Newline))
    <3> DEFINE x == Lines(a)
               y == Lines(c)
               z == Append(s, Newline)
    <3>1. x \in Seq(S) /\ y \in Seq(S) /\ z \in Seq(S)
      BY <1>1, <2>1
    <3> HIDE DEF x, y, z
    <3>2. (x \o y) \o z = x \o (y \o z)
      BY <3>1, ConcatAssociative
    <3> QED BY <3>2 DEF x, y, z
  <2> QED BY <2>1, <2>3, <2>4, <2>5
<1> HIDE DEF P
<1>4. P = Seq(T)
  <2> HIDE DEF T
  <2> QED BY <1>1, <1>2, <1>3, Sequences
<1> QED BY <1>4 DEF P

-----------------------------------------------------------------------------
(* trim, split and headers *)

(* A text without the white space at its ends *)
LEMMA TrimValue ==
  ASSUME NEW S, NEW text \in Seq(S)
  PROVE  \/ /\ \A i \in 1..Len(text) : text[i] \in White
            /\ Trim(text) = <<>>
         \/ \E m \in 1..Len(text), n \in 1..Len(text) :
              /\ m <= n /\ text[m] \notin White /\ text[n] \notin White
              /\ \A i \in 1..(m - 1) : text[i] \in White
              /\ \A i \in (n + 1)..Len(text) : text[i] \in White
              /\ Trim(text) = SubSeq(text, m, n)
<1> DEFINE I == {i \in 1..Len(text) : text[i] \notin White}
           m == Min(I)
           n == Max(I)
<1>1. Len(text) \in Nat
  BY LenProperties
<1>2. Trim(text) = IF (IF I # {} THEN m ELSE 0) = 0 THEN <<>>
                   ELSE SubSeq(text, IF I # {} THEN m ELSE 0, IF I # {} THEN n ELSE 0)
  BY DEF Trim, SelectInSeq, SelectLastInSeq
<1>3. CASE I = {}
  <2>1. Trim(text) = <<>>
    BY <1>2, <1>3
  <2>2. \A i \in 1..Len(text) : text[i] \in White
    BY <1>3
  <2> QED BY <2>1, <2>2
<1>4. CASE I # {}
  <2>1. I \in SUBSET Nat /\ I \in SUBSET (1..Len(text))
    BY <1>1
  <2>2. /\ m \in I /\ \A x \in I : m <= x
        /\ n \in I /\ \A x \in I : x <= n
    <3> HIDE DEF I
    <3> QED BY <1>1, <1>4, <2>1, MinProperties, MaxProperties
  <2>3. m # 0
    BY <2>2
  <2>4. Trim(text) = SubSeq(text, m, n)
    BY <1>2, <1>4, <2>3
  <2>5. /\ m \in 1..Len(text) /\ n \in 1..Len(text) /\ m <= n
        /\ text[m] \notin White /\ text[n] \notin White
    BY <2>2
  <2>6. \A x \in 1..Len(text) : text[x] \notin White => m <= x /\ x <= n
    BY <2>2
  <2> HIDE DEF m, n
  <2>7. /\ \A i \in 1..(m - 1) : text[i] \in White
        /\ \A i \in (n + 1)..Len(text) : text[i] \in White
    BY <1>1, <2>5, <2>6
  <2> QED BY <2>4, <2>5, <2>7
<1> QED BY <1>3, <1>4

LEMMA TrimType ==
  ASSUME NEW S, NEW text \in Seq(S)
  PROVE  Trim(text) \in Seq(S)
<1>1. CASE Trim(text) = <<>>
  BY <1>1, EmptySeq
<1>2. ASSUME NEW m \in 1..Len(text), NEW n \in 1..Len(text), Trim(text) = SubSeq(text, m, n)
      PROVE  Trim(text) \in Seq(S)
  <2>1. m \in Nat \ {0} /\ n \in Int /\ n <= Len(text)
    BY LenProperties
  <2> QED BY <1>2, <2>1, PartType
<1> QED BY <1>1, <1>2, TrimValue

(* String.split *)
LEMMA SplitValue ==
  ASSUME NEW S, NEW text \in Seq(S), NEW separator, text # <<>>
  PROVE  LET pieces == Pieces(text, separator) IN
         \E n \in 0..Len(pieces) :
           /\ Split(text, separator) = SubSeq(pieces, 1, n)
           /\ n # 0 => pieces[n] # <<>>
           /\ \A i \in (n + 1)..Len(pieces) : pieces[i] = <<>>
<1> DEFINE pieces == Pieces(text, separator)
           I == {i \in 1..Len(pieces) : pieces[i] # <<>>}
           n == IF I # {} THEN Max(I) ELSE 0
<1>1. Split(text, separator) = SubSeq(pieces, 1, n)
  BY DEF Split, SelectLastInSeq
<1>2. Len(pieces) \in Nat
  <2>1. pieces \in Seq(Seq(S))
    BY PiecesType DEF NonEmpty
  <2> HIDE DEF pieces
  <2> QED BY <2>1, LenProperties
<1>3. /\ n \in 0..Len(pieces)
      /\ n # 0 => pieces[n] # <<>>
      /\ \A i \in 1..Len(pieces) : pieces[i] # <<>> => i <= n
  <2>1. CASE I = {}
    BY <1>2, <2>1
  <2>2. CASE I # {}
    <3>1. I \in SUBSET (1..Len(pieces))
      OBVIOUS
    <3>2. n \in I /\ \A x \in I : x <= n
      <4> HIDE DEF I, pieces
      <4> QED BY <1>2, <2>2, <3>1, MaxProperties
    <3> HIDE DEF n
    <3> QED BY <1>2, <3>2
  <2> QED BY <2>1, <2>2
<1> HIDE DEF n
<1>4. \A i \in (n + 1)..Len(pieces) : pieces[i] = <<>>
  BY <1>2, <1>3
<1> QED BY <1>1, <1>3, <1>4

LEMMA SplitType ==
  ASSUME NEW S, NEW text \in Seq(S), NEW separator
  PROVE  Split(text, separator) \in Seq(Seq(S))
<1> DEFINE pieces == Pieces(text, separator)
           T == Seq(S)
<1>1. pieces \in Seq(T)
  BY PiecesType DEF NonEmpty
<1>2. CASE text = <<>>
  BY <1>1, <1>2 DEF Split
<1>3. CASE text # <<>>
  <2>1. PICK n \in 0..Len(pieces) : Split(text, separator) = SubSeq(pieces, 1, n)
    BY <1>3, SplitValue
  <2> HIDE DEF T, pieces
  <2>2. SubSeq(pieces, 1, n) \in Seq(T)
    <3>1. 1 \in Nat \ {0} /\ n \in Int /\ n <= Len(pieces)
      BY <1>1, LenProperties
    <3> QED BY <1>1, <3>1, PartType
  <2> QED BY <2>1, <2>2 DEF T
<1> QED BY <1>2, <1>3

(* The first colon of a line, and the value behind it *)
LEMMA FirstColonValue ==
  ASSUME NEW S, NEW line \in Seq(S)
  PROVE  /\ FirstColon(line) \in 0..Len(line)
         /\ FirstColon(line) = 0 => \A i \in 1..Len(line) : line[i] # Colon
         /\ FirstColon(line) # 0 => /\ line[FirstColon(line)] = Colon
                                    /\ \A i \in 1..(FirstColon(line) - 1) : line[i] # Colon
<1> DEFINE I == {i \in 1..Len(line) : line[i] = Colon}
           m == Min(I)
<1>1. FirstColon(line) = IF I # {} THEN m ELSE 0
  BY DEF FirstColon, SelectInSeq
<1>2. Len(line) \in Nat
  BY LenProperties
<1>3. CASE I = {}
  BY <1>1, <1>2, <1>3
<1>4. CASE I # {}
  <2>1. I \in SUBSET Nat
    BY <1>2
  <2>2. m \in I /\ \A x \in I : m <= x
    <3> HIDE DEF I
    <3> QED BY <1>4, <2>1, MinProperties
  <2>3. m \in 1..Len(line) /\ line[m] = Colon /\ \A x \in 1..Len(line) : line[x] = Colon => m <= x
    BY <2>2
  <2>4. FirstColon(line) = m
    BY <1>1, <1>4
  <2> HIDE DEF m
  <2> QED BY <1>2, <2>3, <2>4
<1> QED BY <1>3, <1>4

LEMMA HeaderValueType ==
  ASSUME NEW S, NEW line \in Seq(S)
  PROVE  HeaderValue(line) \in Seq(S)
<1>1. FirstColon(line) + 1 \in Nat \ {0} /\ Len(line) \in Int /\ Len(line) <= Len(line)
  BY FirstColonValue, LenProperties
<1>2. SubSeq(line, FirstColon(line) + 1, Len(line)) \in Seq(S)
  BY <1>1, PartType
<1> QED BY <1>2, TrimType DEF HeaderValue

LEMMA HeadersValue ==
  ASSUME NEW T, NEW lines \in Seq(T), NEW key \in DOMAIN Headers(lines)
  PROVE  \E i \in 1..Len(lines) : Headers(lines)[key] = HeaderValue(lines[i])
<1> DEFINE I == {i \in DOMAIN lines : HeaderKey(lines[i]) = key}
<1>1. DOMAIN lines = 1..Len(lines) /\ Len(lines) \in Nat
  BY LenProperties
<1>2. I # {} /\ I \in SUBSET (1..Len(lines))
  BY <1>1 DEF Headers
<1>3. Max(I) \in I
  <2> HIDE DEF I
  <2> QED BY <1>1, <1>2, MaxProperties
<1>4. Headers(lines)[key] = HeaderValue(lines[Max(I)])
  BY DEF Headers
<1> QED BY <1>2, <1>3, <1>4

-----------------------------------------------------------------------------
(* parse, and the copies *)

(* What parse makes of a frame that is not malformed *)
ParsedUpTo(text, end) ==
  LET lines   == Split(text, Newline)
      headers == SubSeq(lines, 2, end - 1)
  IN  /\ end \in 2..(Len(lines) + 1)
      /\ lines # <<>>
      /\ Trim(lines[1]) \in {<<command>> : command \in Commands}
      /\ \A i \in 2..(end - 1) : lines[i] # <<>> /\ Occurs(Colon, lines[i])
      /\ end <= Len(lines) => lines[end] = <<>>
      /\ Parse(text) = [command |-> Trim(lines[1])[1], headers |-> Headers(headers),
                        body |-> Trim(Lines(SubSeq(lines, end + 1, Len(lines))))]

LEMMA ParseValue ==
  ASSUME NEW S, NEW text \in Seq(S), Parse(text) # Malformed
  PROVE  \E end \in Nat : ParsedUpTo(text, end)
<1> DEFINE lines == Split(text, Newline)
           I == {i \in 2..Len(lines) : lines[i] = <<>>}
           empty == IF I # {} THEN Min(I) ELSE 0
           end == IF empty = 0 THEN Len(lines) + 1 ELSE empty
           headers == SubSeq(lines, 2, end - 1)
           body == SubSeq(lines, end + 1, Len(lines))
<1>1. lines \in Seq(Seq(S))
  BY SplitType
<1>3. /\ lines # <<>>
      /\ Trim(lines[1]) \in {<<command>> : command \in Commands}
      /\ \A i \in DOMAIN headers : IsHeader(headers[i])
      /\ Parse(text) = [command |-> Trim(lines[1])[1], headers |-> Headers(headers),
                        body |-> Trim(Lines(body))]
  BY DEF Parse, SelectInSubSeq
<1> DEFINE T == Seq(S)
<1>4. Len(lines) \in Nat \ {0}
  <2>1. lines \in Seq(T) /\ lines # <<>>
    BY <1>1, <1>3
  <2> HIDE DEF lines, T
  <2> QED BY <2>1, EmptySeq
<1>5. /\ end \in 2..(Len(lines) + 1)
      /\ \A i \in 2..(end - 1) : lines[i] # <<>>
      /\ end <= Len(lines) => lines[end] = <<>>
  <2>1. CASE I = {}
    <3>1. end = Len(lines) + 1
      BY <2>1
    <3>2. \A i \in 2..Len(lines) : lines[i] # <<>>
      BY <2>1
    <3> HIDE DEF end, lines
    <3> QED BY <1>4, <3>1, <3>2
  <2>2. CASE I # {}
    <3>1. I \in SUBSET Nat
      BY <1>4
    <3>2. Min(I) \in I /\ \A x \in I : Min(I) <= x
      <4> HIDE DEF I
      <4> QED BY <2>2, <3>1, MinProperties
    <3>3. Min(I) # 0 /\ empty = Min(I)
      BY <2>2, <3>2
    <3>4. end = Min(I)
      BY <3>3
    <3>5. end \in 2..Len(lines) /\ lines[end] = <<>>
          /\ \A x \in 2..Len(lines) : lines[x] = <<>> => end <= x
      BY <3>2, <3>4
    <3> HIDE DEF end, lines
    <3> QED BY <1>4, <3>5
  <2> QED BY <2>1, <2>2
<1> HIDE DEF end
<1>6. \A i \in 2..(end - 1) : Occurs(Colon, lines[i])
  <2>1. /\ headers \in Seq(T) /\ Len(headers) = IF 2 <= end - 1 THEN end - 1 - 2 + 1 ELSE 0
        /\ \A i \in 1..(end - 1 - 2 + 1) : headers[i] = lines[2 + i - 1]
    <3>1. 2 \in Nat \ {0} /\ end - 1 \in Int /\ end - 1 <= Len(lines) /\ lines \in Seq(T)
      BY <1>1, <1>4, <1>5
    <3> HIDE DEF lines, T
    <3> QED BY <3>1, PartType
  <2>2. DOMAIN headers = 1..Len(headers)
    <3> HIDE DEF headers, T
    <3> QED BY <2>1, LenProperties
  <2> SUFFICES ASSUME NEW i \in 2..(end - 1) PROVE Occurs(Colon, lines[i])
    OBVIOUS
  <2>3. i - 1 \in 1..(end - 1 - 2 + 1) /\ 2 + (i - 1) - 1 = i /\ 2 <= end - 1
    BY <1>4, <1>5
  <2>4. headers[i - 1] = lines[i] /\ i - 1 \in DOMAIN headers
    BY <2>1, <2>2, <2>3
  <2> QED BY <1>3, <2>4 DEF IsHeader
<1>7. ParsedUpTo(text, end)
  BY <1>3, <1>5, <1>6 DEF ParsedUpTo
<1> QED BY <1>4, <1>5, <1>7

(* The characters of a frame's parts are those of its text. *)
LEMMA ParseType ==
  ASSUME NEW S, Newline \in S, NEW text \in Seq(S), NEW end \in Nat, ParsedUpTo(text, end)
  PROVE  /\ Parse(text).body \in Seq(S)
         /\ \A key \in DOMAIN Parse(text).headers : Parse(text).headers[key] \in Seq(S)
<1> DEFINE T == Seq(S)
           lines == Split(text, Newline)
           headers == SubSeq(lines, 2, end - 1)
           body == SubSeq(lines, end + 1, Len(lines))
<1>1. lines \in Seq(T) /\ Len(lines) \in Nat
  <2>1. lines \in Seq(T)
    BY SplitType
  <2> HIDE DEF lines, T
  <2> QED BY <2>1, LenProperties
<1>2. /\ end \in 2..(Len(lines) + 1)
      /\ Parse(text).body = Trim(Lines(body))
      /\ Parse(text).headers = Headers(headers)
  BY DEF ParsedUpTo
<1>3. body \in Seq(T) /\ headers \in Seq(T)
  <2>1. /\ 2 \in Nat \ {0} /\ end - 1 \in Int /\ end - 1 <= Len(lines)
        /\ end + 1 \in Nat \ {0} /\ Len(lines) \in Int
    BY <1>1, <1>2
  <2> HIDE DEF lines, T
  <2> QED BY <1>1, <2>1, PartType
<1>4. Trim(Lines(body)) \in Seq(S)
  BY <1>3, LinesType, TrimType
<1>5. ASSUME NEW key \in DOMAIN Headers(headers)
      PROVE  Headers(headers)[key] \in Seq(S)
  <2>1. PICK i \in 1..Len(headers) : Headers(headers)[key] = HeaderValue(headers[i])
    <3> HIDE DEF headers, T
    <3> QED BY <1>3, HeadersValue
  <2>2. headers[i] \in T
    <3> HIDE DEF headers, T
    <3> QED BY <1>3, ElementOfSeq
  <2> QED BY <2>1, <2>2, HeaderValueType
<1> QED BY <1>2, <1>4, <1>5

(* The text of a message before its null *)
MessageLines(topic) ==
  << <<"MESSAGE">>, <<"message-id", Colon, "id">>, <<"subscription", Colon, "id">>,
     <<"destination", Colon, Slash>> \o topic, <<>> >>

MessageBody(topic, body) == Lines(MessageLines(topic)) \o body

(* The letters that the server knows after decoding, and those of a frame   *)
DecodedLetter == Letter \ NonAscii
Inner == DecodedLetter \ {Nul}

LEMMA InnerLetters ==
  /\ DecodedLetter \subseteq Letter /\ Inner \subseteq Letter
  /\ White \subseteq Inner /\ Commands \subseteq Inner
  /\ {Newline, Colon, Blank, Slash, Garbage,
      "destination", "MESSAGE", "message-id", "subscription", "id", "user", "city", "event name",
      "date time", "general information", "description", "Event Owner"} \subseteq Inner
BY Letters DEF DecodedLetter, Inner, White, Commands, Newline, Colon, Blank, Slash, Nul, Garbage

LEMMA Tuples ==
  ASSUME NEW S, NEW x \in S, NEW y \in S, NEW z \in S, NEW w \in S
  PROVE  /\ <<>> \in Seq(S) /\ <<x>> \in Seq(S) /\ <<x, y>> \in Seq(S) /\ <<x, y, z>> \in Seq(S)
         /\ <<x, y, z, w>> \in Seq(S)
OBVIOUS

LEMMA TupleAppend ==
  ASSUME NEW S, NEW x \in S, NEW y \in S, NEW z \in S
  PROVE  /\ Append(<<x>>, y) = <<x, y>>
         /\ Append(<<x, y>>, z) = <<x, y, z>>
<1>1. /\ <<x>> \in Seq(S) /\ <<x, y>> \in Seq(S) /\ <<x, y, z>> \in Seq(S)
  OBVIOUS
<1>2. Append(<<x>>, y) = <<x, y>>
  <2> DEFINE s == <<x>>
             t == <<x, y>>
  <2>1. Len(s) = 1 /\ s[1] = x /\ Len(t) = 2 /\ t[1] = x /\ t[2] = y
    OBVIOUS
  <2>2. s \in Seq(S) /\ t \in Seq(S)
    BY <1>1
  <2> HIDE DEF s, t
  <2> DEFINE r == Append(s, y)
  <2>0. /\ r \in Seq(S) /\ Len(r) = Len(s) + 1
        /\ \A i \in 1..Len(s) : r[i] = s[i]
        /\ r[Len(s) + 1] = y
    BY <2>2, AppendProperties
  <2> HIDE DEF r
  <2>3. /\ r \in Seq(S) /\ Len(r) = 2
        /\ \A i \in 1..1 : r[i] = s[i]
        /\ r[2] = y
    BY <2>0, <2>1
  <2>4. \A i \in 1..2 : r[i] = t[i]
    BY <2>1, <2>3
  <2> QED BY <2>1, <2>2, <2>3, <2>4, SeqEqual DEF r, s, t
<1>3. Append(<<x, y>>, z) = <<x, y, z>>
  <2> DEFINE s == <<x, y>>
             t == <<x, y, z>>
  <2>1. Len(s) = 2 /\ s[1] = x /\ s[2] = y /\ Len(t) = 3 /\ t[1] = x /\ t[2] = y /\ t[3] = z
    OBVIOUS
  <2>2. s \in Seq(S) /\ t \in Seq(S)
    BY <1>1
  <2> HIDE DEF s, t
  <2> DEFINE r == Append(s, z)
  <2>0. /\ r \in Seq(S) /\ Len(r) = Len(s) + 1
        /\ \A i \in 1..Len(s) : r[i] = s[i]
        /\ r[Len(s) + 1] = z
    BY <2>2, AppendProperties
  <2> HIDE DEF r
  <2>3. /\ r \in Seq(S) /\ Len(r) = 3
        /\ \A i \in 1..2 : r[i] = s[i]
        /\ r[3] = z
    BY <2>0, <2>1
  <2>4. \A i \in 1..3 : r[i] = t[i]
    BY <2>1, <2>3
  <2> QED BY <2>1, <2>2, <2>3, <2>4, SeqEqual DEF r, s, t
<1> QED BY <1>2, <1>3

LEMMA TupleAppendFour ==
  ASSUME NEW S, NEW x \in S, NEW y \in S, NEW z \in S, NEW w \in S
  PROVE  Append(<<x, y, z>>, w) = <<x, y, z, w>>
<1> DEFINE s == <<x, y, z>>
           t == <<x, y, z, w>>
<1>1. /\ Len(s) = 3 /\ s[1] = x /\ s[2] = y /\ s[3] = z
      /\ Len(t) = 4 /\ t[1] = x /\ t[2] = y /\ t[3] = z /\ t[4] = w
  OBVIOUS
<1>2. s \in Seq(S) /\ t \in Seq(S)
  OBVIOUS
<1> HIDE DEF s, t
<1> DEFINE r == Append(s, w)
<1>0. /\ r \in Seq(S) /\ Len(r) = Len(s) + 1
      /\ \A i \in 1..Len(s) : r[i] = s[i]
      /\ r[Len(s) + 1] = w
  BY <1>2, AppendProperties
<1> HIDE DEF r
<1>3. /\ r \in Seq(S) /\ Len(r) = 4
      /\ \A i \in 1..3 : r[i] = s[i]
      /\ r[4] = w
  BY <1>0, <1>1
<1>4. \A i \in 1..4 : r[i] = t[i]
  BY <1>1, <1>3
<1> QED BY <1>1, <1>2, <1>3, <1>4, SeqEqual DEF r, s, t

LEMMA TupleConcat ==
  ASSUME NEW S, NEW x \in S, NEW y \in S, NEW z \in S
  PROVE  <<x>> \o <<y>> = <<x, y>> /\ <<x>> \o <<y, z>> = <<x, y, z>>
<1>1. <<x>> \in Seq(S) /\ <<y>> \in Seq(S) /\ <<z>> \in Seq(S) /\ <<x, y>> \in Seq(S)
  OBVIOUS
<1>2. /\ Append(<<x>>, y) = <<x>> \o <<y>> /\ Append(<<y>>, z) = <<y>> \o <<z>>
      /\ Append(<<x, y>>, z) = <<x, y>> \o <<z>>
  BY <1>1, AppendIsConcat
<1>3. Append(<<x>>, y) = <<x, y>> /\ Append(<<x, y>>, z) = <<x, y, z>>
  BY TupleAppend
<1>4. Append(<<y>>, z) = <<y, z>>
  BY TupleAppend
<1>5. (<<x>> \o <<y>>) \o <<z>> = <<x>> \o (<<y>> \o <<z>>)
  BY <1>1, ConcatAssociative
<1> QED BY <1>2, <1>3, <1>4, <1>5

LEMMA TupleConcatFour ==
  ASSUME NEW S, NEW x \in S, NEW y \in S, NEW z \in S, NEW w \in S
  PROVE  <<x, y, z>> \o <<w>> = <<x, y, z, w>>
<1>1. <<x, y, z>> \in Seq(S)
  OBVIOUS
<1>2. Append(<<x, y, z>>, w) = <<x, y, z>> \o <<w>>
  BY <1>1, AppendIsConcat
<1>3. Append(<<x, y, z>>, w) = <<x, y, z, w>>
  BY TupleAppendFour
<1> QED BY <1>2, <1>3

LEMMA MessageType ==
  ASSUME NEW topic \in Seq(Inner), NEW body \in Seq(Inner)
  PROVE  /\ MessageLines(topic) \in Seq(Seq(Inner))
         /\ MessageBody(topic, body) \in Seq(Inner)
         /\ MessageText(topic, body) = Append(MessageBody(topic, body), Nul)
<1>1. /\ <<"MESSAGE">> \in Seq(Inner) /\ <<"message-id", Colon, "id">> \in Seq(Inner)
      /\ <<"subscription", Colon, "id">> \in Seq(Inner) /\ <<>> \in Seq(Inner)
      /\ <<"destination", Colon, Slash>> \in Seq(Inner)
  <2> DEFINE a == "MESSAGE"
             b == "message-id"
             c == "subscription"
             d == "destination"
             i == "id"
  <2>1. /\ a \in Inner /\ b \in Inner /\ c \in Inner /\ d \in Inner /\ i \in Inner
        /\ Colon \in Inner /\ Slash \in Inner
    BY InnerLetters
  <2> HIDE DEF a, b, c, d, i
  <2>2. /\ <<a>> \in Seq(Inner) /\ <<b, Colon, i>> \in Seq(Inner) /\ <<c, Colon, i>> \in Seq(Inner)
        /\ <<>> \in Seq(Inner) /\ <<d, Colon, Slash>> \in Seq(Inner)
    BY <2>1, Tuples
  <2> QED BY <2>2 DEF a, b, c, d, i
<1>2. <<"destination", Colon, Slash>> \o topic \in Seq(Inner)
  BY <1>1, ConcatProperties
<1>3. MessageLines(topic) \in Seq(Seq(Inner))
  BY <1>1, <1>2 DEF MessageLines
<1>4. Lines(MessageLines(topic)) \in Seq(Inner)
  BY <1>3, InnerLetters, LinesType
<1>5. MessageBody(topic, body) \in Seq(Inner)
  BY <1>4, ConcatProperties DEF MessageBody
<1> QED BY <1>3, <1>5 DEF MessageText, MessageBody, MessageLines

(* What is copied of a decoded frame *)
LEMMA CopiesValue ==
  ASSUME NEW text \in Seq(Inner), Copies(Parse(text)) # <<>>
  PROVE  \E end \in Nat :
           LET frame == Parse(text)
               topic == Unslashed(frame.headers[Destination])
           IN  /\ ParsedUpTo(text, end)
               /\ frame.command = "SEND" /\ Destination \in DOMAIN frame.headers
               /\ frame.headers[Destination] \in Seq(Inner)
               /\ topic \in Seq(Inner) /\ frame.body \in Seq(Inner) /\ topic \in Topics
               /\ Copies(frame) = Append(MessageBody(topic, frame.body), Nul)
<1> DEFINE frame == Parse(text)
           topic == Unslashed(frame.headers[Destination])
<1>1. /\ frame.command = "SEND" /\ Destination \in DOMAIN frame.headers
      /\ Copies(frame) = MessageText(topic, frame.body) /\ topic \in Topics
  BY DEF Copies
<1>2. Parse(text) # Malformed
  BY <1>1 DEF Malformed
<1>3. PICK end \in Nat : ParsedUpTo(text, end)
  BY <1>2, ParseValue
<1>4. frame.body \in Seq(Inner) /\ frame.headers[Destination] \in Seq(Inner)
  BY <1>1, <1>3, InnerLetters, ParseType
<1>5. topic \in Seq(Inner)
  BY <1>4, HeadTailProperties DEF Unslashed
<1>6. MessageText(topic, frame.body) = Append(MessageBody(topic, frame.body), Nul)
  BY <1>4, <1>5, MessageType
<1> QED BY <1>1, <1>3, <1>4, <1>5, <1>6

-----------------------------------------------------------------------------
(* The texts of a file *)

(* The characters of the texts of a file, and those of the lines that the   *)
(* client makes of them                                                     *)
Payload == Char \ Reserved
LineLetter == Letter \ Reserved

(* The events of a file *)
Event ==
  {event \in [owner : {<<>>}, city : Seq(Payload), name : Seq(Payload), date : Number,
              description : Seq(Payload),
              info : UNION {[keys -> Seq(Payload)] : keys \in SUBSET Seq(Payload)}] :
     IsFiniteSet(DOMAIN event.info)}

LEMMA EventsType ==
  ASSUME NEW file \in File
  PROVE  Content(file).channel \in Seq(Payload) /\ Events(file) \in Seq(Event)
<1> DEFINE events == Content(file).events
           n == Len(events)
<1>1. Content(file).channel \in Seq(Payload)
  BY ContentAssumption DEF IsText, Payload
<1>2. events \in Seq(ToSet(events))
  BY ContentAssumption
<1>3. DOMAIN events = 1..n /\ n \in Nat
  <2> HIDE DEF events
  <2> QED BY <1>2, LenProperties
<1>4. ASSUME NEW i \in DOMAIN Events(file) PROVE Events(file)[i] \in Event
  <2> DEFINE event == Events(file)[i]
             keys == DOMAIN event.info
  <2>1. /\ event = [owner |-> <<>>, city |-> event.city, name |-> event.name, date |-> event.date,
                    description |-> event.description, info |-> event.info]
        /\ IsText(event.city) /\ IsText(event.name) /\ IsText(event.description)
        /\ event.date \in Number /\ IsFiniteSet(keys)
        /\ event.info = [key \in keys |-> event.info[key]]
        /\ \A key \in keys : IsText(key) /\ IsText(event.info[key])
    BY <1>4, ContentAssumption
  <2> HIDE DEF event
  <2>2. keys \in SUBSET Seq(Payload) /\ event.info \in [keys -> Seq(Payload)]
    BY <2>1 DEF IsText, Payload
  <2>3. event.info \in UNION {[k -> Seq(Payload)] : k \in SUBSET Seq(Payload)}
    <3> DEFINE k == keys
               info == event.info
    <3>1. k \in SUBSET Seq(Payload) /\ info \in [k -> Seq(Payload)]
      BY <2>2
    <3> HIDE DEF k, info
    <3>2. info \in UNION {[j -> Seq(Payload)] : j \in SUBSET Seq(Payload)}
      BY <3>1
    <3> QED BY <3>2 DEF info
  <2>4. /\ event.owner = <<>> /\ event.city \in Seq(Payload) /\ event.name \in Seq(Payload)
        /\ event.description \in Seq(Payload)
    BY <2>1 DEF IsText, Payload
  <2> DEFINE Info == UNION {[k -> Seq(Payload)] : k \in SUBSET Seq(Payload)}
  <2> HIDE DEF Info
  <2>5. event \in [owner : {<<>>}, city : Seq(Payload), name : Seq(Payload), date : Number,
                   description : Seq(Payload), info : Info]
    <3>1. event.info \in Info
      BY <2>3 DEF Info
    <3> QED BY <2>1, <2>4, <3>1
  <2> QED BY <2>1, <2>5 DEF Event, event, Info
<1>5. Events(file) \in Seq(Event)
  <2>1. CASE Parses(file)
    <3> DEFINE e == [i \in 1..n |-> Put(events[i], "owner", <<>>)]
    <3>1. Events(file) = e
      BY <1>3, <2>1 DEF Events
    <3>2. \A i \in 1..n : e[i] \in Event
      BY <1>4, <3>1
    <3>3. DOMAIN e = 1..n /\ e = [i \in 1..n |-> e[i]]
      OBVIOUS
    <3> HIDE DEF e
    <3>4. e \in Seq(Event)
      BY <1>3, <3>2, <3>3
    <3> QED BY <3>1, <3>4
  <2>2. CASE ~Parses(file)
    BY <2>2, EmptySeq DEF Events
  <2> QED BY <2>1, <2>2
<1> QED BY <1>1, <1>5

LEMMA LineLetters ==
  /\ Payload \subseteq LineLetter /\ LineLetter \subseteq Letter /\ Number \subseteq LineLetter
  /\ White \subseteq LineLetter
  /\ {Newline, Colon, Blank, Slash, Nul, "destination", "MESSAGE", "message-id", "subscription",
      "id", "city", "event name", "date time", "general information", "description",
      "Event Owner"} \subseteq LineLetter
<1>1. \A w \in Word : w \notin Number
  BY Letters
<1>2. Reserved \subseteq Word
  BY Letters DEF Reserved
<1> QED BY <1>1, <1>2, Letters DEF Payload, LineLetter, Reserved, Commands, White, Newline, Colon, Blank, Slash, Nul

(* The keys of a map, in some order *)
LEMMA KeysInOrder ==
  ASSUME NEW K, IsFiniteSet(K)
  PROVE  /\ SetToSeq(K) \in [1..Cardinality(K) -> K]
         /\ Cardinality(K) \in Nat
         /\ \A i, j \in 1..Cardinality(K) : SetToSeq(K)[i] = SetToSeq(K)[j] => i = j
         /\ \A k \in K : \E i \in 1..Cardinality(K) : SetToSeq(K)[i] = k
<1> DEFINE n == Cardinality(K)
<1>1. n \in Nat /\ ExistsBijection(1..n, K)
  BY FS_CardinalityType
<1>2. \E f \in [1..n -> K] : IsInjective(f)
  <2>1. PICK f : f \in Bijection(1..n, K)
    BY <1>1 DEF ExistsBijection
  <2>2. f \in [1..n -> K] /\ IsInjective(f)
    BY <2>1 DEF Bijection, Injection, IsInjective
  <2> QED BY <2>2
<1>3. SetToSeq(K) = CHOOSE f \in [1..n -> K] : IsInjective(f)
  BY DEF SetToSeq
<1> DEFINE f == SetToSeq(K)
<1> HIDE DEF f
<1>4. f \in [1..n -> K] /\ IsInjective(f)
  BY <1>2, <1>3 DEF f
<1>5. \A i, j \in 1..n : f[i] = f[j] => i = j
  BY <1>4 DEF IsInjective
<1>6. f \in Injection(1..n, K)
  BY <1>4 DEF Injection, IsInjective
<1>7. \A k \in K : \E i \in 1..n : f[i] = k
  <2>1. IsFiniteSet(1..n) /\ Cardinality(1..n) = n
    BY <1>1, FS_Interval
  <2> HIDE DEF n
  <2>2. Cardinality(1..n) = Cardinality(K)
    BY <2>1 DEF n
  <2>3. f \in Surjection(1..n, K)
    BY <1>6, <2>2, FS_Injection
  <2> QED BY <2>3 DEF Surjection
<1> QED BY <1>1, <1>4, <1>5, <1>7 DEF f

(* The general information of an event in the client's text *)
InfoLines(event) ==
  LET keys == SetToSeq(DOMAIN event.info)
  IN  [i \in DOMAIN keys |-> Entry(<<Blank, Blank>> \o keys[i], event.info[keys[i]])]

LEMMA EntryType ==
  ASSUME NEW S, Colon \in S, Blank \in S, NEW key \in Seq(S), NEW value \in Seq(S)
  PROVE  Entry(key, value) \in Seq(S)
<1>1. <<Colon, Blank>> \in Seq(S)
  OBVIOUS
<1>2. key \o <<Colon, Blank>> \in Seq(S)
  BY <1>1, ConcatProperties
<1> QED BY <1>2, ConcatProperties DEF Entry

LEMMA InfoLinesType ==
  ASSUME NEW event \in Event
  PROVE  LET keys == SetToSeq(DOMAIN event.info)
             n == Cardinality(DOMAIN event.info)
         IN  /\ n \in Nat /\ DOMAIN keys = 1..n
             /\ \A i \in 1..n : keys[i] \in DOMAIN event.info
             /\ \A k \in DOMAIN event.info : k \in Seq(Payload) /\ event.info[k] \in Seq(Payload)
             /\ InfoLines(event) \in Seq(Seq(LineLetter)) /\ Len(InfoLines(event)) = n
             /\ \A i \in 1..n : InfoLines(event)[i] =
                                   Entry(<<Blank, Blank>> \o keys[i], event.info[keys[i]])
<1> DEFINE keys == SetToSeq(DOMAIN event.info)
           n == Cardinality(DOMAIN event.info)
<1>1. /\ IsFiniteSet(DOMAIN event.info) 
      /\ event.info \in UNION {[k -> Seq(Payload)] : k \in SUBSET Seq(Payload)}
  BY DEF Event
<1>2. PICK K \in SUBSET Seq(Payload) : event.info \in [K -> Seq(Payload)]
  BY <1>1
<1>3. \A k \in DOMAIN event.info : k \in Seq(Payload) /\ event.info[k] \in Seq(Payload)
  BY <1>2
<1>4. keys \in [1..n -> DOMAIN event.info] /\ n \in Nat
  BY <1>1, KeysInOrder
<1> HIDE DEF keys, n
<1>5. InfoLines(event) = [i \in 1..n |-> Entry(<<Blank, Blank>> \o keys[i], event.info[keys[i]])]
  BY <1>4 DEF InfoLines, keys
<1>6. ASSUME NEW i \in 1..n
      PROVE  /\ keys[i] \in DOMAIN event.info
             /\ Entry(<<Blank, Blank>> \o keys[i], event.info[keys[i]]) \in Seq(LineLetter)
  <2>1. keys[i] \in DOMAIN event.info
    BY <1>4
  <2>2. keys[i] \in Seq(LineLetter) /\ event.info[keys[i]] \in Seq(LineLetter)
    BY <1>3, <2>1, LineLetters, SeqMonotonic
  <2>3. Colon \in LineLetter /\ Blank \in LineLetter /\ <<Blank, Blank>> \in Seq(LineLetter)
    <3>1. Colon \in LineLetter /\ Blank \in LineLetter
      BY LineLetters
    <3> QED BY <3>1, Tuples
  <2>4. <<Blank, Blank>> \o keys[i] \in Seq(LineLetter)
    BY <2>2, <2>3, ConcatProperties
  <2> QED BY <2>1, <2>2, <2>3, <2>4, EntryType
<1> DEFINE e(i) == Entry(<<Blank, Blank>> \o keys[i], event.info[keys[i]])
<1>7. InfoLines(event) = [i \in 1..n |-> e(i)] /\ \A i \in 1..n : e(i) \in Seq(LineLetter)
  BY <1>5, <1>6
<1>8. /\ InfoLines(event) \in Seq(Seq(LineLetter)) /\ Len(InfoLines(event)) = n
      /\ \A i \in 1..n : InfoLines(event)[i] = e(i)
  <2> HIDE DEF e
  <2> QED BY <1>4, <1>7
<1> QED BY <1>3, <1>4, <1>6, <1>8 DEF keys, n

(* The lines of an event and of a frame *)
EventHead(event) ==
  <<Entry(<<"city">>, event.city), Entry(<<"event name">>, event.name),
    Entry(<<"date time">>, <<event.date>>), <<"general information", Colon>> >>

EventTail(event) == << <<"description", Colon, Blank>>, event.description>>

LEMMA EventLinesType ==
  ASSUME NEW event \in Event
  PROVE  /\ EventHead(event) \in Seq(Seq(LineLetter)) /\ EventTail(event) \in Seq(Seq(LineLetter))
         /\ EventLines(event) = EventHead(event) \o InfoLines(event) \o EventTail(event)
         /\ EventLines(event) \in Seq(Seq(LineLetter))
<1> DEFINE T == Seq(LineLetter)
<1>1. /\ event.city \in T /\ event.name \in T /\ event.description \in T
      /\ event.date \in LineLetter
  <2>1. /\ event.city \in Seq(Payload) /\ event.name \in Seq(Payload)
        /\ event.description \in Seq(Payload) /\ event.date \in Number
    BY DEF Event
  <2> QED BY <2>1, LineLetters, SeqMonotonic
<1>2. /\ <<"city">> \in T /\ <<"event name">> \in T /\ <<"date time">> \in T
      /\ <<"general information", Colon>> \in T /\ <<"description", Colon, Blank>> \in T
      /\ <<event.date>> \in T /\ Colon \in LineLetter /\ Blank \in LineLetter
  <2> DEFINE a == "city"
             b == "event name"
             c == "date time"
             d == "general information"
             e == "description"
  <2>1. /\ a \in LineLetter /\ b \in LineLetter /\ c \in LineLetter /\ d \in LineLetter
        /\ e \in LineLetter /\ Colon \in LineLetter /\ Blank \in LineLetter
    BY LineLetters
  <2> HIDE DEF a, b, c, d, e
  <2>2. /\ <<a>> \in T /\ <<b>> \in T /\ <<c>> \in T /\ <<d, Colon>> \in T
        /\ <<e, Colon, Blank>> \in T /\ <<event.date>> \in T
    BY <1>1, <2>1, Tuples
  <2> QED BY <2>1, <2>2 DEF a, b, c, d, e
<1>3. /\ Entry(<<"city">>, event.city) \in T /\ Entry(<<"event name">>, event.name) \in T
      /\ Entry(<<"date time">>, <<event.date>>) \in T
  BY <1>1, <1>2, EntryType
<1> HIDE DEF T
<1>4. EventHead(event) \in Seq(T)
  <2> DEFINE a == Entry(<<"city">>, event.city)
             b == Entry(<<"event name">>, event.name)
             c == Entry(<<"date time">>, <<event.date>>)
             d == <<"general information", Colon>>
  <2>1. a \in T /\ b \in T /\ c \in T /\ d \in T
    BY <1>2, <1>3
  <2> HIDE DEF a, b, c, d
  <2>2. <<a, b, c, d>> \in Seq(T)
    BY <2>1, Tuples
  <2> QED BY <2>2 DEF EventHead, a, b, c, d
<1>5. EventTail(event) \in Seq(T)
  <2> DEFINE a == <<"description", Colon, Blank>>
             b == event.description
  <2>1. a \in T /\ b \in T
    BY <1>1, <1>2
  <2> HIDE DEF a, b
  <2>2. <<a, b>> \in Seq(T)
    BY <2>1, Tuples
  <2> QED BY <2>2 DEF EventTail, a, b
<1>6. InfoLines(event) \in Seq(T)
  BY InfoLinesType DEF T
<1>7. EventHead(event) \o InfoLines(event) \o EventTail(event) \in Seq(T)
  BY <1>4, <1>5, <1>6, ConcatProperties
<1>8. EventLines(event) = EventHead(event) \o InfoLines(event) \o EventTail(event)
  <2>1. event.owner = <<>>
    BY DEF Event
  <2>2. EventLines(event) = EventHead(event) \o InfoLines(event) \o EventTail(event) \o <<>>
    BY <2>1 DEF EventLines, EventHead, InfoLines, EventTail
  <2> QED BY <1>7, <2>2, ConcatEmptySeq
<1> QED BY <1>4, <1>5, <1>7, <1>8 DEF T

(* The frame of an event: what is before the line of the user, and what is  *)
(* behind it                                                                *)
SendHead(channel) == << <<"SEND">>, <<"destination", Colon, Slash>> \o channel, <<>> >>
UserLine(user) == <<"user", Colon, Blank, user>>

LEMMA SendLines ==
  ASSUME NEW u \in User, NEW channel \in Seq(Payload), NEW event \in Event
  PROVE  /\ SendHead(channel) \in Seq(Seq(Letter \ {"user"}))
         /\ UserLine(u) \in Seq(Letter)
         /\ SendText(<<u>>, channel, event) =
              Append(Lines(SendHead(channel) \o <<UserLine(u)>> \o EventLines(event) \o << <<>> >>), Nul)
<1>1. SendHead(channel) \in Seq(Seq(Letter \ {"user"}))
  <2> DEFINE L == Letter \ {"user"}
             a == "SEND"
             b == "destination"
             T == Seq(L)
  <2>1. a \in L /\ b \in L /\ Colon \in L /\ Slash \in L
    BY Letters DEF Commands, Colon, Slash
  <2>2. channel \in T
    <3>1. Payload \subseteq L
      BY Letters DEF Payload, Reserved
    <3> QED BY <3>1, SeqMonotonic
  <2> HIDE DEF L, a, b
  <2>3. <<a>> \in T /\ <<b, Colon, Slash>> \in T /\ <<>> \in T
    BY <2>1, Tuples
  <2>4. <<b, Colon, Slash>> \o channel \in T
    BY <2>2, <2>3, ConcatProperties
  <2> HIDE DEF T
  <2>5. << <<a>>, <<b, Colon, Slash>> \o channel, <<>> >> \in Seq(T)
    BY <2>3, <2>4
  <2> QED BY <2>5 DEF SendHead, a, b, T, L
<1>2. UserLine(u) \in Seq(Letter)
  <2> DEFINE a == "user"
  <2>1. a \in Letter /\ Colon \in Letter /\ Blank \in Letter /\ u \in Letter
    BY Letters, UserAssumption
  <2> HIDE DEF a
  <2>2. <<a, Colon, Blank, u>> \in Seq(Letter)
    BY <2>1
  <2> QED BY <2>2 DEF UserLine, a
<1>3. SendText(<<u>>, channel, event) =
        Append(Lines(SendHead(channel) \o <<UserLine(u)>> \o EventLines(event) \o << <<>> >>), Nul)
  <2>1. Entry(<<"user">>, <<u>>) = UserLine(u)
    <3> DEFINE a == "user"
               S == {a, Colon, Blank, u}
    <3>1. a \in S /\ Colon \in S /\ Blank \in S /\ u \in S
      OBVIOUS
    <3> HIDE DEF a, S
    <3>2. <<a>> \o <<Colon, Blank>> = <<a, Colon, Blank>>
      BY <3>1, TupleConcat
    <3>3. <<a, Colon, Blank>> \o <<u>> = <<a, Colon, Blank, u>>
      BY <3>1, TupleConcatFour
    <3> QED BY <3>2, <3>3 DEF Entry, UserLine, a
  <2>2. SendHead(channel) \o <<UserLine(u)>> =
          << <<"SEND">>, <<"destination", Colon, Slash>> \o channel, <<>>, UserLine(u)>>
    <3> DEFINE a == <<"SEND">>
               b == <<"destination", Colon, Slash>> \o channel
               c == <<>>
               d == UserLine(u)
               S == {a, b, c, d}
    <3>1. a \in S /\ b \in S /\ c \in S /\ d \in S
      OBVIOUS
    <3> HIDE DEF a, b, c, d, S
    <3>2. <<a, b, c>> \o <<d>> = <<a, b, c, d>>
      BY <3>1, TupleConcatFour
    <3> QED BY <3>2 DEF SendHead, a, b, c, d
  <2> QED BY <2>1, <2>2 DEF SendText
<1> QED BY <1>1, <1>2, <1>3

-----------------------------------------------------------------------------
(* The bytes of the frames *)

LEMMA SendTextType ==
  ASSUME NEW u \in User, NEW channel \in Seq(Payload), NEW event \in Event
  PROVE  SendText(<<u>>, channel, event) \in Text
<1> DEFINE T == Seq(Letter)
           h == SendHead(channel)
           l == <<UserLine(u)>>
           e == EventLines(event)
           n == << <<>> >>
<1>1. h \in Seq(T)
  <2>1. SendHead(channel) \in Seq(Seq(Letter \ {"user"}))
    BY SendLines
  <2>2. Seq(Letter \ {"user"}) \subseteq T
    BY SeqMonotonic
  <2> QED BY <2>1, <2>2, SeqMonotonic
<1>2. l \in Seq(T)
  BY SendLines, Tuples
<1>3. e \in Seq(T)
  <2>1. EventLines(event) \in Seq(Seq(LineLetter))
    BY EventLinesType
  <2>2. Seq(LineLetter) \subseteq T
    BY LineLetters, SeqMonotonic
  <2> QED BY <2>1, <2>2, SeqMonotonic
<1>4. n \in Seq(T)
  <2>1. <<>> \in T
    BY EmptySeq
  <2> QED BY <2>1, Tuples
<1>5. SendText(<<u>>, channel, event) = Append(Lines(h \o l \o e \o n), Nul)
  BY SendLines
<1> HIDE DEF h, l, e, n, T
<1>6. h \o l \o e \o n \in Seq(T)
  BY <1>1, <1>2, <1>3, <1>4, ConcatProperties
<1>7. Lines(h \o l \o e \o n) \in T
  BY <1>6, Letters, LinesType DEF T
<1>8. Append(Lines(h \o l \o e \o n), Nul) \in Seq(Letter)
  <2> DEFINE x == Lines(h \o l \o e \o n)
  <2>1. x \in Seq(Letter) /\ Nul \in Letter
    BY <1>7, Letters DEF T
  <2> HIDE DEF x
  <2>2. Append(x, Nul) \in Seq(Letter)
    BY <2>1, AppendProperties
  <2> QED BY <2>2 DEF x
<1> QED BY <1>5, <1>8 DEF Text

(* The bytes of an event's frame, and those of a file *)
FrameOf(user, file, i) == SendText(<<user>>, Content(file).channel, Events(file)[i])

FramesOf(user, file) == [i \in DOMAIN Events(file) |-> FrameOf(user, file, i)]

LEMMA FramesType ==
  ASSUME NEW u \in User, NEW file \in File
  PROVE  /\ FramesOf(u, file) \in Seq(Text)
         /\ Len(FramesOf(u, file)) = Len(Events(file))
         /\ \A i \in 1..Len(Events(file)) : FramesOf(u, file)[i] = FrameOf(u, file, i)
         /\ Frames[<<u, file>>] = FlattenSeq(FramesOf(u, file))
         /\ Frames[<<u, file>>] \in Text
<1> DEFINE n == Len(Events(file))
<1>1. n \in Nat /\ DOMAIN Events(file) = 1..n /\ Events(file) \in Seq(Event)
  BY EventsType, LenProperties
<1>2. ASSUME NEW i \in 1..n PROVE FrameOf(u, file, i) \in Text
  <2>1. Events(file)[i] \in Event
    BY <1>1, ElementOfSeq
  <2> QED BY <2>1, EventsType, SendTextType DEF FrameOf
<1>3. /\ FramesOf(u, file) \in Seq(Text) /\ Len(FramesOf(u, file)) = n
      /\ \A i \in 1..n : FramesOf(u, file)[i] = FrameOf(u, file, i)
  <2>1. FramesOf(u, file) = [i \in 1..n |-> FrameOf(u, file, i)]
    BY <1>1 DEF FramesOf
  <2> HIDE DEF n
  <2> QED BY <1>1, <1>2, <2>1
<1>4. Frames[<<u, file>>] = FlattenSeq(FramesOf(u, file))
  BY DEF Frames, FramesOf, FrameOf
<1>5. Frames[<<u, file>>] \in Text
  BY <1>3, <1>4, FlattenType DEF Text
<1> QED BY <1>3, <1>4, <1>5

LEMMA InnerCharacters ==
  ASSUME NEW s \in Text, \A i \in 1..Len(s) : s[i] # Nul
  PROVE  Characters(s) \in Seq(Inner)
<1>1. /\ Characters(s) \in Seq(Letter) /\ Len(Characters(s)) = Len(s) /\ Len(s) \in Nat
      /\ \A i \in 1..Len(s) : Characters(s)[i] = DecodedChar(s[i]) /\ s[i] \in Letter
  BY CharactersType, LenProperties, ElementOfSeq DEF Text
<1>2. \A ch \in Letter : ch # Nul => DecodedChar(ch) \in Inner
  BY DecodedLetters, Letters DEF Inner, DecodedLetter, DecodedChar
<1>3. \A i \in 1..Len(s) : Characters(s)[i] \in Inner
  BY <1>1, <1>2
<1> QED BY <1>1, <1>3

-----------------------------------------------------------------------------
(* Induction over the lines of a text *)

(* The first place of a character *)
LEMMA FirstPlace ==
  ASSUME NEW S, NEW s \in Seq(S), NEW ch, \E i \in 1..Len(s) : s[i] = ch
  PROVE  \E m \in 1..Len(s) : s[m] = ch /\ \A i \in 1..(m - 1) : s[i] # ch
<1> DEFINE I == {i \in 1..Len(s) : s[i] = ch}
<1>1. I \in SUBSET Nat /\ I # {}
  OBVIOUS
<1>2. PICK m \in I : \A x \in I : m <= x
  <2> HIDE DEF I
  <2> QED BY <1>1, LeastNumber
<1>3. /\ m \in 1..Len(s) /\ s[m] = ch /\ m \in Nat
      /\ \A x \in 1..Len(s) : s[x] = ch => m <= x
  BY <1>2
<1>4. ASSUME NEW i \in 1..(m - 1) PROVE s[i] # ch
  <2>1. i \in 1..Len(s) /\ ~(m <= i)
    BY <1>3, LenProperties
  <2> QED BY <1>3, <2>1
<1> QED BY <1>3, <1>4

(* A text is cut at the first place of a separator. *)
IsCut(s, S, separator) ==
  \/ s \in Seq(S \ {separator})
  \/ \E x \in Seq(S \ {separator}), t \in Seq(S) :
       /\ s = Append(x, separator) \o t
       /\ Len(s) = Len(x) + 1 + Len(t)

LEMMA FirstCut ==
  ASSUME NEW S, NEW s \in Seq(S), NEW separator \in S
  PROVE  IsCut(s, S, separator)
<1>1. Len(s) \in Nat /\ DOMAIN s = 1..Len(s) /\ \A i \in 1..Len(s) : s[i] \in S
  BY LenProperties, ElementOfSeq
<1>2. CASE \A i \in 1..Len(s) : s[i] # separator
  <2>1. \A i \in 1..Len(s) : s[i] \in S \ {separator}
    BY <1>1, <1>2
  <2>2. s \in Seq(S \ {separator})
    BY <1>1, <2>1
  <2> QED BY <2>2 DEF IsCut
<1>3. CASE \E i \in 1..Len(s) : s[i] = separator
  <2>1. PICK m \in 1..Len(s) : s[m] = separator /\ \A i \in 1..(m - 1) : s[i] # separator
    BY <1>3, FirstPlace
  <2> DEFINE x == SubSeq(s, 1, m - 1)
             t == SubSeq(s, m + 1, Len(s))
  <2>2. /\ 1 \in Nat \ {0} /\ m - 1 \in Int /\ m - 1 <= Len(s) /\ m \in Nat /\ m <= Len(s)
        /\ m + 1 \in Nat \ {0} /\ Len(s) \in Int /\ Len(s) <= Len(s) /\ m \in 1..Len(s)
    BY <1>1
  <2>3. /\ x \in Seq(S) /\ Len(x) = IF 1 <= m - 1 THEN m - 1 - 1 + 1 ELSE 0
        /\ \A i \in 1..(m - 1 - 1 + 1) : x[i] = s[1 + i - 1]
    BY <2>2, PartType
  <2>4. /\ t \in Seq(S) /\ Len(t) = IF m + 1 <= Len(s) THEN Len(s) - (m + 1) + 1 ELSE 0
        /\ \A i \in 1..(Len(s) - (m + 1) + 1) : t[i] = s[m + 1 + i - 1]
    BY <2>2, PartType
  <2> HIDE DEF x, t
  <2>5. Len(x) = m - 1 /\ Len(t) = Len(s) - m
    <3>1. Len(x) = IF 1 <= m - 1 THEN m - 1 - 1 + 1 ELSE 0
      BY <2>3
    <3>2. Len(t) = IF m + 1 <= Len(s) THEN Len(s) - (m + 1) + 1 ELSE 0
      BY <2>4
    <3>3. m \in Nat /\ 1 <= m /\ m <= Len(s) /\ Len(s) \in Nat
      BY <1>1, <2>2
    <3> QED BY <3>1, <3>2, <3>3
  <2>6. \A i \in 1..(m - 1) : x[i] = s[i] /\ x[i] # separator
    BY <1>1, <2>1, <2>2, <2>3
  <2>7. x \in Seq(S \ {separator})
    <3>1. \A i \in 1..Len(x) : x[i] \in S \ {separator}
      BY <2>3, <2>5, <2>6, ElementOfSeq
    <3>2. Len(x) \in Nat /\ DOMAIN x = 1..Len(x)
      BY <2>3, LenProperties
    <3> QED BY <2>3, <3>1, <3>2
  <2> DEFINE y == Append(x, separator)
  <2>8. /\ y \in Seq(S) /\ Len(y) = m
        /\ \A i \in 1..(m - 1) : y[i] = s[i]
        /\ y[m] = separator
    <3>1. /\ y \in Seq(S) /\ Len(y) = Len(x) + 1
          /\ \A i \in 1..Len(x) : y[i] = x[i]
          /\ y[Len(x) + 1] = separator
      BY <2>3, AppendProperties
    <3> HIDE DEF y
    <3>2. Len(x) + 1 = m
      BY <2>2, <2>5
    <3> QED BY <2>5, <2>6, <3>1, <3>2
  <2> HIDE DEF y
  <2>9. /\ y \o t \in Seq(S) /\ Len(y \o t) = Len(s)
        /\ \A i \in 1..Len(s) : (y \o t)[i] = s[i]
    <3>1. /\ y \o t \in Seq(S) /\ Len(y \o t) = m + Len(t)
          /\ \A i \in 1..(m + Len(t)) : (y \o t)[i] = IF i <= m THEN y[i] ELSE t[i - m]
      BY <2>4, <2>8, ConcatProperties
    <3>2. m + Len(t) = Len(s)
      BY <1>1, <2>2, <2>5
    <3>3. ASSUME NEW i \in 1..Len(s) PROVE (y \o t)[i] = s[i]
      <4>1. CASE i <= m
        <5>1. i \in 1..(m - 1) \/ i = m
          BY <1>1, <2>2, <4>1
        <5> QED BY <2>1, <2>8, <3>1, <3>2, <4>1, <5>1
      <4>2. CASE ~(i <= m)
        <5>1. i - m \in 1..(Len(s) - (m + 1) + 1) /\ m + 1 + (i - m) - 1 = i
          BY <1>1, <2>2, <4>2
        <5> QED BY <2>4, <3>1, <3>2, <4>2, <5>1
      <4> QED BY <4>1, <4>2
    <3> QED BY <3>1, <3>2, <3>3
  <2>10. s = y \o t
    BY <2>9, SeqEqual
  <2>11. Len(s) = Len(x) + 1 + Len(t)
    BY <1>1, <2>2, <2>5
  <2> QED BY <2>4, <2>7, <2>10, <2>11 DEF y, IsCut
<1> QED BY <1>2, <1>3

(* Induction over the lines of a text *)
LEMMA ByLines ==
  ASSUME NEW S, NEW separator \in S, NEW P \in SUBSET Seq(S),
         \A x \in Seq(S \ {separator}) : x \in P,
         \A x \in Seq(S \ {separator}), t \in P : Append(x, separator) \o t \in P
  PROVE  P = Seq(S)
<1>5. \A s \in Seq(S) : IsCut(s, S, separator)
  BY FirstCut
<1> DEFINE N == {n \in Nat : \A s \in Seq(S) : Len(s) <= n => s \in P}
<1>1. 0 \in N
  <2>1. ASSUME NEW s \in Seq(S), Len(s) <= 0 PROVE s \in P
    <3>1. s = <<>>
      BY <2>1, EmptySeq
    <3>2. <<>> \in Seq(S \ {separator})
      BY EmptySeq
    <3> QED BY <3>1, <3>2
  <2> QED BY <2>1
<1>2. ASSUME NEW n \in N PROVE n + 1 \in N
  <2>1. ASSUME NEW s \in Seq(S), Len(s) <= n + 1 PROVE s \in P
    <3>1. CASE s \in Seq(S \ {separator})
      BY <3>1
    <3>2. ASSUME NEW x \in Seq(S \ {separator}), NEW t \in Seq(S),
                 s = Append(x, separator) \o t, Len(s) = Len(x) + 1 + Len(t)
          PROVE  s \in P
      <4>1. Len(x) \in Nat /\ Len(t) \in Nat /\ n \in Nat
        BY LenProperties
      <4>2. Len(t) <= n
        BY <2>1, <3>2, <4>1
      <4>3. t \in P
        BY <4>2
      <4> QED BY <3>2, <4>3
    <3> QED BY <1>5, <3>1, <3>2 DEF IsCut
  <2> QED BY <2>1
<1> HIDE DEF N
<1>3. N = Nat
  <2>1. N \in SUBSET Nat
    BY DEF N
  <2> QED BY <1>1, <1>2, <2>1, Numbers
<1>4. ASSUME NEW s \in Seq(S) PROVE s \in P
  <2>1. Len(s) \in N /\ Len(s) \in Nat
    BY <1>3, LenProperties
  <2> QED BY <2>1 DEF N
<1> QED BY <1>4

(* No piece of a text has a separator. *)
LEMMA PiecesFree ==
  ASSUME NEW S, NEW separator \in S, NEW text \in Seq(S)
  PROVE  Pieces(text, separator) \in NonEmpty(Seq(S \ {separator}))
<1> DEFINE T == Seq(S \ {separator})
           P == {t \in Seq(S) : Pieces(t, separator) \in NonEmpty(T)}
<1>1. P \in SUBSET Seq(S)
  OBVIOUS
<1>2. ASSUME NEW x \in T PROVE x \in P
  <2>1. \A i \in 1..Len(x) : x[i] # separator
    BY ElementOfSeq
  <2>2. Pieces(x, separator) = <<x>> /\ x \in Seq(S)
    <3>1. S \ {separator} \subseteq S
      OBVIOUS
    <3>2. x \in Seq(S)
      BY <3>1, SeqMonotonic
    <3> QED BY <2>1, <3>2, PiecesWhole
  <2>3. <<x>> \in NonEmpty(T)
    <3> HIDE DEF T
    <3>1. <<x>> \in Seq(T) /\ <<x>> # <<>>
      OBVIOUS
    <3> QED BY <3>1 DEF NonEmpty
  <2> QED BY <2>2, <2>3
<1>3. ASSUME NEW x \in T, NEW t \in P PROVE Append(x, separator) \o t \in P
  <2>1. x \in P
    BY <1>2
  <2>2. Pieces(Append(x, separator) \o t, separator) = Pieces(x, separator) \o Pieces(t, separator)
    BY <2>1, PiecesConcat
  <2> DEFINE a == Pieces(x, separator)
             b == Pieces(t, separator)
  <2>3. a \in NonEmpty(T) /\ b \in NonEmpty(T)
    BY <2>1
  <2>4. a \o b \in NonEmpty(T)
    <3> HIDE DEF a, b, T
    <3>1. a \in Seq(T) /\ b \in Seq(T) /\ a # <<>>
      BY <2>3 DEF NonEmpty
    <3>2. a \o b \in Seq(T) /\ a \o b # <<>>
      BY <3>1, ConcatProperties, ConcatEqualIffEmpty
    <3> QED BY <3>2 DEF NonEmpty
  <2>5. Append(x, separator) \o t \in Seq(S)
    BY <2>1, AppendProperties, ConcatProperties
  <2> QED BY <2>2, <2>4, <2>5
<1> HIDE DEF P
<1>4. P = Seq(S)
  BY <1>1, <1>2, <1>3, ByLines
<1> QED BY <1>4 DEF P

(* The pieces of some lines with a text behind them *)
LEMMA PiecesOfLines ==
  ASSUME NEW S, Newline \in S, NEW lines \in Seq(Seq(S \ {Newline})), NEW text \in Seq(S)
  PROVE  /\ Lines(lines) \in Seq(S)
         /\ Pieces(Lines(lines) \o text, Newline) = lines \o Pieces(text, Newline)
<1> DEFINE T == Seq(S \ {Newline})
           P == {l \in Seq(T) : /\ Lines(l) \in Seq(S)
                                /\ \A t \in Seq(S) : Pieces(Lines(l) \o t, Newline) = l \o Pieces(t, Newline)}
<1>1. P \in SUBSET Seq(T)
  OBVIOUS
<1>2. T \subseteq Seq(S)
  BY SeqMonotonic
<1>3. <<>> \in P
  <2>1. Lines(<<>>) \in Seq(S) /\ <<>> \in Seq(T)
    BY LinesEmpty, EmptySeq
  <2>2. ASSUME NEW t \in Seq(S) PROVE Pieces(Lines(<<>>) \o t, Newline) = <<>> \o Pieces(t, Newline)
    <3>1. Lines(<<>>) \o t = t
      BY LinesEmpty, ConcatEmptySeq
    <3>2. Pieces(t, Newline) \in Seq(Seq(S))
      BY PiecesType DEF NonEmpty
    <3> QED BY <3>1, <3>2, ConcatEmptySeq
  <2> QED BY <2>1, <2>2
<1>4. ASSUME NEW l \in P, NEW x \in T PROVE Append(l, x) \in P
  <2>0. /\ l \in Seq(T) /\ Lines(l) \in Seq(S)
        /\ \A t \in Seq(S) : Pieces(Lines(l) \o t, Newline) = l \o Pieces(t, Newline)
    OBVIOUS
  <2> HIDE DEF P
  <2>1. /\ l \in Seq(Seq(S)) /\ x \in Seq(S) /\ Lines(l) \in Seq(S)
        /\ Append(x, Newline) \in Seq(S)
    <3>1. x \in Seq(S) /\ l \in Seq(Seq(S))
      BY <1>2, <2>0, SeqMonotonic
    <3> QED BY <2>0, <3>1, AppendProperties
  <2>2. Lines(Append(l, x)) = Lines(l) \o Append(x, Newline)
    BY <2>1, LinesAppend
  <2>3. ASSUME NEW t \in Seq(S)
        PROVE  Pieces(Lines(Append(l, x)) \o t, Newline) = Append(l, x) \o Pieces(t, Newline)
    <3> DEFINE r == Append(x, Newline) \o t
               a == Lines(l)
               b == Append(x, Newline)
               p == Pieces(t, Newline)
    <3>1. r \in Seq(S)
      BY <2>1, ConcatProperties
    <3>2. Lines(Append(l, x)) \o t = Lines(l) \o r
      <4>1. a \in Seq(S) /\ b \in Seq(S)
        BY <2>1
      <4> HIDE DEF a, b
      <4>2. (a \o b) \o t = a \o (b \o t)
        BY <4>1, ConcatAssociative
      <4> QED BY <2>2, <4>2 DEF a, b
    <3>3. Pieces(Lines(l) \o r, Newline) = l \o Pieces(r, Newline)
      BY <2>0, <3>1
    <3>4. Pieces(r, Newline) = <<x>> \o p
      <4>1. \A i \in 1..Len(x) : x[i] # Newline
        BY ElementOfSeq
      <4>2. Pieces(x, Newline) = <<x>>
        BY <2>1, <4>1, PiecesWhole
      <4>3. Pieces(Append(x, Newline) \o t, Newline) = Pieces(x, Newline) \o Pieces(t, Newline)
        <5>1. x \in Seq(S) /\ t \in Seq(S) /\ Newline \in S
          BY <2>1
        <5> HIDE DEF r, b, a, p, T
        <5> QED BY <5>1, PiecesConcat
      <4> QED BY <4>2, <4>3
    <3>5. l \o (<<x>> \o p) = Append(l, x) \o p
      <4>1. p \in Seq(Seq(S))
        BY PiecesType DEF NonEmpty
      <4> DEFINE U == Seq(S)
      <4>2. p \in Seq(U) /\ l \in Seq(U) /\ x \in U
        BY <2>1, <4>1
      <4> HIDE DEF p, U
      <4>3. <<x>> \in Seq(U)
        BY <4>2
      <4>4. (l \o <<x>>) \o p = l \o (<<x>> \o p) /\ Append(l, x) = l \o <<x>>
        BY <4>2, <4>3, ConcatAssociative, AppendIsConcat
      <4> QED BY <4>4
    <3> QED BY <3>2, <3>3, <3>4, <3>5
  <2>4. Lines(Append(l, x)) \in Seq(S)
    BY <2>1, <2>2, ConcatProperties
  <2>5. Append(l, x) \in Seq(T)
    <3> HIDE DEF T
    <3> QED BY <2>0, AppendProperties
  <2> QED BY <2>3, <2>4, <2>5 DEF P
<1> HIDE DEF P
<1>5. P = Seq(T)
  <2> HIDE DEF T
  <2> QED BY <1>1, <1>3, <1>4, Sequences
<1> QED BY <1>5 DEF P

-----------------------------------------------------------------------------
(* getline, and the fields of a line *)

(* What getline makes of the pieces *)
LEMMA GetLinesValue ==
  ASSUME NEW S, NEW text \in Seq(S), NEW separator
  PROVE  LET pieces == Pieces(text, separator)
             lines == GetLines(text, separator)
         IN  /\ pieces \in Seq(Seq(S)) /\ Len(pieces) \in Nat \ {0}
             /\ lines \in Seq(Seq(S))
             /\ Len(lines) = IF pieces[Len(pieces)] = <<>> THEN Len(pieces) - 1 ELSE Len(pieces)
             /\ \A i \in 1..Len(lines) : lines[i] = pieces[i]
<1> DEFINE pieces == Pieces(text, separator)
           lines == GetLines(text, separator)
           T == Seq(S)
           n == Len(pieces)
<1>1. pieces \in Seq(T) /\ pieces # <<>>
  BY PiecesType DEF NonEmpty
<1>2. lines = IF pieces[n] = <<>> THEN SubSeq(pieces, 1, n - 1) ELSE pieces
  BY DEF GetLines, Last, Front
<1> HIDE DEF pieces, lines, T
<1>3. n \in Nat \ {0}
  BY <1>1, EmptySeq
<1>4. CASE pieces[n] = <<>>
  <2>1. 1 \in Nat \ {0} /\ n - 1 \in Int /\ n - 1 <= Len(pieces)
    BY <1>3
  <2>2. /\ SubSeq(pieces, 1, n - 1) \in Seq(T)
        /\ Len(SubSeq(pieces, 1, n - 1)) = IF 1 <= n - 1 THEN n - 1 - 1 + 1 ELSE 0
        /\ \A i \in 1..(n - 1 - 1 + 1) : SubSeq(pieces, 1, n - 1)[i] = pieces[1 + i - 1]
    <3> HIDE DEF n
    <3> QED BY <1>1, <2>1, PartType DEF n
  <2>3. lines = SubSeq(pieces, 1, n - 1)
    BY <1>2, <1>4
  <2>4. Len(lines) = n - 1
    <3>1. Len(lines) = IF 1 <= n - 1 THEN n - 1 - 1 + 1 ELSE 0
      BY <2>2, <2>3
    <3> HIDE DEF n
    <3> QED BY <1>3, <3>1
  <2>5. \A i \in 1..Len(lines) : lines[i] = pieces[i]
    BY <1>3, <2>2, <2>3, <2>4
  <2> QED BY <1>1, <1>3, <1>4, <2>2, <2>3, <2>4, <2>5 DEF T, pieces, lines
<1>5. CASE pieces[n] # <<>>
  BY <1>1, <1>2, <1>3, <1>5 DEF T, pieces, lines
<1> QED BY <1>4, <1>5

(* A text without the separator is one piece. *)
LEMMA WholePiece ==
  ASSUME NEW S, NEW separator, NEW k \in Seq(S \ {separator})
  PROVE  k \in Seq(S) /\ Pieces(k, separator) = <<k>>
<1>1. k \in Seq(S)
  <2>1. S \ {separator} \subseteq S
    OBVIOUS
  <2> QED BY <2>1, SeqMonotonic
<1>2. \A i \in 1..Len(k) : k[i] # separator
  BY ElementOfSeq
<1> QED BY <1>1, <1>2, PiecesWhole

(* The first piece of a text, and the others *)
LEMMA FirstPiece ==
  ASSUME NEW S, NEW separator \in S, NEW k \in Seq(S \ {separator}), NEW rest \in Seq(S)
  PROVE  /\ k \in Seq(S) /\ Append(k, separator) \o rest \in Seq(S)
         /\ Pieces(k, separator) = <<k>>
         /\ Pieces(Append(k, separator) \o rest, separator) = <<k>> \o Pieces(rest, separator)
<1>1. k \in Seq(S)
  BY WholePiece
<1>2. Pieces(k, separator) = <<k>>
  BY WholePiece
<1>3. Append(k, separator) \o rest \in Seq(S)
  BY <1>1, AppendProperties, ConcatProperties
<1>4. Pieces(Append(k, separator) \o rest, separator)
        = Pieces(k, separator) \o Pieces(rest, separator)
  BY <1>1, PiecesConcat
<1> QED BY <1>1, <1>2, <1>3, <1>4

(* How many pieces a text has *)
LEMMA OnePiece ==
  ASSUME NEW S, NEW separator \in S, NEW t \in Seq(S), Len(Pieces(t, separator)) = 1
  PROVE  Pieces(t, separator) = <<t>>
<1>1. CASE t \in Seq(S \ {separator})
  BY <1>1, WholePiece
<1>2. ASSUME NEW x \in Seq(S \ {separator}), NEW r \in Seq(S), t = Append(x, separator) \o r
      PROVE  FALSE
  <2> DEFINE p == Pieces(r, separator)
             T == Seq(S)
  <2>1. Pieces(t, separator) = <<x>> \o p /\ x \in T
    BY <1>2, FirstPiece
  <2>2. p \in Seq(T) /\ p # <<>>
    BY PiecesType DEF NonEmpty
  <2> HIDE DEF p, T
  <2>3. <<x>> \in Seq(T) /\ Len(<<x>>) = 1 /\ Len(p) \in Nat \ {0}
    BY <2>1, <2>2, EmptySeq
  <2>4. Len(<<x>> \o p) = Len(<<x>>) + Len(p)
    BY <2>2, <2>3, ConcatProperties
  <2> QED BY <2>1, <2>3, <2>4
<1>3. IsCut(t, S, separator)
  BY FirstCut
<1> QED BY <1>1, <1>2, <1>3 DEF IsCut

(* The key of a line with a colon, and its value *)
LEMMA KeyValue ==
  ASSUME NEW S, Colon \in S, NEW k \in Seq(S \ {Colon}), NEW rest \in Seq(S)
  PROVE  LET line == Append(k, Colon) \o rest
         IN  /\ Occurs(Colon, line) /\ KeyOf(line) = k
             /\ rest \in Seq(S \ {Colon}) => ValueOf(line) = rest
             /\ \A r \in Seq(S \ {Colon}), t \in Seq(S) :
                  rest = Append(r, Colon) \o t => ValueOf(line) = IF t = <<>> THEN r ELSE <<>>
<1> DEFINE line == Append(k, Colon) \o rest
           p == Pieces(rest, Colon)
           pieces == Pieces(line, Colon)
           lines == GetLines(line, Colon)
           T == Seq(S)
<1>1. line \in T /\ pieces = <<k>> \o p /\ k \in T
  BY FirstPiece
<1>2. p \in Seq(T) /\ p # <<>>
  BY PiecesType DEF NonEmpty
<1>3. /\ Len(lines) = IF pieces[Len(pieces)] = <<>> THEN Len(pieces) - 1 ELSE Len(pieces)
      /\ \A i \in 1..Len(lines) : lines[i] = pieces[i]
  <2>1. line \in Seq(S)
    BY <1>1
  <2> HIDE DEF line
  <2> QED BY <2>1, GetLinesValue
<1>4. Len(p) \in Nat \ {0}
  <2> HIDE DEF p, T
  <2> QED BY <1>2, EmptySeq
<1>5. Len(pieces) = 1 + Len(p) /\ \A i \in 1..(1 + Len(p)) : pieces[i] = IF i <= 1 THEN k ELSE p[i - 1]
  <2> HIDE DEF p, T, pieces, line
  <2>1. <<k>> \in Seq(T) /\ Len(<<k>>) = 1 /\ <<k>>[1] = k
    BY <1>1
  <2>2. /\ Len(<<k>> \o p) = Len(<<k>>) + Len(p)
        /\ \A i \in 1..(Len(<<k>>) + Len(p)) :
             (<<k>> \o p)[i] = IF i <= Len(<<k>>) THEN <<k>>[i] ELSE p[i - Len(<<k>>)]
    BY <1>2, <2>1, ConcatProperties
  <2>3. \A i \in 1..(1 + Len(p)) : i <= 1 => <<k>>[i] = k
    BY <2>1, <1>4
  <2> QED BY <1>1, <2>1, <2>2, <2>3
<1>6. Occurs(Colon, line)
  <2> DEFINE a == Append(k, Colon)
  <2>1. a \in T /\ Len(a) = Len(k) + 1 /\ a[Len(k) + 1] = Colon /\ Len(k) \in Nat
    BY <1>1, AppendProperties, LenProperties
  <2> HIDE DEF a, T
  <2>2. /\ Len(a \o rest) = Len(a) + Len(rest) /\ Len(rest) \in Nat /\ a \o rest \in T
        /\ \A i \in 1..(Len(a) + Len(rest)) : (a \o rest)[i] = IF i <= Len(a) THEN a[i] ELSE rest[i - Len(a)]
    BY <2>1, ConcatProperties, LenProperties DEF T
  <2>3. Len(a) \in 1..Len(a \o rest) /\ (a \o rest)[Len(a)] = Colon
    BY <2>1, <2>2
  <2>4. DOMAIN (a \o rest) = 1..Len(a \o rest)
    BY <2>2, LenProperties DEF T
  <2> QED BY <2>3, <2>4 DEF Occurs, ToSet, a
<1>7. Len(lines) >= 1 /\ KeyOf(line) = k /\ ValueOf(line) = IF Len(lines) = 2 THEN lines[2] ELSE <<>>
  <2>1. Len(lines) \in Nat /\ Len(lines) >= 1
    BY <1>3, <1>4, <1>5
  <2>2. lines[1] = k
    BY <1>3, <1>4, <1>5, <2>1
  <2> QED BY <2>1, <2>2 DEF KeyOf, ValueOf
<1>8. ASSUME rest \in Seq(S \ {Colon}) PROVE ValueOf(line) = rest
  <2>1. Pieces(rest, Colon) = <<rest>>
    BY <1>8, WholePiece
  <2>2. Len(p) = 1 /\ p[1] = rest
    BY <2>1
  <2>3. Len(pieces) = 2 /\ pieces[2] = rest
    BY <1>5, <2>2
  <2> HIDE DEF pieces, lines, line
  <2>4. CASE rest = <<>>
    <3>1. Len(lines) = 1
      BY <1>3, <2>3, <2>4
    <3> QED BY <1>7, <2>4, <3>1
  <2>5. CASE rest # <<>>
    <3>1. Len(lines) = 2
      BY <1>3, <2>3, <2>5
    <3>2. lines[2] = rest
      BY <1>3, <2>3, <3>1
    <3> QED BY <1>7, <3>1, <3>2
  <2> QED BY <2>4, <2>5
<1>9. ASSUME NEW r \in Seq(S \ {Colon}), NEW t \in Seq(S), rest = Append(r, Colon) \o t
      PROVE  ValueOf(line) = IF t = <<>> THEN r ELSE <<>>
  <2> DEFINE q == Pieces(t, Colon)
  <2>1. p = <<r>> \o q /\ r \in T
    BY <1>9, FirstPiece
  <2>2. q \in Seq(T) /\ q # <<>>
    BY PiecesType DEF NonEmpty
  <2>3. Len(q) \in Nat \ {0}
    <3> HIDE DEF q, T
    <3> QED BY <2>2, EmptySeq
  <2>4. Len(p) = 1 + Len(q) /\ p[1] = r /\ \A i \in 2..(1 + Len(q)) : p[i] = q[i - 1]
    <3> HIDE DEF p, q, T, line
    <3>1. <<r>> \in Seq(T) /\ Len(<<r>>) = 1 /\ <<r>>[1] = r
      BY <2>1
    <3>2. /\ Len(<<r>> \o q) = Len(<<r>>) + Len(q)
          /\ \A i \in 1..(Len(<<r>>) + Len(q)) :
               (<<r>> \o q)[i] = IF i <= Len(<<r>>) THEN <<r>>[i] ELSE q[i - Len(<<r>>)]
      BY <2>2, <3>1, ConcatProperties
    <3> QED BY <2>1, <2>3, <3>1, <3>2
  <2>5. /\ Len(pieces) = 2 + Len(q) /\ pieces[2] = r
        /\ pieces[Len(pieces)] = q[Len(q)]
    <3> HIDE DEF p, q, pieces, line
    <3>1. Len(pieces) = 2 + Len(q)
      BY <1>5, <2>3, <2>4
    <3>2. pieces[2] = p[1] /\ pieces[2 + Len(q)] = p[1 + Len(q)]
      BY <1>5, <2>3, <2>4
    <3>3. p[1 + Len(q)] = q[Len(q)]
      BY <2>3, <2>4
    <3> QED BY <2>4, <3>1, <3>2, <3>3
  <2> HIDE DEF pieces, lines, line, p
  <2>6. CASE t = <<>>
    <3>1. q = << <<>> >>
      BY <2>6, PiecesEmpty
    <3>2. Len(q) = 1 /\ q[1] = <<>>
      BY <3>1
    <3>3. Len(lines) = 2
      BY <1>3, <2>5, <3>2
    <3>4. lines[2] = r
      BY <1>3, <2>5, <3>3
    <3> QED BY <1>7, <2>6, <3>3, <3>4
  <2>7. CASE t # <<>>
    <3>1. Len(q) = 1 => q[1] = t
      <4>1. ASSUME Len(q) = 1 PROVE q = <<t>>
        BY <4>1, OnePiece
      <4> QED BY <4>1
    <3> HIDE DEF q
    <3> DEFINE m == Len(q)
               n == Len(lines)
    <3>2. n = IF q[m] = <<>> THEN 2 + m - 1 ELSE 2 + m
      BY <1>3, <2>5
    <3>3. m \in Nat \ {0} /\ (m = 1 => q[m] # <<>>)
      BY <2>3, <2>7, <3>1
    <3> HIDE DEF m, n
    <3>4. n # 2
      BY <3>2, <3>3
    <3>5. Len(lines) # 2
      BY <3>4 DEF n
    <3> QED BY <1>7, <2>7, <3>5
  <2> QED BY <2>6, <2>7
<1> QED BY <1>6, <1>7, <1>8, <1>9

-----------------------------------------------------------------------------
(* The line of the user *)

(* Wherever the word "user" is in a text, the rest of the line of a user is *)
(* behind it.                                                               *)
SignedAt(s, d, p) ==
  /\ p + 3 <= Len(s) /\ s[p + 1] = Colon /\ s[p + 2] = Blank /\ s[p + 3] = d
  /\ p + 4 <= Len(s) => s[p + 4] = Newline

Signed(s, d) == \A p \in 1..Len(s) : s[p] = "user" => SignedAt(s, d, p)

(* The line ends, too. *)
SignedWhole(s, d) ==
  \A p \in 1..Len(s) : s[p] = "user" => SignedAt(s, d, p) /\ p + 4 <= Len(s)

LEMMA NameLetters ==
  ASSUME NEW u \in User
  PROVE  /\ DecodedChar(u) \in Inner
         /\ DecodedChar(u) \notin White \cup {Colon, Nul, Newline, Blank, "user"}
         /\ u \in Letter /\ u \notin White \cup {Colon, Nul, Newline, Blank, "user"}
<1>1. u \in Char /\ u \notin Reserved \cup White \cup {Colon, Nul}
  BY UserAssumption
<1> QED BY <1>1, Letters DEF DecodedChar, Inner, DecodedLetter, Reserved, White, Garbage, Newline, Blank, Colon, Nul

LEMMA SignedWholeSigned ==
  ASSUME NEW s, NEW d, SignedWhole(s, d)
  PROVE  Signed(s, d)
BY DEF Signed, SignedWhole

LEMMA Unsigned ==
  ASSUME NEW s \in Seq(Letter \ {"user"}), NEW d
  PROVE  Signed(s, d) /\ SignedWhole(s, d)
<1>1. \A p \in 1..Len(s) : s[p] # "user"
  BY ElementOfSeq
<1> QED BY <1>1 DEF Signed, SignedWhole

LEMMA SignedConcat ==
  ASSUME NEW s \in Text, NEW t \in Text, NEW d, SignedWhole(s, d), SignedWhole(t, d)
  PROVE  SignedWhole(s \o t, d)
<1> DEFINE st == s \o t
           m == Len(s)
           n == Len(t)
<1>1. /\ Len(st) = m + n /\ m \in Nat /\ n \in Nat
      /\ \A i \in 1..(m + n) : st[i] = IF i <= m THEN s[i] ELSE t[i - m]
  BY ConcatProperties, LenProperties DEF Text
<1> SUFFICES ASSUME NEW p \in 1..(m + n), st[p] = "user"
             PROVE  SignedAt(st, d, p) /\ p + 4 <= Len(st)
  BY <1>1 DEF SignedWhole
<1>2. p \in Nat /\ 1 <= p /\ p <= m + n
  BY <1>1
<1>3. CASE p <= m
  <2>1. p \in 1..m /\ s[p] = "user"
    BY <1>1, <1>2, <1>3
  <2>2. /\ p + 4 <= m /\ s[p + 1] = Colon /\ s[p + 2] = Blank /\ s[p + 3] = d /\ s[p + 4] = Newline
    BY <2>1 DEF SignedWhole, SignedAt
  <2> HIDE DEF st, m, n
  <2>3. /\ p + 1 \in 1..(m + n) /\ p + 2 \in 1..(m + n) /\ p + 3 \in 1..(m + n) /\ p + 4 \in 1..(m + n)
        /\ p + 1 <= m /\ p + 2 <= m /\ p + 3 <= m
    BY <1>1, <1>2, <2>2
  <2> QED BY <1>1, <1>2, <2>2, <2>3 DEF SignedAt
<1>4. CASE ~(p <= m)
  <2> DEFINE q == p - m
  <2>1. q \in 1..n /\ t[q] = "user"
    BY <1>1, <1>2, <1>4
  <2>2. /\ q + 4 <= n /\ t[q + 1] = Colon /\ t[q + 2] = Blank /\ t[q + 3] = d /\ t[q + 4] = Newline
    <3> HIDE DEF q
    <3> QED BY <2>1 DEF SignedWhole, SignedAt
  <2> HIDE DEF st, m, n
  <2>3. /\ p + 1 \in 1..(m + n) /\ p + 2 \in 1..(m + n) /\ p + 3 \in 1..(m + n) /\ p + 4 \in 1..(m + n)
        /\ ~(p + 1 <= m) /\ ~(p + 2 <= m) /\ ~(p + 3 <= m) /\ ~(p + 4 <= m)
        /\ (p + 1) - m = q + 1 /\ (p + 2) - m = q + 2 /\ (p + 3) - m = q + 3 /\ (p + 4) - m = q + 4
    BY <1>1, <1>2, <1>4, <2>2
  <2>4. /\ st[p + 1] = t[(p + 1) - m] /\ st[p + 2] = t[(p + 2) - m]
        /\ st[p + 3] = t[(p + 3) - m] /\ st[p + 4] = t[(p + 4) - m]
    BY <1>1, <2>3
  <2>5. p + 4 <= m + n
    BY <2>3
  <2> HIDE DEF q
  <2> QED BY <1>1, <1>2, <2>2, <2>3, <2>4, <2>5 DEF SignedAt
<1> QED BY <1>3, <1>4

LEMMA SignedSuffix ==
  ASSUME NEW s \in Text, NEW d, NEW m \in 1..(Len(s) + 1)
  PROVE  /\ Signed(s, d) => Signed(SubSeq(s, m, Len(s)), d)
         /\ SignedWhole(s, d) => SignedWhole(SubSeq(s, m, Len(s)), d)
<1> DEFINE t == SubSeq(s, m, Len(s))
           n == Len(s) - m + 1
<1>1. /\ Len(s) \in Nat /\ m \in Nat \ {0} /\ Len(s) \in Int /\ Len(s) <= Len(s) /\ s \in Seq(Letter)
      /\ n \in Nat
  BY LenProperties DEF Text
<1>2. Len(t) = n /\ \A i \in 1..n : t[i] = s[m + i - 1]
  <2>1. /\ Len(t) = IF m <= Len(s) THEN Len(s) - m + 1 ELSE 0
        /\ \A i \in 1..(Len(s) - m + 1) : t[i] = s[m + i - 1]
    BY <1>1, PartType
  <2> HIDE DEF t
  <2> QED BY <1>1, <2>1
<1> HIDE DEF t
<1>3. ASSUME NEW p \in 1..n, t[p] = "user"
      PROVE  LET q == m + p - 1
             IN  /\ q \in 1..Len(s) /\ s[q] = "user"
                 /\ SignedAt(s, d, q) => SignedAt(t, d, p)
                 /\ SignedAt(s, d, q) /\ q + 4 <= Len(s) => p + 4 <= n
  <2> DEFINE q == m + p - 1
  <2>1. q \in 1..Len(s) /\ s[q] = "user" /\ q \in Nat
    BY <1>1, <1>2, <1>3
  <2>2. q + 4 <= Len(s) <=> p + 4 <= n
    BY <1>1
  <2>3. ASSUME SignedAt(s, d, q) PROVE SignedAt(t, d, p)
    <3>1. q + 3 <= Len(s) /\ s[q + 1] = Colon /\ s[q + 2] = Blank /\ s[q + 3] = d
          /\ (q + 4 <= Len(s) => s[q + 4] = Newline)
      BY <2>3 DEF SignedAt
    <3>2. /\ p + 1 \in 1..n /\ p + 2 \in 1..n /\ p + 3 \in 1..n
          /\ m + (p + 1) - 1 = q + 1 /\ m + (p + 2) - 1 = q + 2 /\ m + (p + 3) - 1 = q + 3
          /\ m + (p + 4) - 1 = q + 4 /\ p + 3 <= n
      BY <1>1, <3>1
    <3>4. p + 4 <= n => p + 4 \in 1..n
      BY <1>1
    <3> HIDE DEF q, n
    <3>3. t[p + 1] = s[q + 1] /\ t[p + 2] = s[q + 2] /\ t[p + 3] = s[q + 3]
      <4>1. \A i \in 1..n, j \in Int : j = m + i - 1 => t[i] = s[j]
        BY <1>2
      <4>2. q + 1 \in Int /\ q + 2 \in Int /\ q + 3 \in Int
        BY <2>1
      <4> QED BY <3>2, <4>1, <4>2
    <3>5. p + 4 <= n => t[p + 4] = s[q + 4]
      <4>1. \A i \in 1..n, j \in Int : j = m + i - 1 => t[i] = s[j]
        BY <1>2
      <4>2. q + 4 \in Int
        BY <2>1
      <4> QED BY <3>2, <3>4, <4>1, <4>2
    <3> QED BY <1>2, <2>2, <3>1, <3>2, <3>3, <3>5 DEF SignedAt
  <2> QED BY <2>1, <2>2, <2>3
<1>4. ASSUME Signed(s, d) PROVE Signed(t, d)
  BY <1>2, <1>3, <1>4 DEF Signed
<1>5. ASSUME SignedWhole(s, d) PROVE SignedWhole(t, d)
  BY <1>2, <1>3, <1>5 DEF SignedWhole
<1> QED BY <1>4, <1>5 DEF t

LEMMA SignedUpTo ==
  ASSUME NEW s \in Text, NEW d, NEW n \in 1..Len(s),
         SignedWhole(s, d), s[n] = Nul, d # Nul
  PROVE  SignedWhole(SubSeq(s, 1, n - 1), d)
<1> DEFINE t == SubSeq(s, 1, n - 1)
<1>1. /\ Len(s) \in Nat /\ n \in Nat \ {0} /\ n - 1 \in Int /\ n - 1 <= Len(s) /\ 1 \in Nat \ {0}
      /\ s \in Seq(Letter) /\ n - 1 \in Nat
  BY LenProperties DEF Text
<1>2. Len(t) = n - 1 /\ \A i \in 1..(n - 1) : t[i] = s[i]
  <2>1. /\ Len(t) = IF 1 <= n - 1 THEN n - 1 - 1 + 1 ELSE 0
        /\ \A i \in 1..(n - 1 - 1 + 1) : t[i] = s[1 + i - 1]
    BY <1>1, PartType
  <2> HIDE DEF t
  <2> QED BY <1>1, <2>1
<1> HIDE DEF t
<1>3. ASSUME NEW p \in 1..(n - 1), t[p] = "user" PROVE SignedAt(t, d, p) /\ p + 4 <= n - 1
  <2>1. p \in 1..Len(s) /\ s[p] = "user" /\ p \in Nat
    BY <1>1, <1>2, <1>3
  <2>2. /\ p + 4 <= Len(s) /\ s[p + 1] = Colon /\ s[p + 2] = Blank /\ s[p + 3] = d /\ s[p + 4] = Newline
    BY <2>1 DEF SignedWhole, SignedAt
  <2>3. Colon # Nul /\ Blank # Nul /\ Newline # Nul
    BY DEF Colon, Blank, Newline, Nul
  <2>4. p + 1 # n /\ p + 2 # n /\ p + 3 # n /\ p + 4 # n
    BY <2>2, <2>3
  <2>5. p + 4 <= n - 1 /\ p + 1 \in 1..(n - 1) /\ p + 2 \in 1..(n - 1) /\ p + 3 \in 1..(n - 1)
        /\ p + 4 \in 1..(n - 1) /\ p + 3 <= n - 1
    BY <1>1, <2>1, <2>4
  <2>6. /\ t[p + 1] = s[p + 1] /\ t[p + 2] = s[p + 2] /\ t[p + 3] = s[p + 3]
        /\ t[p + 4] = s[p + 4]
    BY <1>2, <2>5
  <2> QED BY <1>2, <2>2, <2>5, <2>6 DEF SignedAt
<1>4. SignedWhole(t, d)
  BY <1>2, <1>3 DEF SignedWhole
<1> QED BY <1>4 DEF t

(* A line of a signed text, and what is behind it *)
LEMMA SignedCut ==
  ASSUME NEW x \in Seq(Letter \ {Newline}), NEW t \in Text, NEW d, d # Newline,
         Signed(Append(x, Newline) \o t, d)
  PROVE  Signed(x, d) /\ Signed(t, d)
<1> DEFINE y == Append(x, Newline)
           s == y \o t
           m == Len(x)
           n == Len(t)
<1>0. Newline \in Letter
  BY Letters
<1>1. /\ x \in Text /\ m \in Nat /\ n \in Nat
      /\ \A i \in 1..m : x[i] # Newline
  <2>1. x \in Seq(Letter)
    BY WholePiece
  <2>2. \A i \in 1..Len(x) : x[i] \in Letter \ {Newline}
    BY ElementOfSeq
  <2>3. Len(x) \in Nat /\ Len(t) \in Nat
    BY LenProperties DEF Text
  <2> QED BY <2>1, <2>2, <2>3 DEF Text
<1>2. /\ y \in Text /\ Len(y) = m + 1
      /\ \A i \in 1..m : y[i] = x[i]
      /\ y[m + 1] = Newline
  <2>1. x \in Seq(Letter)
    BY <1>1 DEF Text
  <2>2. /\ Append(x, Newline) \in Seq(Letter) /\ Len(Append(x, Newline)) = Len(x) + 1
        /\ \A i \in 1..Len(x) : Append(x, Newline)[i] = x[i]
        /\ Append(x, Newline)[Len(x) + 1] = Newline
    BY <1>0, <2>1, AppendProperties
  <2> QED BY <2>2 DEF Text
<1> HIDE DEF y
<1>3. /\ s \in Text /\ Len(s) = m + 1 + n
      /\ \A i \in 1..(m + 1 + n) : s[i] = IF i <= m + 1 THEN y[i] ELSE t[i - (m + 1)]
  <2>1. /\ y \o t \in Text /\ Len(y \o t) = Len(y) + Len(t)
        /\ \A i \in 1..(Len(y) + Len(t)) : (y \o t)[i] = IF i <= Len(y) THEN y[i] ELSE t[i - Len(y)]
    BY <1>2, ConcatProperties DEF Text
  <2> QED BY <1>2, <2>1
<1> HIDE DEF s
<1>4. Signed(s, d)
  BY DEF s, y
<1>5. Signed(x, d)
  <2> SUFFICES ASSUME NEW p \in 1..m, x[p] = "user" PROVE SignedAt(x, d, p)
    BY DEF Signed
  <2>1. \A i \in 1..(m + 1) : s[i] = y[i]
    BY <1>1, <1>3
  <2>2. p \in 1..Len(s) /\ s[p] = "user" /\ p \in Nat /\ p <= m
    BY <1>1, <1>2, <1>3, <2>1
  <2>3. SignedAt(s, d, p)
    BY <1>4, <2>2 DEF Signed
  <2>4. p + 3 <= Len(s) /\ s[p + 1] = Colon /\ s[p + 2] = Blank /\ s[p + 3] = d
        /\ (p + 4 <= Len(s) => s[p + 4] = Newline)
    BY <2>3 DEF SignedAt
  <2>5. Colon # Newline /\ Blank # Newline /\ s[m + 1] = Newline
    BY <1>1, <1>2, <2>1 DEF Colon, Blank, Newline
  <2>6. p + 1 # m + 1 /\ p + 2 # m + 1 /\ p + 3 # m + 1
    BY <2>4, <2>5
  <2>7. p + 3 <= m /\ p + 1 \in 1..m /\ p + 2 \in 1..m /\ p + 3 \in 1..m
    BY <1>1, <2>2, <2>6
  <2>8. x[p + 1] = s[p + 1] /\ x[p + 2] = s[p + 2] /\ x[p + 3] = s[p + 3]
    BY <1>1, <1>2, <2>1, <2>7
  <2>9. p + 4 <= m => x[p + 4] = Newline
    <3>1. p + 4 <= m => p + 4 \in 1..m /\ p + 4 \in 1..(m + 1) /\ p + 4 <= Len(s)
      BY <1>1, <1>3, <2>2
    <3> QED BY <1>2, <2>1, <2>4, <3>1
  <2> QED BY <2>4, <2>7, <2>8, <2>9 DEF SignedAt
<1>6. Signed(t, d)
  <2>1. Len(y) + 1 \in 1..(Len(s) + 1)
    BY <1>1, <1>2, <1>3
  <2>2. Signed(SubSeq(s, Len(y) + 1, Len(s)), d)
    BY <1>3, <1>4, <2>1, SignedSuffix
  <2>3. SubSeq(y \o t, Len(y) + 1, Len(y \o t)) = t
    BY <1>2, PartsOfConcat DEF Text
  <2> QED BY <2>2, <2>3 DEF s
<1> QED BY <1>5, <1>6

-----------------------------------------------------------------------------
(* The line of the user through the decoder *)

(* The lines of a signed text are signed. *)
LEMMA SignedPieces ==
  ASSUME NEW text \in Text, NEW d, d # Newline, Signed(text, d)
  PROVE  \A i \in 1..Len(Pieces(text, Newline)) : Signed(Pieces(text, Newline)[i], d)
<1> DEFINE T == Seq(Letter \ {Newline})
           OK(t) == \A i \in 1..Len(Pieces(t, Newline)) : Signed(Pieces(t, Newline)[i], d)
           P == {t \in Seq(Letter) : Signed(t, d) => OK(t)}
<1>0. Newline \in Letter
  BY Letters
<1>1. ASSUME NEW x \in T PROVE x \in P
  <2>1. x \in Seq(Letter) /\ Pieces(x, Newline) = <<x>>
    BY WholePiece
  <2>2. Signed(x, d) => OK(x)
    BY <2>1
  <2> QED BY <2>1, <2>2
<1>2. ASSUME NEW x \in T, NEW t \in P PROVE Append(x, Newline) \o t \in P
  <2> DEFINE s == Append(x, Newline) \o t
             p == Pieces(t, Newline)
             U == Seq(Letter)
  <2>1. t \in U
    OBVIOUS
  <2>2. s \in U /\ x \in U
    BY <1>0, <2>1, FirstPiece
  <2>3. Pieces(s, Newline) = <<x>> \o p
    BY <1>0, <2>1, FirstPiece
  <2>4. p \in Seq(U)
    BY <2>1, PiecesType DEF NonEmpty
  <2>5. ASSUME Signed(s, d) PROVE OK(s)
    <3>1. Signed(x, d) /\ Signed(t, d)
      BY <2>1, <2>5, SignedCut DEF Text
    <3>2. \A i \in 1..Len(p) : Signed(p[i], d)
      BY <3>1
    <3> HIDE DEF s, p, U
    <3>3. <<x>> \in Seq(U) /\ Len(<<x>>) = 1 /\ <<x>>[1] = x /\ Len(p) \in Nat
      BY <2>2, <2>4, LenProperties
    <3>4. /\ Len(<<x>> \o p) = 1 + Len(p)
          /\ \A i \in 1..(1 + Len(p)) : (<<x>> \o p)[i] = IF i <= 1 THEN <<x>>[i] ELSE p[i - 1]
      BY <2>4, <3>3, ConcatProperties
    <3>5. ASSUME NEW i \in 1..(1 + Len(p)) PROVE Signed((<<x>> \o p)[i], d)
      <4>1. CASE i = 1
        BY <3>1, <3>3, <3>4, <4>1
      <4>2. CASE i # 1
        <5>1. i - 1 \in 1..Len(p) /\ ~(i <= 1)
          BY <3>3, <4>2
        <5> QED BY <3>2, <3>4, <5>1
      <4> QED BY <4>1, <4>2
    <3> QED BY <2>3, <3>4, <3>5
  <2> QED BY <2>2, <2>5
<1>3. P \in SUBSET Seq(Letter)
  OBVIOUS
<1> HIDE DEF P
<1>4. P = Seq(Letter)
  BY <1>0, <1>1, <1>2, <1>3, ByLines
<1>5. text \in P
  BY <1>4 DEF Text
<1> QED BY <1>5 DEF P

(* Signed lines are a signed text. *)
LEMMA SignedLine ==
  ASSUME NEW line \in Seq(Letter \ {Newline}), NEW d, Signed(line, d)
  PROVE  SignedWhole(Append(line, Newline), d)
<1> DEFINE n == Len(line)
           s == Append(line, Newline)
<1>1. /\ n \in Nat /\ Len(s) = n + 1
      /\ \A i \in 1..n : s[i] = line[i]
      /\ s[n + 1] = Newline
      /\ \A i \in 1..n : line[i] # Newline
  <2>1. line \in Seq(Letter) /\ Newline \in Letter
    BY WholePiece, Letters
  <2>2. \A i \in 1..n : line[i] # Newline
    BY ElementOfSeq
  <2> QED BY <2>1, <2>2, AppendProperties, LenProperties
<1> HIDE DEF n, s
<1> SUFFICES ASSUME NEW p \in 1..(n + 1), s[p] = "user"
             PROVE  SignedAt(s, d, p) /\ p + 4 <= n + 1
  BY <1>1 DEF SignedWhole, s
<1>2. p \in 1..n /\ line[p] = "user"
  <2>1. p # n + 1
    BY <1>1 DEF Newline
  <2>2. p \in 1..n
    BY <1>1, <2>1
  <2> QED BY <1>1, <2>2
<1>3. SignedAt(line, d, p)
  BY <1>2 DEF Signed, n
<1>4. /\ p + 3 <= n /\ line[p + 1] = Colon /\ line[p + 2] = Blank /\ line[p + 3] = d
      /\ p + 4 <= n => line[p + 4] = Newline
  BY <1>3 DEF SignedAt, n
<1>5. p \in Nat /\ (p + 4 <= n => p + 4 \in 1..n)
  BY <1>1, <1>2
<1>6. ~(p + 4 <= n)
  BY <1>1, <1>4, <1>5
<1>7. /\ p + 4 = n + 1
      /\ p + 1 \in 1..n /\ p + 2 \in 1..n /\ p + 3 \in 1..n
  BY <1>1, <1>4, <1>5, <1>6
<1>8. s[p + 1] = Colon /\ s[p + 2] = Blank /\ s[p + 3] = d /\ s[p + 4] = Newline
  BY <1>1, <1>4, <1>7
<1>9. p + 3 <= n + 1 /\ p + 4 <= n + 1
  BY <1>1, <1>5, <1>7
<1> QED BY <1>1, <1>8, <1>9 DEF SignedAt, s

LEMMA SignedLines ==
  ASSUME NEW lines \in Seq(Seq(Letter \ {Newline})), NEW d,
         \A i \in 1..Len(lines) : Signed(lines[i], d)
  PROVE  SignedWhole(Lines(lines), d)
<1> DEFINE T == Seq(Letter \ {Newline})
           P == {l \in Seq(T) : (\A i \in 1..Len(l) : Signed(l[i], d)) => SignedWhole(Lines(l), d)}
<1>0. Newline \in Letter /\ T \subseteq Seq(Letter)
  BY Letters, WholePiece
<1>1. <<>> \in P
  <2>1. SignedWhole(<<>>, d)
    BY DEF SignedWhole
  <2>2. <<>> \in Seq(T)
    BY EmptySeq
  <2> QED BY <2>1, <2>2, LinesEmpty
<1>2. ASSUME NEW l \in P, NEW line \in T PROVE Append(l, line) \in P
  <2>1. l \in Seq(T)
    OBVIOUS
  <2>2. (\A i \in 1..Len(l) : Signed(l[i], d)) => SignedWhole(Lines(l), d)
    OBVIOUS
  <2> HIDE DEF P
  <2>3. l \in Seq(Seq(Letter)) /\ line \in Seq(Letter)
    <3> HIDE DEF T
    <3> QED BY <1>0, <2>1, SeqMonotonic
  <2>4. /\ Append(l, line) \in Seq(T) /\ Len(Append(l, line)) = Len(l) + 1 /\ Len(l) \in Nat
        /\ \A i \in 1..Len(l) : Append(l, line)[i] = l[i]
        /\ Append(l, line)[Len(l) + 1] = line
    <3> HIDE DEF T
    <3> QED BY <2>1, AppendProperties, LenProperties
  <2>5. Lines(Append(l, line)) = Lines(l) \o Append(line, Newline)
    BY <1>0, <2>3, LinesAppend
  <2>6. Lines(l) \in Text /\ Append(line, Newline) \in Text
    BY <1>0, <2>3, LinesType, AppendProperties DEF Text
  <2>7. ASSUME \A i \in 1..Len(Append(l, line)) : Signed(Append(l, line)[i], d)
        PROVE  SignedWhole(Lines(Append(l, line)), d)
    <3>1. \A i \in 1..Len(l) : i \in 1..(Len(l) + 1)
      BY <2>4
    <3>2. \A i \in 1..Len(l) : Signed(l[i], d)
      BY <2>4, <2>7, <3>1
    <3>3. Len(l) + 1 \in 1..(Len(l) + 1)
      BY <2>4
    <3>4. Signed(line, d)
      BY <2>4, <2>7, <3>3
    <3>5. SignedWhole(Append(line, Newline), d)
      BY <3>4, SignedLine
    <3>6. SignedWhole(Lines(l), d)
      BY <2>2, <3>2
    <3> QED BY <2>5, <2>6, <3>5, <3>6, SignedConcat
  <2> QED BY <2>4, <2>7 DEF P
<1>3. P \in SUBSET Seq(T)
  OBVIOUS
<1> HIDE DEF P
<1>4. P = Seq(T)
  <2> HIDE DEF T
  <2> QED BY <1>1, <1>2, <1>3, Sequences
<1>5. lines \in P
  BY <1>4
<1> QED BY <1>5 DEF P

LEMMA SignedTrim ==
  ASSUME NEW s \in Text, NEW d, d \notin White, SignedWhole(s, d)
  PROVE  Signed(Trim(s), d)
<1>1. CASE Trim(s) = <<>>
  <2>1. Signed(<<>>, d)
    BY DEF Signed
  <2> QED BY <1>1, <2>1
<1>2. ASSUME NEW m \in 1..Len(s), NEW n \in 1..Len(s), m <= n,
             \A i \in (n + 1)..Len(s) : s[i] \in White,
             Trim(s) = SubSeq(s, m, n)
      PROVE  Signed(Trim(s), d)
  <2> DEFINE t == Trim(s)
             k == n - m + 1
  <2>1. Len(s) \in Nat /\ m \in Nat \ {0} /\ n \in Int /\ n \in Nat /\ n <= Len(s) /\ k \in Nat
    BY <1>2, LenProperties DEF Text
  <2>2. Len(t) = k /\ \A i \in 1..k : t[i] = s[m + i - 1]
    <3>1. /\ Len(SubSeq(s, m, n)) = IF m <= n THEN n - m + 1 ELSE 0
          /\ \A i \in 1..(n - m + 1) : SubSeq(s, m, n)[i] = s[m + i - 1]
      BY <2>1, PartType DEF Text
    <3> QED BY <1>2, <3>1
  <2>3. \A i \in 1..k, j \in Int : j = m + i - 1 => t[i] = s[j]
    BY <2>2
  <2> SUFFICES ASSUME NEW p \in 1..k, t[p] = "user" PROVE SignedAt(t, d, p)
    BY <2>2 DEF Signed
  <2> DEFINE q == m + p - 1
  <2>4. q \in 1..Len(s) /\ s[q] = "user" /\ q \in Nat /\ q <= n
    BY <2>1, <2>2
  <2> HIDE DEF t
  <2>5. /\ q + 4 <= Len(s) /\ s[q + 1] = Colon /\ s[q + 2] = Blank /\ s[q + 3] = d
        /\ s[q + 4] = Newline
    <3> HIDE DEF q
    <3> QED BY <2>4 DEF SignedWhole, SignedAt
  <2>6. \A i \in Nat : n < i /\ i <= Len(s) => s[i] \in White
    BY <1>2, <2>1
  <2>7. q + 3 <= n
    <3> HIDE DEF q
    <3>1. q + 3 \in Nat /\ q + 3 <= Len(s)
      BY <2>1, <2>4, <2>5
    <3> QED BY <2>1, <2>4, <2>5, <2>6, <3>1
  <2>8. /\ p + 1 \in 1..k /\ p + 2 \in 1..k /\ p + 3 \in 1..k /\ p + 3 <= k
        /\ q + 1 = m + (p + 1) - 1 /\ q + 2 = m + (p + 2) - 1 /\ q + 3 = m + (p + 3) - 1
        /\ q + 4 = m + (p + 4) - 1
        /\ q + 1 \in Int /\ q + 2 \in Int /\ q + 3 \in Int /\ q + 4 \in Int
        /\ p + 4 <= k => p + 4 \in 1..k
    BY <2>1, <2>4, <2>7
  <2> HIDE DEF q, k
  <2>9. t[p + 1] = Colon /\ t[p + 2] = Blank /\ t[p + 3] = d
    BY <2>3, <2>5, <2>8
  <2>10. p + 4 <= k => t[p + 4] = Newline
    BY <2>3, <2>5, <2>8
  <2> QED BY <2>2, <2>8, <2>9, <2>10 DEF SignedAt
<1> QED BY <1>1, <1>2, TrimValue DEF Text

LEMMA SignedCharacters ==
  ASSUME NEW t \in Text, NEW u \in User, SignedWhole(t, u)
  PROVE  SignedWhole(Characters(t), DecodedChar(u))
<1> DEFINE c == Characters(t)
<1>1. Len(c) = Len(t) /\ Len(t) \in Nat /\ \A i \in 1..Len(t) : c[i] = DecodedChar(t[i])
  BY CharactersType, LenProperties DEF Text
<1> HIDE DEF c
<1>2. ASSUME NEW p \in 1..Len(t), c[p] = "user" PROVE SignedAt(c, DecodedChar(u), p) /\ p + 4 <= Len(t)
  <2>1. t[p] = "user"
    <3>1. "user" # Garbage
      BY DEF Garbage
    <3> QED BY <1>1, <1>2, <3>1 DEF DecodedChar
  <2>2. /\ p + 4 <= Len(t) /\ t[p + 1] = Colon /\ t[p + 2] = Blank /\ t[p + 3] = u
        /\ t[p + 4] = Newline
    BY <2>1 DEF SignedWhole, SignedAt
  <2>3. p + 1 \in 1..Len(t) /\ p + 2 \in 1..Len(t) /\ p + 3 \in 1..Len(t) /\ p + 4 \in 1..Len(t)
        /\ p + 3 <= Len(t)
    BY <1>1, <2>2
  <2>4. DecodedChar(Colon) = Colon /\ DecodedChar(Blank) = Blank /\ DecodedChar(Newline) = Newline
    BY DecodedLetters, Letters
  <2>5. c[p + 1] = Colon /\ c[p + 2] = Blank /\ c[p + 3] = DecodedChar(u) /\ c[p + 4] = Newline
    BY <1>1, <2>2, <2>3, <2>4
  <2> QED BY <1>1, <2>2, <2>3, <2>5 DEF SignedAt
<1> QED BY <1>1, <1>2 DEF SignedWhole, c

(* The frames of a user are signed. *)
LEMMA SignedFrame ==
  ASSUME NEW u \in User, NEW channel \in Seq(Payload), NEW event \in Event
  PROVE  SignedWhole(SendText(<<u>>, channel, event), u)
<1> DEFINE N == Letter \ {"user"}
           T == Seq(N)
           h == SendHead(channel)
           l == <<UserLine(u)>>
           e == EventLines(event)
           z == << <<>> >>
<1>1. h \in Seq(T)
  BY SendLines
<1>2. UserLine(u) \in Seq(Letter)
  BY SendLines
<1>3. e \in Seq(T)
  <2>1. e \in Seq(Seq(LineLetter))
    BY EventLinesType
  <2>2. Seq(LineLetter) \subseteq T
    <3>1. LineLetter \subseteq N
      BY DEF LineLetter, Reserved
    <3> QED BY <3>1, SeqMonotonic
  <2> HIDE DEF e, T
  <2> QED BY <2>1, <2>2, SeqMonotonic
<1>4. z \in Seq(T)
  <2>1. <<>> \in T
    BY EmptySeq
  <2> HIDE DEF T
  <2> QED BY <2>1
<1>5. SendText(<<u>>, channel, event) = Append(Lines(h \o l \o e \o z), Nul)
  BY SendLines
<1>6. Newline \in N /\ Newline \in Letter /\ Nul \in N /\ N \subseteq Letter
  BY Letters DEF Newline, Nul
<1>7. T \subseteq Seq(Letter)
  BY <1>6, SeqMonotonic
<1>8. h \in Seq(Seq(Letter)) /\ e \in Seq(Seq(Letter)) /\ z \in Seq(Seq(Letter))
  <2> HIDE DEF h, e, z, T
  <2> QED BY <1>1, <1>3, <1>4, <1>7, SeqMonotonic
<1>9. l \in Seq(Seq(Letter))
  BY <1>2
<1> HIDE DEF h, e, z, l
<1>10. /\ h \o l \in Seq(Seq(Letter)) /\ h \o l \o e \in Seq(Seq(Letter))
       /\ Lines(h \o l) = Lines(h) \o Lines(l)
  BY <1>6, <1>8, <1>9, ConcatProperties, LinesConcat
<1>11. Lines(h \o l \o e) = Lines(h \o l) \o Lines(e)
  BY <1>6, <1>8, <1>10, LinesConcat
<1>12. Lines(h \o l \o e \o z) = Lines(h \o l \o e) \o Lines(z)
  BY <1>6, <1>8, <1>10, LinesConcat
<1>13. /\ Lines(h) \in Text /\ Lines(l) \in Text /\ Lines(e) \in Text /\ Lines(z) \in Text
  BY <1>6, <1>8, <1>9, LinesType DEF Text
<1>14. Lines(h) \in T /\ Lines(e) \in T /\ Lines(z) \in T
  BY <1>1, <1>3, <1>4, <1>6, LinesType
<1>15. SignedWhole(Lines(h), u) /\ SignedWhole(Lines(e), u) /\ SignedWhole(Lines(z), u)
  BY <1>14, Unsigned
<1>16. SignedWhole(Lines(l), u)
  <2> DEFINE x == UserLine(u)
  <2>1. x \in Seq(Letter \ {Newline}) /\ Signed(x, u)
    <3>1. u \in Letter /\ u # Newline /\ u # "user"
      BY NameLetters
    <3>2. "user" \in Letter /\ Colon \in Letter /\ Blank \in Letter
      BY Letters
    <3>3. "user" # Newline /\ Colon # Newline /\ Blank # Newline /\ Colon # "user" /\ Blank # "user"
      BY DEF Newline, Colon, Blank
    <3>4. x \in Seq(Letter \ {Newline})
      BY <3>1, <3>2, <3>3, Tuples DEF UserLine
    <3>5. Len(x) = 4 /\ x[1] = "user" /\ x[2] = Colon /\ x[3] = Blank /\ x[4] = u
      BY DEF UserLine
    <3>6. \A p \in 1..4 : x[p] = "user" => p = 1
      <4>1. \A p \in 1..4 : p = 1 \/ p = 2 \/ p = 3 \/ p = 4
        OBVIOUS
      <4> HIDE DEF x
      <4> QED BY <3>1, <3>3, <3>5, <4>1
    <3>7. SignedAt(x, u, 1)
      BY <3>5 DEF SignedAt
    <3> HIDE DEF x
    <3> QED BY <3>4, <3>5, <3>6, <3>7 DEF Signed
  <2>2. l = <<x>>
    BY DEF l
  <2> HIDE DEF x
  <2>3. l \in Seq(Seq(Letter \ {Newline})) /\ Len(l) = 1 /\ l[1] = x
    BY <2>1, <2>2
  <2>4. \A i \in 1..Len(l) : Signed(l[i], u)
    BY <2>1, <2>3
  <2> QED BY <2>3, <2>4, SignedLines
<1>17. Lines(h) \o Lines(l) \in Text /\ SignedWhole(Lines(h) \o Lines(l), u)
  BY <1>13, <1>15, <1>16, SignedConcat, ConcatProperties DEF Text
<1>18. Lines(h \o l \o e) \in Text /\ SignedWhole(Lines(h \o l \o e), u)
  BY <1>10, <1>11, <1>13, <1>15, <1>17, SignedConcat, ConcatProperties DEF Text
<1>19. Lines(h \o l \o e \o z) \in Text /\ SignedWhole(Lines(h \o l \o e \o z), u)
  BY <1>12, <1>13, <1>15, <1>18, SignedConcat, ConcatProperties DEF Text
<1>20. <<Nul>> \in T /\ <<Nul>> \in Text
  BY <1>6 DEF Text
<1>21. SignedWhole(<<Nul>>, u)
  BY <1>20, Unsigned
<1>22. Append(Lines(h \o l \o e \o z), Nul) = Lines(h \o l \o e \o z) \o <<Nul>>
  BY <1>6, <1>19, AppendIsConcat DEF Text
<1> QED BY <1>5, <1>19, <1>20, <1>21, <1>22, SignedConcat

-----------------------------------------------------------------------------
(* The user in what parse reads *)

(* The lines that split gives are pieces of the text. *)
LEMMA SplitPieces ==
  ASSUME NEW S, Newline \in S, NEW text \in Seq(S)
  PROVE  LET lines == Split(text, Newline)
             pieces == Pieces(text, Newline)
         IN  /\ lines \in Seq(Seq(S \ {Newline})) /\ Len(lines) \in Nat
             /\ Len(lines) <= Len(pieces)
             /\ \A i \in 1..Len(lines) : lines[i] = pieces[i]
<1> DEFINE T == Seq(S \ {Newline})
           lines == Split(text, Newline)
           pieces == Pieces(text, Newline)
<1>1. pieces \in Seq(T) /\ Len(pieces) \in Nat
  <2>1. pieces \in NonEmpty(T)
    BY PiecesFree
  <2> HIDE DEF pieces, T
  <2>2. pieces \in Seq(T)
    BY <2>1 DEF NonEmpty
  <2> QED BY <2>2, LenProperties
<1>2. CASE text = <<>>
  <2>1. lines = pieces
    BY <1>2 DEF Split
  <2> HIDE DEF lines, pieces, T
  <2>2. Len(lines) <= Len(pieces)
    BY <1>1, <2>1
  <2> QED BY <1>1, <2>1, <2>2 DEF lines, pieces, T
<1>3. CASE text # <<>>
  <2>1. PICK n \in 0..Len(pieces) : lines = SubSeq(pieces, 1, n)
    BY <1>3, SplitValue
  <2> HIDE DEF lines, pieces, T
  <2>2. n \in Int /\ n \in Nat /\ n <= Len(pieces) /\ 1 \in Nat \ {0}
    BY <1>1
  <2>3. /\ SubSeq(pieces, 1, n) \in Seq(T)
        /\ Len(SubSeq(pieces, 1, n)) = IF 1 <= n THEN n - 1 + 1 ELSE 0
        /\ \A i \in 1..(n - 1 + 1) : SubSeq(pieces, 1, n)[i] = pieces[1 + i - 1]
    BY <1>1, <2>2, PartType
  <2>4. Len(lines) = n
    BY <2>1, <2>2, <2>3
  <2>5. \A i \in 1..n : lines[i] = pieces[i]
    BY <2>1, <2>2, <2>3
  <2> QED BY <2>1, <2>2, <2>3, <2>4, <2>5 DEF lines, pieces, T
<1> QED BY <1>2, <1>3

(* The headers and the body of a parsed frame: a header is in one line, and *)
(* the body is signed if the frame is.                                      *)
LEMMA ParsedHeader ==
  ASSUME NEW S, Newline \in S, NEW text \in Seq(S), NEW end \in Nat, ParsedUpTo(text, end),
         NEW key \in DOMAIN Parse(text).headers
  PROVE  Parse(text).headers[key] \in Seq(S \ {Newline})
<1> DEFINE T == Seq(S \ {Newline})
           lines == Split(text, Newline)
           headers == SubSeq(lines, 2, end - 1)
<1>1. lines \in Seq(T) /\ Len(lines) \in Nat
  BY SplitPieces
<1>2. end \in 2..(Len(lines) + 1) /\ Parse(text).headers = Headers(headers)
  BY DEF ParsedUpTo
<1>3. headers \in Seq(T)
  <2>1. 2 \in Nat \ {0} /\ end - 1 \in Int /\ end - 1 <= Len(lines)
    BY <1>1, <1>2
  <2> HIDE DEF lines, T
  <2> QED BY <1>1, <2>1, PartType
<1>4. PICK i \in 1..Len(headers) : Headers(headers)[key] = HeaderValue(headers[i])
  <2> HIDE DEF headers, T
  <2> QED BY <1>2, <1>3, HeadersValue
<1>5. headers[i] \in T
  <2> HIDE DEF headers, T
  <2> QED BY <1>3, ElementOfSeq
<1> QED BY <1>2, <1>4, <1>5, HeaderValueType

LEMMA ParsedBody ==
  ASSUME NEW text \in Text, NEW d, d \notin White, Signed(text, d),
         NEW end \in Nat, ParsedUpTo(text, end)
  PROVE  Signed(Parse(text).body, d)
<1> DEFINE T == Seq(Letter \ {Newline})
           lines == Split(text, Newline)
           pieces == Pieces(text, Newline)
           body == SubSeq(lines, end + 1, Len(lines))
<1>0. Newline \in Letter /\ d # Newline
  BY Letters DEF White
<1>1. /\ lines \in Seq(T) /\ Len(lines) \in Nat /\ Len(lines) <= Len(pieces)
      /\ \A i \in 1..Len(lines) : lines[i] = pieces[i]
  BY <1>0, SplitPieces DEF Text
<1>2. end \in 2..(Len(lines) + 1) /\ Parse(text).body = Trim(Lines(body))
  BY DEF ParsedUpTo
<1>3. Len(pieces) \in Nat
  <2>1. pieces \in Seq(Seq(Letter))
    BY PiecesType DEF Text, NonEmpty
  <2> HIDE DEF pieces
  <2> QED BY <2>1, LenProperties
<1>4. \A i \in 1..Len(lines) : Signed(lines[i], d)
  <2>1. \A i \in 1..Len(pieces) : Signed(pieces[i], d)
    BY <1>0, SignedPieces
  <2> HIDE DEF lines, pieces
  <2> QED BY <1>1, <1>3, <2>1
<1>5. body \in Seq(T) /\ \A i \in 1..Len(body) : Signed(body[i], d)
  <2> HIDE DEF lines, T
  <2>1. end + 1 \in Nat \ {0} /\ Len(lines) \in Int /\ Len(lines) <= Len(lines)
    BY <1>1, <1>2
  <2> DEFINE n == Len(lines)
             m == end + 1
  <2>2. /\ SubSeq(lines, m, n) \in Seq(T)
        /\ Len(SubSeq(lines, m, n)) = IF m <= n THEN n - m + 1 ELSE 0
        /\ \A i \in 1..(n - m + 1) : SubSeq(lines, m, n)[i] = lines[m + i - 1]
    BY <1>1, <2>1, PartType
  <2>3. n \in Nat /\ m \in Nat
    BY <1>1, <2>1
  <2> HIDE DEF n, m
  <2>4. ASSUME NEW i \in 1..Len(SubSeq(lines, m, n))
        PROVE  Signed(SubSeq(lines, m, n)[i], d)
    <3>3. i \in 1..(IF m <= n THEN n - m + 1 ELSE 0)
      BY <2>2, <2>4
    <3>4. m <= n /\ i \in 1..(n - m + 1)
      BY <2>3, <3>3
    <3>1. i \in 1..(n - m + 1) /\ m + i - 1 \in 1..n
      BY <2>1, <2>3, <3>4 DEF m
    <3>2. SubSeq(lines, m, n)[i] = lines[m + i - 1]
      BY <2>2, <3>1
    <3> QED BY <1>4, <3>1, <3>2 DEF n
  <2> QED BY <2>2, <2>4 DEF n, m
<1>6. SignedWhole(Lines(body), d)
  <2> HIDE DEF body
  <2> QED BY <1>5, SignedLines
<1>7. Lines(body) \in Text
  <2>1. T \subseteq Seq(Letter)
    BY WholePiece
  <2>2. body \in Seq(Seq(Letter))
    <3> HIDE DEF body, T
    <3> QED BY <1>5, <2>1, SeqMonotonic
  <2> HIDE DEF body
  <2> QED BY <1>0, <2>2, LinesType DEF Text
<1> QED BY <1>2, <1>6, <1>7, SignedTrim

(* The value of a signed line whose key is "user" *)
LEMMA UserKey ==
  ASSUME NEW line \in Seq(Letter \ {Newline}), NEW d \in Letter \ {Colon},
         Occurs(Colon, line), KeyOf(line) = <<"user">>, Signed(line, d)
  PROVE  ValueOf(line) = <<Blank, d>>
<1>0. Colon \in Letter /\ Blank \in Letter \ {Colon}
  BY Letters DEF Colon, Blank
<1>1. line \in Seq(Letter) /\ Len(line) \in Nat
  BY WholePiece, LenProperties
<1>2. CASE line \in Seq(Letter \ {Colon})
  <2>1. \A i \in 1..Len(line) : line[i] # Colon
    BY <1>2, ElementOfSeq
  <2>2. DOMAIN line = 1..Len(line)
    BY <1>1, LenProperties
  <2> QED BY <2>1, <2>2 DEF Occurs, ToSet
<1>3. ASSUME NEW x \in Seq(Letter \ {Colon}), NEW t \in Seq(Letter),
             line = Append(x, Colon) \o t, Len(line) = Len(x) + 1 + Len(t)
      PROVE  ValueOf(line) = <<Blank, d>>
  <2>1. KeyOf(line) = x
    BY <1>0, <1>3, KeyValue
  <2>2. x = <<"user">> /\ Len(t) \in Nat
    BY <2>1, LenProperties
  <2>3. Len(line) = 2 + Len(t)
    BY <1>3, <2>2
  <2>5. "user" \in Letter
    BY Letters
  <2>4. Append(<<"user">>, Colon) = <<"user", Colon>>
    BY <1>0, <2>5, TupleAppend
  <2>6. <<"user", Colon>> \in Seq(Letter) /\ Len(<<"user", Colon>>) = 2 /\ <<"user", Colon>>[1] = "user"
    BY <1>0, <2>5
  <2>7. /\ \A i \in 1..(2 + Len(t)) :
             (<<"user", Colon>> \o t)[i] = IF i <= 2 THEN <<"user", Colon>>[i] ELSE t[i - 2]
    BY <2>6, ConcatProperties
  <2>8. \A i \in 1..(2 + Len(t)) : line[i] = IF i <= 2 THEN <<"user", Colon>>[i] ELSE t[i - 2]
    BY <1>3, <2>2, <2>4, <2>7
  <2>9. line[1] = "user" /\ 1 \in 1..Len(line)
    BY <2>2, <2>3, <2>6, <2>8
  <2>10. SignedAt(line, d, 1)
    BY <2>9 DEF Signed
  <2>11. /\ 4 <= Len(line) /\ line[3] = Blank /\ line[4] = d
         /\ 5 <= Len(line) => line[5] = Newline
    <3>1. /\ 1 + 3 <= Len(line) /\ line[1 + 2] = Blank /\ line[1 + 3] = d
          /\ 1 + 4 <= Len(line) => line[1 + 4] = Newline
      BY <2>10 DEF SignedAt
    <3>2. 1 + 2 = 3 /\ 1 + 3 = 4 /\ 1 + 4 = 5
      OBVIOUS
    <3> QED BY <3>1, <3>2
  <2>12. \A i \in 1..Len(line) : line[i] # Newline
    BY ElementOfSeq
  <2>13. Len(t) = 2
    <3>2. 5 <= Len(line) => 5 \in 1..Len(line)
      BY <1>1
    <3>1. ~(5 <= Len(line))
      BY <2>11, <2>12, <3>2
    <3>3. 4 <= Len(line) /\ Len(line) \in Nat /\ Len(t) \in Nat
      BY <1>1, <2>2, <2>11
    <3> DEFINE m == Len(line)
               n == Len(t)
    <3>6. ~(5 <= m) /\ 4 <= m /\ m \in Nat /\ n \in Nat /\ m = 2 + n
      BY <2>3, <3>1, <3>3
    <3> HIDE DEF m, n
    <3>7. n = 2
      BY <3>6
    <3> QED BY <3>7 DEF n
  <2>14. t[1] = Blank /\ t[2] = d
    <3>1. 3 \in 1..(2 + Len(t)) /\ 4 \in 1..(2 + Len(t)) /\ ~(3 <= 2) /\ ~(4 <= 2) /\ 3 - 2 = 1 /\ 4 - 2 = 2
      BY <2>13
    <3>2. line[3] = t[3 - 2] /\ line[4] = t[4 - 2]
      BY <2>8, <3>1
    <3> QED BY <2>11, <3>1, <3>2
  <2>15. t = <<Blank, d>>
    BY <2>13, <2>14
  <2>16. <<Blank, d>> \in Seq(Letter \ {Colon})
    BY <1>0
  <2>17. t \in Seq(Letter \ {Colon})
    BY <2>15, <2>16
  <2>18. ValueOf(Append(x, Colon) \o t) = t
    BY <1>0, <2>17, KeyValue
  <2> QED BY <1>3, <2>15, <2>18
<1>4. IsCut(line, Letter, Colon)
  BY <1>0, <1>1, FirstCut
<1> QED BY <1>2, <1>3, <1>4 DEF IsCut

-----------------------------------------------------------------------------
(* The lines of a copy, and its owner *)

LEMMA TupleConcatThree ==
  ASSUME NEW S, NEW x \in S, NEW y \in S, NEW z \in S
  PROVE  <<x, y>> \o <<z>> = <<x, y, z>>
<1>1. <<x, y>> \in Seq(S)
  OBVIOUS
<1>2. Append(<<x, y>>, z) = <<x, y>> \o <<z>>
  BY <1>1, AppendIsConcat
<1>3. Append(<<x, y>>, z) = <<x, y, z>>
  BY TupleAppend
<1> QED BY <1>2, <1>3

(* The key of a line that starts with a word and a colon *)
LEMMA WordColon ==
  ASSUME NEW a \in Letter \ {Colon}, NEW rest \in Seq(Letter)
  PROVE  LET line == <<a, Colon>> \o rest
         IN  line \in Seq(Letter) /\ Occurs(Colon, line) /\ KeyOf(line) = <<a>>
<1>1. Colon \in Letter /\ a \in Letter
  BY Letters
<1>2. <<a>> \in Seq(Letter \ {Colon}) /\ <<a>> \in Seq(Letter)
  OBVIOUS
<1>3. Append(<<a>>, Colon) = <<a, Colon>>
  BY <1>1, TupleAppend
<1>4. <<a, Colon>> \in Seq(Letter)
  BY <1>1
<1>5. <<a, Colon>> \o rest \in Seq(Letter)
  BY <1>4, ConcatProperties
<1>6. Occurs(Colon, Append(<<a>>, Colon) \o rest) /\ KeyOf(Append(<<a>>, Colon) \o rest) = <<a>>
  BY <1>1, <1>2, KeyValue
<1> QED BY <1>3, <1>5, <1>6

(* The first lines of a message, and their keys *)
LEMMA MessageKeys ==
  ASSUME NEW topic \in Seq(Inner \ {Newline})
  PROVE  LET lines == MessageLines(topic)
         IN  /\ lines \in Seq(Seq(Inner \ {Newline})) /\ Len(lines) = 5
             /\ ~Occurs(Colon, lines[1]) /\ ~Occurs(Colon, lines[5])
             /\ KeyOf(lines[2]) = <<"message-id">> /\ KeyOf(lines[3]) = <<"subscription">>
             /\ KeyOf(lines[4]) = <<"destination">>
<1> DEFINE N == Inner \ {Newline}
           T == Seq(N)
           a == <<"MESSAGE">>
           b == <<"message-id", Colon, "id">>
           c == <<"subscription", Colon, "id">>
           d == <<"destination", Colon, Slash>> \o topic
           e == <<>>
<1>1. /\ "MESSAGE" \in N /\ "message-id" \in N /\ "subscription" \in N /\ "destination" \in N
      /\ "id" \in N /\ Colon \in N /\ Slash \in N /\ N \subseteq Letter
  BY InnerLetters DEF Newline, Colon, Slash
<1>2. /\ "MESSAGE" # Colon /\ "message-id" # Colon /\ "subscription" # Colon /\ "destination" # Colon
  BY DEF Colon
<1>3. /\ "message-id" \in Letter \ {Colon} /\ "subscription" \in Letter \ {Colon}
      /\ "destination" \in Letter \ {Colon} /\ "id" \in Letter /\ Slash \in Letter
      /\ Colon \in Letter
  BY <1>1, <1>2
<1>4. a \in T /\ b \in T /\ c \in T /\ e \in T /\ <<"destination", Colon, Slash>> \in T
  <2> DEFINE w == "MESSAGE"
             x == "message-id"
             y == "subscription"
             z == "destination"
             i == "id"
  <2>1. w \in N /\ x \in N /\ y \in N /\ z \in N /\ i \in N /\ Colon \in N /\ Slash \in N
    BY <1>1
  <2> HIDE DEF w, x, y, z, i, N
  <2>2. /\ <<w>> \in Seq(N) /\ <<x, Colon, i>> \in Seq(N) /\ <<y, Colon, i>> \in Seq(N)
        /\ <<>> \in Seq(N) /\ <<z, Colon, Slash>> \in Seq(N)
    BY <2>1, Tuples
  <2> QED BY <2>2 DEF w, x, y, z, i
<1>5. d \in T
  BY <1>4, ConcatProperties
<1>6. MessageLines(topic) = <<a, b, c, d, e>>
  BY DEF MessageLines
<1>7. KeyOf(b) = <<"message-id">> /\ KeyOf(c) = <<"subscription">>
  <2>1. <<"id">> \in Seq(Letter)
    BY <1>3
  <2>2. <<"message-id", Colon>> \o <<"id">> = b /\ <<"subscription", Colon>> \o <<"id">> = c
    <3>1. ASSUME NEW x \in Letter PROVE <<x, Colon>> \o <<"id">> = <<x, Colon, "id">>
      <4> DEFINE i == "id"
      <4>1. x \in Letter /\ Colon \in Letter /\ i \in Letter
        BY <1>3
      <4> HIDE DEF i
      <4>2. <<x, Colon>> \o <<i>> = <<x, Colon, i>>
        BY <4>1, TupleConcatThree
      <4> QED BY <4>2 DEF i
    <3> QED BY <1>3, <3>1
  <2>3. KeyOf(<<"message-id", Colon>> \o <<"id">>) = <<"message-id">>
    BY <1>3, <2>1, WordColon
  <2>4. KeyOf(<<"subscription", Colon>> \o <<"id">>) = <<"subscription">>
    BY <1>3, <2>1, WordColon
  <2> QED BY <2>2, <2>3, <2>4
<1>8. KeyOf(d) = <<"destination">>
  <2>1. /\ <<"destination", Colon>> \in Seq(Letter) /\ <<Slash>> \in Seq(Letter)
        /\ topic \in Seq(Letter)
    <3>1. topic \in Seq(Letter)
      <4>1. Inner \ {Newline} \subseteq Letter
        BY <1>1
      <4> QED BY <4>1, SeqMonotonic
    <3> QED BY <1>3, <3>1
  <2>2. Append(<<"destination", Colon>>, Slash) = <<"destination", Colon>> \o <<Slash>>
    BY <1>3, <2>1, AppendIsConcat
  <2>3. Append(<<"destination", Colon>>, Slash) = <<"destination", Colon, Slash>>
    BY <1>3, TupleAppend
  <2>4. d = <<"destination", Colon>> \o (<<Slash>> \o topic)
    BY <2>1, <2>2, <2>3, ConcatAssociative
  <2>5. <<Slash>> \o topic \in Seq(Letter)
    BY <2>1, ConcatProperties
  <2>6. KeyOf(<<"destination", Colon>> \o (<<Slash>> \o topic)) = <<"destination">>
    BY <1>3, <2>5, WordColon
  <2> QED BY <2>4, <2>6
<1>9. ~Occurs(Colon, a) /\ ~Occurs(Colon, e)
  BY <1>2 DEF Occurs, ToSet
<1> HIDE DEF a, b, c, d, e, T
<1>10. <<a, b, c, d, e>> \in Seq(T) /\ Len(<<a, b, c, d, e>>) = 5
  BY <1>4, <1>5
<1> QED BY <1>6, <1>7, <1>8, <1>9, <1>10 DEF T

(* The lines of a message *)
LEMMA MessagePieces ==
  ASSUME NEW topic \in Seq(Inner \ {Newline}), NEW body \in Seq(Inner)
  PROVE  LET text == MessageBody(topic, body)
             pieces == Pieces(text, Newline)
             rest == Pieces(body, Newline)
             lines == GetLines(text, Newline)
         IN  /\ rest \in Seq(Seq(Inner \ {Newline})) /\ Len(rest) \in Nat \ {0}
             /\ Len(pieces) = 5 + Len(rest)
             /\ \A i \in 1..5 : pieces[i] = MessageLines(topic)[i]
             /\ \A i \in 1..Len(rest) : pieces[5 + i] = rest[i]
             /\ Len(lines) \in Nat /\ DOMAIN lines = 1..Len(lines)
             /\ Len(lines) = IF rest[Len(rest)] = <<>> THEN 4 + Len(rest) ELSE 5 + Len(rest)
             /\ \A i \in 1..Len(lines) : lines[i] = pieces[i]
<1> DEFINE N == Inner \ {Newline}
           T == Seq(N)
           head == MessageLines(topic)
           text == MessageBody(topic, body)
           pieces == Pieces(text, Newline)
           rest == Pieces(body, Newline)
           lines == GetLines(text, Newline)
<1>1. Newline \in Inner
  BY InnerLetters
<1>2. head \in Seq(T) /\ Len(head) = 5
  BY MessageKeys
<1>3. pieces = head \o rest
  <2>1. Pieces(Lines(head) \o body, Newline) = head \o Pieces(body, Newline)
    <3> HIDE DEF head
    <3> QED BY <1>1, <1>2, PiecesOfLines
  <2> QED BY <2>1 DEF MessageBody
<1>4. rest \in Seq(T) /\ Len(rest) \in Nat \ {0}
  <2>1. rest \in NonEmpty(T)
    BY <1>1, PiecesFree
  <2> HIDE DEF rest, T
  <2>2. rest \in Seq(T) /\ rest # <<>>
    BY <2>1 DEF NonEmpty
  <2> QED BY <2>2, EmptySeq
<1>5. text \in Seq(Inner)
  <2>1. topic \in Seq(Inner)
    BY WholePiece
  <2> QED BY <2>1, MessageType
<1>6. /\ lines \in Seq(Seq(Inner))
      /\ Len(lines) = IF pieces[Len(pieces)] = <<>> THEN Len(pieces) - 1 ELSE Len(pieces)
      /\ \A i \in 1..Len(lines) : lines[i] = pieces[i]
  BY <1>5, GetLinesValue
<1> HIDE DEF head, rest, T, text, pieces, lines
<1>7. /\ Len(pieces) = 5 + Len(rest)
      /\ \A i \in 1..(5 + Len(rest)) : pieces[i] = IF i <= 5 THEN head[i] ELSE rest[i - 5]
  <2>1. head \in Seq(T) /\ rest \in Seq(T)
    BY <1>2, <1>4
  <2>2. /\ Len(head \o rest) = Len(head) + Len(rest)
        /\ \A i \in 1..(Len(head) + Len(rest)) :
             (head \o rest)[i] = IF i <= Len(head) THEN head[i] ELSE rest[i - Len(head)]
    BY <2>1, ConcatProperties
  <2>3. Len(head) = 5
    BY <1>2
  <2> QED BY <1>3, <2>2, <2>3
<1>8. \A i \in 1..5 : pieces[i] = head[i]
  BY <1>4, <1>7
<1>9. ASSUME NEW i \in 1..Len(rest) PROVE pieces[5 + i] = rest[i]
  <2>1. 5 + i \in 1..(5 + Len(rest)) /\ ~(5 + i <= 5) /\ (5 + i) - 5 = i
    BY <1>4
  <2> QED BY <1>7, <2>1
<1>10. pieces[Len(pieces)] = rest[Len(rest)]
  <2>1. Len(rest) \in 1..Len(rest)
    BY <1>4
  <2> QED BY <1>7, <1>9, <2>1
<1>11. Len(lines) = IF rest[Len(rest)] = <<>> THEN 4 + Len(rest) ELSE 5 + Len(rest)
  BY <1>4, <1>6, <1>7, <1>10
<1>12. Len(lines) \in Nat /\ DOMAIN lines = 1..Len(lines)
  BY <1>6, LenProperties
<1> QED BY <1>4, <1>6, <1>7, <1>8, <1>9, <1>11, <1>12 DEF head, rest, T, text, pieces, lines

(* Of a message with a signed body, a client reads the owner d or none. *)
LEMMA OwnerOfMessage ==
  ASSUME NEW topic \in Seq(Inner \ {Newline}), NEW body \in Seq(Inner),
         NEW d \in Letter \ {Colon, Newline}, Signed(body, d)
  PROVE  ReadEvent(MessageBody(topic, body)).owner \in {<<>>, <<Blank, d>>}
<1> DEFINE text == MessageBody(topic, body)
           pieces == Pieces(text, Newline)
           rest == Pieces(body, Newline)
           lines == GetLines(text, Newline)
           head == MessageLines(topic)
           at == {i \in FieldsOf(lines) : KeyOf(lines[i]) = <<"user">>}
<1>1. /\ rest \in Seq(Seq(Inner \ {Newline})) /\ Len(rest) \in Nat \ {0}
      /\ Len(pieces) = 5 + Len(rest)
      /\ \A i \in 1..5 : pieces[i] = head[i]
      /\ \A i \in 1..Len(rest) : pieces[5 + i] = rest[i]
      /\ Len(lines) \in Nat /\ DOMAIN lines = 1..Len(lines)
      /\ Len(lines) = IF rest[Len(rest)] = <<>> THEN 4 + Len(rest) ELSE 5 + Len(rest)
      /\ \A i \in 1..Len(lines) : lines[i] = pieces[i]
  BY MessagePieces
<1>2. /\ ~Occurs(Colon, head[1]) /\ ~Occurs(Colon, head[5])
      /\ KeyOf(head[2]) = <<"message-id">> /\ KeyOf(head[3]) = <<"subscription">>
      /\ KeyOf(head[4]) = <<"destination">>
  BY MessageKeys
<1>3. \A i \in 1..Len(rest) : Signed(rest[i], d)
  <2>1. body \in Text
    <3>1. Inner \subseteq Letter
      BY InnerLetters
    <3> QED BY <3>1, SeqMonotonic DEF Text
  <2> QED BY <2>1, SignedPieces
<1>4. ReadEvent(text).owner = IF at = {} THEN <<>> ELSE ValueOf(lines[Max(at)])
  BY DEF ReadEvent, Field
<1>5. at \in SUBSET (1..Len(lines)) /\ \A i \in at : Occurs(Colon, lines[i]) /\ KeyOf(lines[i]) = <<"user">>
  BY <1>1 DEF FieldsOf
<1>6. at # {} => Max(at) \in at
  <2> HIDE DEF at, lines
  <2> QED BY <1>1, <1>5, MaxProperties
<1> HIDE DEF text, pieces, rest, lines, head, at
<1>7. ASSUME NEW i \in at PROVE ValueOf(lines[i]) = <<Blank, d>>
  <2>1. i \in 1..Len(lines) /\ Occurs(Colon, lines[i]) /\ KeyOf(lines[i]) = <<"user">>
    BY <1>5
  <2>2. CASE i \in 1..5
    <3>1. Occurs(Colon, head[i]) /\ KeyOf(head[i]) = <<"user">>
      BY <1>1, <2>1, <2>2
    <3>2. i = 1 \/ i = 2 \/ i = 3 \/ i = 4 \/ i = 5
      BY <2>2
    <3>3. /\ <<"message-id">> # <<"user">> /\ <<"subscription">> # <<"user">>
          /\ <<"destination">> # <<"user">>
      <4>1. /\ <<"message-id">>[1] # <<"user">>[1] /\ <<"subscription">>[1] # <<"user">>[1]
            /\ <<"destination">>[1] # <<"user">>[1]
        OBVIOUS
      <4> QED BY <4>1
    <3> QED BY <1>2, <3>1, <3>2, <3>3
  <2>3. CASE ~(i \in 1..5)
    <3> DEFINE j == i - 5
    <3>1. j \in 1..Len(rest) /\ i = 5 + j
      BY <1>1, <2>1, <2>3
    <3>2. lines[i] = rest[j]
      <4> HIDE DEF j
      <4> QED BY <1>1, <2>1, <3>1
    <3> HIDE DEF j
    <3>3. rest[j] \in Seq(Letter \ {Newline})
      <4>1. rest[j] \in Seq(Inner \ {Newline})
        BY <1>1, <3>1, ElementOfSeq
      <4>2. Inner \ {Newline} \subseteq Letter \ {Newline}
        BY InnerLetters
      <4> QED BY <4>1, <4>2, SeqMonotonic
    <3>4. Signed(rest[j], d)
      BY <1>3, <3>1
    <3>5. ValueOf(rest[j]) = <<Blank, d>>
      BY <2>1, <3>2, <3>3, <3>4, UserKey
    <3> QED BY <3>2, <3>5
  <2> QED BY <2>2, <2>3
<1> QED BY <1>4, <1>6, <1>7 DEF text

-----------------------------------------------------------------------------
(* The shape of a frame *)

(* A text without a command is malformed. *)
LEMMA CommandFree ==
  ASSUME NEW S, S \cap Commands = {}, NEW text \in Seq(S)
  PROVE  Parse(text) = Malformed
<1> SUFFICES ASSUME Parse(text) # Malformed PROVE FALSE
  OBVIOUS
<1> DEFINE lines == Split(text, Newline)
<1>1. PICK end \in Nat : ParsedUpTo(text, end)
  BY ParseValue
<1>2. lines # <<>> /\ Trim(lines[1]) \in {<<command>> : command \in Commands}
  BY <1>1 DEF ParsedUpTo
<1>3. lines \in Seq(Seq(S))
  BY SplitType
<1> HIDE DEF lines
<1>4. lines[1] \in Seq(S)
  <2>1. 1 \in 1..Len(lines)
    BY <1>2, <1>3, EmptySeq, LenProperties
  <2> QED BY <1>3, <2>1, ElementOfSeq
<1>5. Trim(lines[1]) \in Seq(S)
  BY <1>4, TrimType
<1>6. PICK command \in Commands : Trim(lines[1]) = <<command>>
  BY <1>2
<1>7. <<command>>[1] \in S
  <2>1. <<command>> \in Seq(S) /\ 1 \in 1..Len(<<command>>)
    BY <1>5, <1>6
  <2> HIDE DEF Commands
  <2> QED BY <2>1, ElementOfSeq
<1> QED BY <1>6, <1>7

(* A frame that ends in a null and has a command at most at its beginning *)
Whole(frame) ==
  /\ frame \in Text /\ Len(frame) > 0 /\ frame[Len(frame)] = Nul
  /\ \A j \in 2..Len(frame) : frame[j] \notin Commands

LEMMA FrameShape ==
  ASSUME NEW u \in User, NEW channel \in Seq(Payload), NEW event \in Event
  PROVE  Whole(SendText(<<u>>, channel, event))
<1> DEFINE N == Letter \ Commands
           T == Seq(N)
           a == <<"SEND">>
           dl == <<"destination", Colon, Slash>> \o channel
           r == <<dl, <<>> >>
           h == SendHead(channel)
           l == <<UserLine(u)>>
           e == EventLines(event)
           z == << <<>> >>
           frame == SendText(<<u>>, channel, event)
<1>1. /\ "destination" \in N /\ Colon \in N /\ Slash \in N /\ "user" \in N /\ Blank \in N
      /\ Newline \in N /\ Nul \in N /\ N \subseteq Letter /\ "SEND" \in Letter
  BY Letters DEF Commands, Colon, Slash, Blank, Newline, Nul
<1>2. dl \in T /\ <<>> \in T
  <2> DEFINE b == "destination"
  <2>1. b \in N
    BY <1>1
  <2>2. channel \in T
    <3>1. Payload \subseteq N
      BY Letters DEF Payload, Reserved
    <3> QED BY <3>1, SeqMonotonic
  <2> HIDE DEF N, b
  <2>3. <<b, Colon, Slash>> \in T /\ <<>> \in T
    BY <1>1, <2>1, Tuples
  <2> QED BY <2>2, <2>3, ConcatProperties DEF b
<1>3. UserLine(u) \in T
  <2> DEFINE b == "user"
  <2>1. u \in N
    <3>1. u \in Letter /\ u \notin Reserved
      BY UserAssumption, Letters
    <3> QED BY <3>1 DEF Reserved
  <2>2. b \in N
    BY <1>1
  <2> HIDE DEF N, b
  <2>3. <<b, Colon, Blank, u>> \in T
    BY <1>1, <2>1, <2>2, Tuples
  <2> QED BY <2>3 DEF UserLine, b
<1>4. e \in Seq(T)
  <2>1. e \in Seq(Seq(LineLetter))
    BY EventLinesType
  <2>2. Seq(LineLetter) \subseteq T
    <3>1. LineLetter \subseteq N
      BY DEF LineLetter, Reserved
    <3> QED BY <3>1, SeqMonotonic
  <2> HIDE DEF e, T
  <2> QED BY <2>1, <2>2, SeqMonotonic
<1>5. h = <<a>> \o r
  <2> DEFINE S == {a, dl, <<>>}
             c == <<>>
  <2>1. a \in S /\ dl \in S /\ c \in S
    OBVIOUS
  <2> HIDE DEF a, dl, c, S
  <2>2. <<a>> \o <<dl, c>> = <<a, dl, c>>
    BY <2>1, TupleConcat
  <2> QED BY <2>2 DEF SendHead, a, dl, c
<1>6. r \in Seq(T) /\ l \in Seq(T) /\ z \in Seq(T)
  <2> HIDE DEF dl, T
  <2> QED BY <1>2, <1>3
<1>7. frame = Append(Lines(h \o l \o e \o z), Nul)
  BY SendLines
<1>8. <<a>> \in Seq(Seq(Letter)) /\ a \in Seq(Letter)
  BY <1>1
<1>9. T \subseteq Seq(Letter)
  BY <1>1, SeqMonotonic
<1> DEFINE rest == r \o l \o e \o z
<1> HIDE DEF r, l, e, z, T, a, frame
<1>10. rest \in Seq(T) /\ r \o l \in Seq(T) /\ r \o l \o e \in Seq(T)
  BY <1>4, <1>6, ConcatProperties
<1>11. /\ r \in Seq(Seq(Letter)) /\ l \in Seq(Seq(Letter)) /\ e \in Seq(Seq(Letter))
       /\ z \in Seq(Seq(Letter)) /\ r \o l \in Seq(Seq(Letter)) /\ r \o l \o e \in Seq(Seq(Letter))
       /\ rest \in Seq(Seq(Letter))
  <2> HIDE DEF rest
  <2> QED BY <1>4, <1>6, <1>9, <1>10, SeqMonotonic
<1>12. h \o l \o e \o z = <<a>> \o rest
  <2> DEFINE Q == Seq(Seq(Letter))
             rl == r \o l
             rle == r \o l \o e
  <2>0. <<a>> \in Q /\ r \in Q /\ l \in Q /\ e \in Q /\ z \in Q /\ rl \in Q /\ rle \in Q
    BY <1>8, <1>11
  <2>1. (<<a>> \o r) \o l = <<a>> \o (r \o l)
    BY <2>0, ConcatAssociative
  <2>2. (<<a>> \o rl) \o e = <<a>> \o (rl \o e)
    <3> HIDE DEF rl
    <3> QED BY <2>0, ConcatAssociative
  <2>3. (<<a>> \o rle) \o z = <<a>> \o (rle \o z)
    <3> HIDE DEF rle
    <3> QED BY <2>0, ConcatAssociative
  <2> QED BY <1>5, <2>1, <2>2, <2>3
<1> HIDE DEF rest
<1>13. Lines(<<a>> \o rest) = Lines(<<a>>) \o Lines(rest)
  BY <1>1, <1>8, <1>11, LinesConcat
<1>14. Lines(<<a>>) = <<"SEND", Newline>>
  <2>1. <<>> \in Seq(Seq(Letter)) /\ Append(<<>>, a) = <<a>>
    OBVIOUS
  <2>2. Lines(Append(<<>>, a)) = Lines(<<>>) \o Append(a, Newline)
    BY <1>1, <1>8, <2>1, LinesAppend
  <2>3. Append(a, Newline) = <<"SEND", Newline>>
    <3> DEFINE w == "SEND"
    <3>1. w \in Letter /\ Newline \in Letter
      BY <1>1
    <3> HIDE DEF w
    <3>2. Append(<<w>>, Newline) = <<w, Newline>>
      BY <3>1, TupleAppend
    <3> QED BY <3>2 DEF a, w
  <2>4. <<"SEND", Newline>> \in Seq(Letter)
    BY <1>1
  <2>5. Lines(<<>>) \o <<"SEND", Newline>> = <<"SEND", Newline>>
    BY <2>4, LinesEmpty, ConcatEmptySeq
  <2> QED BY <2>1, <2>2, <2>3, <2>5
<1>15. Lines(rest) \in T
  BY <1>1, <1>10, LinesType DEF T
<1> DEFINE x == <<"SEND", Newline>>
           y == Lines(rest)
<1>16. frame = Append(x \o y, Nul)
  BY <1>7, <1>12, <1>13, <1>14
<1>17. x \in Text /\ Len(x) = 2 /\ x[2] = Newline
  BY <1>1 DEF Text
<1>18. y \in Text /\ \A i \in 1..Len(y) : y[i] \notin Commands
  <2> HIDE DEF y
  <2>1. y \in T
    BY <1>15 DEF y
  <2>2. \A i \in 1..Len(y) : y[i] \in N
    BY <2>1, ElementOfSeq DEF T
  <2> QED BY <1>9, <2>1, <2>2 DEF Text
<1> HIDE DEF x, y
<1>19. /\ x \o y \in Text /\ Len(x \o y) = 2 + Len(y) /\ Len(y) \in Nat
       /\ \A i \in 1..(2 + Len(y)) : (x \o y)[i] = IF i <= 2 THEN x[i] ELSE y[i - 2]
  <2>1. x \in Seq(Letter) /\ y \in Seq(Letter) /\ Len(x) = 2
    BY <1>17, <1>18 DEF Text
  <2>2. Len(y) \in Nat
    BY <2>1, LenProperties
  <2>3. /\ x \o y \in Seq(Letter) /\ Len(x \o y) = Len(x) + Len(y)
        /\ \A i \in 1..(Len(x) + Len(y)) :
             (x \o y)[i] = IF i <= Len(x) THEN x[i] ELSE y[i - Len(x)]
    BY <2>1, ConcatProperties
  <2> QED BY <2>1, <2>2, <2>3 DEF Text
<1> DEFINE m == 2 + Len(y)
<1>20. /\ frame \in Text /\ Len(frame) = m + 1 /\ frame[m + 1] = Nul
       /\ \A i \in 1..m : frame[i] = (x \o y)[i]
  BY <1>1, <1>16, <1>19, AppendProperties DEF Text
<1>21. ASSUME NEW j \in 2..Len(frame) PROVE frame[j] \notin Commands
  <2>1. CASE j = 2
    <3>1. frame[2] = Newline
      BY <1>17, <1>19, <1>20
    <3> QED BY <1>1, <2>1, <3>1
  <2>2. CASE j \in 3..m
    <3>1. j - 2 \in 1..Len(y) /\ j \in 1..(2 + Len(y)) /\ ~(j <= 2)
      BY <1>19, <2>2
    <3>2. frame[j] = y[j - 2]
      BY <1>19, <1>20, <3>1
    <3> QED BY <1>18, <3>1, <3>2
  <2>3. CASE j = m + 1
    BY <1>1, <1>20, <2>3
  <2> QED BY <1>19, <1>20, <2>1, <2>2, <2>3
<1> QED BY <1>19, <1>20, <1>21 DEF Whole, frame

(* What the decoder makes of such a frame *)
LEMMA WholeCharacters ==
  ASSUME NEW frame, Whole(frame)
  PROVE  Whole(Characters(frame)) /\ Characters(frame) \in Seq(DecodedLetter)
<1> DEFINE c == Characters(frame)
<1>1. frame \in Text /\ Len(frame) \in Nat
  BY LenProperties DEF Whole, Text
<1>2. c \in Text /\ Len(c) = Len(frame) /\ \A i \in 1..Len(frame) : c[i] = DecodedChar(frame[i])
  BY <1>1, CharactersType
<1> HIDE DEF c
<1>3. c[Len(c)] = Nul
  <2>1. Nul \in Word
    BY Letters
  <2>2. DecodedChar(Nul) = Nul
    BY <2>1, DecodedLetters
  <2>3. Len(frame) \in 1..Len(frame) /\ frame[Len(frame)] = Nul
    BY <1>1 DEF Whole
  <2> QED BY <1>2, <2>2, <2>3
<1>4. ASSUME NEW j \in 2..Len(c) PROVE c[j] \notin Commands
  <2>1. c[j] = DecodedChar(frame[j]) /\ frame[j] \notin Commands
    BY <1>1, <1>2 DEF Whole
  <2>2. Garbage \notin Commands
    BY DEF Garbage, Commands
  <2> QED BY <2>1, <2>2, DecodedLetters
<1>5. c \in Seq(DecodedLetter)
  <2>1. \A i \in 1..Len(c) : c[i] \in DecodedLetter
    <3> TAKE i \in 1..Len(c)
    <3>1. frame[i] \in Letter
      BY <1>1, <1>2, ElementOfSeq DEF Text
    <3> QED BY <1>2, <3>1, DecodedLetters DEF DecodedLetter
  <2>2. c \in Seq(Letter)
    BY <1>2 DEF Text
  <2>3. Len(c) \in Nat /\ c \in [1..Len(c) -> Letter]
    BY <2>2, LenProperties
  <2>4. c \in [1..Len(c) -> DecodedLetter]
    BY <2>1, <2>3
  <2> QED BY <2>3, <2>4
<1> QED BY <1>1, <1>2, <1>3, <1>4, <1>5 DEF Whole, c

-----------------------------------------------------------------------------
(* The copies of a user's frame *)

(* What the name of a user is for the receiver *)
LEMMA OwnName ==
  ASSUME NEW u \in User
  PROVE  ReceivedValue(<<u>>) = <<Blank, DecodedChar(u)>>
<1>1. u \in Letter /\ u # Colon /\ DecodedChar(u) \in Letter
  BY NameLetters, InnerLetters
<1>2. <<u>> \in Seq(Letter) /\ Len(<<u>>) = 1 /\ <<u>>[1] = u
  BY <1>1
<1>3. FirstColon(<<u>>) = 0
  <2> DEFINE line == <<u>>
  <2>1. line \in Seq(Letter) /\ Len(line) = 1 /\ line[1] # Colon
    BY <1>1, <1>2
  <2> HIDE DEF line
  <2>2. FirstColon(line) \in 0..Len(line) /\ (FirstColon(line) # 0 => line[FirstColon(line)] = Colon)
    BY <2>1, FirstColonValue
  <2>3. FirstColon(line) = 0 \/ FirstColon(line) = 1
    BY <2>1, <2>2
  <2>4. FirstColon(line) = 0
    BY <2>1, <2>2, <2>3
  <2> QED BY <2>4 DEF line
<1>4. ReceivedValue(<<u>>) = <<Blank>> \o Characters(<<u>>)
  BY <1>3 DEF ReceivedValue, FirstColon
<1>5. Characters(<<u>>) = <<DecodedChar(u)>>
  BY <1>2 DEF Characters
<1>6. <<Blank>> \o <<DecodedChar(u)>> = <<Blank, DecodedChar(u)>>
  <2> DEFINE d == DecodedChar(u)
  <2>1. Blank \in Letter /\ d \in Letter
    BY <1>1, Letters
  <2> HIDE DEF d
  <2>2. <<Blank>> \o <<d>> = <<Blank, d>>
    BY <2>1, TupleConcat
  <2> QED BY <2>2 DEF d
<1> QED BY <1>4, <1>5, <1>6

LEMMA UnslashedType ==
  ASSUME NEW S, NEW topic \in Seq(S)
  PROVE  Unslashed(topic) \in Seq(S)
<1>1. CASE topic = <<>> \/ topic[1] # Slash
  BY <1>1 DEF Unslashed
<1>2. CASE topic # <<>>
  <2>1. Tail(topic) \in Seq(S)
    BY <1>2, HeadTailProperties
  <2> QED BY <2>1 DEF Unslashed
<1> QED BY <1>1, <1>2

(* The owner of a copy of a text that is signed by a user is that user, if  *)
(* it has one.                                                              *)
OwnedCopy(copy, u) ==
  \E m \in Seq(Inner) :
    copy = Append(m, Nul) /\ ReadEvent(m).owner \in {<<>>, ReceivedValue(<<u>>)}

LEMMA OwnerOfCopy ==
  ASSUME NEW u \in User, NEW text \in Seq(Inner), Signed(text, DecodedChar(u)),
         Copies(Parse(text)) # <<>>
  PROVE  OwnedCopy(Copies(Parse(text)), u)
<1> DEFINE d == DecodedChar(u)
           frame == Parse(text)
           topic == Unslashed(frame.headers[Destination])
<1>1. PICK end \in Nat :
        /\ ParsedUpTo(text, end)
        /\ frame.command = "SEND" /\ Destination \in DOMAIN frame.headers
        /\ frame.headers[Destination] \in Seq(Inner)
        /\ topic \in Seq(Inner) /\ frame.body \in Seq(Inner) /\ topic \in Topics
        /\ Copies(frame) = Append(MessageBody(topic, frame.body), Nul)
  BY CopiesValue
<1>2. d \in Inner /\ d \notin White /\ d \in Letter \ {Colon, Newline}
  BY NameLetters, InnerLetters
<1>3. topic \in Seq(Inner \ {Newline})
  <2>1. Newline \in Inner
    BY InnerLetters
  <2>2. Destination \in DOMAIN Parse(text).headers /\ ParsedUpTo(text, end)
    BY <1>1
  <2>3. Parse(text).headers[Destination] \in Seq(Inner \ {Newline})
    <3> HIDE DEF frame
    <3> QED BY <2>1, <2>2, ParsedHeader
  <2> QED BY <2>3, UnslashedType
<1>4. text \in Text
  BY InnerLetters, SeqMonotonic DEF Text
<1>5. Signed(Parse(text).body, d)
  <2>1. ParsedUpTo(text, end)
    BY <1>1
  <2> HIDE DEF d
  <2>2. Signed(text, d)
    BY DEF d
  <2> QED BY <1>2, <1>4, <2>1, <2>2, ParsedBody
<1>6. ReadEvent(MessageBody(topic, frame.body)).owner \in {<<>>, <<Blank, d>>}
  <2>1. frame.body \in Seq(Inner) /\ Signed(frame.body, d)
    BY <1>1, <1>5
  <2> HIDE DEF topic, frame, d
  <2> QED BY <1>2, <1>3, <2>1, OwnerOfMessage
<1>7. MessageBody(topic, frame.body) \in Seq(Inner)
  <2>1. topic \in Seq(Inner) /\ frame.body \in Seq(Inner)
    BY <1>1
  <2> HIDE DEF topic, frame
  <2> QED BY <2>1, MessageType
<1>8. ReceivedValue(<<u>>) = <<Blank, d>>
  BY OwnName
<1>9. Copies(frame) = Append(MessageBody(topic, frame.body), Nul)
  BY <1>1
<1> HIDE DEF topic, frame, d
<1>10. OwnedCopy(Copies(frame), u)
  BY <1>6, <1>7, <1>8, <1>9 DEF OwnedCopy
<1> QED BY <1>10 DEF frame

-----------------------------------------------------------------------------
(* Flattened sequences, from the first *)

(* The events of the frames before the n-th and from it on *)
LEMMA FlattenCut ==
  ASSUME NEW S, NEW seqs \in Seq(Seq(S)), NEW n \in 1..(Len(seqs) + 1)
  PROVE  /\ FlattenSeq(SubSeq(seqs, 1, n - 1)) \in Seq(S)
         /\ FlattenSeq(SubSeq(seqs, n, Len(seqs))) \in Seq(S)
         /\ FlattenSeq(seqs) =
              FlattenSeq(SubSeq(seqs, 1, n - 1)) \o FlattenSeq(SubSeq(seqs, n, Len(seqs)))
<1> DEFINE k == n - 1
           a == SubSeq(seqs, 1, k)
           b == SubSeq(seqs, k + 1, Len(seqs))
<1>1. Len(seqs) \in Nat
  BY LenProperties
<1>2. k \in 0..Len(seqs) /\ k \in Int /\ k <= Len(seqs) /\ k + 1 = n /\ n \in Nat \ {0}
      /\ Len(seqs) \in Int
  BY <1>1
<1>3. a \in Seq(Seq(S)) /\ b \in Seq(Seq(S))
  <2> HIDE DEF k
  <2>1. k + 1 \in Nat \ {0}
    BY <1>2
  <2> QED BY <1>2, <2>1, PartType
<1>4. a \o b = seqs
  <2> HIDE DEF k
  <2> QED BY <1>2, CutAt
<1> HIDE DEF a, b
<1>5. FlattenSeq(a \o b) = FlattenSeq(a) \o FlattenSeq(b)
  BY <1>3, FlattenConcat
<1>6. FlattenSeq(a) \in Seq(S) /\ FlattenSeq(b) \in Seq(S)
  BY <1>3, FlattenType
<1>7. FlattenSeq(seqs) = FlattenSeq(a) \o FlattenSeq(b)
  BY <1>4, <1>5
<1> QED BY <1>2, <1>6, <1>7 DEF a, b

LEMMA FlattenFirst ==
  ASSUME NEW S, NEW seqs \in Seq(Seq(S)), seqs # <<>>
  PROVE  /\ 1 \in 1..Len(seqs) /\ 2 \in 1..(Len(seqs) + 1) /\ seqs[1] \in Seq(S)
         /\ FlattenSeq(SubSeq(seqs, 2, Len(seqs))) \in Seq(S)
         /\ FlattenSeq(seqs) = seqs[1] \o FlattenSeq(SubSeq(seqs, 2, Len(seqs)))
<1>1. Len(seqs) \in Nat /\ Len(seqs) # 0
  BY EmptySeq, LenProperties
<1>2. 2 \in 1..(Len(seqs) + 1) /\ 2 - 1 = 1 /\ 1 \in 1..Len(seqs)
  BY <1>1
<1>3. /\ FlattenSeq(SubSeq(seqs, 2, Len(seqs))) \in Seq(S)
      /\ FlattenSeq(seqs) = FlattenSeq(SubSeq(seqs, 1, 2 - 1)) \o FlattenSeq(SubSeq(seqs, 2, Len(seqs)))
  BY <1>2, FlattenCut
<1>4. seqs[1] \in Seq(S)
  BY <1>2, ElementOfSeq
<1>5. SubSeq(seqs, 1, 1) = <<seqs[1]>>
  <2> DEFINE s == SubSeq(seqs, 1, 1)
             e == seqs[1]
  <2>1. /\ s \in Seq(Seq(S)) /\ Len(s) = IF 1 <= 1 THEN 1 - 1 + 1 ELSE 0
        /\ \A i \in 1..(1 - 1 + 1) : s[i] = seqs[1 + i - 1]
    BY <1>1, PartType
  <2> HIDE DEF s
  <2>2. Len(s) = 1 /\ s[1] = e
    BY <2>1
  <2>3. <<e>> \in Seq(Seq(S)) /\ Len(<<e>>) = 1 /\ <<e>>[1] = e
    BY <1>4
  <2>4. s = <<e>>
    <3> HIDE DEF e
    <3> DEFINE t == <<e>>
    <3>1. t \in Seq(Seq(S)) /\ Len(t) = 1 /\ t[1] = e
      BY <2>3
    <3> HIDE DEF t
    <3>2. Len(s) = Len(t) /\ \A i \in 1..Len(s) : s[i] = t[i]
      BY <2>2, <3>1
    <3>3. s = t
      BY <2>1, <3>1, <3>2, SeqEqual
    <3> QED BY <3>3 DEF t
  <2> QED BY <2>4 DEF s
<1>6. FlattenSeq(<<seqs[1]>>) = seqs[1]
  BY <1>4, FlattenOne
<1> QED BY <1>2, <1>3, <1>4, <1>5, <1>6

-----------------------------------------------------------------------------
(* Characters of lines *)

(* What the decoder makes of lines *)
DecodedLines(lines) == [i \in DOMAIN lines |-> Characters(lines[i])]

LEMMA DecodedLinesType ==
  ASSUME NEW lines \in Seq(Text)
  PROVE  /\ DecodedLines(lines) \in Seq(Text) /\ Len(DecodedLines(lines)) = Len(lines)
         /\ \A i \in 1..Len(lines) : DecodedLines(lines)[i] = Characters(lines[i])
<1> DEFINE T == Text
           n == Len(lines)
           d == DecodedLines(lines)
<1>1. n \in Nat /\ DOMAIN lines = 1..n
  BY LenProperties
<1>2. \A i \in 1..n : Characters(lines[i]) \in T
  BY ElementOfSeq, CharactersType
<1>3. d = [i \in 1..n |-> Characters(lines[i])]
  BY <1>1 DEF DecodedLines
<1> HIDE DEF T, n, d
<1>4. d \in [1..n -> T] /\ \A i \in 1..n : d[i] = Characters(lines[i])
  BY <1>2, <1>3
<1>5. d \in Seq(T) /\ Len(d) = n
  BY <1>1, <1>4
<1> QED BY <1>4, <1>5 DEF T, n, d

LEMMA CharactersOne ==
  ASSUME NEW ch \in Letter
  PROVE  Characters(<<ch>>) = <<DecodedChar(ch)>> /\ Characters(<<>>) = <<>>
<1>1. <<ch>> \in Text /\ <<>> \in Text /\ Len(<<ch>>) = 1 /\ Len(<<>>) = 0 /\ <<ch>>[1] = ch
  BY Tuples DEF Text
<1>2. /\ Characters(<<ch>>) \in Text /\ Len(Characters(<<ch>>)) = 1
      /\ \A i \in 1..1 : Characters(<<ch>>)[i] = DecodedChar(<<ch>>[i])
  BY <1>1, CharactersType
<1>3. Characters(<<>>) \in Text /\ Len(Characters(<<>>)) = 0
  BY <1>1, CharactersType
<1>4. Characters(<<>>) = <<>>
  BY <1>3, EmptySeq DEF Text
<1>5. Characters(<<ch>>)[1] = DecodedChar(ch)
  BY <1>1, <1>2
<1> DEFINE c == Characters(<<ch>>)
<1> HIDE DEF c
<1>6. c \in Seq(Letter) /\ Len(c) = 1 /\ c[1] = DecodedChar(ch)
  BY <1>2, <1>5 DEF c, Text
<1>7. c = <<DecodedChar(ch)>>
  BY <1>6
<1> QED BY <1>4, <1>7 DEF c

LEMMA CharactersAppend ==
  ASSUME NEW s \in Text, NEW ch \in Letter
  PROVE  Characters(Append(s, ch)) = Append(Characters(s), DecodedChar(ch))
<1>1. <<ch>> \in Text /\ s \in Seq(Letter) /\ <<ch>> \in Seq(Letter)
  BY Tuples DEF Text
<1>2. Append(s, ch) = s \o <<ch>>
  BY <1>1, AppendIsConcat
<1>3. Characters(s \o <<ch>>) = Characters(s) \o Characters(<<ch>>)
  BY <1>1, CharactersConcat
<1>4. Characters(s) \in Seq(Letter) /\ DecodedChar(ch) \in Letter
  BY CharactersType, DecodedLetters DEF Text
<1>5. Append(Characters(s), DecodedChar(ch)) = Characters(s) \o <<DecodedChar(ch)>>
  BY <1>4, AppendIsConcat
<1>6. Characters(<<ch>>) = <<DecodedChar(ch)>>
  BY CharactersOne
<1> QED BY <1>2, <1>3, <1>5, <1>6

LEMMA DecodedLinesAppend ==
  ASSUME NEW lines \in Seq(Text), NEW line \in Text
  PROVE  DecodedLines(Append(lines, line)) = Append(DecodedLines(lines), Characters(line))
<1> DEFINE T == Text
           n == Len(lines)
           a == Append(lines, line)
           d == DecodedLines(lines)
           e == DecodedLines(a)
           f == Append(d, Characters(line))
<1>1. /\ d \in Seq(T) /\ Len(d) = n /\ \A i \in 1..n : d[i] = Characters(lines[i])
  BY DecodedLinesType
<1>2. Characters(line) \in T /\ n \in Nat
  BY CharactersType, LenProperties
<1>3. /\ a \in Seq(T) /\ Len(a) = n + 1 /\ \A i \in 1..n : a[i] = lines[i]
      /\ a[n + 1] = line
  BY AppendProperties, LenProperties
<1>4. /\ e \in Seq(T) /\ Len(e) = n + 1 /\ \A i \in 1..(n + 1) : e[i] = Characters(a[i])
  <2> HIDE DEF a
  <2> QED BY <1>3, DecodedLinesType
<1>5. /\ f \in Seq(T) /\ Len(f) = n + 1 /\ \A i \in 1..n : f[i] = d[i]
      /\ f[n + 1] = Characters(line)
  <2> HIDE DEF d, n, T
  <2> QED BY <1>1, <1>2, AppendProperties, LenProperties
<1> HIDE DEF a, d, e, f, n, T
<1>6. ASSUME NEW i \in 1..(n + 1) PROVE e[i] = f[i]
  <2>1. CASE i = n + 1
    BY <1>3, <1>4, <1>5, <2>1
  <2>2. CASE i \in 1..n
    BY <1>1, <1>3, <1>4, <1>5, <2>2
  <2> QED BY <1>2, <2>1, <2>2
<1>7. e = f
  BY <1>4, <1>5, <1>6, SeqEqual
<1> QED BY <1>7 DEF a, d, e, f

LEMMA CharactersFlatten ==
  ASSUME NEW lines \in Seq(Text)
  PROVE  Characters(FlattenSeq(lines)) = FlattenSeq(DecodedLines(lines))
<1> DEFINE P == {s \in Seq(Text) : Characters(FlattenSeq(s)) = FlattenSeq(DecodedLines(s))}
<1>1. <<>> \in P
  <2>1. <<>> \in Seq(Text) /\ Len(<<>>) = 0
    BY EmptySeq
  <2>2. DecodedLines(<<>>) \in Seq(Text) /\ Len(DecodedLines(<<>>)) = 0
    BY <2>1, DecodedLinesType
  <2>3. DecodedLines(<<>>) = <<>>
    BY <2>2, EmptySeq
  <2>4. Characters(<<>>) = <<>>
    BY Letters, CharactersOne
  <2> QED BY <2>1, <2>3, <2>4, FlattenEmpty
<1>2. ASSUME NEW s \in P, NEW e \in Text PROVE Append(s, e) \in P
  <2>1. s \in Seq(Text) /\ Characters(FlattenSeq(s)) = FlattenSeq(DecodedLines(s))
    OBVIOUS
  <2>2. Append(s, e) \in Seq(Text)
    BY <2>1, AppendProperties
  <2>3. FlattenSeq(Append(s, e)) = FlattenSeq(s) \o e /\ FlattenSeq(s) \in Text
    BY <2>1, FlattenAppend, FlattenType DEF Text
  <2>4. Characters(FlattenSeq(s) \o e) = Characters(FlattenSeq(s)) \o Characters(e)
    BY <2>3, CharactersConcat
  <2>5. DecodedLines(Append(s, e)) = Append(DecodedLines(s), Characters(e))
    BY <2>1, DecodedLinesAppend
  <2>6. DecodedLines(s) \in Seq(Text) /\ Characters(e) \in Text
    BY <2>1, DecodedLinesType, CharactersType
  <2>7. FlattenSeq(Append(DecodedLines(s), Characters(e)))
          = FlattenSeq(DecodedLines(s)) \o Characters(e)
    BY <2>6, FlattenAppend DEF Text
  <2> QED BY <2>1, <2>2, <2>3, <2>4, <2>5, <2>7
<1>3. P = Seq(Text)
  <2>1. P \in SUBSET Seq(Text)
    OBVIOUS
  <2> HIDE DEF P
  <2> QED BY <1>1, <1>2, <2>1, Sequences
<1> QED BY <1>3

LEMMA DecodedLinesConcat ==
  ASSUME NEW a \in Seq(Text), NEW b \in Seq(Text)
  PROVE  DecodedLines(a \o b) = DecodedLines(a) \o DecodedLines(b)
<1> DEFINE T == Text
           ab == a \o b
           d == DecodedLines(a)
           e == DecodedLines(b)
           l == DecodedLines(ab)
           r == d \o e
           m == Len(a)
           n == Len(b)
<1>1. d \in Seq(T) /\ Len(d) = m /\ \A i \in 1..m : d[i] = Characters(a[i])
  BY DecodedLinesType
<1>2. e \in Seq(T) /\ Len(e) = n /\ \A i \in 1..n : e[i] = Characters(b[i])
  BY DecodedLinesType
<1>3. m \in Nat /\ n \in Nat
  BY LenProperties
<1>4. /\ ab \in Seq(T) /\ Len(ab) = m + n
      /\ \A i \in 1..(m + n) : ab[i] = IF i <= m THEN a[i] ELSE b[i - m]
  BY ConcatProperties
<1>5. l \in Seq(T) /\ Len(l) = m + n /\ \A i \in 1..(m + n) : l[i] = Characters(ab[i])
  <2> HIDE DEF ab
  <2> QED BY <1>4, DecodedLinesType
<1> HIDE DEF d, e, T, ab, l, m, n
<1>6. /\ r \in Seq(T) /\ Len(r) = m + n
      /\ \A i \in 1..(m + n) : r[i] = IF i <= m THEN d[i] ELSE e[i - m]
  BY <1>1, <1>2, ConcatProperties
<1> HIDE DEF r
<1>7. ASSUME NEW i \in 1..(m + n) PROVE l[i] = r[i]
  <2>1. CASE i <= m
    <3>1. i \in 1..m
      BY <1>3, <2>1
    <3> QED BY <1>1, <1>4, <1>5, <1>6, <2>1, <3>1
  <2>2. CASE ~(i <= m)
    <3>1. i - m \in 1..n
      BY <1>3, <2>2
    <3> QED BY <1>2, <1>4, <1>5, <1>6, <2>2, <3>1
  <2> QED BY <2>1, <2>2
<1>8. l = r
  BY <1>5, <1>6, <1>7, SeqEqual
<1> QED BY <1>8 DEF l, r, d, e, ab

(* The lines of a text are decoded one by one. *)
LEMMA CharactersLines ==
  ASSUME NEW lines \in Seq(Text)
  PROVE  /\ Lines(lines) \in Text /\ DecodedLines(lines) \in Seq(Text)
         /\ Characters(Lines(lines)) = Lines(DecodedLines(lines))
<1> DEFINE T == Text
           n == Len(lines)
           d == DecodedLines(lines)
           l == EndEach(lines, Newline)
           r == EndEach(d, Newline)
           m == DecodedLines(l)
<1>1. Newline \in Letter /\ DecodedChar(Newline) = Newline
  BY Letters, DecodedLetters
<1>2. d \in Seq(T) /\ Len(d) = n /\ \A i \in 1..n : d[i] = Characters(lines[i])
  BY DecodedLinesType
<1>3. Lines(lines) \in Text /\ Lines(lines) = FlattenSeq(l)
  BY <1>1, LinesType DEF Text
<1>4. Lines(d) = FlattenSeq(r)
  <2> HIDE DEF d
  <2> QED BY <1>1, <1>2, LinesType DEF Text, T
<1>5. l \in Seq(T) /\ Len(l) = n /\ \A i \in 1..n : l[i] = Append(lines[i], Newline)
  BY <1>1, EndEachType DEF Text
<1>6. r \in Seq(T) /\ Len(r) = n /\ \A i \in 1..n : r[i] = Append(d[i], Newline)
  <2> HIDE DEF d
  <2> QED BY <1>1, <1>2, EndEachType DEF Text, T
<1>7. m \in Seq(T) /\ Len(m) = n /\ \A i \in 1..n : m[i] = Characters(l[i])
  <2> HIDE DEF l
  <2> QED BY <1>5, DecodedLinesType
<1>8. Characters(FlattenSeq(l)) = FlattenSeq(m)
  <2> HIDE DEF l
  <2> QED BY <1>5, CharactersFlatten
<1>9. ASSUME NEW i \in 1..n PROVE m[i] = r[i]
  <2>1. lines[i] \in Text
    BY ElementOfSeq
  <2>2. Characters(Append(lines[i], Newline)) = Append(Characters(lines[i]), Newline)
    BY <1>1, <2>1, CharactersAppend
  <2> HIDE DEF m, r, l, d
  <2> QED BY <1>2, <1>5, <1>6, <1>7, <2>2
<1>10. m = r
  <2> HIDE DEF m, r, n
  <2> QED BY <1>6, <1>7, <1>9, SeqEqual
<1> QED BY <1>2, <1>3, <1>4, <1>8, <1>10

-----------------------------------------------------------------------------
(* trim of lines *)

(* Trim from what it leaves *)
LEMMA TrimIs ==
  ASSUME NEW S, NEW text \in Seq(S), NEW m \in 1..Len(text), NEW n \in 1..Len(text), m <= n,
         text[m] \notin White, text[n] \notin White,
         \A i \in 1..(m - 1) : text[i] \in White,
         \A i \in (n + 1)..Len(text) : text[i] \in White
  PROVE  Trim(text) = SubSeq(text, m, n)
<1> DEFINE l == Len(text)
<1>1. l \in Nat /\ m \in 1..l /\ n \in 1..l
  BY LenProperties
<1>2. ~(\A i \in 1..l : text[i] \in White)
  BY <1>1
<1>3. PICK p \in 1..l, q \in 1..l :
        /\ p <= q /\ text[p] \notin White /\ text[q] \notin White
        /\ \A i \in 1..(p - 1) : text[i] \in White
        /\ \A i \in (q + 1)..l : text[i] \in White
        /\ Trim(text) = SubSeq(text, p, q)
  BY <1>2, TrimValue
<1> HIDE DEF l
<1>4. p = m
  <2>1. ~(p < m)
    <3>1. p < m => p \in 1..(m - 1)
      BY <1>1
    <3> QED BY <1>3, <3>1
  <2>2. ~(m < p)
    <3>1. m < p => m \in 1..(p - 1)
      BY <1>1
    <3> QED BY <1>3, <3>1
  <2> QED BY <1>1, <2>1, <2>2
<1>5. q = n
  <2>1. ~(n < q)
    <3>1. n < q => q \in (n + 1)..l
      BY <1>1
    <3> QED BY <1>3, <3>1 DEF l
  <2>2. ~(q < n)
    <3>1. q < n => n \in (q + 1)..l
      BY <1>1
    <3> QED BY <1>3, <3>1
  <2> QED BY <1>1, <2>1, <2>2
<1> QED BY <1>3, <1>4, <1>5

LEMMA TrimWhite ==
  ASSUME NEW S, NEW text \in Seq(S), \A i \in 1..Len(text) : text[i] \in White
  PROVE  Trim(text) = <<>>
<1>1. ~(\E m \in 1..Len(text), n \in 1..Len(text) : text[m] \notin White)
  OBVIOUS
<1> QED BY <1>1, TrimValue

(* White space at the end makes no difference. *)
LEMMA TrimEnd ==
  ASSUME NEW S, White \subseteq S, NEW s \in Seq(S), NEW w \in Seq(White)
  PROVE  Trim(s \o w) = Trim(s)
<1> DEFINE l == Len(s)
           k == Len(w)
           x == s \o w
<1>1. w \in Seq(S)
  BY SeqMonotonic
<1>2. l \in Nat /\ k \in Nat
  BY <1>1, LenProperties
<1>3. /\ x \in Seq(S) /\ Len(x) = l + k
      /\ \A i \in 1..(l + k) : x[i] = IF i <= l THEN s[i] ELSE w[i - l]
  BY <1>1, ConcatProperties
<1>4. \A i \in 1..k : w[i] \in White
  BY ElementOfSeq
<1> HIDE DEF x, l, k
<1>5. \A i \in 1..l : x[i] = s[i] /\ i \in 1..(l + k)
  BY <1>2, <1>3
<1>6. \A i \in (l + 1)..(l + k) : x[i] \in White
  <2>1. ASSUME NEW i \in (l + 1)..(l + k) PROVE x[i] \in White
    <3>1. i - l \in 1..k /\ ~(i <= l) /\ i \in 1..(l + k)
      BY <1>2
    <3> QED BY <1>3, <1>4, <3>1
  <2> QED BY <2>1
<1>7. CASE \A i \in 1..l : s[i] \in White
  <2>1. \A i \in 1..Len(x) : x[i] \in White
    <3>1. ASSUME NEW i \in 1..(l + k) PROVE x[i] \in White
      <4>1. i \in 1..l \/ i \in (l + 1)..(l + k)
        BY <1>2
      <4> QED BY <1>5, <1>6, <1>7, <4>1
    <3> QED BY <1>3, <3>1
  <2>2. Trim(x) = <<>>
    BY <1>3, <2>1, TrimWhite
  <2>3. Trim(s) = <<>>
    BY <1>7, TrimWhite DEF l
  <2> QED BY <2>2, <2>3 DEF x
<1>8. CASE ~(\A i \in 1..l : s[i] \in White)
  <2>1. PICK m \in 1..l, n \in 1..l :
          /\ m <= n /\ s[m] \notin White /\ s[n] \notin White
          /\ \A i \in 1..(m - 1) : s[i] \in White
          /\ \A i \in (n + 1)..l : s[i] \in White
          /\ Trim(s) = SubSeq(s, m, n)
    BY <1>8, TrimValue DEF l
  <2>2. m \in 1..Len(x) /\ n \in 1..Len(x) /\ m \in Nat \ {0} /\ n \in Int /\ n <= l
    BY <1>2, <1>3
  <2>3. x[m] \notin White /\ x[n] \notin White
    BY <1>5, <2>1
  <2>4. \A i \in 1..(m - 1) : x[i] \in White
    <3>1. \A i \in 1..(m - 1) : i \in 1..l
      BY <1>2
    <3> QED BY <1>5, <2>1, <3>1
  <2>5. \A i \in (n + 1)..Len(x) : x[i] \in White
    <3>1. ASSUME NEW i \in (n + 1)..(l + k) PROVE x[i] \in White
      <4>1. (i \in 1..l /\ i \in (n + 1)..l) \/ i \in (l + 1)..(l + k)
        BY <1>2
      <4> QED BY <1>5, <1>6, <2>1, <4>1
    <3> QED BY <1>3, <3>1
  <2>6. Trim(x) = SubSeq(x, m, n)
    BY <1>3, <2>1, <2>2, <2>3, <2>4, <2>5, TrimIs
  <2>7. /\ SubSeq(x, m, n) \in Seq(S) /\ Len(SubSeq(x, m, n)) = n - m + 1
        /\ \A i \in 1..(n - m + 1) : SubSeq(x, m, n)[i] = x[m + i - 1]
    <3>1. n <= Len(x)
      BY <2>2
    <3> QED BY <1>3, <2>1, <2>2, <3>1, PartType
  <2>8. /\ SubSeq(s, m, n) \in Seq(S) /\ Len(SubSeq(s, m, n)) = n - m + 1
        /\ \A i \in 1..(n - m + 1) : SubSeq(s, m, n)[i] = s[m + i - 1]
    BY <2>1, <2>2, PartType DEF l
  <2>9. \A i \in 1..(n - m + 1) : x[m + i - 1] = s[m + i - 1]
    <3>1. ASSUME NEW i \in 1..(n - m + 1) PROVE m + i - 1 \in 1..l
      BY <1>2, <2>1
    <3> QED BY <1>5, <3>1
  <2> DEFINE y == SubSeq(x, m, n)
             z == SubSeq(s, m, n)
  <2>10. \A i \in 1..Len(y) : y[i] = z[i]
    BY <2>7, <2>8, <2>9
  <2>11. y = z
    <3> HIDE DEF y, z
    <3>1. y \in Seq(S) /\ z \in Seq(S) /\ Len(y) = Len(z)
      BY <2>7, <2>8 DEF y, z
    <3> QED BY <2>10, <3>1, SeqEqual
  <2> QED BY <2>1, <2>6, <2>11 DEF x
<1> QED BY <1>7, <1>8

(* Without white space at an end there is nothing to trim. *)
LEMMA TrimBlack ==
  ASSUME NEW S, NEW s \in Seq(S), s # <<>>, s[1] \notin White, s[Len(s)] \notin White
  PROVE  Trim(s) = s
<1> DEFINE l == Len(s)
<1>1. l \in Nat \ {0}
  BY EmptySeq, LenProperties
<1>2. 1 \in 1..l /\ l \in 1..l /\ 1 <= l
  BY <1>1
<1>3. \A i \in 1..(1 - 1) : s[i] \in White
  OBVIOUS
<1>4. \A i \in (l + 1)..l : s[i] \in White
  <2> HIDE DEF l
  <2> QED BY <1>1
<1>5. Trim(s) = SubSeq(s, 1, l)
  BY <1>2, <1>3, <1>4, TrimIs
<1>6. SubSeq(s, 1, l) = s
  <2> DEFINE y == SubSeq(s, 1, l)
  <2>1. 1 \in Nat \ {0} /\ l \in Int /\ l <= Len(s)
    BY <1>1
  <2>2. /\ y \in Seq(S) /\ Len(y) = IF 1 <= l THEN l - 1 + 1 ELSE 0
        /\ \A i \in 1..(l - 1 + 1) : y[i] = s[1 + i - 1]
    <3> HIDE DEF l
    <3> QED BY <2>1, PartType
  <2>3. Len(y) = Len(s) /\ \A i \in 1..Len(y) : y[i] = s[i]
    <3> HIDE DEF y
    <3>1. Len(y) = l - 1 + 1
      BY <1>2, <2>2
    <3>2. Len(y) = l
      <4> HIDE DEF l
      <4> QED BY <1>1, <3>1
    <3>3. \A i \in 1..l : y[i] = s[i]
      <4> HIDE DEF l
      <4>1. \A i \in 1..l : i \in 1..(l - 1 + 1) /\ 1 + i - 1 = i
        BY <1>1
      <4> QED BY <2>2, <4>1
    <3> QED BY <3>2, <3>3
  <2> HIDE DEF y
  <2>4. y = s
    BY <2>2, <2>3, SeqEqual
  <2> QED BY <2>4 DEF y
<1> QED BY <1>5, <1>6

-----------------------------------------------------------------------------
(* The headers of an event's frame *)

(* A frame of a command, one header and a body *)
LEMMA HeaderOfOne ==
  ASSUME NEW T, NEW line \in T
  PROVE  Headers(<<line>>) = [key \in {HeaderKey(line)} |-> HeaderValue(line)]
<1> DEFINE s == <<line>>
<1>1. DOMAIN s = 1..1 /\ s[1] = line
  OBVIOUS
<1>2. {HeaderKey(s[i]) : i \in DOMAIN s} = {HeaderKey(line)}
  <2> HIDE DEF s
  <2> QED BY <1>1
<1>3. ASSUME NEW key \in {HeaderKey(line)}
      PROVE  HeaderValue(s[Max({i \in DOMAIN s : HeaderKey(s[i]) = key})]) = HeaderValue(line)
  <2> DEFINE I == {i \in DOMAIN s : HeaderKey(s[i]) = key}
  <2>1. I = {1}
    <3>1. HeaderKey(s[1]) = key /\ 1 \in DOMAIN s /\ \A i \in DOMAIN s : i = 1
      BY <1>1
    <3> HIDE DEF s
    <3> QED BY <3>1
  <2>2. Max(I) = 1
    <3>1. I \in SUBSET (1..1) /\ I # {} /\ 1 \in Nat
      BY <2>1
    <3> HIDE DEF I
    <3>2. Max(I) \in I
      BY <3>1, MaxProperties
    <3> QED BY <2>1, <3>2
  <2> HIDE DEF s
  <2> QED BY <1>1, <2>2
<1> HIDE DEF s
<1>4. Headers(s) = [key \in {HeaderKey(line)} |-> HeaderValue(line)]
  BY <1>2, <1>3 DEF Headers
<1> QED BY <1>4 DEF s

LEMMA ParseOf ==
  ASSUME NEW S, NEW text \in Seq(S), NEW command \in Commands,
         LET lines == Split(text, Newline)
         IN  /\ Len(lines) \in Nat /\ Len(lines) >= 3
             /\ Trim(lines[1]) = <<command>>
             /\ lines[2] # <<>> /\ Occurs(Colon, lines[2])
             /\ lines[3] = <<>>
  PROVE  LET lines == Split(text, Newline)
         IN  Parse(text) = [command |-> command, headers |-> Headers(<<lines[2]>>),
                            body |-> Trim(Lines(SubSeq(lines, 4, Len(lines))))]
<1> DEFINE lines == Split(text, Newline)
           T == Seq(S)
           I == {i \in 2..Len(lines) : lines[i] = <<>>}
           empty == IF I # {} THEN Min(I) ELSE 0
           end == IF empty = 0 THEN Len(lines) + 1 ELSE empty
           headers == SubSeq(lines, 2, end - 1)
           body == SubSeq(lines, end + 1, Len(lines))
<1>1. lines \in Seq(T)
  BY SplitType
<1>2. Len(lines) \in Nat /\ Len(lines) >= 3 /\ lines[2] # <<>> /\ lines[3] = <<>>
  OBVIOUS
<1>3. lines # <<>>
  <2> HIDE DEF lines, T
  <2> QED BY <1>1, <1>2, EmptySeq
<1>4. end = 3
  <2>1. I # {} /\ I \in SUBSET Nat /\ 3 \in I
    <3> HIDE DEF lines
    <3> QED BY <1>2
  <2>2. Min(I) \in I /\ \A x \in I : Min(I) <= x
    <3> HIDE DEF I
    <3> QED BY <2>1, MinProperties
  <2>3. Min(I) \in 2..Len(lines) /\ lines[Min(I)] = <<>> /\ Min(I) <= 3
    BY <2>1, <2>2
  <2>4. Min(I) = 3
    <3> DEFINE z == Min(I)
    <3>1. z \in 2..Len(lines) /\ lines[z] = <<>> /\ z <= 3
      BY <2>3
    <3> HIDE DEF z, lines
    <3>2. z = 3
      BY <1>2, <3>1
    <3> QED BY <3>2 DEF z
  <2> QED BY <2>1, <2>4
<1>5. headers = <<lines[2]>>
  <2>1. headers = SubSeq(lines, 2, 2)
    <3>1. 3 - 1 = 2
      OBVIOUS
    <3> HIDE DEF end, lines
    <3> QED BY <1>4, <3>1
  <2>2. /\ SubSeq(lines, 2, 2) \in Seq(T) /\ Len(SubSeq(lines, 2, 2)) = 1
        /\ SubSeq(lines, 2, 2)[1] = lines[2]
    <3>1. 2 \in Nat \ {0} /\ 2 \in Int /\ 2 <= Len(lines)
      BY <1>2
    <3> HIDE DEF lines, T
    <3>2. /\ SubSeq(lines, 2, 2) \in Seq(T)
          /\ Len(SubSeq(lines, 2, 2)) = IF 2 <= 2 THEN 2 - 2 + 1 ELSE 0
          /\ \A i \in 1..(2 - 2 + 1) : SubSeq(lines, 2, 2)[i] = lines[2 + i - 1]
      BY <1>1, <3>1, PartType
    <3> QED BY <3>2
  <2> HIDE DEF lines, T, headers
  <2>3. headers \in Seq(T) /\ Len(headers) = 1 /\ headers[1] = lines[2]
    BY <2>1, <2>2
  <2> QED BY <2>3
<1>6. body = SubSeq(lines, 4, Len(lines))
  <2>1. 3 + 1 = 4
    OBVIOUS
  <2> HIDE DEF end, lines
  <2> QED BY <1>4, <2>1
<1>7. Trim(lines[1]) = <<command>> /\ Occurs(Colon, lines[2])
  OBVIOUS
<1>8. ~(\E i \in DOMAIN headers : ~IsHeader(headers[i]))
  <2>1. DOMAIN <<lines[2]>> = 1..1 /\ <<lines[2]>>[1] = lines[2]
    OBVIOUS
  <2> HIDE DEF headers, lines
  <2> QED BY <1>5, <1>7, <2>1 DEF IsHeader
<1>9. Parse(text) = IF \/ lines = <<>>
                      \/ Trim(lines[1]) \notin {<<c>> : c \in Commands}
                      \/ \E i \in DOMAIN headers : ~IsHeader(headers[i])
                      THEN Malformed
                      ELSE [command |-> Trim(lines[1])[1], headers |-> Headers(headers),
                            body |-> Trim(Lines(body))]
  BY DEF Parse, SelectInSubSeq
<1> HIDE DEF lines, headers, body
<1>10. Trim(lines[1])[1] = command /\ Trim(lines[1]) \in {<<c>> : c \in Commands}
  BY <1>7
<1>11. Parse(text) = [command |-> command, headers |-> Headers(<<lines[2]>>),
                            body |-> Trim(Lines(SubSeq(lines, 4, Len(lines))))]
  BY <1>3, <1>5, <1>6, <1>8, <1>9, <1>10
<1> QED BY <1>11 DEF lines

(* The header of a frame of SEND *)
LEMMA DestinationHeader ==
  ASSUME NEW c \in Seq(Letter)
  PROVE  LET line == <<"destination", Colon, Slash>> \o c
         IN  /\ line # <<>> /\ Occurs(Colon, line)
             /\ HeaderKey(line) = Destination
             /\ HeaderValue(line) = Trim(<<Slash>> \o c)
<1> DEFINE w == "destination"
           l == <<w, Colon>>
           line == <<w, Colon, Slash>> \o c
<1>1. w \in Letter /\ Colon \in Letter /\ Slash \in Letter /\ w # Colon /\ w \notin White
  BY Letters DEF Colon, White, Newline, Blank
<1> HIDE DEF w
<1>2. l \in Seq(Letter) /\ <<Slash>> \in Seq(Letter) /\ <<w>> \in Seq(Letter) /\ Len(l) = 2
      /\ l[1] = w /\ l[2] = Colon /\ Len(<<w>>) = 1 /\ <<w>>[1] = w
  BY <1>1
<1>3. <<w, Colon, Slash>> = l \o <<Slash>>
  BY <1>1, TupleConcatThree
<1>4. line = l \o (<<Slash>> \o c) /\ <<Slash>> \o c \in Seq(Letter)
  <2>1. (l \o <<Slash>>) \o c = l \o (<<Slash>> \o c)
    <3> HIDE DEF l
    <3> QED BY <1>2, ConcatAssociative
  <2>2. <<Slash>> \o c \in Seq(Letter)
    BY <1>2, ConcatProperties
  <2> QED BY <1>3, <2>1, <2>2
<1> DEFINE t == <<Slash>> \o c
<1> HIDE DEF t
<1>5. t \in Seq(Letter) /\ line = l \o t
  BY <1>4 DEF t
<1> HIDE DEF line, l
<1>6. /\ line \in Seq(Letter) /\ Len(line) = 2 + Len(t) /\ Len(t) \in Nat
      /\ line[1] = w /\ line[2] = Colon
  <2>1. /\ line \in Seq(Letter) /\ Len(line) = Len(l) + Len(t)
        /\ \A i \in 1..(Len(l) + Len(t)) : line[i] = IF i <= Len(l) THEN l[i] ELSE t[i - Len(l)]
    BY <1>2, <1>5, ConcatProperties
  <2>2. Len(t) \in Nat
    BY <1>5, LenProperties
  <2> QED BY <1>2, <2>1, <2>2
<1>7. FirstColon(line) = 2
  <2> DEFINE k == FirstColon(line)
  <2>1. /\ k \in 0..Len(line)
        /\ k = 0 => \A i \in 1..Len(line) : line[i] # Colon
        /\ k # 0 => line[k] = Colon /\ \A i \in 1..(k - 1) : line[i] # Colon
    BY <1>6, FirstColonValue
  <2> HIDE DEF k
  <2>2. 2 \in 1..Len(line)
    BY <1>6
  <2>3. k # 0
    BY <1>6, <2>1, <2>2
  <2>4. k # 1
    BY <1>1, <1>6, <2>1
  <2>5. ~(k > 2)
    <3>1. k > 2 => 2 \in 1..(k - 1)
      BY <1>6, <2>1
    <3> QED BY <1>6, <2>1, <2>3, <3>1
  <2> QED BY <1>6, <2>1, <2>3, <2>4, <2>5 DEF k
<1>8. SubSeq(line, 1, 2 - 1) = <<w>>
  <2>1. 1 \in Nat \ {0} /\ 1 \in Int /\ 1 <= Len(line)
    BY <1>6
  <2>2. /\ SubSeq(line, 1, 1) \in Seq(Letter)
        /\ Len(SubSeq(line, 1, 1)) = IF 1 <= 1 THEN 1 - 1 + 1 ELSE 0
        /\ \A i \in 1..(1 - 1 + 1) : SubSeq(line, 1, 1)[i] = line[1 + i - 1]
    BY <1>6, <2>1, PartType
  <2> DEFINE y == SubSeq(line, 1, 1)
  <2>3. y \in Seq(Letter) /\ Len(y) = 1 /\ y[1] = w
    BY <1>6, <2>2
  <2> HIDE DEF y
  <2>4. y = <<w>>
    BY <2>3
  <2> QED BY <2>4 DEF y
<1>9. SubSeq(line, 2 + 1, Len(line)) = t
  <2>1. SubSeq(l \o t, Len(l) + 1, Len(l \o t)) = t
    BY <1>2, <1>5, PartsOfConcat
  <2> QED BY <1>2, <1>5, <2>1
<1>10. Trim(<<w>>) = <<w>>
  <2>1. <<w>> # <<>>
    OBVIOUS
  <2> QED BY <1>1, <1>2, <2>1, TrimBlack
<1>11. HeaderKey(line) = <<w>> /\ HeaderValue(line) = Trim(t)
  BY <1>7, <1>8, <1>9, <1>10 DEF HeaderKey, HeaderValue
<1>12. line # <<>>
  <2>1. Len(<<>>) = 0
    OBVIOUS
  <2> QED BY <1>6, <2>1
<1>13. Occurs(Colon, line)
  <2>1. 2 \in DOMAIN line
    BY <1>6, LenProperties
  <2> QED BY <1>6, <2>1 DEF Occurs, ToSet
<1> QED BY <1>11, <1>12, <1>13 DEF line, l, t, w, Destination

-----------------------------------------------------------------------------
(* The lines of an event's frame *)

LineInner == Inner \ {Newline}

LEMMA SendHeadLines ==
  ASSUME NEW c \in Seq(LineInner)
  PROVE  LET head == SendHead(c)
         IN  /\ head \in Seq(Seq(LineInner)) /\ Len(head) = 3
             /\ head[1] = <<"SEND">> /\ head[2] = <<"destination", Colon, Slash>> \o c
             /\ head[3] = <<>>
<1> DEFINE N == LineInner
           v == "SEND"
           w == "destination"
           T == Seq(N)
           a == <<v>>
           b == <<w, Colon, Slash>> \o c
           e == <<>>
<1>1. v \in N /\ w \in N /\ Colon \in N /\ Slash \in N
  <2>1. v \in Inner /\ w \in Inner /\ Colon \in Inner /\ Slash \in Inner
    BY InnerLetters DEF Commands
  <2> QED BY <2>1 DEF LineInner, Newline, Colon, Slash
<1>2. SendHead(c) = <<a, b, e>>
  BY DEF SendHead
<1> HIDE DEF v, w, N
<1>3. a \in T /\ e \in T /\ <<w, Colon, Slash>> \in T
  BY <1>1, Tuples
<1>4. b \in T
  BY <1>3, ConcatProperties DEF N
<1> HIDE DEF a, b, e, T
<1>5. /\ <<a, b, e>> \in Seq(T) /\ Len(<<a, b, e>>) = 3
      /\ <<a, b, e>>[1] = a /\ <<a, b, e>>[2] = b /\ <<a, b, e>>[3] = e
  BY <1>3, <1>4
<1> QED BY <1>2, <1>5 DEF a, b, e, T, N, v, w

LEMMA WhiteLines ==
  ASSUME NEW lines, NEW T, lines \in Seq(T), \A i \in 1..Len(lines) : lines[i] = <<>>
  PROVE  Lines(lines) \in Seq(White)
<1>1. lines \in Seq(Seq(White))
  <2>1. Len(lines) \in Nat /\ lines \in [1..Len(lines) -> T]
    BY LenProperties
  <2>2. <<>> \in Seq(White)
    BY EmptySeq
  <2> DEFINE W == Seq(White)
  <2> HIDE DEF W
  <2>3. lines \in [1..Len(lines) -> W]
    BY <2>1, <2>2 DEF W
  <2>4. lines \in Seq(W)
    BY <2>1, <2>3
  <2> QED BY <2>4 DEF W
<1>2. Newline \in White
  BY DEF White
<1> QED BY <1>1, <1>2, LinesType

(* The first line of a text that starts with something black *)
LEMMA BlackPiece ==
  ASSUME NEW R \in Seq(Inner), R # <<>>, R[1] \notin White
  PROVE  LET rest == Pieces(R, Newline)
         IN  /\ rest \in Seq(Seq(LineInner)) /\ rest \in Seq(Seq(Inner))
             /\ Len(rest) \in Nat \ {0} /\ rest[1] # <<>>
             /\ Lines(rest) = Append(R, Newline)
<1> DEFINE rest == Pieces(R, Newline)
           l == EndEach(rest, Newline)
           T == Seq(Inner)
           L == Seq(LineInner)
<1>1. Newline \in Inner
  BY InnerLetters
<1>2. rest \in Seq(L) /\ rest # <<>>
  BY <1>1, PiecesFree DEF NonEmpty, LineInner
<1>3. rest \in Seq(T)
  BY PiecesType DEF NonEmpty
<1>4. FlattenSeq(l) = Append(R, Newline)
  BY <1>1, JoinPieces
<1>5. Lines(rest) = FlattenSeq(l)
  <2> HIDE DEF rest
  <2> QED BY <1>1, <1>3, LinesType
<1>6. l \in Seq(T) /\ Len(l) = Len(rest) /\ \A i \in 1..Len(rest) : l[i] = Append(rest[i], Newline)
  <2> HIDE DEF rest
  <2> QED BY <1>1, <1>3, EndEachType
<1> HIDE DEF rest, l, T, L
<1>7. Len(rest) \in Nat \ {0}
  BY <1>2, EmptySeq, LenProperties
<1>8. rest[1] # <<>>
  <2> SUFFICES ASSUME rest[1] = <<>> PROVE FALSE
    OBVIOUS
  <2>1. l # <<>>
    BY <1>6, <1>7
  <2>2. l[1] = <<Newline>>
    <3>1. Append(<<>>, Newline) = <<Newline>>
      OBVIOUS
    <3> QED BY <1>6, <1>7, <3>1
  <2> DEFINE z == FlattenSeq(SubSeq(l, 2, Len(l)))
  <2>3. z \in Seq(Inner) /\ FlattenSeq(l) = l[1] \o z
    BY <1>6, <2>1, FlattenFirst DEF T
  <2> HIDE DEF z
  <2>4. <<Newline>> \in Seq(Inner) /\ Len(<<Newline>>) = 1 /\ <<Newline>>[1] = Newline
    BY <1>1
  <2>5. (<<Newline>> \o z)[1] = Newline
    <3>1. /\ Len(<<Newline>> \o z) = 1 + Len(z)
          /\ \A i \in 1..(1 + Len(z)) :
               (<<Newline>> \o z)[i] = IF i <= 1 THEN <<Newline>>[i] ELSE z[i - 1]
      BY <2>3, <2>4, ConcatProperties
    <3>2. 1 \in 1..(1 + Len(z))
      BY <2>3, LenProperties
    <3> QED BY <2>4, <3>1, <3>2
  <2>6. Append(R, Newline)[1] = R[1]
    <3>1. Len(R) \in Nat \ {0} /\ \A i \in 1..Len(R) : Append(R, Newline)[i] = R[i]
      BY <1>1, EmptySeq, LenProperties, AppendProperties
    <3> QED BY <3>1
  <2>7. Newline \in White
    BY DEF White
  <2> QED BY <1>4, <2>2, <2>3, <2>5, <2>6, <2>7
<1> QED BY <1>2, <1>3, <1>4, <1>5, <1>7, <1>8 DEF rest, T, L

(* What the server splits the text of a frame into *)
IsSplit(lines, c, rest, n) ==
  /\ lines \in Seq(Seq(Inner)) /\ n \in 1..Len(rest) /\ Len(lines) = 3 + n
  /\ lines[1] = <<"SEND">> /\ lines[2] = <<"destination", Colon, Slash>> \o c /\ lines[3] = <<>>
  /\ SubSeq(lines, 4, Len(lines)) = SubSeq(rest, 1, n)
  /\ \A i \in (n + 1)..Len(rest) : rest[i] = <<>>

LEMMA SplitSend ==
  ASSUME NEW c \in Seq(LineInner), NEW R \in Seq(Inner), R # <<>>, R[1] \notin White
  PROVE  LET x == Lines(SendHead(c)) \o R
         IN  /\ x \in Seq(Inner)
             /\ \E n : IsSplit(Split(x, Newline), c, Pieces(R, Newline), n)
<1> DEFINE x == Lines(SendHead(c)) \o R
           head == SendHead(c)
           rest == Pieces(R, Newline)
           pieces == Pieces(x, Newline)
           lines == Split(x, Newline)
           L == Seq(LineInner)
           T == Seq(Inner)
<1>1. Newline \in Inner
  BY InnerLetters
<1>2. /\ head \in Seq(L) /\ Len(head) = 3
      /\ head[1] = <<"SEND">> /\ head[2] = <<"destination", Colon, Slash>> \o c
      /\ head[3] = <<>>
  BY SendHeadLines
<1>3. Lines(head) \in Seq(Inner) /\ pieces = head \o rest
  <2> HIDE DEF head, rest
  <2> QED BY <1>1, <1>2, PiecesOfLines DEF LineInner, head, rest
<1>4. x \in Seq(Inner) /\ x # <<>>
  <2>1. /\ Lines(head) \o R \in Seq(Inner) /\ Len(Lines(head) \o R) = Len(Lines(head)) + Len(R)
    BY <1>3, ConcatProperties
  <2>2. Len(Lines(head)) \in Nat /\ Len(R) \in Nat \ {0}
    BY <1>3, LenProperties, EmptySeq
  <2>3. Len(<<>>) = 0
    OBVIOUS
  <2> QED BY <2>1, <2>2, <2>3
<1>5. /\ rest \in Seq(L) /\ rest \in Seq(T) /\ Len(rest) \in Nat \ {0} /\ rest[1] # <<>>
  BY BlackPiece
<1>6. PICK k \in 0..Len(pieces) :
        /\ lines = SubSeq(pieces, 1, k)
        /\ \A i \in (k + 1)..Len(pieces) : pieces[i] = <<>>
  BY <1>4, SplitValue
<1> HIDE DEF head, rest, pieces, lines, L, T, x
<1>7. /\ pieces \in Seq(L) /\ Len(pieces) = 3 + Len(rest)
      /\ \A i \in 1..(3 + Len(rest)) : pieces[i] = IF i <= 3 THEN head[i] ELSE rest[i - 3]
  <2>1. /\ pieces \in Seq(L) /\ Len(pieces) = Len(head) + Len(rest)
        /\ \A i \in 1..(Len(head) + Len(rest)) :
             pieces[i] = IF i <= Len(head) THEN head[i] ELSE rest[i - Len(head)]
    <3>1. /\ head \o rest \in Seq(L) /\ Len(head \o rest) = Len(head) + Len(rest)
          /\ \A i \in 1..(Len(head) + Len(rest)) :
               (head \o rest)[i] = IF i <= Len(head) THEN head[i] ELSE rest[i - Len(head)]
      BY <1>2, <1>5, ConcatProperties
    <3> QED BY <1>3, <3>1
  <2> QED BY <1>2, <2>1
<1>8. pieces[1] = head[1] /\ pieces[2] = head[2] /\ pieces[3] = head[3] /\ pieces[4] = rest[1]
  <2>1. 1 \in 1..(3 + Len(rest)) /\ 2 \in 1..(3 + Len(rest)) /\ 3 \in 1..(3 + Len(rest))
        /\ 4 \in 1..(3 + Len(rest))
    BY <1>5
  <2> QED BY <1>7, <2>1
<1>9. k >= 4
  <2>1. k < 4 => 4 \in (k + 1)..Len(pieces)
    BY <1>5, <1>7
  <2>2. pieces[4] # <<>>
    BY <1>5, <1>8
  <2> QED BY <1>6, <1>7, <2>1, <2>2
<1> DEFINE n == k - 3
<1>10. n \in 1..Len(rest) /\ k = 3 + n
  BY <1>5, <1>7, <1>9
<1>11. /\ lines \in Seq(L) /\ Len(lines) = k
       /\ \A i \in 1..k : lines[i] = pieces[i]
  <2>1. 1 \in Nat \ {0} /\ k \in Int /\ k <= Len(pieces) /\ 1 <= k
    BY <1>5, <1>7, <1>9
  <2>2. /\ SubSeq(pieces, 1, k) \in Seq(L)
        /\ Len(SubSeq(pieces, 1, k)) = IF 1 <= k THEN k - 1 + 1 ELSE 0
        /\ \A i \in 1..(k - 1 + 1) : SubSeq(pieces, 1, k)[i] = pieces[1 + i - 1]
    BY <1>7, <2>1, PartType
  <2>3. Len(lines) = k
    BY <1>6, <2>1, <2>2
  <2>4. ASSUME NEW i \in 1..k PROVE lines[i] = pieces[i]
    <3>1. i \in 1..(k - 1 + 1) /\ 1 + i - 1 = i
      BY <2>1
    <3> QED BY <1>6, <2>2, <3>1
  <2> QED BY <1>6, <2>2, <2>3, <2>4
<1>12. SubSeq(lines, 4, k) = SubSeq(rest, 1, n)
  <2> DEFINE y == SubSeq(lines, 4, k)
             z == SubSeq(rest, 1, n)
  <2>1. 4 \in Nat \ {0} /\ k \in Int /\ k <= Len(lines) /\ 4 <= k /\ k - 4 + 1 = n
    BY <1>5, <1>7, <1>9, <1>11
  <2>2. /\ y \in Seq(L) /\ Len(y) = n /\ \A i \in 1..n : y[i] = lines[4 + i - 1]
    <3>1. /\ y \in Seq(L) /\ Len(y) = (IF 4 <= k THEN k - 4 + 1 ELSE 0)
          /\ \A i \in 1..(k - 4 + 1) : y[i] = lines[4 + i - 1]
      BY <1>11, <2>1, PartType
    <3> HIDE DEF y
    <3> QED BY <2>1, <3>1
  <2>3. 1 \in Nat \ {0} /\ n \in Int /\ n <= Len(rest) /\ 1 <= n /\ n - 1 + 1 = n
    BY <1>5, <1>10
  <2> HIDE DEF n
  <2>4. /\ z \in Seq(L) /\ Len(z) = n /\ \A i \in 1..n : z[i] = rest[1 + i - 1]
    <3>1. /\ z \in Seq(L) /\ Len(z) = (IF 1 <= n THEN n - 1 + 1 ELSE 0)
          /\ \A i \in 1..(n - 1 + 1) : z[i] = rest[1 + i - 1]
      BY <1>5, <2>3, PartType
    <3> HIDE DEF z
    <3> QED BY <2>3, <3>1
  <2> HIDE DEF y, z
  <2>5. ASSUME NEW i \in 1..n PROVE y[i] = z[i]
    <3>1. 3 + i \in 1..(3 + Len(rest)) /\ 3 + i \in 1..k /\ ~(3 + i <= 3)
      BY <1>5, <1>10
    <3>2. 4 + i - 1 = 3 + i /\ (3 + i) - 3 = i /\ 1 + i - 1 = i
      OBVIOUS
    <3>3. lines[3 + i] = rest[i]
      BY <1>7, <1>11, <3>1, <3>2
    <3> QED BY <2>2, <2>4, <3>2, <3>3
  <2>6. y = z
    BY <2>2, <2>4, <2>5, SeqEqual
  <2> QED BY <2>6 DEF y, z
<1>13. ASSUME NEW i \in (n + 1)..Len(rest) PROVE rest[i] = <<>>
  <2>1. 3 + i \in (k + 1)..Len(pieces) /\ 3 + i \in 1..(3 + Len(rest)) /\ ~(3 + i <= 3)
        /\ (3 + i) - 3 = i
    BY <1>5, <1>7, <1>10
  <2> QED BY <1>6, <1>7, <2>1
<1>14. lines \in Seq(T)
  <2>1. L \subseteq T
    <3>1. LineInner \subseteq Inner
      BY DEF LineInner
    <3> QED BY <3>1, SeqMonotonic DEF L, T
  <2> QED BY <1>11, <2>1, SeqMonotonic
<1>15. lines[1] = head[1] /\ lines[2] = head[2] /\ lines[3] = head[3]
  <2>1. 1 \in 1..k /\ 2 \in 1..k /\ 3 \in 1..k
    BY <1>9
  <2> QED BY <1>8, <1>11, <2>1
<1>16. IsSplit(lines, c, rest, n)
  <2> HIDE DEF n
  <2> QED BY <1>2, <1>10, <1>11, <1>12, <1>13, <1>14, <1>15 DEF IsSplit, T
<1> QED BY <1>4, <1>16 DEF x, lines, rest

(* The body of a frame is all that follows the header, trimmed. *)
LEMMA BodyOfSend ==
  ASSUME NEW lines, NEW c, NEW R \in Seq(Inner), R # <<>>, R[1] \notin White,
         NEW n, IsSplit(lines, c, Pieces(R, Newline), n)
  PROVE  Trim(Lines(SubSeq(lines, 4, Len(lines)))) = Trim(R)
<1> DEFINE rest == Pieces(R, Newline)
           T == Seq(Inner)
           a == SubSeq(rest, 1, n)
           w == SubSeq(rest, n + 1, Len(rest))
<1>1. Newline \in Inner /\ White \subseteq Inner /\ Newline \in White
  BY InnerLetters DEF White
<1>2. /\ rest \in Seq(T) /\ Len(rest) \in Nat \ {0} /\ Lines(rest) = Append(R, Newline)
  BY BlackPiece
<1>3. /\ n \in 1..Len(rest) /\ SubSeq(lines, 4, Len(lines)) = a
      /\ \A i \in (n + 1)..Len(rest) : rest[i] = <<>>
  BY DEF IsSplit
<1> HIDE DEF rest, T
<1>4. a \in Seq(T) /\ a \o w = rest
  <2>1. n \in 0..Len(rest) /\ 1 \in Nat \ {0} /\ n \in Int /\ n <= Len(rest)
    BY <1>2, <1>3
  <2> QED BY <1>2, <2>1, PartType, CutAt
<1>5. w \in Seq(T) /\ \A i \in 1..Len(w) : w[i] = <<>>
  <2> DEFINE l == Len(rest)
  <2>1. n + 1 \in Nat \ {0} /\ l \in Int /\ l <= Len(rest) /\ n \in Nat /\ n <= l
    BY <1>2, <1>3
  <2>2. /\ w \in Seq(T) /\ Len(w) = (IF n + 1 <= l THEN l - (n + 1) + 1 ELSE 0)
        /\ \A i \in 1..(l - (n + 1) + 1) : w[i] = rest[n + 1 + i - 1]
    BY <1>2, <2>1, PartType
  <2>3. Len(w) = l - n
    <3> HIDE DEF w, l
    <3> QED BY <2>1, <2>2
  <2>4. ASSUME NEW i \in 1..(l - n) PROVE w[i] = <<>>
    <3> HIDE DEF w, l
    <3>1. i \in 1..(l - (n + 1) + 1) /\ n + 1 + i - 1 = n + i /\ n + i \in (n + 1)..l
      BY <2>1
    <3>2. w[i] = rest[n + i]
      BY <2>2, <3>1
    <3> QED BY <1>3, <3>1, <3>2 DEF l
  <2> QED BY <2>2, <2>3, <2>4
<1> HIDE DEF a, w
<1>6. Lines(w) \in Seq(White)
  BY <1>5, WhiteLines
<1>7. Lines(a) \in Seq(Inner) /\ Lines(rest) = Lines(a) \o Lines(w)
  BY <1>1, <1>4, <1>5, LinesType, LinesConcat DEF T
<1>8. Trim(Lines(a) \o Lines(w)) = Trim(Lines(a))
  BY <1>1, <1>6, <1>7, TrimEnd
<1>9. Append(R, Newline) = R \o <<Newline>>
  BY <1>1, AppendIsConcat
<1>10. <<Newline>> \in Seq(White)
  BY <1>1
<1>11. Trim(R \o <<Newline>>) = Trim(R)
  BY <1>1, <1>10, TrimEnd
<1> QED BY <1>2, <1>3, <1>7, <1>8, <1>9, <1>11

(* A frame of SEND with one header, and what parse makes of it *)
SendFrame(c, body) ==
  [command |-> "SEND", headers |-> [key \in {Destination} |-> Trim(<<Slash>> \o c)], body |-> body]

LEMMA ParseSend ==
  ASSUME NEW c \in Seq(LineInner), NEW R \in Seq(Inner), R # <<>>, R[1] \notin White
  PROVE  LET x == Lines(SendHead(c)) \o R
         IN  x \in Seq(Inner) /\ Parse(x) = SendFrame(c, Trim(R))
<1> DEFINE x == Lines(SendHead(c)) \o R
           lines == Split(x, Newline)
           rest == Pieces(R, Newline)
           line == <<"destination", Colon, Slash>> \o c
<1>1. x \in Seq(Inner) /\ \E n : IsSplit(lines, c, rest, n)
  BY SplitSend
<1>2. PICK n : IsSplit(lines, c, rest, n)
  BY <1>1
<1>3. Len(rest) \in Nat \ {0}
  BY BlackPiece
<1>4. /\ n \in 1..Len(rest) /\ Len(lines) = 3 + n
      /\ lines[1] = <<"SEND">> /\ lines[2] = line /\ lines[3] = <<>>
  BY <1>2 DEF IsSplit
<1>5. c \in Seq(Letter)
  <2>1. LineInner \subseteq Letter
    BY InnerLetters DEF LineInner
  <2> QED BY <2>1, SeqMonotonic
<1>6. line # <<>> /\ Occurs(Colon, line) /\ HeaderKey(line) = Destination
      /\ HeaderValue(line) = Trim(<<Slash>> \o c)
  BY <1>5, DestinationHeader
<1>7. Trim(<<"SEND">>) = <<"SEND">>
  <2> DEFINE v == "SEND"
  <2>1. v \in Inner /\ v \notin White
    BY InnerLetters DEF Commands, White, Newline, Blank
  <2> HIDE DEF v
  <2>2. <<v>> \in Seq(Inner) /\ <<v>> # <<>> /\ <<v>>[1] = v /\ Len(<<v>>) = 1
    BY <2>1
  <2>3. Trim(<<v>>) = <<v>>
    BY <2>1, <2>2, TrimBlack
  <2> QED BY <2>3 DEF v
<1>8. "SEND" \in Commands
  BY DEF Commands
<1>9. Trim(Lines(SubSeq(lines, 4, Len(lines)))) = Trim(R)
  <2> HIDE DEF lines
  <2> QED BY <1>2, BodyOfSend
<1>10. Len(lines) \in Nat /\ Len(lines) >= 3
  <2> HIDE DEF lines, rest
  <2> QED BY <1>3, <1>4
<1>11. Parse(x) = [command |-> "SEND", headers |-> Headers(<<lines[2]>>),
                   body |-> Trim(Lines(SubSeq(lines, 4, Len(lines))))]
  <2>1. Trim(lines[1]) = <<"SEND">> /\ lines[2] # <<>> /\ Occurs(Colon, lines[2])
    <3> HIDE DEF lines, line
    <3> QED BY <1>4, <1>6, <1>7
  <2>2. lines[3] = <<>>
    BY <1>4
  <2> HIDE DEF x
  <2> QED BY <1>1, <1>8, <1>10, <2>1, <2>2, ParseOf
<1>12. Headers(<<line>>) = [key \in {Destination} |-> Trim(<<Slash>> \o c)]
  <2> HIDE DEF line
  <2>1. line \in {line}
    OBVIOUS
  <2>2. Headers(<<line>>) = [key \in {HeaderKey(line)} |-> HeaderValue(line)]
    BY <2>1, HeaderOfOne
  <2> QED BY <1>6, <2>2
<1> HIDE DEF lines, line, x
<1>13. Parse(x) = SendFrame(c, Trim(R))
  BY <1>4, <1>9, <1>11, <1>12 DEF SendFrame
<1> QED BY <1>1, <1>13 DEF x

-----------------------------------------------------------------------------
(* The words of a frame through the decoder *)

(* Words are decoded as they are. *)
LEMMA CharactersWord ==
  ASSUME NEW s \in Seq(Word)
  PROVE  s \in Text /\ Characters(s) = s
<1>1. s \in Seq(Letter)
  BY Letters, SeqMonotonic
<1>2. s \in Text
  BY <1>1 DEF Text
<1> DEFINE c == Characters(s)
<1>3. c \in Text /\ Len(c) = Len(s) /\ \A i \in 1..Len(s) : c[i] = DecodedChar(s[i])
  BY <1>2, CharactersType
<1>4. \A i \in 1..Len(s) : DecodedChar(s[i]) = s[i]
  BY ElementOfSeq, DecodedLetters
<1> HIDE DEF c
<1>5. c = s
  BY <1>1, <1>3, <1>4, SeqEqual DEF Text
<1> QED BY <1>2, <1>5 DEF c

LEMMA DecodedTuples ==
  ASSUME NEW a, NEW b, NEW c
  PROVE  /\ DecodedLines(<<a>>) = <<Characters(a)>>
         /\ DecodedLines(<<a, b>>) = <<Characters(a), Characters(b)>>
         /\ DecodedLines(<<a, b, c>>) = <<Characters(a), Characters(b), Characters(c)>>
<1>1. [i \in 1..1 |-> Characters(<<a>>[i])] = <<Characters(a)>>
  <2>1. <<a>>[1] = a
    OBVIOUS
  <2> DEFINE s == <<a>>
  <2> HIDE DEF s
  <2> QED BY <2>1 DEF s
<1>2. [i \in 1..2 |-> Characters(<<a, b>>[i])] = <<Characters(a), Characters(b)>>
  OBVIOUS
<1>3. [i \in 1..3 |-> Characters(<<a, b, c>>[i])] = <<Characters(a), Characters(b), Characters(c)>>
  OBVIOUS
<1>4. DOMAIN <<a>> = 1..1 /\ DOMAIN <<a, b>> = 1..2 /\ DOMAIN <<a, b, c>> = 1..3
  OBVIOUS
<1> QED BY <1>1, <1>2, <1>3, <1>4 DEF DecodedLines

LEMMA DecodedHead ==
  ASSUME NEW channel \in Text
  PROVE  /\ SendHead(channel) \in Seq(Text)
         /\ DecodedLines(SendHead(channel)) = SendHead(Characters(channel))
<1> DEFINE v == "SEND"
           w == "destination"
           a == <<v>>
           h == <<w, Colon, Slash>>
           b == h \o channel
<1>1. v \in Word /\ w \in Word /\ Colon \in Word /\ Slash \in Word
  BY Letters DEF Commands
<1> HIDE DEF v, w
<1>2. a \in Seq(Word) /\ h \in Seq(Word) /\ <<>> \in Seq(Word)
  BY <1>1, Tuples
<1> HIDE DEF a, h
<1>3. a \in Text /\ Characters(a) = a /\ h \in Text /\ Characters(h) = h
  BY <1>2, CharactersWord
<1>4. <<>> \in Text /\ Characters(<<>>) = <<>>
  BY <1>2, CharactersWord
<1>5. b \in Text /\ Characters(b) = h \o Characters(channel)
  <2>1. Characters(h \o channel) = Characters(h) \o Characters(channel)
    BY <1>3, CharactersConcat
  <2>2. h \o channel \in Text
    BY <1>3, ConcatProperties DEF Text
  <2> QED BY <1>3, <2>1, <2>2
<1>6. SendHead(channel) = <<a, b, <<>> >>
  BY DEF SendHead, a, h, v, w
<1>7. SendHead(Characters(channel)) = <<a, h \o Characters(channel), <<>> >>
  BY DEF SendHead, a, h, v, w
<1> HIDE DEF b
<1>8. DecodedLines(<<a, b, <<>> >>) = <<Characters(a), Characters(b), Characters(<<>>)>>
  BY DecodedTuples
<1>9. <<a, b, <<>> >> \in Seq(Text)
  BY <1>3, <1>4, <1>5, Tuples
<1> QED BY <1>3, <1>4, <1>5, <1>6, <1>7, <1>8, <1>9

-----------------------------------------------------------------------------
(* The decoded frame *)

(* The lines of a frame after its head, up to the description, and the rest *)
ForeLines(user, event) == <<UserLine(user)>> \o EventHead(event) \o InfoLines(event)
DescriptionLine == <<"description", Colon, Blank>>
TailText(text) == Lines(<<DescriptionLine, text, <<>> >>)

LEMMA ForeType ==
  ASSUME NEW u \in User, NEW event \in Event
  PROVE  /\ ForeLines(u, event) \in Seq(Text) /\ UserLine(u) \in Text
         /\ EventHead(event) \in Seq(Text) /\ InfoLines(event) \in Seq(Text)
         /\ DescriptionLine \in Text /\ event.description \in Text
<1>1. Seq(LineLetter) \subseteq Text
  BY LineLetters, SeqMonotonic DEF Text
<1>2. UserLine(u) \in Text
  <2> DEFINE w == "user"
  <2>1. u \in Letter
    BY NameLetters
  <2>2. w \in Letter /\ Colon \in Letter /\ Blank \in Letter
    BY Letters DEF Word
  <2> HIDE DEF w
  <2>3. <<w, Colon, Blank, u>> \in Seq(Letter)
    BY <2>1, <2>2, Tuples
  <2> QED BY <2>3 DEF UserLine, Text, w
<1>3. EventHead(event) \in Seq(Text)
  BY <1>1, EventLinesType, SeqMonotonic
<1>4. InfoLines(event) \in Seq(Text)
  <2>1. InfoLines(event) \in Seq(Seq(LineLetter))
    BY InfoLinesType
  <2> QED BY <1>1, <2>1, SeqMonotonic
<1>5. ForeLines(u, event) \in Seq(Text)
  <2> DEFINE T == Text
             ul == <<UserLine(u)>>
             eh == EventHead(event)
             il == InfoLines(event)
  <2>1. ul \in Seq(T) /\ eh \in Seq(T) /\ il \in Seq(T)
    BY <1>2, <1>3, <1>4, Tuples
  <2> HIDE DEF ul, eh, il, T
  <2>2. (ul \o eh) \o il \in Seq(T)
    BY <2>1, ConcatProperties
  <2> QED BY <2>2 DEF ul, eh, il, T, ForeLines
<1>6. DescriptionLine \in Text
  <2> DEFINE w == "description"
  <2>1. w \in Letter /\ Colon \in Letter /\ Blank \in Letter
    BY Letters
  <2> HIDE DEF w
  <2>2. <<w, Colon, Blank>> \in Seq(Letter)
    BY <2>1, Tuples
  <2> QED BY <2>2 DEF DescriptionLine, Text, w
<1>7. event.description \in Text
  <2>1. event.description \in Seq(Payload)
    BY DEF Event
  <2>2. Payload \subseteq Letter
    BY LineLetters
  <2> QED BY <2>1, <2>2, SeqMonotonic DEF Text
<1> QED BY <1>2, <1>3, <1>4, <1>5, <1>6, <1>7

LEMMA FrameLines ==
  ASSUME NEW u \in User, NEW channel \in Seq(Payload), NEW event \in Event
  PROVE  /\ channel \in Text /\ SendHead(channel) \in Seq(Text)
         /\ SendText(<<u>>, channel, event) =
              Append(Lines((SendHead(channel) \o ForeLines(u, event))
                             \o <<DescriptionLine, event.description, <<>> >>), Nul)
<1> DEFINE T == Text
           sh == SendHead(channel)
           ul == <<UserLine(u)>>
           eh == EventHead(event)
           il == InfoLines(event)
           d == DescriptionLine
           x == event.description
           et == <<d, x>>
           e == << <<>> >>
<1>1. /\ UserLine(u) \in T /\ eh \in Seq(T) /\ il \in Seq(T) /\ d \in T /\ x \in T
  BY ForeType
<1>2. channel \in T /\ sh \in Seq(T)
  <2>1. Payload \subseteq Letter
    BY LineLetters
  <2>2. channel \in T
    BY <2>1, SeqMonotonic DEF Text
  <2> QED BY <2>2, DecodedHead
<1>3. <<>> \in T
  BY Tuples DEF Text
<1>4. SendText(<<u>>, channel, event) = Append(Lines(((sh \o ul) \o EventLines(event)) \o e), Nul)
  BY SendLines
<1>5. EventLines(event) = (eh \o il) \o et
  BY EventLinesType DEF EventTail, DescriptionLine
<1> HIDE DEF sh, eh, il, d, x, T
<1>6. ul \in Seq(T) /\ et \in Seq(T) /\ e \in Seq(T)
  BY <1>1, <1>3, Tuples
<1>7. et \o e = <<d, x, <<>> >>
  BY <1>1, <1>3, TupleConcatThree
<1> HIDE DEF ul, et, e
<1>8. ((sh \o ul) \o ((eh \o il) \o et)) \o e = (sh \o ((ul \o eh) \o il)) \o (et \o e)
  <2> DEFINE Q == Seq(T)
             su == sh \o ul
             hi == eh \o il
             uh == ul \o eh
             te == et \o e
             ft == uh \o il
             st == hi \o et
             a == su \o hi
             b == a \o et
  <2>1. su \in Q /\ hi \in Q /\ uh \in Q /\ te \in Q
    BY <1>1, <1>2, <1>6, ConcatProperties
  <2>2. ft = ul \o hi
    BY <1>1, <1>6, ConcatAssociative
  <2> HIDE DEF hi, uh
  <2>3. a = sh \o (ul \o hi)
    <3>1. sh \in Seq(T) /\ ul \in Seq(T) /\ hi \in Seq(T)
      BY <1>2, <1>6, <2>1
    <3> HIDE DEF Q
    <3> QED BY <3>1, ConcatAssociative
  <2> HIDE DEF su, te, ft
  <2>4. a \in Q /\ su \o st = b
    <3>1. su \in Seq(T) /\ hi \in Seq(T) /\ et \in Seq(T)
      BY <1>6, <2>1
    <3>2. su \o (hi \o et) = (su \o hi) \o et /\ su \o hi \in Seq(T)
      BY <3>1, ConcatProperties, ConcatAssociative
    <3> QED BY <3>2
  <2> HIDE DEF st, a
  <2>5. b \o e = a \o te
    <3>1. a \in Seq(T) /\ et \in Seq(T) /\ e \in Seq(T)
      BY <1>6, <2>4
    <3> QED BY <3>1, ConcatAssociative DEF te
  <2> HIDE DEF b
  <2>6. (su \o st) \o e = (sh \o ft) \o te
    BY <2>2, <2>3, <2>4, <2>5
  <2> QED BY <2>6 DEF su, st, ft, te, hi, uh
<1> QED BY <1>2, <1>4, <1>5, <1>7, <1>8 DEF T, sh, ul, eh, il, d, x, ForeLines

(* What the decoder makes of a frame *)
FrameBody(user, event) ==
  Lines(DecodedLines(ForeLines(user, event))) \o TailText(Characters(event.description))

LEMMA DecodedFrame ==
  ASSUME NEW u \in User, NEW channel \in Seq(Payload), NEW event \in Event
  PROVE  LET text == Lines(SendHead(Characters(channel))) \o FrameBody(u, event)
         IN  /\ text \in Text /\ FrameBody(u, event) \in Text
             /\ Characters(SendText(<<u>>, channel, event)) = Append(text, Nul)
<1> DEFINE T == Text
           sh == SendHead(channel)
           fl == ForeLines(u, event)
           d == DescriptionLine
           x == event.description
           tl == <<d, x, <<>> >>
           al == (sh \o fl) \o tl
           y == Lines(al)
           dh == SendHead(Characters(channel))
           df == DecodedLines(fl)
           dt == <<d, Characters(x), <<>> >>
<1>1. fl \in Seq(T) /\ d \in T /\ x \in T
  BY ForeType
<1>2. channel \in T /\ sh \in Seq(T) /\ SendText(<<u>>, channel, event) = Append(y, Nul)
  BY FrameLines
<1>3. DecodedLines(sh) = dh /\ dh \in Seq(T)
  <2>1. Characters(channel) \in Text
    BY <1>2, CharactersType
  <2> QED BY <1>2, <2>1, DecodedHead
<1>4. Characters(d) = d /\ <<>> \in T /\ Characters(<<>>) = <<>>
  <2> DEFINE w == "description"
  <2>1. w \in Word /\ Colon \in Word /\ Blank \in Word
    BY Letters
  <2> HIDE DEF w
  <2>2. <<w, Colon, Blank>> \in Seq(Word) /\ <<>> \in Seq(Word)
    BY <2>1, Tuples
  <2>3. Characters(<<w, Colon, Blank>>) = <<w, Colon, Blank>>
    BY <2>2, CharactersWord
  <2>4. <<>> \in Text /\ Characters(<<>>) = <<>>
    BY <2>2, CharactersWord
  <2> QED BY <2>3, <2>4 DEF DescriptionLine, w
<1>5. tl \in Seq(T)
  <2> HIDE DEF d, x
  <2> QED BY <1>1, <1>4, Tuples
<1>6. DecodedLines(tl) = dt
  <2> HIDE DEF d, x
  <2>1. DecodedLines(<<d, x, <<>> >>) = <<Characters(d), Characters(x), Characters(<<>>)>>
    BY DecodedTuples
  <2> QED BY <1>4, <2>1
<1>7. df \in Seq(T)
  <2> HIDE DEF fl
  <2> QED BY <1>1, DecodedLinesType DEF T
<1>8. dt \in Seq(T)
  <2>1. Characters(x) \in T
    BY <1>1, CharactersType
  <2> HIDE DEF d, x, T
  <2> QED BY <1>1, <1>4, <2>1, Tuples DEF T
<1> HIDE DEF sh, fl, d, x, tl, dh, df, dt
<1>9. al \in Seq(T) /\ DecodedLines(al) = (dh \o df) \o dt
  <2>1. sh \o fl \in Seq(T)
    BY <1>1, <1>2, ConcatProperties
  <2>2. DecodedLines(sh \o fl) = DecodedLines(sh) \o DecodedLines(fl)
    BY <1>1, <1>2, DecodedLinesConcat
  <2> DEFINE s == sh \o fl
  <2> HIDE DEF s
  <2>3. s \o tl \in Seq(T) /\ DecodedLines(s \o tl) = DecodedLines(s) \o DecodedLines(tl)
    BY <1>5, <2>1, ConcatProperties, DecodedLinesConcat DEF s
  <2> QED BY <1>3, <1>6, <2>2, <2>3 DEF s, df
<1> HIDE DEF al
<1>10. y \in Text /\ Characters(y) = Lines((dh \o df) \o dt)
  BY <1>9, CharactersLines
<1>11. Nul \in Letter /\ DecodedChar(Nul) = Nul
  BY Letters, DecodedLetters
<1> HIDE DEF y
<1>12. Characters(Append(y, Nul)) = Append(Characters(y), Nul)
  BY <1>10, <1>11, CharactersAppend
<1>13. /\ Lines((dh \o df) \o dt) = Lines(dh) \o (Lines(df) \o Lines(dt))
       /\ Lines(df) \o Lines(dt) \in Text
       /\ Lines(dh) \o (Lines(df) \o Lines(dt)) \in Text
  <2> DEFINE L == Letter
  <2>1. Newline \in L /\ dh \in Seq(Seq(L)) /\ df \in Seq(Seq(L)) /\ dt \in Seq(Seq(L))
    BY <1>3, <1>7, <1>8, Letters DEF Text
  <2> HIDE DEF L
  <2> DEFINE a == Lines(dh)
             b == Lines(df)
             c == Lines(dt)
  <2>2. a \in Seq(L) /\ b \in Seq(L) /\ c \in Seq(L)
    BY <2>1, LinesType
  <2>3. dh \o df \in Seq(Seq(L)) /\ Lines(dh \o df) = a \o b
    BY <2>1, LinesConcat, ConcatProperties
  <2>4. Lines((dh \o df) \o dt) = Lines(dh \o df) \o c
    BY <2>1, <2>3, LinesConcat
  <2> HIDE DEF a, b, c
  <2>5. (a \o b) \o c = a \o (b \o c) /\ b \o c \in Seq(L)
    BY <2>2, ConcatAssociative, ConcatProperties
  <2>6. a \o (b \o c) \in Seq(L)
    BY <2>2, <2>5, ConcatProperties
  <2> QED BY <2>3, <2>4, <2>5, <2>6 DEF a, b, c, L, Text
<1>14. FrameBody(u, event) = Lines(df) \o Lines(dt)
  BY DEF FrameBody, TailText, df, dt, fl, d, x
<1> QED BY <1>2, <1>10, <1>12, <1>13, <1>14 DEF dh

-----------------------------------------------------------------------------
(* Values for the receiver *)

(* A text without some words is decoded to one without them. *)
LEMMA CharactersFree ==
  ASSUME NEW X \in SUBSET Word, NEW s \in Text, \A i \in 1..Len(s) : s[i] \notin X
  PROVE  Characters(s) \in Seq(DecodedLetter \ X)
<1> DEFINE c == Characters(s)
           D == DecodedLetter \ X
<1>1. c \in Text /\ Len(c) = Len(s) /\ \A i \in 1..Len(s) : c[i] = DecodedChar(s[i])
  BY CharactersType
<1>2. ASSUME NEW i \in 1..Len(s) PROVE c[i] \in D
  <2>1. s[i] \in Letter
    BY ElementOfSeq DEF Text
  <2>2. DecodedChar(s[i]) \in Letter /\ DecodedChar(s[i]) \notin NonAscii
    BY <2>1, DecodedLetters
  <2>3. DecodedChar(s[i]) \notin X
    <3>1. SUFFICES ASSUME DecodedChar(s[i]) \in X PROVE FALSE
      OBVIOUS
    <3>2. DecodedChar(s[i]) # Garbage
      BY <3>1, DecodedLetters
    <3>3. s[i] = DecodedChar(s[i])
      BY <3>2, DecodedLetters
    <3> QED BY <3>1, <3>3
  <2>4. DecodedChar(s[i]) \in D
    BY <2>2, <2>3 DEF DecodedLetter
  <2> HIDE DEF c, D
  <2> QED BY <1>1, <2>4
<1> HIDE DEF c, D
<1>3. Len(s) \in Nat /\ c \in [1..Len(c) -> Letter]
  BY <1>1, LenProperties DEF Text
<1>4. c \in [1..Len(s) -> D]
  BY <1>1, <1>2, <1>3
<1>5. c \in Seq(D)
  BY <1>3, <1>4
<1> QED BY <1>5 DEF c, D

LEMMA LineInnerLetters ==
  /\ LineInner = DecodedLetter \ {Nul, Newline}
  /\ LineInner \ {Colon} = DecodedLetter \ {Nul, Newline, Colon}
  /\ LineInner \subseteq Inner /\ LineInner \subseteq Letter /\ LineInner \subseteq DecodedLetter
  /\ {Blank, Colon, Slash, "user", "city", "event name", "date time", "general information",
      "description", "SEND", "destination"} \subseteq LineInner
  /\ {Nul, Newline, Colon} \in SUBSET Word /\ {Nul, Newline} \in SUBSET Word
<1>1. /\ LineInner = DecodedLetter \ {Nul, Newline}
      /\ LineInner \ {Colon} = DecodedLetter \ {Nul, Newline, Colon}
  BY DEF LineInner, Inner
<1>2. LineInner \subseteq Inner /\ LineInner \subseteq Letter /\ LineInner \subseteq DecodedLetter
  BY InnerLetters DEF LineInner, Inner, DecodedLetter
<1>3. {Blank, Colon, Slash, "user", "city", "event name", "date time", "general information",
      "description", "SEND", "destination"} \subseteq Inner
  BY InnerLetters DEF Commands
<1>4. Newline \notin {Blank, Colon, Slash, "user", "city", "event name", "date time",
                      "general information", "description", "SEND", "destination"}
  BY DEF Newline, Blank, Colon, Slash
<1>5. {Blank, Colon, Slash, "user", "city", "event name", "date time", "general information",
      "description", "SEND", "destination"} \subseteq LineInner
  BY <1>3, <1>4 DEF LineInner
<1>6. Nul \in Word /\ Newline \in Word /\ Colon \in Word
  BY Letters
<1> QED BY <1>1, <1>2, <1>5, <1>6

LEMMA OneLineCharacters ==
  ASSUME NEW s \in Text, OneLine(s)
  PROVE  /\ Characters(s) \in Seq(LineInner) /\ \A i \in 1..Len(s) : s[i] \notin {Nul, Newline}
         /\ (\A i \in 1..Len(s) : s[i] # Colon) => Characters(s) \in Seq(LineInner \ {Colon})
<1>1. \A i \in 1..Len(s) : s[i] \notin {Nul, Newline}
  <2>1. DOMAIN s = 1..Len(s)
    BY LenProperties DEF Text
  <2> QED BY <2>1 DEF OneLine, ToSet
<1>2. Characters(s) \in Seq(DecodedLetter \ {Nul, Newline})
  BY <1>1, LineInnerLetters, CharactersFree
<1>3. ASSUME \A i \in 1..Len(s) : s[i] # Colon
      PROVE  Characters(s) \in Seq(DecodedLetter \ {Nul, Newline, Colon})
  <2>1. \A i \in 1..Len(s) : s[i] \notin {Nul, Newline, Colon}
    BY <1>1, <1>3
  <2> QED BY <2>1, LineInnerLetters, CharactersFree
<1> QED BY <1>1, <1>2, <1>3, LineInnerLetters

(* The value of a line of an entry, as the receiver reads it *)
ValueAfter(rest, value) ==
  \/ rest \in Seq(LineInner \ {Colon}) /\ ReceivedValue(value) = rest
  \/ \E r \in Seq(LineInner \ {Colon}), t \in Seq(LineInner) :
       /\ rest = Append(r, Colon) \o t
       /\ ReceivedValue(value) = IF t = <<>> THEN r ELSE <<>>

LEMMA BlankBefore ==
  ASSUME NEW s \in Seq(LineInner)
  PROVE  /\ <<Blank>> \o s \in Seq(LineInner)
         /\ s \in Seq(LineInner \ {Colon}) => <<Blank>> \o s \in Seq(LineInner \ {Colon})
<1> DEFINE M == LineInner \ {Colon}
           L == LineInner
<1>1. Blank \in L /\ Blank \in M
  BY LineInnerLetters DEF Blank, Colon
<1> HIDE DEF L, M
<1>2. <<Blank>> \in Seq(L) /\ <<Blank>> \in Seq(M)
  BY <1>1
<1>3. <<Blank>> \o s \in Seq(L)
  BY <1>2, ConcatProperties DEF L
<1>4. s \in Seq(M) => <<Blank>> \o s \in Seq(M)
  BY <1>2, ConcatProperties
<1> QED BY <1>3, <1>4 DEF L, M

LEMMA ReceivedValueIs ==
  ASSUME NEW value \in Text, OneLine(value)
  PROVE  ValueAfter(<<Blank>> \o Characters(value), value)
<1> DEFINE k == FirstColon(value)
           n == Len(value)
           rest == <<Blank>> \o Characters(value)
           L == LineInner
           M == LineInner \ {Colon}
<1>1. n \in Nat /\ value \in Seq(Letter)
  BY LenProperties DEF Text
<1>2. /\ k \in 0..n
      /\ k = 0 => \A i \in 1..n : value[i] # Colon
      /\ k # 0 => value[k] = Colon /\ \A i \in 1..(k - 1) : value[i] # Colon
  BY <1>1, FirstColonValue
<1>3. ReceivedValue(value) = IF k = 0 THEN rest
                             ELSE IF k = n THEN <<Blank>> \o Characters(Front(value)) ELSE <<>>
  BY DEF ReceivedValue, FirstColon
<1>4. Characters(value) \in Seq(L) /\ \A i \in 1..n : value[i] \notin {Nul, Newline}
  BY OneLineCharacters
<1>5. CASE k = 0
  <2>1. Characters(value) \in Seq(M)
    BY <1>2, <1>5, OneLineCharacters
  <2>2. rest \in Seq(M)
    BY <1>4, <2>1, BlankBefore
  <2> QED BY <1>3, <1>5, <2>2 DEF ValueAfter
<1>6. CASE k # 0
  <2> DEFINE f == SubSeq(value, 1, k - 1)
             g == SubSeq(value, k + 1, n)
             r == <<Blank>> \o Characters(f)
             t == Characters(g)
  <2>1. k \in 1..n /\ 1 \in Nat \ {0} /\ k + 1 \in Nat \ {0} /\ k - 1 \in Int /\ n \in Int
        /\ k - 1 <= n /\ k - 1 \in Nat
    <3> HIDE DEF k, n
    <3> QED BY <1>1, <1>2, <1>6
  <2> HIDE DEF k
  <2>2. /\ f \in Seq(Letter) /\ Len(f) = k - 1 /\ \A i \in 1..(k - 1) : f[i] = value[i]
    <3>1. /\ f \in Seq(Letter) /\ Len(f) = (IF 1 <= k - 1 THEN k - 1 - 1 + 1 ELSE 0)
          /\ \A i \in 1..(k - 1 - 1 + 1) : f[i] = value[1 + i - 1]
      BY <1>1, <2>1, PartType
    <3> HIDE DEF f, n
    <3>2. Len(f) = k - 1
      BY <2>1, <3>1
    <3>3. ASSUME NEW i \in 1..(k - 1) PROVE f[i] = value[i]
      <4>1. i \in 1..(k - 1 - 1 + 1) /\ 1 + i - 1 = i
        BY <2>1
      <4> QED BY <3>1, <4>1
    <3> QED BY <3>1, <3>2, <3>3
  <2>3. /\ g \in Seq(Letter) /\ Len(g) = n - k /\ \A i \in 1..(n - k) : g[i] = value[k + i]
    <3>1. /\ g \in Seq(Letter) /\ Len(g) = (IF k + 1 <= n THEN n - (k + 1) + 1 ELSE 0)
          /\ \A i \in 1..(n - (k + 1) + 1) : g[i] = value[k + 1 + i - 1]
      <4>1. n <= Len(value)
        BY <2>1
      <4> QED BY <1>1, <2>1, <4>1, PartType
    <3> HIDE DEF g, n
    <3>2. Len(g) = n - k
      BY <2>1, <3>1
    <3>3. ASSUME NEW i \in 1..(n - k) PROVE g[i] = value[k + i]
      <4>1. i \in 1..(n - (k + 1) + 1) /\ k + 1 + i - 1 = k + i
        BY <2>1
      <4> QED BY <3>1, <4>1
    <3> QED BY <3>1, <3>2, <3>3
  <2> HIDE DEF f, g
  <2>4. value = Append(f, Colon) \o g
    <3> DEFINE a == Append(f, Colon)
               z == a \o g
    <3>1. Colon \in Letter
      BY Letters
    <3>2. /\ a \in Seq(Letter) /\ Len(a) = k /\ a[k] = Colon
          /\ \A i \in 1..(k - 1) : a[i] = value[i]
      <4>1. /\ a \in Seq(Letter) /\ Len(a) = Len(f) + 1 /\ a[Len(f) + 1] = Colon
            /\ \A i \in 1..Len(f) : a[i] = f[i]
        BY <2>2, <3>1, AppendProperties
      <4>2. Len(f) + 1 = k
        BY <2>1, <2>2
      <4> HIDE DEF a
      <4> QED BY <2>2, <4>1, <4>2
    <3> HIDE DEF a
    <3>3. /\ z \in Seq(Letter) /\ Len(z) = n
          /\ \A i \in 1..n : z[i] = IF i <= k THEN a[i] ELSE g[i - k]
      <4>1. /\ z \in Seq(Letter) /\ Len(z) = Len(a) + Len(g)
            /\ \A i \in 1..(Len(a) + Len(g)) : z[i] = IF i <= Len(a) THEN a[i] ELSE g[i - Len(a)]
        BY <2>3, <3>2, ConcatProperties
      <4>2. Len(a) + Len(g) = n
        <5> HIDE DEF n
        <5> QED BY <2>1, <2>3, <3>2
      <4> HIDE DEF z, n
      <4> QED BY <3>2, <4>1, <4>2
    <3> HIDE DEF z
    <3>4. ASSUME NEW i \in 1..n PROVE z[i] = value[i]
      <4> HIDE DEF n
      <4>1. CASE i \in 1..(k - 1)
        BY <2>1, <3>2, <3>3, <4>1
      <4>2. CASE i = k
        BY <1>2, <1>6, <2>1, <3>2, <3>3, <4>2 DEF k
      <4>3. CASE i > k
        <5>1. i - k \in 1..(n - k) /\ k + (i - k) = i /\ ~(i <= k)
          BY <2>1, <4>3
        <5> QED BY <2>3, <3>3, <5>1
      <4>4. i \in 1..(k - 1) \/ i = k \/ i > k
        BY <2>1
      <4> QED BY <4>1, <4>2, <4>3, <4>4
    <3>5. z = value
      BY <1>1, <3>3, <3>4, SeqEqual
    <3> QED BY <3>5 DEF z, a
  <2>5. f \in Text /\ g \in Text
    BY <2>2, <2>3 DEF Text
  <2>6. OneLine(f) /\ OneLine(g) /\ \A i \in 1..Len(f) : f[i] # Colon
    <3>1. DOMAIN f = 1..(k - 1) /\ DOMAIN g = 1..(n - k)
      BY <2>2, <2>3, LenProperties
    <3>2. \A i \in 1..(k - 1) : f[i] \notin {Nul, Newline} /\ f[i] # Colon
      <4>1. \A i \in 1..(k - 1) : i \in 1..n
        <5> HIDE DEF n
        <5> QED BY <2>1
      <4> QED BY <1>2, <1>4, <1>6, <2>2, <4>1 DEF k
    <3>3. \A i \in 1..(n - k) : g[i] \notin {Nul, Newline}
      <4>1. \A i \in 1..(n - k) : k + i \in 1..n
        <5> HIDE DEF n
        <5> QED BY <2>1
      <4> QED BY <1>4, <2>3, <4>1
    <3> QED BY <2>2, <3>1, <3>2, <3>3 DEF OneLine, ToSet
  <2>7. Characters(f) \in Seq(M) /\ Characters(f) \in Seq(L) /\ t \in Seq(L)
    BY <2>5, <2>6, OneLineCharacters
  <2>8. r \in Seq(M)
    BY <2>7, BlankBefore
  <2>9. Characters(value) = Append(Characters(f), Colon) \o t
    <3>1. Colon \in Letter /\ DecodedChar(Colon) = Colon
      BY Letters, DecodedLetters
    <3>2. Append(f, Colon) \in Text
      BY <2>2, <3>1, AppendProperties DEF Text
    <3>3. Characters(Append(f, Colon)) = Append(Characters(f), Colon)
      BY <2>5, <3>1, CharactersAppend
    <3> DEFINE a == Append(f, Colon)
    <3> HIDE DEF a
    <3>4. Characters(a \o g) = Characters(a) \o Characters(g)
      BY <2>5, <3>2, CharactersConcat DEF a
    <3> QED BY <2>4, <3>3, <3>4 DEF a
  <2>10. rest = Append(r, Colon) \o t
    <3> DEFINE b == <<Blank>>
               c == Characters(f)
               e == Append(c, Colon)
    <3>1. b \in Seq(L) /\ Colon \in L
      <4>1. Blank \in L /\ Colon \in L
        BY LineInnerLetters
      <4> HIDE DEF L
      <4> QED BY <4>1
    <3>2. c \in Seq(L) /\ t \in Seq(L)
      BY <2>7
    <3> HIDE DEF b, c, t, L
    <3>3. e \in Seq(L)
      BY <3>1, <3>2, AppendProperties
    <3>4. b \o e = Append(b \o c, Colon)
      BY <3>1, <3>2, ConcatAppend
    <3> HIDE DEF e
    <3>5. (b \o e) \o t = b \o (e \o t)
      BY <3>1, <3>2, <3>3, ConcatAssociative
    <3> QED BY <2>9, <3>4, <3>5 DEF b, c, e, t
  <2>11. t = <<>> <=> k = n
    <3>1. Len(t) = n - k
      BY <2>3, <2>5, CharactersType
    <3>2. t = <<>> <=> Len(t) = 0
      <4> HIDE DEF t
      <4> QED BY <2>7, EmptySeq
    <3> HIDE DEF n, t
    <3> QED BY <2>1, <3>1, <3>2
  <2>12. k = n => f = Front(value)
    BY DEF f, Front
  <2>13. ReceivedValue(value) = IF t = <<>> THEN r ELSE <<>>
    BY <1>3, <1>6, <2>11, <2>12
  <2> HIDE DEF r, t
  <2> QED BY <2>7, <2>8, <2>10, <2>13 DEF ValueAfter
<1> QED BY <1>5, <1>6

-----------------------------------------------------------------------------
(* The lines of a copy, read as fields *)

(* What a receiver reads in a line *)
IsEntry(line, key, value) == Occurs(Colon, line) /\ KeyOf(line) = key /\ ValueOf(line) = value

IsKey(key) == key \in Text /\ Characters(key) = key /\ key \in Seq(LineInner \ {Colon})

LEMMA WordKey ==
  ASSUME NEW w \in Word \ {Nul, Newline, Colon}
  PROVE  IsKey(<<w>>)
<1>1. w \in Letter /\ w \notin NonAscii /\ w \in Word
  BY Letters
<1>2. <<w>> \in Text
  BY <1>1 DEF Text
<1>3. Characters(<<w>>) = <<w>>
  BY <1>1, CharactersOne, DecodedLetters
<1>4. w \in LineInner \ {Colon}
  BY <1>1, LineInnerLetters DEF DecodedLetter
<1> QED BY <1>2, <1>3, <1>4 DEF IsKey

LEMMA EntryRead ==
  ASSUME NEW key, IsKey(key), NEW value \in Text, OneLine(value)
  PROVE  LET line == Characters(Entry(key, value))
         IN  line \in Seq(LineInner) /\ IsEntry(line, key, ReceivedValue(value))
<1> DEFINE L == LineInner
           M == LineInner \ {Colon}
           cb == <<Colon, Blank>>
           kc == key \o cb
           v == Characters(value)
           rest == <<Blank>> \o v
           line == Append(key, Colon) \o rest
<1>1. key \in Text /\ Characters(key) = key /\ key \in Seq(M)
  BY DEF IsKey
<1>2. Colon \in Letter /\ Blank \in Letter /\ Colon \in Word /\ Blank \in Word
      /\ Colon \in L /\ Blank \in L /\ L \subseteq Letter /\ M \subseteq L
  BY Letters, LineInnerLetters
<1>3. v \in Seq(L) /\ v \in Text
  BY OneLineCharacters, CharactersType
<1>4. cb \in Seq(Word) /\ cb \in Text /\ <<Blank>> \in Seq(Letter) /\ <<Colon>> \in Seq(Letter)
  BY <1>2, Tuples DEF Text
<1>5. Characters(cb) = cb
  <2> HIDE DEF cb
  <2> QED BY <1>4, CharactersWord
<1>6. Characters(Entry(key, value)) = kc \o v
  <2> HIDE DEF cb
  <2>1. kc \in Text
    BY <1>1, <1>4, ConcatProperties DEF Text
  <2>2. Characters(kc) = kc
    BY <1>1, <1>4, <1>5, CharactersConcat
  <2> HIDE DEF kc
  <2>3. Characters(kc \o value) = Characters(kc) \o Characters(value)
    BY <2>1, CharactersConcat
  <2> QED BY <2>2, <2>3 DEF Entry, kc, cb
<1>7. kc \o v = line
  <2> DEFINE b == <<Blank>>
             k == Append(key, Colon)
  <2>1. Append(key, Colon) = key \o <<Colon>> /\ k \in Seq(Letter)
    BY <1>1, <1>2, AppendIsConcat, AppendProperties DEF Text
  <2>2. cb = <<Colon>> \o <<Blank>>
    BY <1>2, TupleConcat
  <2>3. key \in Seq(Letter) /\ v \in Seq(Letter)
    BY <1>1, <1>3 DEF Text
  <2> DEFINE c == <<Colon>>
  <2>4. c \in Seq(Letter) /\ b \in Seq(Letter)
    BY <1>4
  <2> HIDE DEF b, c, v
  <2>5. key \o (c \o b) = (key \o c) \o b
    <3>1. AreSeqs(Letter, key, c, b)
      BY <2>3, <2>4 DEF AreSeqs
    <3> QED BY <3>1, Regroup
  <2> HIDE DEF k
  <2>6. (k \o b) \o v = k \o (b \o v)
    <3>1. AreSeqs(Letter, k, b, v)
      BY <2>1, <2>3, <2>4 DEF AreSeqs
    <3> QED BY <3>1, Regroup
  <2> QED BY <2>1, <2>2, <2>5, <2>6 DEF k, b, c, cb
<1>8. rest \in Seq(L)
  BY <1>3, BlankBefore
<1>9. Append(key, Colon) \in Seq(L) /\ key \in Seq(L)
  <2>1. key \in Seq(L)
    BY <1>1, <1>2, SeqMonotonic
  <2> HIDE DEF L
  <2> QED BY <1>2, <2>1, AppendProperties
<1>10. line \in Seq(L)
  <2> DEFINE a == Append(key, Colon)
  <2> HIDE DEF a, rest, L
  <2>1. a \in Seq(L) /\ rest \in Seq(L)
    BY <1>8, <1>9 DEF a
  <2> QED BY <2>1, ConcatProperties DEF a
<1>11. ValueAfter(rest, value)
  BY ReceivedValueIs
<1> HIDE DEF rest, v, L
<1>12. /\ Occurs(Colon, line) /\ KeyOf(line) = key
       /\ rest \in Seq(L \ {Colon}) => ValueOf(line) = rest
       /\ \A r \in Seq(L \ {Colon}), t \in Seq(L) :
            rest = Append(r, Colon) \o t => ValueOf(line) = IF t = <<>> THEN r ELSE <<>>
  <2>1. key \in Seq(L \ {Colon})
    BY <1>1 DEF L
  <2> QED BY <1>2, <1>8, <2>1, KeyValue
<1> HIDE DEF line
<1>13. ValueOf(line) = ReceivedValue(value)
  BY <1>11, <1>12 DEF ValueAfter, L
<1> QED BY <1>6, <1>7, <1>10, <1>12, <1>13 DEF IsEntry, L

(* A line that ends with its colon *)
LEMMA HeadingRead ==
  ASSUME NEW w \in LineInner \ {Colon}
  PROVE  /\ <<w, Colon>> \in Seq(LineInner) /\ IsEntry(<<w, Colon>>, <<w>>, <<>>)
         /\ <<w, Colon, Blank>> \in Seq(LineInner)
         /\ IsEntry(<<w, Colon, Blank>>, <<w>>, <<Blank>>)
<1> DEFINE L == LineInner
           M == LineInner \ {Colon}
           b == <<Blank>>
           k == <<w, Colon>>
<1>1. Colon \in L /\ Blank \in L /\ Blank \in M /\ w \in L /\ w \in M
  BY LineInnerLetters DEF Blank, Colon
<1> HIDE DEF L, M
<1>2. <<w>> \in Seq(M) /\ <<>> \in Seq(M) /\ <<>> \in Seq(L) /\ b \in Seq(M) /\ b \in Seq(L)
      /\ k \in Seq(L) /\ <<w, Colon, Blank>> \in Seq(L)
  BY <1>1
<1>3. Append(<<w>>, Colon) = k
  BY <1>1, TupleAppend
<1>4. k \o <<>> = k
  <2> HIDE DEF k
  <2> QED BY <1>2, ConcatEmptySeq
<1>5. k \o b = <<w, Colon, Blank>>
  BY <1>1, TupleConcatThree
<1>6. ASSUME NEW rest \in Seq(L), rest \in Seq(M)
      PROVE  IsEntry(k \o rest, <<w>>, rest)
  <2> DEFINE kw == <<w>>
  <2> HIDE DEF k, kw
  <2>1. kw \in Seq(L \ {Colon}) /\ rest \in Seq(L \ {Colon})
    BY <1>2, <1>6 DEF kw, L, M
  <2>2. LET line == Append(kw, Colon) \o rest
        IN  Occurs(Colon, line) /\ KeyOf(line) = kw /\ ValueOf(line) = rest
    BY <1>1, <2>1, KeyValue
  <2> QED BY <1>3, <2>2 DEF IsEntry, kw
<1>7. IsEntry(k \o <<>>, <<w>>, <<>>) /\ IsEntry(k \o b, <<w>>, b)
  BY <1>2, <1>6
<1> QED BY <1>2, <1>4, <1>5, <1>7 DEF L

LEMMA AsciiKey ==
  ASSUME NEW k \in Text, OneLine(k), ToSet(k) \cap (NonAscii \cup {Colon}) = {}
  PROVE  IsKey(<<Blank, Blank>> \o k)
<1> DEFINE b == <<Blank, Blank>>
           M == LineInner \ {Colon}
           c == Characters(k)
<1>1. /\ Blank \in Word /\ Blank \in M
  BY Letters, LineInnerLetters DEF Blank, Colon
<1> HIDE DEF M
<1>2. b \in Seq(Word) /\ b \in Seq(M)
  BY <1>1
<1> HIDE DEF b
<1>3. b \in Text /\ Characters(b) = b
  BY <1>2, CharactersWord
<1>4. \A i \in 1..Len(k) : k[i] \notin NonAscii /\ k[i] # Colon
  <2>1. DOMAIN k = 1..Len(k)
    BY LenProperties DEF Text
  <2> QED BY <2>1 DEF ToSet
<1>5. c \in Seq(M)
  BY <1>4, OneLineCharacters DEF M
<1>6. c = k
  <2>1. c \in Text /\ Len(c) = Len(k) /\ \A i \in 1..Len(k) : c[i] = DecodedChar(k[i])
    BY CharactersType
  <2>2. \A i \in 1..Len(k) : DecodedChar(k[i]) = k[i]
    BY <1>4 DEF DecodedChar
  <2> HIDE DEF c
  <2> QED BY <2>1, <2>2, SeqEqual DEF Text
<1>7. b \o k \in Text /\ b \o k \in Seq(M)
  BY <1>2, <1>3, <1>5, <1>6, ConcatProperties DEF Text
<1>8. Characters(b \o k) = b \o k
  BY <1>3, <1>6, CharactersConcat
<1> QED BY <1>7, <1>8 DEF IsKey, b, M

LEMMA OneLineParts ==
  ASSUME NEW s \in Text, NEW t \in Text, OneLine(s \o t)
  PROVE  OneLine(s) /\ OneLine(t)
<1> DEFINE st == s \o t
           m == Len(s)
           n == Len(t)
<1>1. /\ st \in Text /\ Len(st) = m + n /\ DOMAIN st = 1..(m + n)
      /\ \A i \in 1..(m + n) : st[i] = IF i <= m THEN s[i] ELSE t[i - m]
  BY ConcatProperties, LenProperties DEF Text
<1>2. m \in Nat /\ n \in Nat /\ DOMAIN s = 1..m /\ DOMAIN t = 1..n
  BY LenProperties DEF Text
<1>3. OneLine(st)
  OBVIOUS
<1> HIDE DEF st, m, n
<1>4. \A i \in 1..(m + n) : st[i] \notin {Nul, Newline}
  BY <1>1, <1>3 DEF OneLine, ToSet
<1>5. ASSUME NEW i \in 1..m PROVE s[i] \notin {Nul, Newline}
  <2>1. i \in 1..(m + n) /\ i <= m
    BY <1>2
  <2> QED BY <1>1, <1>4, <2>1
<1>6. ASSUME NEW i \in 1..n PROVE t[i] \notin {Nul, Newline}
  <2>1. m + i \in 1..(m + n) /\ ~(m + i <= m) /\ (m + i) - m = i
    BY <1>2
  <2> QED BY <1>1, <1>4, <2>1
<1> QED BY <1>2, <1>5, <1>6 DEF OneLine, ToSet

LEMMA OneLineChar ==
  ASSUME NEW ch \in Letter \ {Nul, Newline}
  PROVE  <<ch>> \in Text /\ OneLine(<<ch>>)
<1>1. <<ch>> \in Text
  BY DEF Text
<1>2. ToSet(<<ch>>) = {ch}
  <2>1. DOMAIN <<ch>> = 1..1 /\ <<ch>>[1] = ch
    OBVIOUS
  <2> QED BY <2>1 DEF ToSet
<1> QED BY <1>1, <1>2 DEF OneLine

(* The lines of a frame up to the description, as the receiver reads them *)
IsFore(lines, user, event) ==
  LET keys == SetToSeq(DOMAIN event.info)
      n == Cardinality(DOMAIN event.info)
  IN  /\ lines \in Seq(Seq(LineInner)) /\ Len(lines) = 5 + n
      /\ IsEntry(lines[1], <<"user">>, ReceivedValue(<<user>>))
      /\ IsEntry(lines[2], <<"city">>, ReceivedValue(event.city))
      /\ IsEntry(lines[3], <<"event name">>, ReceivedValue(event.name))
      /\ IsEntry(lines[4], <<"date time">>, ReceivedValue(<<event.date>>))
      /\ IsEntry(lines[5], <<"general information">>, <<>>)
      /\ \A i \in 1..n :
           IsEntry(lines[5 + i], <<Blank, Blank>> \o keys[i], ReceivedValue(event.info[keys[i]]))

LEMMA HeadRead ==
  ASSUME NEW u \in User, NEW event \in Event, PlainEvent(event)
  PROVE  LET a == Characters(UserLine(u))
             b == Characters(Entry(<<"city">>, event.city))
             c == Characters(Entry(<<"event name">>, event.name))
             d == Characters(Entry(<<"date time">>, <<event.date>>))
             e == Characters(<<"general information", Colon>>)
             S == Seq(LineInner)
         IN  /\ a \in S /\ b \in S /\ c \in S /\ d \in S /\ e \in S
             /\ IsEntry(a, <<"user">>, ReceivedValue(<<u>>))
             /\ IsEntry(b, <<"city">>, ReceivedValue(event.city))
             /\ IsEntry(c, <<"event name">>, ReceivedValue(event.name))
             /\ IsEntry(d, <<"date time">>, ReceivedValue(<<event.date>>))
             /\ IsEntry(e, <<"general information">>, <<>>)
<1>1. /\ "user" \in Word \ {Nul, Newline, Colon} /\ "city" \in Word \ {Nul, Newline, Colon}
      /\ "event name" \in Word \ {Nul, Newline, Colon}
      /\ "date time" \in Word \ {Nul, Newline, Colon}
  <2>1. "user" \in Word /\ "city" \in Word /\ "event name" \in Word /\ "date time" \in Word
    BY Letters
  <2> QED BY <2>1 DEF Nul, Newline, Colon
<1>2. /\ IsKey(<<"user">>) /\ IsKey(<<"city">>) /\ IsKey(<<"event name">>)
      /\ IsKey(<<"date time">>)
  BY <1>1, WordKey
<1>3. OneLine(event.city) /\ OneLine(event.name)
  BY DEF PlainEvent
<1>4. event.city \in Text /\ event.name \in Text /\ event.date \in Number
  <2>1. event.city \in Seq(Payload) /\ event.name \in Seq(Payload) /\ event.date \in Number
    BY DEF Event
  <2>2. Payload \subseteq Letter
    BY LineLetters
  <2> QED BY <2>1, <2>2, SeqMonotonic DEF Text
<1>5. <<event.date>> \in Text /\ OneLine(<<event.date>>)
  <2>1. event.date \in Letter \ {Nul, Newline}
    BY <1>4, Letters
  <2> QED BY <2>1, OneLineChar
<1>6. <<u>> \in Text /\ OneLine(<<u>>)
  <2>1. u \in Letter \ {Nul, Newline}
    BY NameLetters
  <2> QED BY <2>1, OneLineChar
<1>7. Entry(<<"user">>, <<u>>) = UserLine(u)
  <2> DEFINE w == "user"
             x == <<w>>
             y == <<Colon, Blank>>
  <2>1. w \in Letter /\ Colon \in Letter /\ Blank \in Letter /\ u \in Letter
    BY <1>1, Letters, NameLetters
  <2> HIDE DEF w
  <2>2. x \o y = <<w, Colon, Blank>>
    BY <2>1, TupleConcat
  <2>3. <<w, Colon, Blank>> \o <<u>> = <<w, Colon, Blank, u>>
    BY <2>1, TupleConcatFour
  <2> QED BY <2>2, <2>3 DEF w, Entry, UserLine
<1>8. LET a == Characters(Entry(<<"user">>, <<u>>))
      IN  a \in Seq(LineInner) /\ IsEntry(a, <<"user">>, ReceivedValue(<<u>>))
  BY <1>2, <1>6, EntryRead
<1>9. LET b == Characters(Entry(<<"city">>, event.city))
      IN  b \in Seq(LineInner) /\ IsEntry(b, <<"city">>, ReceivedValue(event.city))
  BY <1>2, <1>3, <1>4, EntryRead
<1>10. LET c == Characters(Entry(<<"event name">>, event.name))
       IN  c \in Seq(LineInner) /\ IsEntry(c, <<"event name">>, ReceivedValue(event.name))
  BY <1>2, <1>3, <1>4, EntryRead
<1>11. LET d == Characters(Entry(<<"date time">>, <<event.date>>))
       IN  d \in Seq(LineInner) /\ IsEntry(d, <<"date time">>, ReceivedValue(<<event.date>>))
  BY <1>2, <1>5, EntryRead
<1>12. LET e == Characters(<<"general information", Colon>>)
       IN  e \in Seq(LineInner) /\ IsEntry(e, <<"general information">>, <<>>)
  <2> DEFINE w == "general information"
             g == <<w, Colon>>
  <2>1. w \in Word /\ Colon \in Word /\ w \in LineInner \ {Colon}
    BY Letters, LineInnerLetters DEF Colon
  <2> HIDE DEF w
  <2>2. g \in Seq(Word)
    BY <2>1, Tuples
  <2>3. g \in Seq(LineInner) /\ IsEntry(g, <<w>>, <<>>)
    BY <2>1, HeadingRead
  <2> HIDE DEF g
  <2>4. Characters(g) = g
    BY <2>2, CharactersWord
  <2> QED BY <2>3, <2>4 DEF g, w
<1> QED BY <1>7, <1>8, <1>9, <1>10, <1>11, <1>12

LEMMA InfoRead ==
  ASSUME NEW event \in Event, PlainEvent(event)
  PROVE  LET keys == SetToSeq(DOMAIN event.info)
             n == Cardinality(DOMAIN event.info)
             lines == DecodedLines(InfoLines(event))
         IN  /\ lines \in Seq(Seq(LineInner)) /\ Len(lines) = n /\ n \in Nat
             /\ \A i \in 1..n :
                  IsEntry(lines[i], <<Blank, Blank>> \o keys[i], ReceivedValue(event.info[keys[i]]))
<1> DEFINE keys == SetToSeq(DOMAIN event.info)
           n == Cardinality(DOMAIN event.info)
           il == InfoLines(event)
           lines == DecodedLines(il)
           T == Text
           S == Seq(LineInner)
<1>1. /\ n \in Nat
      /\ \A i \in 1..n : keys[i] \in DOMAIN event.info
      /\ \A k \in DOMAIN event.info : k \in Seq(Payload) /\ event.info[k] \in Seq(Payload)
      /\ Len(il) = n
      /\ \A i \in 1..n : il[i] = Entry(<<Blank, Blank>> \o keys[i], event.info[keys[i]])
  BY InfoLinesType
<1>2. Seq(Payload) \subseteq Text
  BY LineLetters, SeqMonotonic DEF Text
<1>3. il \in Seq(T)
  <2>1. il \in Seq(Seq(LineLetter))
    BY InfoLinesType
  <2>2. Seq(LineLetter) \subseteq T
    BY LineLetters, SeqMonotonic DEF Text
  <2> HIDE DEF il, T
  <2> QED BY <2>1, <2>2, SeqMonotonic
<1> HIDE DEF il, keys, n
<1>4. lines \in Seq(T) /\ Len(lines) = n /\ \A i \in 1..n : lines[i] = Characters(il[i])
  BY <1>1, <1>3, DecodedLinesType
<1>5. \A k \in DOMAIN event.info :
        OneLine(k \o event.info[k]) /\ ToSet(k) \cap (NonAscii \cup {Colon}) = {}
  BY DEF PlainEvent
<1> HIDE DEF lines
<1>6. ASSUME NEW i \in 1..n
      PROVE  /\ lines[i] \in S
             /\ IsEntry(lines[i], <<Blank, Blank>> \o keys[i], ReceivedValue(event.info[keys[i]]))
  <2> DEFINE k == keys[i]
             v == event.info[k]
             bk == <<Blank, Blank>> \o k
  <2>1. k \in DOMAIN event.info /\ k \in Text /\ v \in Text
    BY <1>1, <1>2
  <2>2. OneLine(k \o v) /\ ToSet(k) \cap (NonAscii \cup {Colon}) = {}
    BY <1>5, <2>1
  <2>3. lines[i] = Characters(Entry(bk, v))
    BY <1>1, <1>4
  <2> HIDE DEF k, v
  <2>4. OneLine(k) /\ OneLine(v)
    BY <2>1, <2>2, OneLineParts
  <2>5. IsKey(bk)
    BY <2>1, <2>2, <2>4, AsciiKey
  <2> HIDE DEF bk
  <2>6. Characters(Entry(bk, v)) \in S /\ IsEntry(Characters(Entry(bk, v)), bk, ReceivedValue(v))
    BY <2>1, <2>4, <2>5, EntryRead
  <2> QED BY <2>3, <2>6 DEF bk, k, v
<1>7. lines \in Seq(S)
  <2> HIDE DEF S
  <2>1. Len(lines) \in Nat /\ lines \in [1..n -> S]
    BY <1>1, <1>4, <1>6, LenProperties
  <2> QED BY <1>1, <2>1
<1> QED BY <1>1, <1>4, <1>6, <1>7 DEF lines, il, keys, n

LEMMA ForeRead ==
  ASSUME NEW u \in User, NEW event \in Event, PlainEvent(event)
  PROVE  LET lines == DecodedLines(ForeLines(u, event))
         IN  /\ IsFore(lines, u, event) /\ lines[1] # <<>> /\ lines[1][1] = "user"
<1> DEFINE T == Text
           S == Seq(LineInner)
           ul == UserLine(u)
           eh == EventHead(event)
           il == InfoLines(event)
           h == <<ul>> \o eh
           n == Cardinality(DOMAIN event.info)
           keys == SetToSeq(DOMAIN event.info)
           b == Entry(<<"city">>, event.city)
           c == Entry(<<"event name">>, event.name)
           d == Entry(<<"date time">>, <<event.date>>)
           e == <<"general information", Colon>>
           dh == DecodedLines(h)
           di == DecodedLines(il)
           lines == DecodedLines(h \o il)
<1>1. ForeLines(u, event) = h \o il
  BY DEF ForeLines
<1>2. ul \in T /\ eh \in Seq(T) /\ il \in Seq(T)
  BY ForeType
<1>3. eh = <<b, c, d, e>>
  BY DEF EventHead
<1>4. /\ Characters(ul) \in S /\ Characters(b) \in S /\ Characters(c) \in S
      /\ Characters(d) \in S /\ Characters(e) \in S
      /\ IsEntry(Characters(ul), <<"user">>, ReceivedValue(<<u>>))
      /\ IsEntry(Characters(b), <<"city">>, ReceivedValue(event.city))
      /\ IsEntry(Characters(c), <<"event name">>, ReceivedValue(event.name))
      /\ IsEntry(Characters(d), <<"date time">>, ReceivedValue(<<event.date>>))
      /\ IsEntry(Characters(e), <<"general information">>, <<>>)
  BY HeadRead
<1>5. /\ di \in Seq(S) /\ Len(di) = n /\ n \in Nat
      /\ \A i \in 1..n :
           IsEntry(di[i], <<Blank, Blank>> \o keys[i], ReceivedValue(event.info[keys[i]]))
  BY InfoRead
<1>6. Characters(ul) # <<>> /\ Characters(ul)[1] = "user"
  <2> DEFINE w == "user"
             l == <<w, Colon, Blank, u>>
             cl == Characters(l)
  <2>1. w \in Word /\ w \in Letter /\ Colon \in Letter /\ Blank \in Letter /\ u \in Letter
    BY Letters, NameLetters
  <2>2. l = ul
    BY DEF UserLine
  <2> HIDE DEF w
  <2>3. l \in Seq(Letter) /\ Len(l) = 4 /\ l[1] = w
    BY <2>1
  <2> HIDE DEF l
  <2>4. cl \in Text /\ Len(cl) = 4 /\ \A i \in 1..4 : cl[i] = DecodedChar(l[i])
    BY <2>3, CharactersType DEF Text
  <2> HIDE DEF cl
  <2>5. cl[1] = w
    <3>1. cl[1] = DecodedChar(w)
      BY <2>3, <2>4
    <3> QED BY <2>1, <3>1, DecodedLetters
  <2>6. cl # <<>>
    <3>1. Len(<<>>) = 0
      OBVIOUS
    <3> QED BY <2>4, <3>1
  <2> QED BY <2>2, <2>5, <2>6 DEF w, cl
<1> HIDE DEF ul, b, c, d, e, T, S
<1>7. /\ h \in Seq(T) /\ Len(h) = 5
      /\ h[1] = ul /\ h[2] = b /\ h[3] = c /\ h[4] = d /\ h[5] = e
  <2> DEFINE x == <<b, c, d, e>>
             a == <<ul>>
  <2>1. x \in Seq(T) /\ Len(x) = 4 /\ x[1] = b /\ x[2] = c /\ x[3] = d /\ x[4] = e
    BY <1>2, <1>3
  <2>2. a \in Seq(T) /\ Len(a) = 1 /\ a[1] = ul
    BY <1>2
  <2>3. h = a \o x
    BY <1>3
  <2> HIDE DEF x, a
  <2>4. /\ a \o x \in Seq(T) /\ Len(a \o x) = Len(a) + Len(x)
        /\ \A i \in 1..(Len(a) + Len(x)) :
             (a \o x)[i] = IF i <= Len(a) THEN a[i] ELSE x[i - Len(a)]
    BY <2>1, <2>2, ConcatProperties
  <2> HIDE DEF h
  <2>5. /\ h \in Seq(T) /\ Len(h) = 5
        /\ \A i \in 1..5 : h[i] = IF i <= 1 THEN a[i] ELSE x[i - 1]
    BY <2>1, <2>2, <2>3, <2>4
  <2> QED BY <2>1, <2>2, <2>5
<1> HIDE DEF h, il
<1>8. /\ dh \in Seq(T) /\ Len(dh) = 5 /\ \A i \in 1..5 : dh[i] = Characters(h[i])
  BY <1>7, DecodedLinesType DEF T
<1>9. lines = dh \o di
  BY <1>2, <1>7, DecodedLinesConcat DEF T
<1> HIDE DEF dh, di, lines, n, keys
<1>10. /\ dh[1] = Characters(ul) /\ dh[2] = Characters(b) /\ dh[3] = Characters(c)
       /\ dh[4] = Characters(d) /\ dh[5] = Characters(e)
  BY <1>7, <1>8
<1>11. dh \in Seq(S)
  <2>1. ASSUME NEW i \in 1..5 PROVE dh[i] \in S
    <3>1. i = 1 \/ i = 2 \/ i = 3 \/ i = 4 \/ i = 5
      OBVIOUS
    <3> QED BY <1>4, <1>10, <3>1
  <2>2. Len(dh) \in Nat /\ dh \in [1..Len(dh) -> T]
    BY <1>8, LenProperties
  <2> DEFINE k == Len(dh)
  <2>3. \A i \in 1..k : dh[i] \in S
    BY <1>8, <2>1
  <2> HIDE DEF k
  <2>4. dh \in [1..k -> S] /\ k \in Nat
    BY <2>2, <2>3 DEF k
  <2> QED BY <2>4
<1>12. /\ lines \in Seq(S) /\ Len(lines) = 5 + n
       /\ \A i \in 1..(5 + n) : lines[i] = IF i <= 5 THEN dh[i] ELSE di[i - 5]
  <2>1. /\ dh \o di \in Seq(S) /\ Len(dh \o di) = Len(dh) + Len(di)
        /\ \A i \in 1..(Len(dh) + Len(di)) :
             (dh \o di)[i] = IF i <= Len(dh) THEN dh[i] ELSE di[i - Len(dh)]
    BY <1>5, <1>11, ConcatProperties
  <2> QED BY <1>5, <1>8, <1>9, <2>1
<1>13. /\ lines[1] = dh[1] /\ lines[2] = dh[2] /\ lines[3] = dh[3] /\ lines[4] = dh[4]
       /\ lines[5] = dh[5]
  <2>1. 1 \in 1..(5 + n) /\ 2 \in 1..(5 + n) /\ 3 \in 1..(5 + n) /\ 4 \in 1..(5 + n)
        /\ 5 \in 1..(5 + n)
    BY <1>5
  <2> QED BY <1>12, <2>1
<1>14. ASSUME NEW i \in 1..n PROVE lines[5 + i] = di[i]
  <2>1. 5 + i \in 1..(5 + n) /\ ~(5 + i <= 5) /\ (5 + i) - 5 = i
    BY <1>5
  <2> QED BY <1>12, <2>1
<1>15. IsFore(lines, u, event)
  BY <1>4, <1>5, <1>10, <1>12, <1>13, <1>14 DEF IsFore, keys, n, S
<1>16. lines[1] # <<>> /\ lines[1][1] = "user"
  BY <1>6, <1>10, <1>13
<1> QED BY <1>1, <1>15, <1>16 DEF lines

-----------------------------------------------------------------------------
(* The description *)

(* Where a text has its last character that is not white space *)
BlackEnd(text) == SelectLastInSeq(text, LAMBDA ch : ch \notin White)

LEMMA BlackEndValue ==
  ASSUME NEW S, NEW text \in Seq(S)
  PROVE  /\ BlackEnd(text) \in 0..Len(text)
         /\ BlackEnd(text) # 0 => text[BlackEnd(text)] \notin White
         /\ \A i \in (BlackEnd(text) + 1)..Len(text) : text[i] \in White
<1> DEFINE n == Len(text)
           I == {i \in 1..n : text[i] \notin White}
           k == BlackEnd(text)
<1>1. n \in Nat
  BY LenProperties
<1>2. k = IF I # {} THEN Max(I) ELSE 0
  BY DEF BlackEnd, SelectLastInSeq
<1> HIDE DEF k, n
<1>3. CASE I = {}
  <2>1. k = 0 /\ \A i \in 1..n : text[i] \in White
    BY <1>2, <1>3
  <2> QED BY <1>1, <2>1 DEF k, n
<1>4. CASE I # {}
  <2>1. I \in SUBSET (1..n)
    OBVIOUS
  <2>2. k = Max(I)
    BY <1>2, <1>4
  <2>3. k \in I /\ \A x \in I : x <= k
    <3> HIDE DEF I
    <3> QED BY <1>1, <1>4, <2>1, <2>2, MaxProperties
  <2>4. k \in 1..n /\ text[k] \notin White
    BY <2>3
  <2>5. ASSUME NEW i \in (k + 1)..n PROVE text[i] \in White
    <3>1. i \in 1..n /\ ~(i <= k)
      BY <1>1, <2>4
    <3> QED BY <2>3, <3>1
  <2> QED BY <1>1, <2>4, <2>5 DEF k, n
<1> QED BY <1>3, <1>4

(* White space is decoded to white space, and nothing else is. *)
LEMMA WhiteDecoded ==
  /\ White \subseteq Word
  /\ \A ch \in Letter : DecodedChar(ch) \in White <=> ch \in White
<1>1. White \subseteq Word
  BY DEF Word
<1>2. ASSUME NEW ch \in White PROVE DecodedChar(ch) = ch
  BY <1>1, <1>2, DecodedLetters
<1>3. ASSUME NEW ch, DecodedChar(ch) \in White PROVE ch \in White
  <2>1. DecodedChar(ch) # Garbage
    BY <1>1, <1>3, DecodedLetters
  <2>2. ch = DecodedChar(ch)
    BY <2>1, DecodedLetters
  <2> QED BY <1>3, <2>2
<1> QED BY <1>1, <1>2, <1>3

(* What is left of a description *)
Kept(text) == Characters(SubSeq(text, 1, BlackEnd(text)))

LEMMA KeptValue ==
  ASSUME NEW text \in Text, ~Occurs(Nul, text)
  PROVE  /\ Characters(text) \in Seq(Inner)
         /\ BlackEnd(text) = 0 => Characters(text) \in Seq(White)
         /\ BlackEnd(text) # 0 =>
              /\ Kept(text) \in Seq(Inner) /\ Kept(text) # <<>>
              /\ Kept(text)[Len(Kept(text))] \notin White
              /\ \E w \in Seq(White) : Characters(text) = Kept(text) \o w
<1> DEFINE n == Len(text)
           k == BlackEnd(text)
           a == SubSeq(text, 1, k)
           b == SubSeq(text, k + 1, n)
           c == Characters(text)
<1>1. n \in Nat /\ text \in Seq(Letter) /\ DOMAIN text = 1..n
  BY LenProperties DEF Text
<1>2. /\ k \in 0..n
      /\ k # 0 => text[k] \notin White
      /\ \A i \in (k + 1)..n : text[i] \in White
  BY <1>1, BlackEndValue
<1>3. \A i \in 1..n : text[i] # Nul
  BY <1>1 DEF Occurs, ToSet
<1>4. c \in Seq(Inner)
  BY <1>3, InnerCharacters
<1>5. c \in Text /\ Len(c) = n /\ \A i \in 1..n : c[i] = DecodedChar(text[i])
  BY CharactersType
<1> HIDE DEF k, n, c
<1>6. ASSUME k = 0 PROVE c \in Seq(White)
  <2>1. ASSUME NEW i \in 1..n PROVE c[i] \in White
    <3>1. i \in (k + 1)..n
      BY <1>1, <1>6
    <3>2. text[i] \in White /\ text[i] \in Letter
      BY <1>2, <3>1, WhiteDecoded, Letters
    <3> QED BY <1>5, <3>2, WhiteDecoded
  <2>2. c \in [1..n -> Inner]
    BY <1>4, <1>5, LenProperties
  <2>3. c \in [1..n -> White]
    BY <2>1, <2>2
  <2> QED BY <1>1, <2>3
<1>7. ASSUME k # 0
      PROVE  /\ Kept(text) \in Seq(Inner) /\ Kept(text) # <<>>
             /\ Kept(text)[Len(Kept(text))] \notin White
             /\ \E w \in Seq(White) : c = Kept(text) \o w
  <2>1. k \in 1..n /\ 1 \in Nat \ {0} /\ k + 1 \in Nat \ {0} /\ k \in Int /\ n \in Int /\ k <= n
        /\ k \in 0..n /\ n <= n
    BY <1>1, <1>2, <1>7
  <2>2. a \in Seq(Letter) /\ Len(a) = k /\ \A i \in 1..k : a[i] = text[i]
    <3>1. /\ a \in Seq(Letter) /\ Len(a) = (IF 1 <= k THEN k - 1 + 1 ELSE 0)
          /\ \A i \in 1..(k - 1 + 1) : a[i] = text[1 + i - 1]
      BY <1>1, <2>1, PartType DEF n
    <3> HIDE DEF a
    <3>2. Len(a) = k
      BY <2>1, <3>1
    <3>3. \A i \in 1..k : i \in 1..(k - 1 + 1) /\ 1 + i - 1 = i
      BY <2>1
    <3> QED BY <3>1, <3>2, <3>3
  <2>3. b \in Seq(Letter) /\ Len(b) = n - k /\ \A i \in 1..(n - k) : b[i] = text[k + i]
    <3>1. /\ b \in Seq(Letter) /\ Len(b) = (IF k + 1 <= n THEN n - (k + 1) + 1 ELSE 0)
          /\ \A i \in 1..(n - (k + 1) + 1) : b[i] = text[k + 1 + i - 1]
      BY <1>1, <2>1, PartType DEF n
    <3> HIDE DEF b
    <3>2. Len(b) = n - k
      BY <2>1, <3>1
    <3>3. \A i \in 1..(n - k) : i \in 1..(n - (k + 1) + 1) /\ k + 1 + i - 1 = k + i
      BY <2>1
    <3> QED BY <3>1, <3>2, <3>3
  <2>4. a \o b = text
    BY <1>1, <2>1, CutAt DEF n
  <2>5. a \in Text /\ b \in Text
    BY <2>2, <2>3 DEF Text
  <2> HIDE DEF a, b
  <2> DEFINE d == Characters(a)
             w == Characters(b)
  <2>6. c = d \o w
    BY <2>4, <2>5, CharactersConcat DEF c
  <2>7. d \in Text /\ Len(d) = k /\ \A i \in 1..k : d[i] = DecodedChar(a[i])
    BY <2>2, <2>5, CharactersType
  <2>8. w \in Text /\ Len(w) = n - k /\ \A i \in 1..(n - k) : w[i] = DecodedChar(b[i])
    BY <2>3, <2>5, CharactersType
  <2>9. d \in Seq(Inner)
    <3>1. \A i \in 1..Len(a) : a[i] # Nul
      <4>1. \A i \in 1..k : i \in 1..n
        BY <2>1
      <4> QED BY <1>3, <2>2, <4>1
    <3> QED BY <2>5, <3>1, InnerCharacters
  <2> HIDE DEF d, w
  <2>10. w \in Seq(White)
    <3>1. ASSUME NEW i \in 1..(n - k) PROVE w[i] \in White
      <4>1. k + i \in (k + 1)..n
        BY <2>1
      <4>2. b[i] \in White /\ b[i] \in Letter
        BY <1>2, <2>3, <4>1, WhiteDecoded, Letters
      <4> QED BY <2>8, <4>2, WhiteDecoded
    <3>2. w \in [1..(n - k) -> Letter] /\ n - k \in Nat
      BY <2>1, <2>8, LenProperties DEF Text
    <3>3. w \in [1..(n - k) -> White]
      BY <3>1, <3>2
    <3> QED BY <3>2, <3>3
  <2>11. d # <<>> /\ d[Len(d)] \notin White
    <3>1. k \in 1..k
      BY <2>1
    <3>2. d[k] = DecodedChar(text[k])
      BY <2>2, <2>7, <3>1
    <3>3. text[k] \in Letter
      BY <1>1, <2>1, ElementOfSeq DEF n
    <3>4. d[k] \notin White
      BY <1>2, <1>7, <3>2, <3>3, WhiteDecoded
    <3>5. Len(<<>>) = 0
      OBVIOUS
    <3> QED BY <1>7, <2>7, <3>4, <3>5
  <2>12. Kept(text) = d
    BY DEF Kept, d, a, k
  <2> QED BY <2>6, <2>9, <2>10, <2>11, <2>12
<1> QED BY <1>4, <1>6, <1>7 DEF c, k

(* What is left of the end of a frame when its body is trimmed *)
ReceivedTail(text) ==
  IF BlackEnd(text) = 0 THEN <<"description", Colon>>
  ELSE Append(DescriptionLine, Newline) \o Kept(text)

LEMMA DescriptionLineType ==
  /\ DescriptionLine \in Seq(LineInner) /\ <<"description", Colon>> \in Seq(LineInner)
  /\ IsEntry(DescriptionLine, <<"description">>, <<Blank>>)
  /\ IsEntry(<<"description", Colon>>, <<"description">>, <<>>)
<1> DEFINE w == "description"
<1>1. w \in LineInner \ {Colon}
  BY LineInnerLetters DEF Colon
<1> HIDE DEF w
<1>2. /\ <<w, Colon>> \in Seq(LineInner) /\ IsEntry(<<w, Colon>>, <<w>>, <<>>)
      /\ <<w, Colon, Blank>> \in Seq(LineInner)
      /\ IsEntry(<<w, Colon, Blank>>, <<w>>, <<Blank>>)
  BY <1>1, HeadingRead
<1> QED BY <1>2 DEF DescriptionLine, w

LEMMA LastOfWhole ==
  ASSUME NEW S, NEW s \in Seq(S), NEW t \in Seq(S), t # <<>>
  PROVE  s \o t \in Seq(S) /\ s \o t # <<>> /\ (s \o t)[Len(s \o t)] = t[Len(t)]
<1> DEFINE st == s \o t
<1>1. /\ st \in Seq(S) /\ Len(st) = Len(s) + Len(t)
      /\ \A i \in 1..(Len(s) + Len(t)) : st[i] = IF i <= Len(s) THEN s[i] ELSE t[i - Len(s)]
  BY ConcatProperties
<1>2. Len(s) \in Nat /\ Len(t) \in Nat \ {0}
  BY LenProperties, EmptySeq
<1> HIDE DEF st
<1>3. Len(s) + Len(t) \in 1..(Len(s) + Len(t)) /\ ~(Len(s) + Len(t) <= Len(s))
      /\ (Len(s) + Len(t)) - Len(s) = Len(t)
  BY <1>2
<1>4. st[Len(st)] = t[Len(t)]
  BY <1>1, <1>3
<1>5. st # <<>>
  <2>1. Len(<<>>) = 0
    OBVIOUS
  <2> QED BY <1>1, <1>2, <2>1
<1> QED BY <1>1, <1>4, <1>5 DEF st

LEMMA TailCut ==
  ASSUME NEW text \in Text, ~Occurs(Nul, text)
  PROVE  /\ ReceivedTail(text) \in Seq(Inner) /\ ReceivedTail(text) # <<>>
         /\ ReceivedTail(text)[Len(ReceivedTail(text))] \notin White
         /\ \E w \in Seq(White) : TailText(Characters(text)) = ReceivedTail(text) \o w
<1> DEFINE k == BlackEnd(text)
           z == ReceivedTail(text)
           D == Characters(text)
           S == Inner
           Q == Seq(S)
           W == Seq(White)
           dl == DescriptionLine
           dn == Append(D, Newline)
           nl == <<Newline>>
           an == Append(dl, Newline)
<1>1. Newline \in S /\ White \subseteq S /\ Newline \in White /\ Blank \in White /\ Blank \in S
  BY InnerLetters DEF White
<1>2. D \in Q
  BY KeptValue
<1>3. dl \in Q /\ <<"description", Colon>> \in Q
  <2>1. Seq(LineInner) \subseteq Q
    BY LineInnerLetters, SeqMonotonic
  <2> QED BY <2>1, DescriptionLineType
<1>4. <<>> \in Q /\ Append(<<>>, Newline) = nl /\ nl \in Q /\ nl \in W
  BY <1>1, Tuples
<1>5. TailText(D) = (an \o dn) \o nl
  <2> DEFINE e == <<>>
             x == <<dl>>
             y == <<dl, D>>
             z3 == <<dl, D, e>>
  <2>1. Newline \in S /\ dl \in Q /\ D \in Q /\ e \in Q /\ an \in Q /\ nl = Append(e, Newline)
    <3>1. an \in Q
      <4> HIDE DEF dl
      <4> QED BY <1>1, <1>3, AppendProperties
    <3> QED BY <1>1, <1>2, <1>3, <1>4, <3>1
  <2> HIDE DEF D, dl, S, e, an, dn, nl, Q
  <2>2. <<>> \in Seq(Q) /\ x \in Seq(Q) /\ y \in Seq(Q)
    BY <2>1
  <2>3. Append(<<>>, dl) = x /\ Append(x, D) = y /\ Append(y, e) = z3
    BY <2>1, TupleAppend
  <2>4. Lines(x) = an
    <3>1. Lines(Append(<<>>, dl)) = Lines(<<>>) \o an
      BY <2>1, <2>2, LinesAppend DEF Q, an
    <3>2. <<>> \o an = an
      BY <2>1, ConcatEmptySeq DEF Q
    <3> QED BY <2>3, <3>1, <3>2, LinesEmpty
  <2> HIDE DEF x
  <2>5. Lines(y) = an \o dn
    <3>1. Lines(Append(x, D)) = Lines(x) \o dn
      BY <2>1, <2>2, LinesAppend DEF Q, dn
    <3> QED BY <2>3, <2>4, <3>1
  <2> HIDE DEF y
  <2>6. Lines(z3) = (an \o dn) \o nl
    <3>1. Lines(Append(y, e)) = Lines(y) \o nl
      BY <2>1, <2>2, LinesAppend DEF Q
    <3> QED BY <2>3, <2>5, <3>1
  <2> QED BY <2>6 DEF TailText, dl, e, z3
<1>6. dn = D \o nl /\ an \in Q /\ dn \in Q
  <2> HIDE DEF D, dl, S
  <2> QED BY <1>1, <1>2, <1>3, AppendIsConcat, AppendProperties
<1> HIDE DEF S, D, dn, an, dl, nl
<1>7. CASE k = 0
  <2> DEFINE w1 == "description"
             dc == <<w1, Colon>>
             bn == <<Blank, Newline>>
  <2>1. D \in W
    BY <1>7, KeptValue DEF D
  <2>2. z = dc
    BY <1>7 DEF ReceivedTail
  <2>3. w1 \in S /\ Colon \in S /\ Colon \notin White
    BY InnerLetters DEF S, Colon, White, Newline, Blank
  <2>4. an = dc \o bn
    <3> DEFINE b == <<Blank>>
               n == <<Newline>>
    <3> HIDE DEF w1
    <3>1. dc \in Q /\ b \in Q /\ n \in Q
      BY <1>1, <2>3
    <3>2. dc \o b = <<w1, Colon, Blank>> /\ b \o n = bn
      BY <1>1, <2>3, TupleConcatThree, TupleConcat
    <3>3. dl = <<w1, Colon, Blank>>
      BY DEF dl, DescriptionLine, w1
    <3>4. an = dl \o n
      BY <1>1, <1>3, AppendIsConcat DEF an
    <3> HIDE DEF b, n, dc
    <3>5. (dc \o b) \o n = dc \o (b \o n)
      BY <3>1, ConcatAssociative
    <3> QED BY <3>2, <3>3, <3>4, <3>5
  <2>5. bn \in W /\ bn \in Q
    BY <1>1
  <2> HIDE DEF w1
  <2>6. dc \in Q /\ dc # <<>> /\ Len(dc) = 2 /\ dc[2] = Colon
    BY <2>3
  <2>7. dn \in W
    BY <1>1, <1>6, <2>1, AppendProperties DEF dn
  <2> HIDE DEF dc, bn, z
  <2> DEFINE x == bn \o dn
             w == x \o nl
  <2>8. x \in W /\ x \in Q
    BY <1>6, <2>5, <2>7, ConcatProperties
  <2>9. (dc \o bn) \o dn = dc \o x
    <3>1. dc \in Seq(S) /\ bn \in Seq(S) /\ dn \in Seq(S)
      BY <1>6, <2>5, <2>6
    <3> QED BY <3>1, ConcatAssociative
  <2> HIDE DEF x
  <2>10. w \in W
    BY <1>4, <2>8, ConcatProperties
  <2>11. (dc \o x) \o nl = dc \o w
    <3>1. AreSeqs(S, dc, x, nl)
      BY <1>4, <2>6, <2>8 DEF AreSeqs
    <3> QED BY <3>1, Regroup
  <2> HIDE DEF w
  <2>12. TailText(D) = z \o w
    BY <1>5, <2>2, <2>4, <2>9, <2>11
  <2>13. z[Len(z)] \notin White
    BY <2>2, <2>3, <2>6
  <2> QED BY <2>2, <2>6, <2>10, <2>12, <2>13 DEF z, D, S
<1>8. CASE k # 0
  <2> DEFINE d == Kept(text)
  <2>1. d \in Q /\ d # <<>> /\ d[Len(d)] \notin White
        /\ \E w \in W : D = d \o w
    BY <1>8, KeptValue DEF D, S
  <2>2. PICK w \in W : D = d \o w
    BY <2>1
  <2>3. z = an \o d
    BY <1>8 DEF ReceivedTail, an, dl
  <2>4. w \in Q
    BY <1>1, SeqMonotonic
  <2> HIDE DEF d, z
  <2> DEFINE x == w \o nl
             v == x \o nl
  <2>5. x \in W /\ x \in Q
    BY <1>4, <2>4, ConcatProperties
  <2>6. dn = d \o x
    <3>0. AreSeqs(S, d, w, nl)
      BY <1>4, <2>1, <2>4 DEF AreSeqs
    <3>1. (d \o w) \o nl = d \o x
      BY <3>0, Regroup
    <3> QED BY <1>6, <2>2, <3>1
  <2>7. z \in Q /\ z # <<>> /\ z[Len(z)] = d[Len(d)]
    <3>1. an \o d \in Q /\ an \o d # <<>> /\ (an \o d)[Len(an \o d)] = d[Len(d)]
      BY <1>6, <2>1, LastOfWhole
    <3> QED BY <2>3, <3>1
  <2> HIDE DEF x
  <2>8. an \o (d \o x) = z \o x
    <3>0. AreSeqs(S, an, d, x)
      BY <1>6, <2>1, <2>5 DEF AreSeqs
    <3>1. (an \o d) \o x = an \o (d \o x)
      BY <3>0, Regroup
    <3> QED BY <2>3, <3>1
  <2>9. (z \o x) \o nl = z \o v
    <3>1. AreSeqs(S, z, x, nl)
      BY <1>4, <2>5, <2>7 DEF AreSeqs
    <3> QED BY <3>1, Regroup
  <2>10. v \in W
    BY <1>4, <2>5, ConcatProperties
  <2> HIDE DEF v
  <2>11. TailText(D) = z \o v
    BY <1>5, <2>6, <2>8, <2>9
  <2> QED BY <2>1, <2>7, <2>10, <2>11 DEF z, D, S
<1> QED BY <1>7, <1>8

(* The lines from the description on, as the receiver reads them *)
IsTail(line, post, text) ==
  /\ line \in Seq(LineInner) /\ post \in Seq(Seq(LineInner))
  /\ IsEntry(line, <<"description">>, IF BlackEnd(text) = 0 THEN <<>> ELSE <<Blank>>)
  /\ Lines(post) = IF BlackEnd(text) = 0 THEN <<>> ELSE Append(Kept(text), Newline)

LEMMA TailRead ==
  ASSUME NEW text \in Text, ~Occurs(Nul, text)
  PROVE  \E line, post :
           IsTail(line, post, text) /\ Pieces(ReceivedTail(text), Newline) = <<line>> \o post
<1> DEFINE k == BlackEnd(text)
           z == ReceivedTail(text)
           L == Seq(LineInner)
           dl == DescriptionLine
           dc == <<"description", Colon>>
           d == Kept(text)
<1>1. Newline \in Inner /\ LineInner = Inner \ {Newline}
  BY InnerLetters DEF LineInner
<1>2. dl \in L /\ dc \in L /\ IsEntry(dl, <<"description">>, <<Blank>>)
      /\ IsEntry(dc, <<"description">>, <<>>)
  BY DescriptionLineType
<1>3. z = IF k = 0 THEN dc ELSE Append(dl, Newline) \o d
  BY DEF ReceivedTail
<1> HIDE DEF dl, dc, d, z, k
<1>4. CASE k = 0
  <2>1. Pieces(dc, Newline) = <<dc>>
    BY <1>1, <1>2, WholePiece
  <2>2. <<dc>> \o <<>> = <<dc>> /\ <<>> \in Seq(L)
    <3>1. <<dc>> \in Seq(L) /\ <<>> \in Seq(L)
      BY <1>2
    <3> DEFINE x == <<dc>>
    <3> HIDE DEF x
    <3> QED BY <3>1, ConcatEmptySeq DEF x
  <2>3. IsTail(dc, <<>>, text)
    BY <1>2, <1>4, <2>2, LinesEmpty DEF IsTail, k
  <2> QED BY <1>3, <1>4, <2>1, <2>2, <2>3 DEF z
<1>5. CASE k # 0
  <2> DEFINE p == Pieces(d, Newline)
             l == EndEach(p, Newline)
  <2>1. d \in Seq(Inner)
    BY <1>5, KeptValue DEF d, k
  <2>2. Pieces(Append(dl, Newline) \o d, Newline) = <<dl>> \o p
    <3>1. dl \in Seq(Inner \ {Newline}) /\ Newline \in Inner
      BY <1>1, <1>2
    <3> HIDE DEF p
    <3>2. Pieces(Append(dl, Newline) \o d, Newline) = <<dl>> \o Pieces(d, Newline)
      BY <2>1, <3>1, FirstPiece
    <3> QED BY <3>2 DEF p
  <2>3. p \in Seq(L) /\ p \in Seq(Seq(Inner))
    BY <1>1, <2>1, PiecesFree, PiecesType DEF NonEmpty
  <2>4. FlattenSeq(l) = Append(d, Newline)
    BY <1>1, <2>1, JoinPieces
  <2>5. Lines(p) = FlattenSeq(l)
    <3> HIDE DEF p
    <3> QED BY <1>1, <2>3, LinesType
  <2> HIDE DEF p
  <2>6. IsTail(dl, p, text)
    BY <1>2, <1>5, <2>3, <2>4, <2>5 DEF IsTail, k, d
  <2> QED BY <1>3, <1>5, <2>2, <2>6 DEF z
<1> QED BY <1>4, <1>5

(* Lines that start with something black *)
LEMMA LinesBlack ==
  ASSUME NEW lines \in Seq(Seq(LineInner)), lines # <<>>, lines[1] # <<>>
  PROVE  /\ Lines(lines) \in Seq(Inner) /\ Lines(lines) # <<>> /\ Lines(lines)[1] = lines[1][1]
<1> DEFINE S == Inner
           T == Seq(S)
           l == EndEach(lines, Newline)
           y == FlattenSeq(SubSeq(l, 2, Len(l)))
           a == lines[1]
           an == Append(a, Newline)
<1>1. Newline \in S /\ lines \in Seq(T)
  <2>1. Seq(LineInner) \subseteq T
    BY LineInnerLetters, SeqMonotonic
  <2> QED BY <2>1, InnerLetters, SeqMonotonic
<1>2. Len(lines) \in Nat \ {0}
  <2> DEFINE Q == Seq(LineInner)
  <2> HIDE DEF Q
  <2>1. lines \in Seq(Q)
    BY DEF Q
  <2> QED BY <2>1, EmptySeq, LenProperties
<1>3. Lines(lines) \in T /\ Lines(lines) = FlattenSeq(l)
  <2> HIDE DEF S
  <2> QED BY <1>1, LinesType
<1>4. l \in Seq(T) /\ Len(l) = Len(lines) /\ \A i \in 1..Len(lines) : l[i] = Append(lines[i], Newline)
  <2> HIDE DEF S
  <2> QED BY <1>1, EndEachType
<1>5. a \in T
  <2> HIDE DEF T
  <2> QED BY <1>1, <1>2, ElementOfSeq
<1>6. l # <<>> /\ l[1] = an
  <2> HIDE DEF T, l
  <2>1. Len(<<>>) = 0
    OBVIOUS
  <2> QED BY <1>2, <1>4, <2>1
<1> HIDE DEF S, l
<1>7. y \in T /\ FlattenSeq(l) = l[1] \o y
  BY <1>4, <1>6, FlattenFirst
<1>8. a # <<>>
  OBVIOUS
<1> HIDE DEF a, y
<1>9. an \in T /\ Len(an) = Len(a) + 1 /\ Len(a) \in Nat \ {0} /\ an[1] = a[1]
  <2>1. Len(a) \in Nat \ {0}
    BY <1>5, <1>8, EmptySeq, LenProperties
  <2>2. an \in T /\ Len(an) = Len(a) + 1 /\ \A i \in 1..Len(a) : an[i] = a[i]
    BY <1>1, <1>5, AppendProperties
  <2> QED BY <2>1, <2>2
<1> HIDE DEF an
<1>10. /\ Len(an \o y) = Len(an) + Len(y) /\ Len(y) \in Nat
       /\ \A i \in 1..(Len(an) + Len(y)) : (an \o y)[i] = IF i <= Len(an) THEN an[i] ELSE y[i - Len(an)]
  BY <1>7, <1>9, ConcatProperties, LenProperties
<1> DEFINE x == an \o y
<1> HIDE DEF x
<1>11. x[1] = an[1] /\ Len(x) # 0
  <2>1. 1 \in 1..(Len(an) + Len(y)) /\ 1 <= Len(an)
    BY <1>9, <1>10
  <2> QED BY <1>9, <1>10, <2>1 DEF x
<1>12. Lines(lines) = x
  BY <1>3, <1>6, <1>7 DEF x
<1>13. x # <<>>
  <2>1. Len(<<>>) = 0
    OBVIOUS
  <2> QED BY <1>11, <2>1
<1> QED BY <1>3, <1>9, <1>11, <1>12, <1>13 DEF a, S

LEMMA FrameBodyRead ==
  ASSUME NEW u \in User, NEW event \in Event, PlainEvent(event)
  PROVE  LET R == FrameBody(u, event)
             lines == DecodedLines(ForeLines(u, event))
         IN  /\ R \in Seq(Inner) /\ R # <<>> /\ R[1] \notin White
             /\ Lines(lines) \in Seq(Inner) /\ ReceivedTail(event.description) \in Seq(Inner)
             /\ Trim(R) = Lines(lines) \o ReceivedTail(event.description)
<1> DEFINE text == event.description
           lines == DecodedLines(ForeLines(u, event))
           f == Lines(lines)
           t == TailText(Characters(text))
           z == ReceivedTail(text)
           Q == Seq(Inner)
           R == FrameBody(u, event)
           fz == f \o z
<1>1. IsFore(lines, u, event) /\ lines[1] # <<>> /\ lines[1][1] = "user"
  BY ForeRead
<1>2. lines \in Seq(Seq(LineInner)) /\ lines # <<>>
  <2> DEFINE Z == Seq(LineInner)
             n == Cardinality(DOMAIN event.info)
  <2>1. lines \in Seq(Z) /\ Len(lines) = 5 + n /\ n \in Nat
    BY <1>1, InfoRead DEF IsFore
  <2>2. Len(<<>>) = 0
    OBVIOUS
  <2> HIDE DEF Z, lines, n
  <2> QED BY <2>1, <2>2 DEF Z
<1>3. f \in Q /\ f # <<>> /\ f[1] = "user"
  <2> HIDE DEF lines
  <2> QED BY <1>1, <1>2, LinesBlack
<1>4. text \in Text /\ ~Occurs(Nul, text)
  BY ForeType DEF PlainEvent
<1>5. z \in Q /\ z # <<>> /\ z[Len(z)] \notin White /\ \E w \in Seq(White) : t = z \o w
  <2> HIDE DEF text
  <2> QED BY <1>4, TailCut
<1>6. PICK w \in Seq(White) : t = z \o w
  BY <1>5
<1>7. w \in Q /\ White \subseteq Inner
  BY InnerLetters, SeqMonotonic
<1>8. R = f \o t
  BY DEF FrameBody
<1>9. "user" \notin White
  BY DEF White, Newline, Blank
<1> HIDE DEF f, t, z, text
<1>10. fz \in Q /\ fz # <<>> /\ fz[Len(fz)] = z[Len(z)]
  BY <1>3, <1>5, LastOfWhole
<1>11. fz[1] = f[1]
  <2>1. /\ \A i \in 1..(Len(f) + Len(z)) : fz[i] = IF i <= Len(f) THEN f[i] ELSE z[i - Len(f)]
    BY <1>3, <1>5, ConcatProperties
  <2>2. Len(f) \in Nat \ {0} /\ Len(z) \in Nat
    BY <1>3, <1>5, EmptySeq, LenProperties
  <2>3. 1 \in 1..(Len(f) + Len(z)) /\ 1 <= Len(f)
    BY <2>2
  <2> HIDE DEF fz
  <2> QED BY <2>1, <2>3
<1>12. f \o (z \o w) = fz \o w
  BY <1>3, <1>5, <1>7, ConcatAssociative
<1> HIDE DEF fz, R
<1>13. R = fz \o w
  BY <1>6, <1>8, <1>12
<1>14. Trim(fz \o w) = Trim(fz) /\ Trim(fz) = fz
  <2>1. Trim(fz \o w) = Trim(fz)
    BY <1>7, <1>10, TrimEnd
  <2>2. fz[1] \notin White /\ fz[Len(fz)] \notin White
    BY <1>3, <1>5, <1>9, <1>10, <1>11
  <2>3. Trim(fz) = fz
    BY <1>10, <2>2, TrimBlack
  <2> QED BY <2>1, <2>3
<1>15. R \in Q /\ R # <<>> /\ R[1] = fz[1]
  <2> DEFINE v == fz \o w
  <2>1. /\ v \in Q /\ Len(v) = Len(fz) + Len(w)
        /\ \A i \in 1..(Len(fz) + Len(w)) : v[i] = IF i <= Len(fz) THEN fz[i] ELSE w[i - Len(fz)]
    BY <1>7, <1>10, ConcatProperties
  <2>2. Len(fz) \in Nat \ {0} /\ Len(w) \in Nat
    BY <1>7, <1>10, EmptySeq, LenProperties
  <2>3. 1 \in 1..(Len(fz) + Len(w)) /\ 1 <= Len(fz) /\ Len(fz) + Len(w) # 0
    BY <2>2
  <2>4. Len(<<>>) = 0
    OBVIOUS
  <2> HIDE DEF v
  <2>5. v \in Q /\ v[1] = fz[1] /\ v # <<>>
    BY <2>1, <2>3, <2>4
  <2> QED BY <1>13, <2>5 DEF v
<1> QED BY <1>3, <1>5, <1>9, <1>11, <1>13, <1>14, <1>15 DEF R, fz, f, z, text

-----------------------------------------------------------------------------
(* The lines of a copy *)

LEMMA LastPiece ==
  ASSUME NEW s \in Seq(Inner), s # <<>>, s[Len(s)] \notin White
  PROVE  LET p == Pieces(s, Newline)
         IN  p \in Seq(Seq(LineInner)) /\ Len(p) \in Nat \ {0} /\ p[Len(p)] # <<>>
<1> DEFINE n == Len(s)
           a == SubSeq(s, 1, n - 1)
           ch == s[n]
           p == Pieces(s, Newline)
           q == Pieces(a, Newline)
           T == Seq(Inner)
<1>1. n \in Nat \ {0} /\ s \in Seq(Inner)
  BY EmptySeq, LenProperties
<1>2. Newline \in Inner /\ Newline \in White /\ ch # Newline
  BY InnerLetters DEF White
<1>3. p \in Seq(Seq(LineInner)) /\ p # <<>>
  BY <1>2, PiecesFree DEF NonEmpty, LineInner
<1>4. Len(p) \in Nat \ {0}
  <2> DEFINE Q == Seq(LineInner)
  <2> HIDE DEF p, Q
  <2>1. p \in Seq(Q) /\ p # <<>>
    BY <1>3 DEF Q
  <2> QED BY <2>1, EmptySeq, LenProperties
<1>5. ch \in Inner
  <2>1. n \in 1..Len(s)
    BY <1>1
  <2> QED BY <2>1, ElementOfSeq
<1>6. a \in T /\ Append(a, ch) = s
  <2>1. 1 \in Nat \ {0} /\ n - 1 \in Int /\ n - 1 <= Len(s)
    BY <1>1
  <2>2. /\ a \in T /\ Len(a) = (IF 1 <= n - 1 THEN n - 1 - 1 + 1 ELSE 0)
        /\ \A i \in 1..(n - 1 - 1 + 1) : a[i] = s[1 + i - 1]
    <3> HIDE DEF n
    <3> QED BY <1>1, <2>1, PartType
  <2> HIDE DEF a, n, ch
  <2>3. Len(a) = n - 1 /\ \A i \in 1..(n - 1) : a[i] = s[i]
    <3>1. Len(a) = n - 1
      BY <1>1, <2>2
    <3>2. \A i \in 1..(n - 1) : i \in 1..(n - 1 - 1 + 1) /\ 1 + i - 1 = i
      BY <1>1
    <3> QED BY <2>2, <3>1, <3>2
  <2> DEFINE e == Append(a, ch)
  <2>4. e \in T /\ Len(e) = n /\ e[n] = ch /\ \A i \in 1..(n - 1) : e[i] = a[i]
    <3>1. e \in T /\ Len(e) = Len(a) + 1 /\ e[Len(a) + 1] = ch /\ \A i \in 1..Len(a) : e[i] = a[i]
      BY <1>5, <2>2, AppendProperties
    <3>2. Len(a) + 1 = n
      BY <1>1, <2>3
    <3> HIDE DEF e
    <3> QED BY <2>3, <3>1, <3>2
  <2> HIDE DEF e
  <2>5. \A i \in 1..n : e[i] = s[i]
    <3>1. \A i \in 1..n : i = n \/ i \in 1..(n - 1)
      BY <1>1
    <3> QED BY <2>3, <2>4, <3>1 DEF ch
  <2>6. e = s
    BY <1>1, <2>4, <2>5, SeqEqual DEF n
  <2> QED BY <2>2, <2>6 DEF e
<1> HIDE DEF a, ch
<1>7. q \in Seq(T) /\ q # <<>>
  BY <1>6, PiecesType DEF NonEmpty
<1>8. p = PiecesStep(q, ch, Newline)
  BY <1>5, <1>6, PiecesAppend
<1> HIDE DEF p, q, T
<1>9. p = [q EXCEPT ![Len(q)] = Append(@, ch)]
  BY <1>2, <1>8 DEF PiecesStep
<1>10. Len(q) \in Nat \ {0} /\ q \in [1..Len(q) -> T]
  BY <1>7, EmptySeq, LenProperties
<1>11. Len(p) = Len(q) /\ p[Len(q)] = Append(q[Len(q)], ch)
  <2> DEFINE k == Len(q)
             v == Append(q[k], ch)
  <2>0. v \in T
    <3>1. q[k] \in T
      BY <1>10
    <3> QED BY <1>5, <3>1, AppendProperties DEF T
  <2> HIDE DEF k, v
  <2>1. k \in Nat \ {0} /\ q \in [1..k -> T] /\ p = [q EXCEPT ![k] = v]
    BY <1>9, <1>10 DEF k, v
  <2>2. p \in [1..k -> T] /\ p[k] = v
    BY <2>0, <2>1
  <2>3. Len(p) = k
    BY <2>1, <2>2
  <2> QED BY <2>2, <2>3 DEF k, v
<1>12. Append(q[Len(q)], ch) # <<>>
  <2> DEFINE y == q[Len(q)]
             v == Append(y, ch)
  <2>1. y \in T
    BY <1>10
  <2> HIDE DEF y
  <2>2. Len(v) = Len(y) + 1 /\ Len(y) \in Nat
    BY <1>5, <2>1, AppendProperties, LenProperties DEF T
  <2>3. Len(<<>>) = 0
    OBVIOUS
  <2> HIDE DEF v
  <2>4. v # <<>>
    BY <2>2, <2>3
  <2> QED BY <2>4 DEF v, y
<1> QED BY <1>3, <1>4, <1>11, <1>12 DEF p

(* The lines that a receiver reads in a copy of an event *)
IsMessage(lines, user, event, value, text) ==
  LET keys == SetToSeq(DOMAIN event.info)
      n == Cardinality(DOMAIN event.info)
  IN  /\ Len(lines) \in Nat /\ DOMAIN lines = 1..Len(lines) /\ n \in Nat /\ Len(lines) >= 11 + n
      /\ ~Occurs(Colon, lines[1]) /\ ~Occurs(Colon, lines[5])
      /\ KeyOf(lines[2]) = <<"message-id">> /\ KeyOf(lines[3]) = <<"subscription">>
      /\ KeyOf(lines[4]) = <<"destination">>
      /\ IsEntry(lines[6], <<"user">>, ReceivedValue(<<user>>))
      /\ IsEntry(lines[7], <<"city">>, ReceivedValue(event.city))
      /\ IsEntry(lines[8], <<"event name">>, ReceivedValue(event.name))
      /\ IsEntry(lines[9], <<"date time">>, ReceivedValue(<<event.date>>))
      /\ IsEntry(lines[10], <<"general information">>, <<>>)
      /\ \A i \in 1..n :
           IsEntry(lines[10 + i], <<Blank, Blank>> \o keys[i], ReceivedValue(event.info[keys[i]]))
      /\ IsEntry(lines[11 + n], <<"description">>, value)
      /\ Lines(SubSeq(lines, 12 + n, Len(lines))) = text

-----------------------------------------------------------------------------
(* The copy, read line by line *)

(* The text of the description that is received *)
ReceivedText(text) == IF BlackEnd(text) = 0 THEN <<>> ELSE Append(Kept(text), Newline)
ReceivedHeading(text) == IF BlackEnd(text) = 0 THEN <<>> ELSE <<Blank>>

(* The lines of the body of a copy *)
IsBody(rest, user, event) ==
  \E lines, line, post :
    LET m == Len(lines) IN
    /\ IsFore(lines, user, event) /\ IsTail(line, post, event.description)
    /\ Len(post) \in Nat /\ Len(rest) = m + 1 + Len(post)
    /\ \A i \in 1..m : rest[i] = lines[i]
    /\ rest[m + 1] = line
    /\ \A i \in 1..Len(post) : rest[m + 1 + i] = post[i]
    /\ rest[Len(rest)] # <<>>

LEMMA BodyLines ==
  ASSUME NEW u \in User, NEW event \in Event, PlainEvent(event)
  PROVE  LET body == Trim(FrameBody(u, event))
         IN  body \in Seq(Inner) /\ IsBody(Pieces(body, Newline), u, event)
<1> DEFINE text == event.description
           F == DecodedLines(ForeLines(u, event))
           z == ReceivedTail(text)
           body == Lines(F) \o z
           rest == Pieces(body, Newline)
           Q == Seq(LineInner)
           m == Len(F)
<1>1. Trim(FrameBody(u, event)) = body /\ Lines(F) \in Seq(Inner) /\ z \in Seq(Inner)
  BY FrameBodyRead
<1>2. IsFore(F, u, event)
  BY ForeRead
<1>3. text \in Text /\ ~Occurs(Nul, text)
  BY ForeType DEF PlainEvent
<1>4. PICK line, post : IsTail(line, post, text) /\ Pieces(z, Newline) = <<line>> \o post
  <2> HIDE DEF text
  <2> QED BY <1>3, TailRead
<1>5. z # <<>> /\ z[Len(z)] \notin White
  <2> HIDE DEF text
  <2> QED BY <1>3, TailCut
<1> HIDE DEF text, F, z
<1>6. F \in Seq(Q) /\ line \in Q /\ post \in Seq(Q)
  BY <1>2, <1>4 DEF IsFore, IsTail
<1>7. rest = F \o (<<line>> \o post)
  <2>1. Newline \in Inner /\ F \in Seq(Seq(Inner \ {Newline}))
    BY <1>6, InnerLetters DEF LineInner
  <2>2. Pieces(Lines(F) \o z, Newline) = F \o Pieces(z, Newline)
    BY <1>1, <2>1, PiecesOfLines
  <2> QED BY <1>4, <2>2
<1>8. body \in Seq(Inner) /\ body # <<>> /\ body[Len(body)] = z[Len(z)]
  BY <1>1, <1>5, LastOfWhole
<1> HIDE DEF body
<1>9. rest[Len(rest)] # <<>>
  BY <1>5, <1>8, LastPiece
<1> HIDE DEF rest, Q
<1> DEFINE l == <<line>>
           t == l \o post
<1>10. l \in Seq(Q) /\ Len(l) = 1 /\ l[1] = line /\ Len(post) \in Nat /\ m \in Nat
  BY <1>6, LenProperties
<1> HIDE DEF l
<1>11. /\ t \in Seq(Q) /\ Len(t) = 1 + Len(post)
       /\ t[1] = line /\ \A i \in 1..Len(post) : t[1 + i] = post[i]
  <2>1. /\ t \in Seq(Q) /\ Len(t) = Len(l) + Len(post)
        /\ \A i \in 1..(Len(l) + Len(post)) : t[i] = IF i <= Len(l) THEN l[i] ELSE post[i - Len(l)]
    BY <1>6, <1>10, ConcatProperties
  <2> HIDE DEF t
  <2>2. 1 \in 1..(1 + Len(post))
    BY <1>10
  <2>3. \A i \in 1..Len(post) : 1 + i \in 1..(1 + Len(post)) /\ ~(1 + i <= 1) /\ (1 + i) - 1 = i
    BY <1>10
  <2> QED BY <1>10, <2>1, <2>2, <2>3
<1> HIDE DEF t
<1>12. /\ rest \in Seq(Q) /\ Len(rest) = m + 1 + Len(post)
       /\ \A i \in 1..m : rest[i] = F[i]
       /\ \A j \in 1..(1 + Len(post)) : rest[m + j] = t[j]
  <2>1. rest = F \o t
    BY <1>7 DEF t, l
  <2>2. /\ F \o t \in Seq(Q) /\ Len(F \o t) = Len(F) + Len(t)
        /\ \A i \in 1..(Len(F) + Len(t)) : (F \o t)[i] = IF i <= Len(F) THEN F[i] ELSE t[i - Len(F)]
    <3>1. F \in Seq(Q) /\ t \in Seq(Q)
      BY <1>6, <1>11
    <3> HIDE DEF m
    <3> QED BY <3>1, ConcatProperties
  <2> HIDE DEF m
  <2>3. /\ rest \in Seq(Q) /\ Len(rest) = m + (1 + Len(post))
        /\ \A i \in 1..(m + (1 + Len(post))) : rest[i] = IF i <= m THEN F[i] ELSE t[i - m]
    BY <1>11, <2>1, <2>2 DEF m
  <2>4. \A i \in 1..m : i \in 1..(m + (1 + Len(post))) /\ i <= m
    BY <1>10
  <2>5. \A j \in 1..(1 + Len(post)) :
          m + j \in 1..(m + (1 + Len(post))) /\ ~(m + j <= m) /\ (m + j) - m = j
    BY <1>10
  <2> QED BY <1>10, <2>3, <2>4, <2>5
<1>13. rest[m + 1] = line
  <2>1. 1 \in 1..(1 + Len(post))
    BY <1>10
  <2> HIDE DEF m
  <2> QED BY <1>11, <1>12, <2>1
<1>14. ASSUME NEW i \in 1..Len(post) PROVE rest[m + 1 + i] = post[i]
  <2> HIDE DEF m
  <2>1. 1 + i \in 1..(1 + Len(post)) /\ m + (1 + i) = m + 1 + i
    BY <1>10
  <2> QED BY <1>11, <1>12, <2>1
<1>15. IsBody(rest, u, event)
  BY <1>2, <1>4, <1>9, <1>10, <1>12, <1>13, <1>14 DEF IsBody, text
<1> QED BY <1>1, <1>8, <1>15 DEF rest, body, F, z, text

LEMMA MessageRead ==
  ASSUME NEW u \in User, NEW event \in Event, PlainEvent(event), NEW topic \in Seq(LineInner)
  PROVE  LET text == MessageBody(topic, Trim(FrameBody(u, event)))
         IN  IsMessage(GetLines(text, Newline), u, event, ReceivedHeading(event.description),
                       ReceivedText(event.description))
<1> DEFINE body == Trim(FrameBody(u, event))
           text == MessageBody(topic, body)
           rest == Pieces(body, Newline)
           lines == GetLines(text, Newline)
           pieces == Pieces(text, Newline)
           head == MessageLines(topic)
           keys == SetToSeq(DOMAIN event.info)
           n == Cardinality(DOMAIN event.info)
           Q == Seq(LineInner)
<1>1. body \in Seq(Inner) /\ IsBody(rest, u, event)
  BY BodyLines
<1>2. topic \in Seq(Inner \ {Newline})
  BY DEF LineInner
<1>3. /\ ~Occurs(Colon, head[1]) /\ ~Occurs(Colon, head[5])
      /\ KeyOf(head[2]) = <<"message-id">> /\ KeyOf(head[3]) = <<"subscription">>
      /\ KeyOf(head[4]) = <<"destination">>
  BY <1>2, MessageKeys
<1>4. n \in Nat
  BY InfoRead
<1> HIDE DEF body
<1>5. /\ Len(rest) \in Nat \ {0}
      /\ \A i \in 1..5 : pieces[i] = head[i]
      /\ \A i \in 1..Len(rest) : pieces[5 + i] = rest[i]
      /\ Len(lines) \in Nat /\ DOMAIN lines = 1..Len(lines)
      /\ Len(lines) = IF rest[Len(rest)] = <<>> THEN 4 + Len(rest) ELSE 5 + Len(rest)
      /\ \A i \in 1..Len(lines) : lines[i] = pieces[i]
  BY <1>1, <1>2, MessagePieces
<1>6. lines \in Seq(Seq(Inner))
  <2>1. text \in Seq(Inner)
    <3>1. topic \in Seq(Inner)
      BY LineInnerLetters, SeqMonotonic
    <3> QED BY <1>1, <3>1, MessageType
  <2> HIDE DEF text
  <2> QED BY <2>1, GetLinesValue
<1> HIDE DEF rest, lines, pieces, head, text, keys, n
<1>7. PICK F, line, post :
        /\ IsFore(F, u, event) /\ IsTail(line, post, event.description)
        /\ Len(post) \in Nat /\ Len(rest) = Len(F) + 1 + Len(post)
        /\ \A i \in 1..Len(F) : rest[i] = F[i]
        /\ rest[Len(F) + 1] = line
        /\ \A i \in 1..Len(post) : rest[Len(F) + 1 + i] = post[i]
        /\ rest[Len(rest)] # <<>>
  BY <1>1 DEF IsBody
<1>8. Len(F) = 5 + n
  BY <1>7 DEF IsFore, n
<1>9. Len(rest) = 6 + n + Len(post) /\ Len(lines) = 11 + n + Len(post)
  <2>1. Len(rest) = (5 + n) + 1 + Len(post)
    BY <1>7, <1>8
  <2>2. Len(lines) = 5 + Len(rest)
    BY <1>5, <1>7
  <2>3. Len(post) \in Nat
    BY <1>7
  <2>4. Len(rest) = 6 + n + Len(post)
    BY <1>4, <2>1, <2>3
  <2>5. Len(lines) = 11 + n + Len(post)
    BY <1>4, <2>2, <2>3, <2>4
  <2> QED BY <2>4, <2>5
<1>10. \A i \in 1..5 : lines[i] = head[i]
  <2>1. \A i \in 1..5 : i \in 1..Len(lines)
    BY <1>4, <1>7, <1>9
  <2> QED BY <1>5, <2>1
<1>11. \A i \in 1..Len(rest) : lines[5 + i] = rest[i]
  <2>1. \A i \in 1..Len(rest) : 5 + i \in 1..Len(lines)
    BY <1>4, <1>7, <1>9
  <2> QED BY <1>5, <2>1
<1>12. \A i \in 1..(5 + n) : lines[5 + i] = F[i]
  <2>1. \A i \in 1..(5 + n) : i \in 1..Len(rest)
    BY <1>4, <1>7, <1>9
  <2> QED BY <1>7, <1>8, <1>11, <2>1
<1>13. lines[11 + n] = line
  <2>1. 6 + n \in 1..Len(rest) /\ 5 + (6 + n) = 11 + n /\ (5 + n) + 1 = 6 + n
    BY <1>4, <1>7, <1>9
  <2>2. rest[6 + n] = line
    BY <1>7, <1>8, <2>1
  <2> QED BY <1>11, <2>1, <2>2
<1>14. \A i \in 1..Len(post) : lines[11 + n + i] = post[i]
  <2> SUFFICES ASSUME NEW i \in 1..Len(post) PROVE lines[11 + n + i] = post[i]
    OBVIOUS
  <2>1. 6 + n + i \in 1..Len(rest) /\ 5 + (6 + n + i) = 11 + n + i /\ (5 + n) + 1 + i = 6 + n + i
    BY <1>4, <1>7, <1>9
  <2>2. rest[6 + n + i] = post[i]
    BY <1>7, <1>8, <2>1
  <2> QED BY <1>11, <2>1, <2>2
<1>15. /\ IsEntry(lines[6], <<"user">>, ReceivedValue(<<u>>))
       /\ IsEntry(lines[7], <<"city">>, ReceivedValue(event.city))
       /\ IsEntry(lines[8], <<"event name">>, ReceivedValue(event.name))
       /\ IsEntry(lines[9], <<"date time">>, ReceivedValue(<<event.date>>))
       /\ IsEntry(lines[10], <<"general information">>, <<>>)
  <2>1. /\ 1 \in 1..(5 + n) /\ 2 \in 1..(5 + n) /\ 3 \in 1..(5 + n) /\ 4 \in 1..(5 + n)
        /\ 5 \in 1..(5 + n)
    BY <1>4
  <2>2. /\ lines[5 + 1] = F[1] /\ lines[5 + 2] = F[2] /\ lines[5 + 3] = F[3]
        /\ lines[5 + 4] = F[4] /\ lines[5 + 5] = F[5]
    BY <1>12, <2>1
  <2>3. lines[6] = F[1] /\ lines[7] = F[2] /\ lines[8] = F[3] /\ lines[9] = F[4] /\ lines[10] = F[5]
    BY <2>2
  <2> QED BY <1>7, <2>3 DEF IsFore
<1>16. \A i \in 1..n :
         IsEntry(lines[10 + i], <<Blank, Blank>> \o keys[i], ReceivedValue(event.info[keys[i]]))
  <2> SUFFICES ASSUME NEW i \in 1..n
               PROVE  IsEntry(lines[10 + i], <<Blank, Blank>> \o keys[i],
                              ReceivedValue(event.info[keys[i]]))
    OBVIOUS
  <2>1. 5 + i \in 1..(5 + n) /\ 5 + (5 + i) = 10 + i
    BY <1>4
  <2>2. lines[10 + i] = F[5 + i]
    BY <1>12, <2>1
  <2> QED BY <1>7, <2>2 DEF IsFore, keys, n
<1>17. SubSeq(lines, 12 + n, Len(lines)) = post
  <2> DEFINE l == Len(lines)
             y == SubSeq(lines, 12 + n, l)
             T == Seq(Inner)
  <2>1. 12 + n \in Nat \ {0} /\ l \in Int /\ l <= Len(lines) /\ l - (12 + n) + 1 = Len(post)
    BY <1>4, <1>7, <1>9
  <2>2. /\ y \in Seq(T) /\ Len(y) = (IF 12 + n <= l THEN l - (12 + n) + 1 ELSE 0)
        /\ \A i \in 1..(l - (12 + n) + 1) : y[i] = lines[12 + n + i - 1]
    BY <1>6, <2>1, PartType
  <2>3. Len(y) = Len(post)
    <3> HIDE DEF y, l
    <3> QED BY <1>4, <1>7, <2>1, <2>2
  <2>4. \A i \in 1..Len(post) : y[i] = post[i]
    <3> HIDE DEF y, l
    <3> SUFFICES ASSUME NEW i \in 1..Len(post) PROVE y[i] = post[i]
      OBVIOUS
    <3>1. 12 + n + i - 1 = 11 + n + i
      BY <1>4
    <3>2. y[i] = lines[12 + n + i - 1]
      BY <2>1, <2>2
    <3> QED BY <1>14, <3>1, <3>2
  <2>5. post \in Seq(T)
    <3>1. post \in Seq(Q)
      BY <1>7 DEF IsTail
    <3>2. Q \subseteq T
      BY LineInnerLetters, SeqMonotonic
    <3> QED BY <3>1, <3>2, SeqMonotonic
  <2> HIDE DEF y, T
  <2>6. y = post
    BY <2>2, <2>3, <2>4, <2>5, SeqEqual
  <2> QED BY <2>6 DEF y
<1>18. /\ IsEntry(lines[11 + n], <<"description">>, ReceivedHeading(event.description))
       /\ Lines(SubSeq(lines, 12 + n, Len(lines))) = ReceivedText(event.description)
  BY <1>7, <1>13, <1>17 DEF IsTail, ReceivedHeading, ReceivedText
<1>19. Len(lines) >= 11 + n
  BY <1>4, <1>7, <1>9
<1>20. /\ lines[1] = head[1] /\ lines[2] = head[2] /\ lines[3] = head[3] /\ lines[4] = head[4]
       /\ lines[5] = head[5]
  BY <1>10
<1>21. IsMessage(lines, u, event, ReceivedHeading(event.description),
                 ReceivedText(event.description))
  BY <1>3, <1>4, <1>5, <1>15, <1>16, <1>18, <1>19, <1>20 DEF IsMessage, keys, n
<1> QED BY <1>21 DEF lines, text, body

-----------------------------------------------------------------------------
(* Keys apart *)

(* The key of an entry of the general information *)
LEMMA InfoKey ==
  ASSUME NEW k \in Text
  PROVE  LET key == <<Blank, Blank>> \o k
         IN  /\ \A w : key # <<w>>
             /\ key # <<>> /\ WithoutFirst(key) = <<Blank>> \o k
             /\ <<Blank>> \o k \in Text
<1> DEFINE b == <<Blank>>
           bb == <<Blank, Blank>>
           key == bb \o k
           r == b \o k
<1>1. Blank \in Letter /\ k \in Seq(Letter)
  BY Letters DEF Text
<1>2. bb = b \o b /\ b \in Seq(Letter) /\ bb \in Seq(Letter) /\ Len(b) = 1 /\ Len(bb) = 2
      /\ b[1] = Blank /\ bb[1] = Blank
  BY <1>1, TupleConcat
<1> HIDE DEF b, bb
<1>3. r \in Seq(Letter)
  BY <1>1, <1>2, ConcatProperties
<1>4. key = b \o r
  BY <1>1, <1>2, ConcatAssociative
<1>5. /\ key \in Seq(Letter) /\ Len(key) = 2 + Len(k) /\ Len(k) \in Nat
      /\ key[1] = Blank
  <2>1. /\ bb \o k \in Seq(Letter) /\ Len(bb \o k) = Len(bb) + Len(k)
        /\ \A i \in 1..(Len(bb) + Len(k)) : (bb \o k)[i] = IF i <= Len(bb) THEN bb[i] ELSE k[i - Len(bb)]
    BY <1>1, <1>2, ConcatProperties
  <2>2. Len(k) \in Nat
    BY <1>1, LenProperties
  <2> HIDE DEF key
  <2>3. key \in Seq(Letter) /\ Len(key) = 2 + Len(k) /\ 1 \in 1..(2 + Len(k))
    BY <1>2, <2>1, <2>2 DEF key
  <2>4. key[1] = bb[1]
    BY <1>2, <2>1, <2>3 DEF key
  <2> QED BY <1>2, <2>2, <2>3, <2>4
<1> HIDE DEF r
<1>6. Tail(key) = r
  <2> HIDE DEF key
  <2> DEFINE t == Tail(key)
  <2>1. key # <<>>
    <3>1. Len(<<>>) = 0
      OBVIOUS
    <3> QED BY <1>5, <3>1
  <2>2. t \in Seq(Letter) /\ Len(t) = Len(key) - 1 /\ \A i \in 1..Len(t) : t[i] = key[i + 1]
    BY <1>5, <2>1, HeadTailProperties
  <2>3. /\ b \o r \in Seq(Letter) /\ Len(b \o r) = Len(b) + Len(r)
        /\ \A i \in 1..(Len(b) + Len(r)) : (b \o r)[i] = IF i <= Len(b) THEN b[i] ELSE r[i - Len(b)]
    BY <1>2, <1>3, ConcatProperties
  <2>4. Len(r) \in Nat
    BY <1>3, LenProperties
  <2> HIDE DEF t
  <2>5. Len(t) = Len(r)
    BY <1>2, <1>4, <2>2, <2>3, <2>4
  <2>6. ASSUME NEW i \in 1..Len(r) PROVE t[i] = r[i]
    <3>1. i + 1 \in 1..(1 + Len(r)) /\ ~(i + 1 <= 1) /\ (i + 1) - 1 = i
      BY <2>4
    <3> QED BY <1>2, <1>4, <2>2, <2>3, <2>5, <3>1
  <2>7. t = r
    BY <1>3, <2>2, <2>5, <2>6, SeqEqual
  <2> QED BY <2>7 DEF t
<1> HIDE DEF key
<1>7. \A w : key # <<w>>
  <2>1. \A w : Len(<<w>>) = 1
    OBVIOUS
  <2> QED BY <1>5, <2>1
<1>8. key # <<>>
  <2>1. Len(<<>>) = 0
    OBVIOUS
  <2> QED BY <1>5, <2>1
<1> QED BY <1>3, <1>5, <1>6, <1>7, <1>8 DEF WithoutFirst, Text, r, key, b, bb

(* Which line of a copy has which key *)
LEMMA KeysApart ==
  ASSUME NEW lines, NEW u, NEW event \in Event, NEW value, NEW text,
         IsMessage(lines, u, event, value, text),
         NEW i \in 1..(11 + Cardinality(DOMAIN event.info)), Occurs(Colon, lines[i])
  PROVE  LET n == Cardinality(DOMAIN event.info)
             key == KeyOf(lines[i])
         IN  /\ key = <<"user">> => i = 6
             /\ key = <<"city">> => i = 7
             /\ key = <<"event name">> => i = 8
             /\ key = <<"date time">> => i = 9
             /\ key = <<"general information">> => i = 10
             /\ key = <<"description">> => i = 11 + n
<1> DEFINE n == Cardinality(DOMAIN event.info)
           keys == SetToSeq(DOMAIN event.info)
           key == KeyOf(lines[i])
<1>1. n \in Nat /\ \A j \in 1..n : keys[j] \in Text
  <2>1. n \in Nat /\ DOMAIN keys = 1..n /\ \A j \in 1..n : keys[j] \in DOMAIN event.info
    BY InfoLinesType
  <2>2. \A k \in DOMAIN event.info : k \in Seq(Payload)
    BY InfoLinesType
  <2>3. Payload \subseteq Letter
    BY LineLetters
  <2> QED BY <2>1, <2>2, <2>3, SeqMonotonic DEF Text
<1>2. \/ i \in {2, 3, 4, 6, 7, 8, 9, 10} \/ i = 11 + n
      \/ \E j \in 1..n : i = 10 + j
  <2>1. i # 1 /\ i # 5
    BY DEF IsMessage
  <2>2. i \in 1..(11 + n)
    OBVIOUS
  <2> HIDE DEF n
  <2>3. i <= 10 \/ i = 11 + n \/ (i - 10 \in 1..n /\ i = 10 + (i - 10))
    BY <1>1, <2>2
  <2> QED BY <1>1, <2>1, <2>2, <2>3
<1>3. CASE i \in {2, 3, 4, 6, 7, 8, 9, 10} \/ i = 11 + n
  <2> DEFINE w == key[1]
  <2>1. /\ i = 2 => key = <<"message-id">>
        /\ i = 3 => key = <<"subscription">>
        /\ i = 4 => key = <<"destination">>
        /\ i = 6 => key = <<"user">>
        /\ i = 7 => key = <<"city">>
        /\ i = 8 => key = <<"event name">>
        /\ i = 9 => key = <<"date time">>
        /\ i = 10 => key = <<"general information">>
        /\ i = 11 + n => key = <<"description">>
    BY DEF IsMessage, IsEntry
  <2> HIDE DEF key, n
  <2>2. \A a, b : <<a>> = <<b>> => a = b
    OBVIOUS
  <2> QED BY <1>3, <2>1, <2>2 DEF n, key
<1>4. CASE \E j \in 1..n : i = 10 + j
  <2>1. PICK j \in 1..n : i = 10 + j
    BY <1>4
  <2>2. key = <<Blank, Blank>> \o keys[j]
    BY <2>1 DEF IsMessage, IsEntry
  <2>3. \A w : key # <<w>>
    BY <1>1, <2>2, InfoKey
  <2> QED BY <2>3
<1> QED BY <1>2, <1>3, <1>4

-----------------------------------------------------------------------------
(* The fields of a copy *)

(* The line of the word "description" *)
DescriptionAt(lines) == SelectInSeq(lines, LAMBDA line : HasKey(line, "description"))

InfoCount(event) == Cardinality(DOMAIN event.info)

(* The lines of a copy that count *)
LEMMA MessageFields ==
  ASSUME NEW lines, NEW u, NEW event \in Event, NEW value, NEW text,
         IsMessage(lines, u, event, value, text)
  PROVE  LET h == 11 + InfoCount(event)
         IN  /\ InfoCount(event) \in Nat
             /\ DescriptionAt(lines) = h
             /\ FieldsOf(lines) = {i \in 1..h : Occurs(Colon, lines[i])}
             /\ 1 \notin FieldsOf(lines) /\ 5 \notin FieldsOf(lines)
             /\ \A i \in 6..h : i \in FieldsOf(lines)
<1> DEFINE n == InfoCount(event)
           h == 11 + n
           N == Len(lines)
           I == {i \in 1..N : HasKey(lines[i], "description")}
<1>1. /\ n \in Nat /\ N \in Nat /\ DOMAIN lines = 1..N /\ N >= h
      /\ ~Occurs(Colon, lines[1]) /\ ~Occurs(Colon, lines[5])
      /\ Occurs(Colon, lines[6]) /\ Occurs(Colon, lines[7]) /\ Occurs(Colon, lines[8])
      /\ Occurs(Colon, lines[9]) /\ Occurs(Colon, lines[10])
      /\ \A i \in 1..n : Occurs(Colon, lines[10 + i])
      /\ Occurs(Colon, lines[h]) /\ KeyOf(lines[h]) = <<"description">>
  BY DEF IsMessage, IsEntry, InfoCount
<1>2. \A i \in 1..h : Occurs(Colon, lines[i]) /\ KeyOf(lines[i]) = <<"description">> => i = h
  BY KeysApart DEF InfoCount
<1> HIDE DEF n
<1>3. h \in I /\ \A i \in I : h <= i
  <2>1. h \in 1..N
    BY <1>1
  <2>2. \A i \in 1..N : i \in 1..h \/ h <= i
    BY <1>1
  <2> QED BY <1>1, <1>2, <2>1, <2>2 DEF HasKey
<1>4. DescriptionAt(lines) = IF I # {} THEN Min(I) ELSE 0
  BY DEF DescriptionAt, SelectInSeq
<1>5. Min(I) = h
  <2>1. I \in SUBSET Nat /\ I # {}
    BY <1>1, <1>3
  <2> HIDE DEF I, h
  <2> DEFINE m == Min(I)
  <2>2. m \in I /\ \A x \in I : m <= x
    BY <2>1, MinProperties
  <2> HIDE DEF m
  <2>3. m <= h /\ h <= m /\ m \in Nat /\ h \in Nat
    BY <1>3, <2>1, <2>2
  <2> QED BY <2>3 DEF m
<1>6. DescriptionAt(lines) = h
  BY <1>3, <1>4, <1>5
<1>7. FieldsOf(lines) = {i \in 1..N : Occurs(Colon, lines[i]) /\ (h = 0 \/ i <= h)}
  BY <1>1, <1>6 DEF FieldsOf, DescriptionAt
<1>8. FieldsOf(lines) = {i \in 1..h : Occurs(Colon, lines[i])}
  <2>1. h # 0 /\ \A i : i \in 1..N /\ i <= h <=> i \in 1..h
    BY <1>1
  <2> HIDE DEF h
  <2> QED BY <1>7, <2>1
<1>9. ASSUME NEW i \in 6..h PROVE i \in FieldsOf(lines)
  <2>1. i \in 1..h
    BY <1>1
  <2>2. i \in {6, 7, 8, 9, 10} \/ i = h \/ (i - 10 \in 1..n /\ i = 10 + (i - 10))
    BY <1>1
  <2>3. CASE i \in {6, 7, 8, 9, 10} \/ i = h
    BY <1>1, <1>8, <2>1, <2>3
  <2>4. CASE i - 10 \in 1..n /\ i = 10 + (i - 10)
    <3> DEFINE j == i - 10
    <3>1. j \in 1..n /\ i = 10 + j
      BY <2>4
    <3> HIDE DEF j
    <3>2. Occurs(Colon, lines[10 + j])
      BY <1>1, <3>1
    <3> QED BY <1>8, <2>1, <3>1, <3>2
  <2> QED BY <2>2, <2>3, <2>4
<1> QED BY <1>1, <1>6, <1>8, <1>9 DEF n

LEMMA FieldIs ==
  ASSUME NEW lines, NEW w, NEW v, NEW h \in Nat, NEW j \in 1..h,
         FieldsOf(lines) = {i \in 1..h : Occurs(Colon, lines[i])},
         IsEntry(lines[j], <<w>>, v),
         \A i \in 1..h : Occurs(Colon, lines[i]) /\ KeyOf(lines[i]) = <<w>> => i = j
  PROVE  Field(lines, w) = v
<1> DEFINE at == {i \in FieldsOf(lines) : KeyOf(lines[i]) = <<w>>}
<1>1. at = {j}
  BY DEF IsEntry
<1>2. Max(at) = j
  <2> HIDE DEF at
  <2>1. at \in SUBSET (1..h) /\ at # {}
    BY <1>1
  <2>2. Max(at) \in at
    BY <2>1, MaxProperties
  <2> QED BY <1>1, <2>2
<1>3. Field(lines, w) = IF at = {} THEN <<>> ELSE ValueOf(lines[Max(at)])
  BY DEF Field
<1> HIDE DEF at
<1> QED BY <1>1, <1>2, <1>3 DEF IsEntry

LEMMA MessageValues ==
  ASSUME NEW lines, NEW u, NEW event \in Event, NEW value, NEW text,
         IsMessage(lines, u, event, value, text)
  PROVE  /\ Field(lines, "user") = ReceivedValue(<<u>>)
         /\ Field(lines, "city") = ReceivedValue(event.city)
         /\ Field(lines, "event name") = ReceivedValue(event.name)
         /\ Field(lines, "date time") = ReceivedValue(<<event.date>>)
         /\ Description(lines) = text
<1> DEFINE n == InfoCount(event)
           h == 11 + n
<1>1. /\ n \in Nat /\ DescriptionAt(lines) = h
      /\ FieldsOf(lines) = {i \in 1..h : Occurs(Colon, lines[i])}
  BY MessageFields
<1>2. /\ IsEntry(lines[6], <<"user">>, ReceivedValue(<<u>>))
      /\ IsEntry(lines[7], <<"city">>, ReceivedValue(event.city))
      /\ IsEntry(lines[8], <<"event name">>, ReceivedValue(event.name))
      /\ IsEntry(lines[9], <<"date time">>, ReceivedValue(<<event.date>>))
      /\ Lines(SubSeq(lines, 12 + n, Len(lines))) = text
  BY DEF IsMessage, InfoCount
<1>3. /\ \A i \in 1..h : Occurs(Colon, lines[i]) /\ KeyOf(lines[i]) = <<"user">> => i = 6
      /\ \A i \in 1..h : Occurs(Colon, lines[i]) /\ KeyOf(lines[i]) = <<"city">> => i = 7
      /\ \A i \in 1..h : Occurs(Colon, lines[i]) /\ KeyOf(lines[i]) = <<"event name">> => i = 8
      /\ \A i \in 1..h : Occurs(Colon, lines[i]) /\ KeyOf(lines[i]) = <<"date time">> => i = 9
  BY KeysApart DEF InfoCount
<1> HIDE DEF n
<1>4. h \in Nat /\ 6 \in 1..h /\ 7 \in 1..h /\ 8 \in 1..h /\ 9 \in 1..h /\ h # 0 /\ h + 1 = 12 + n
  BY <1>1
<1> HIDE DEF h
<1> DEFINE Only(w, j) == \A i \in 1..h : Occurs(Colon, lines[i]) /\ KeyOf(lines[i]) = <<w>> => i = j
<1>5. ASSUME NEW w, NEW v, NEW j \in 1..h, IsEntry(lines[j], <<w>>, v), Only(w, j)
      PROVE  Field(lines, w) = v
  BY <1>1, <1>4, <1>5, FieldIs
<1>6. Only("user", 6) /\ Only("city", 7) /\ Only("event name", 8) /\ Only("date time", 9)
  BY <1>3
<1> HIDE DEF Only
<1>7. Field(lines, "user") = ReceivedValue(<<u>>)
  BY <1>2, <1>4, <1>5, <1>6
<1>8. Field(lines, "city") = ReceivedValue(event.city)
  BY <1>2, <1>4, <1>5, <1>6
<1>10. Field(lines, "event name") = ReceivedValue(event.name)
  BY <1>2, <1>4, <1>5, <1>6
<1>11. Field(lines, "date time") = ReceivedValue(<<event.date>>)
  BY <1>2, <1>4, <1>5, <1>6
<1>9. Description(lines) = text
  <2>1. Description(lines) = IF DescriptionAt(lines) = 0 THEN <<>>
                             ELSE Lines(SubSeq(lines, DescriptionAt(lines) + 1, Len(lines)))
    BY DEF Description, DescriptionAt
  <2> QED BY <1>1, <1>2, <1>4, <2>1
<1> QED BY <1>7, <1>8, <1>9, <1>10, <1>11

-----------------------------------------------------------------------------
(* The general information of a copy *)

LEMMA BlankApart ==
  /\ \A k \in Text, m \in Text : <<Blank>> \o k = <<Blank>> \o m => k = m
  /\ \A k \in Text : <<Blank>> \o k # <<"rest of a word">>
<1> DEFINE b == <<Blank>>
<1>0. Blank \in Letter
  BY Letters
<1>1. b \in Seq(Letter) /\ Len(b) = 1 /\ b[1] = Blank
  BY <1>0
<1> HIDE DEF b
<1>2. ASSUME NEW k \in Text
      PROVE  /\ Len(b \o k) = 1 + Len(k) /\ Len(k) \in Nat /\ k \in Seq(Letter)
             /\ (b \o k)[1] = Blank /\ \A i \in 1..Len(k) : (b \o k)[1 + i] = k[i]
  <2>1. k \in Seq(Letter) /\ Len(k) \in Nat
    BY LenProperties DEF Text
  <2>2. /\ Len(b \o k) = Len(b) + Len(k)
        /\ \A i \in 1..(Len(b) + Len(k)) : (b \o k)[i] = IF i <= Len(b) THEN b[i] ELSE k[i - Len(b)]
    BY <1>1, <2>1, ConcatProperties
  <2>3. 1 \in 1..(1 + Len(k)) /\ \A i \in 1..Len(k) :
          1 + i \in 1..(1 + Len(k)) /\ ~(1 + i <= 1) /\ (1 + i) - 1 = i
    BY <2>1
  <2> QED BY <1>1, <2>1, <2>2, <2>3
<1>3. ASSUME NEW k \in Text, NEW m \in Text, b \o k = b \o m PROVE k = m
  <2>1. Len(k) = Len(m)
    <3>1. 1 + Len(k) = 1 + Len(m) /\ Len(k) \in Nat /\ Len(m) \in Nat
      BY <1>2, <1>3
    <3> QED BY <3>1
  <2>2. \A i \in 1..Len(k) : k[i] = m[i]
    BY <1>2, <1>3, <2>1
  <2> QED BY <1>2, <2>1, <2>2, SeqEqual
<1>4. ASSUME NEW k \in Text, b \o k = <<"rest of a word">> PROVE FALSE
  <2>1. (b \o k)[1] = "rest of a word"
    <3> DEFINE r == "rest of a word"
    <3> HIDE DEF r
    <3>1. <<r>>[1] = r
      OBVIOUS
    <3>2. b \o k = <<r>>
      BY <1>4 DEF r
    <3>3. (b \o k)[1] = r
      BY <3>1, <3>2
    <3> QED BY <3>3 DEF r
  <2> QED BY <1>2, <2>1 DEF Blank
<1> QED BY <1>3, <1>4 DEF b

Extra == <<"rest of a word">>

(* The general information of an event as it is received *)
ReceivedInfo(event) ==
  LET Of(key) == CHOOSE k \in DOMAIN event.info : <<Blank>> \o k = key
  IN  Put([key \in {<<Blank>> \o k : k \in DOMAIN event.info} |->
             ReceivedValue(event.info[Of(key)])], Extra, ReceivedHeading(event.description))

LEMMA ReceivedInfoValue ==
  ASSUME NEW event \in Event
  PROVE  /\ ReceivedInfo(event) = [key \in DOMAIN ReceivedInfo(event) |-> ReceivedInfo(event)[key]]
         /\ DOMAIN ReceivedInfo(event) = {<<Blank>> \o k : k \in DOMAIN event.info} \cup {Extra}
         /\ ReceivedInfo(event)[Extra] = ReceivedHeading(event.description)
         /\ \A k \in DOMAIN event.info :
              ReceivedInfo(event)[<<Blank>> \o k] = ReceivedValue(event.info[k])
<1> DEFINE Of(key) == CHOOSE k \in DOMAIN event.info : <<Blank>> \o k = key
           D == {<<Blank>> \o k : k \in DOMAIN event.info}
           f == [key \in D |-> ReceivedValue(event.info[Of(key)])]
           v == ReceivedHeading(event.description)
<1>1. \A k \in DOMAIN event.info : k \in Text
  BY InfoLinesType, LineLetters, SeqMonotonic DEF Text
<1>2. ReceivedInfo(event) = [x \in D \cup {Extra} |-> IF x = Extra THEN v ELSE f[x]]
  BY DEF ReceivedInfo, Put
<1>3. \A k \in DOMAIN event.info : <<Blank>> \o k # Extra
  BY <1>1, BlankApart DEF Extra
<1>4. ASSUME NEW k \in DOMAIN event.info PROVE Of(<<Blank>> \o k) = k
  BY <1>1, BlankApart
<1>5. ASSUME NEW k \in DOMAIN event.info
      PROVE  ReceivedInfo(event)[<<Blank>> \o k] = ReceivedValue(event.info[k])
  <2> DEFINE x == <<Blank>> \o k
  <2>1. x \in D
    OBVIOUS
  <2>2. x # Extra /\ Of(x) = k
    BY <1>3, <1>4
  <2>3. f[x] = ReceivedValue(event.info[Of(x)])
    BY <2>1
  <2> HIDE DEF x, D, f, v, Of
  <2>4. ReceivedInfo(event)[x] = f[x]
    BY <1>2, <2>1, <2>2
  <2> QED BY <2>2, <2>3, <2>4 DEF x
<1>6. ReceivedInfo(event)[Extra] = v
  BY <1>2
<1>7. DOMAIN ReceivedInfo(event) = D \cup {Extra}
  BY <1>2
<1>8. ReceivedInfo(event) = [key \in D \cup {Extra} |-> ReceivedInfo(event)[key]]
  <2> DEFINE g == ReceivedInfo(event)
  <2> HIDE DEF f, D, v, g
  <2> QED BY <1>2 DEF g
<1> QED BY <1>5, <1>6, <1>7, <1>8

(* The entries of a copy are those of the event and the word "description". *)
LEMMA MessageEntries ==
  ASSUME NEW lines, NEW u, NEW event \in Event, NEW value, NEW text,
         IsMessage(lines, u, event, value, text)
  PROVE  LET n == InfoCount(event)
             keys == SetToSeq(DOMAIN event.info)
         IN  /\ n \in Nat /\ EntriesOf(lines) = 11..(11 + n)
             /\ KeyOf(lines[11 + n]) = <<"description">>
             /\ WithoutFirst(KeyOf(lines[11 + n])) = Extra
             /\ ValueOf(lines[11 + n]) = value
             /\ \A j \in 1..n : /\ keys[j] \in DOMAIN event.info
                                /\ KeyOf(lines[10 + j]) # <<>>
                                /\ WithoutFirst(KeyOf(lines[10 + j])) = <<Blank>> \o keys[j]
                                /\ ValueOf(lines[10 + j]) = ReceivedValue(event.info[keys[j]])
<1> DEFINE n == InfoCount(event)
           h == 11 + n
           keys == SetToSeq(DOMAIN event.info)
           F == FieldsOf(lines)
           H == {i \in F : IsHeading(lines[i])}
<1>1. /\ n \in Nat /\ F = {i \in 1..h : Occurs(Colon, lines[i])}
      /\ \A i \in 6..h : i \in F
  BY MessageFields
<1>2. /\ KeyOf(lines[10]) = <<"general information">>
      /\ KeyOf(lines[h]) = <<"description">> /\ ValueOf(lines[h]) = value
      /\ \A j \in 1..n : /\ KeyOf(lines[10 + j]) = <<Blank, Blank>> \o keys[j]
                         /\ ValueOf(lines[10 + j]) = ReceivedValue(event.info[keys[j]])
  BY DEF IsMessage, IsEntry, InfoCount
<1>3. \A i \in 1..h : Occurs(Colon, lines[i]) /\ KeyOf(lines[i]) = <<"general information">> => i = 10
  BY KeysApart DEF InfoCount
<1>4. \A j \in 1..n : keys[j] \in DOMAIN event.info /\ keys[j] \in Text
  <2>1. DOMAIN keys = 1..n /\ \A j \in 1..n : keys[j] \in DOMAIN event.info
    BY InfoLinesType DEF InfoCount
  <2>2. \A k \in DOMAIN event.info : k \in Text
    BY InfoLinesType, LineLetters, SeqMonotonic DEF Text
  <2> QED BY <2>1, <2>2
<1> HIDE DEF n, keys
<1>5. H = {10}
  <2>1. 10 \in 6..h
    BY <1>1
  <2>2. 10 \in H
    BY <1>1, <1>2, <2>1 DEF IsHeading
  <2>3. \A i \in H : i = 10
    BY <1>1, <1>3 DEF IsHeading
  <2> HIDE DEF H
  <2> QED BY <2>2, <2>3
<1>6. EntriesOf(lines) = {i \in F \ H : \E j \in H : j < i}
  BY DEF EntriesOf
<1>7. EntriesOf(lines) = 11..h
  <2> HIDE DEF H
  <2>1. EntriesOf(lines) = {i \in F : i # 10 /\ 10 < i}
    BY <1>5, <1>6
  <2>2. ASSUME NEW i PROVE i \in F /\ i # 10 /\ 10 < i <=> i \in 11..h
    <3>1. ASSUME i \in F, 10 < i PROVE i \in 11..h
      <4>1. i \in 1..h
        BY <1>1, <3>1
      <4> QED BY <1>1, <3>1, <4>1
    <3>2. ASSUME i \in 11..h PROVE i \in F /\ i # 10 /\ 10 < i
      <4>1. i \in 6..h /\ i # 10 /\ 10 < i
        BY <1>1, <3>2
      <4> QED BY <1>1, <4>1
    <3> QED BY <3>1, <3>2
  <2> HIDE DEF F, h
  <2> QED BY <2>1, <2>2
<1>8. WithoutFirst(KeyOf(lines[h])) = Extra
  <2> DEFINE w == "description"
             r == "rest of a word"
             t == Tail(<<w>>)
  <2>1. w # Blank
    BY DEF Blank
  <2> HIDE DEF w, r
  <2>2. t = <<>> /\ <<w>>[1] = w
    OBVIOUS
  <2>3. <<r>> \in Seq({r}) /\ <<r>> \o <<>> = <<r>>
    <3>1. <<r>> \in Seq({r})
      OBVIOUS
    <3> DEFINE x == <<r>>
    <3> HIDE DEF x
    <3>2. x \in Seq({r}) => x \o <<>> = x
      BY ConcatEmptySeq
    <3> QED BY <3>1, <3>2 DEF x
  <2>4. WithoutFirst(<<w>>) = IF <<w>>[1] = Blank THEN t ELSE <<r>> \o t
    BY DEF WithoutFirst, r
  <2>5. WithoutFirst(<<w>>) = <<r>>
    BY <2>1, <2>2, <2>3, <2>4
  <2> QED BY <1>2, <2>5 DEF Extra, w, r
<1>9. ASSUME NEW j \in 1..n
      PROVE  KeyOf(lines[10 + j]) # <<>> /\ WithoutFirst(KeyOf(lines[10 + j])) = <<Blank>> \o keys[j]
  <2>1. KeyOf(lines[10 + j]) = <<Blank, Blank>> \o keys[j] /\ keys[j] \in Text
    BY <1>2, <1>4
  <2> QED BY <2>1, InfoKey
<1> QED BY <1>1, <1>2, <1>4, <1>7, <1>8, <1>9 DEF n, keys

-----------------------------------------------------------------------------
(* The event of a copy *)

LEMMA MessageInformation ==
  ASSUME NEW lines, NEW u, NEW event \in Event, NEW text,
         IsMessage(lines, u, event, ReceivedHeading(event.description), text)
  PROVE  Information(lines) = ReceivedInfo(event)
<1> DEFINE n == InfoCount(event)
           h == 11 + n
           ks == SetToSeq(DOMAIN event.info)
           v == ReceivedHeading(event.description)
           E == EntriesOf(lines)
           K(i) == WithoutFirst(KeyOf(lines[i]))
           keys == [i \in E |-> K(i)]
           At(key) == {i \in E : keys[i] = key}
           D == {keys[i] : i \in E}
           Q == DOMAIN event.info
           B(k) == <<Blank>> \o k
           f == ReceivedInfo(event)
<1>1. /\ n \in Nat /\ E = 11..h /\ K(h) = Extra /\ ValueOf(lines[h]) = v
      /\ \A j \in 1..n : /\ ks[j] \in Q /\ K(10 + j) = B(ks[j])
                         /\ ValueOf(lines[10 + j]) = ReceivedValue(event.info[ks[j]])
  BY MessageEntries
<1>2. /\ \A i, j \in 1..n : ks[i] = ks[j] => i = j
      /\ \A k \in Q : \E i \in 1..n : ks[i] = k
  BY KeysInOrder DEF Event, InfoCount
<1>3. \A k \in Q : k \in Text
  BY InfoLinesType, LineLetters, SeqMonotonic DEF Text
<1>4. /\ f = [key \in DOMAIN f |-> f[key]]
      /\ DOMAIN f = {B(k) : k \in Q} \cup {Extra} /\ f[Extra] = v
      /\ \A k \in Q : f[B(k)] = ReceivedValue(event.info[k])
  BY ReceivedInfoValue
<1>5. /\ \A k \in Q : B(k) # Extra
      /\ \A k, m \in Q : B(k) = B(m) => k = m
  BY <1>3, BlankApart DEF Extra
<1>6. Information(lines) = [key \in D |-> ValueOf(lines[Max(At(key))])]
  BY DEF Information
<1> HIDE DEF n, ks, v, K, E, Q, B, f
<1>7. \A i \in E : i = h \/ \E j \in 1..n : i = 10 + j
  <2>1. \A i \in 11..h : i = h \/ (i - 10 \in 1..n /\ i = 10 + (i - 10))
    BY <1>1
  <2> QED BY <1>1, <2>1
<1>8. h \in E /\ \A j \in 1..n : 10 + j \in E
  BY <1>1
<1>9. ASSUME NEW i \in E, NEW j \in E, K(i) = K(j) PROVE i = j
  <2>1. CASE i = h /\ j = h
    BY <2>1
  <2>2. CASE i = h /\ \E b \in 1..n : j = 10 + b
    BY <1>1, <1>5, <1>9, <2>2
  <2>3. CASE j = h /\ \E b \in 1..n : i = 10 + b
    BY <1>1, <1>5, <1>9, <2>3
  <2>4. CASE (\E a \in 1..n : i = 10 + a) /\ (\E b \in 1..n : j = 10 + b)
    <3>1. PICK a \in 1..n : i = 10 + a
      BY <2>4
    <3>2. PICK b \in 1..n : j = 10 + b
      BY <2>4
    <3>3. B(ks[a]) = B(ks[b]) /\ ks[a] \in Q /\ ks[b] \in Q
      BY <1>1, <1>9, <3>1, <3>2
    <3>4. a = b
      BY <1>2, <1>5, <3>3
    <3> QED BY <3>1, <3>2, <3>4
  <2> QED BY <1>7, <2>1, <2>2, <2>3, <2>4
<1>10. ASSUME NEW i \in E PROVE ValueOf(lines[i]) = f[K(i)]
  <2>1. CASE i = h
    BY <1>1, <1>4, <2>1
  <2>2. CASE \E j \in 1..n : i = 10 + j
    BY <1>1, <1>4, <2>2
  <2> QED BY <1>7, <2>1, <2>2
<1>11. D = DOMAIN f
  <2>1. ASSUME NEW i \in E PROVE K(i) \in DOMAIN f
    BY <1>1, <1>4, <1>7
  <2>2. Extra \in D
    BY <1>1, <1>8
  <2>3. ASSUME NEW k \in Q PROVE B(k) \in D
    <3>1. PICK j \in 1..n : ks[j] = k
      BY <1>2
    <3>2. keys[10 + j] = B(k) /\ 10 + j \in E
      BY <1>1, <1>8, <3>1
    <3> QED BY <3>2
  <2> QED BY <1>4, <2>1, <2>2, <2>3
<1>12. ASSUME NEW i \in E PROVE Max(At(K(i))) = i
  <2> DEFINE A == At(K(i))
  <2>1. A = {i}
    BY <1>9
  <2>2. A \in SUBSET (1..h) /\ A # {}
    <3>1. i \in 1..h
      BY <1>1
    <3> HIDE DEF A
    <3> QED BY <2>1, <3>1
  <2> HIDE DEF A
  <2>3. Max(A) \in A
    <3>1. h \in Nat
      BY <1>1
    <3> HIDE DEF h
    <3> QED BY <2>2, <3>1, MaxProperties
  <2>4. Max(A) = i
    BY <2>1, <2>3
  <2> QED BY <2>4 DEF A
<1>13. ASSUME NEW key \in D PROVE ValueOf(lines[Max(At(key))]) = f[key]
  <2>1. PICK i \in E : key = K(i)
    OBVIOUS
  <2> HIDE DEF At
  <2>2. Max(At(key)) = i
    BY <1>12, <2>1
  <2> QED BY <1>10, <2>1, <2>2
<1> HIDE DEF D, At
<1>14. Information(lines) = [key \in DOMAIN f |-> f[key]]
  BY <1>6, <1>11, <1>13
<1> QED BY <1>4, <1>14 DEF f

LEMMA DateRead ==
  ASSUME NEW date \in Number
  PROVE  LET value == ReceivedValue(<<date>>)
         IN  /\ value # <<>> /\ Trim(value) = <<date>> /\ Trim(value)[1] = date
             /\ IsNumber(value)
<1>1. /\ date \in Letter /\ Blank \in Letter /\ date \notin NonAscii
      /\ date # Colon /\ date # Blank /\ date # Newline
  BY Letters, TextAssumption DEF Letter
<1> DEFINE d == <<date>>
           b == <<Blank, date>>
<1>2. d \in Text /\ b \in Seq(Letter) /\ Len(d) = 1 /\ d[1] = date
  BY <1>1 DEF Text
<1>3. ReceivedValue(d) = <<Blank>> \o Characters(d)
  <2> DEFINE I == {i \in 1..Len(d) : d[i] = Colon}
  <2>1. I = {}
    <3> HIDE DEF d
    <3> QED BY <1>1, <1>2
  <2>2. SelectInSeq(d, LAMBDA ch : ch = Colon) = IF I # {} THEN Min(I) ELSE 0
    BY DEF SelectInSeq
  <2> HIDE DEF I
  <2>3. SelectInSeq(d, LAMBDA ch : ch = Colon) = 0
    BY <2>1, <2>2
  <2> QED BY <2>3 DEF ReceivedValue
<1>4. Characters(d) = d
  <2>1. Characters(<<date>>) = <<DecodedChar(date)>>
    BY <1>1, CharactersOne
  <2> QED BY <1>1, <2>1 DEF DecodedChar
<1>5. ReceivedValue(d) = b
  BY <1>1, <1>3, <1>4, TupleConcat
<1>6. Trim(b) = d
  <2>1. Len(b) = 2 /\ b[1] = Blank /\ b[2] = date
    OBVIOUS
  <2> HIDE DEF b, d
  <2>2. date \notin White /\ Blank \in White
    BY <1>1 DEF White
  <2>3. Trim(b) = SubSeq(b, 2, 2)
    <3>1. 2 \in 1..Len(b) /\ 2 <= 2
      BY <2>1
    <3>2. b[2] \notin White
      BY <2>1, <2>2
    <3>3. \A i \in 1..(2 - 1) : b[i] \in White
      BY <2>1, <2>2
    <3>4. \A i \in (2 + 1)..Len(b) : b[i] \in White
      BY <2>1
    <3> QED BY <1>2, <3>1, <3>2, <3>3, <3>4, TrimIs
  <2>4. SubSeq(b, 2, 2) = d
    <3> DEFINE s == SubSeq(b, 2, 2)
    <3>1. 2 \in Nat \ {0} /\ 2 \in Int /\ 2 <= Len(b)
      BY <2>1
    <3>2. /\ s \in Seq(Letter) /\ Len(s) = (IF 2 <= 2 THEN 2 - 2 + 1 ELSE 0)
          /\ \A i \in 1..(2 - 2 + 1) : s[i] = b[2 + i - 1]
      BY <1>2, <3>1, PartType
    <3> HIDE DEF s
    <3>3. Len(s) = 1 /\ s[1] = date
      BY <2>1, <3>2
    <3>4. \A i \in 1..1 : s[i] = d[i]
      BY <1>2, <3>3
    <3>5. s = d
      BY <1>2, <3>2, <3>3, <3>4, SeqEqual DEF Text
    <3> QED BY <3>5 DEF s
  <2> QED BY <2>3, <2>4
<1>7. b # <<>> /\ d # <<>>
  <2>1. Len(b) = 2 /\ Len(d) = 1 /\ Len(<<>>) = 0
    OBVIOUS
  <2> HIDE DEF b, d
  <2> QED BY <2>1
<1> HIDE DEF b
<1> QED BY <1>2, <1>5, <1>6, <1>7 DEF IsNumber

LEMMA ReadMessage ==
  ASSUME NEW message, NEW u, NEW event \in Event,
         IsMessage(GetLines(message, Newline), u, event, ReceivedHeading(event.description),
                   ReceivedText(event.description))
  PROVE  ReadEvent(message) = AsReceived(u, event) /\ ~Unreadable(message)
<1> DEFINE lines == GetLines(message, Newline)
           text == ReceivedText(event.description)
           n == InfoCount(event)
           h == 11 + n
           v == ReceivedHeading(event.description)
           date == ReceivedValue(<<event.date>>)
<1>1. IsMessage(lines, u, event, v, text)
  OBVIOUS
<1> HIDE DEF lines, text, v, n
<1>2. /\ Field(lines, "user") = ReceivedValue(<<u>>)
      /\ Field(lines, "city") = ReceivedValue(event.city)
      /\ Field(lines, "event name") = ReceivedValue(event.name)
      /\ Field(lines, "date time") = date
      /\ Description(lines) = text
  BY <1>1, MessageValues
<1>3. Information(lines) = ReceivedInfo(event)
  BY <1>1, MessageInformation DEF v
<1>4. date # <<>> /\ Trim(date)[1] = event.date /\ IsNumber(date)
  BY DateRead DEF Event
<1> HIDE DEF date
<1>5. ReadEvent(message) =
        [owner |-> ReceivedValue(<<u>>), city |-> ReceivedValue(event.city),
         name |-> ReceivedValue(event.name), date |-> event.date,
         description |-> text, info |-> ReceivedInfo(event)]
  BY <1>2, <1>3, <1>4 DEF ReadEvent, lines
<1>6. AsReceived(u, event) =
        [owner |-> ReceivedValue(<<u>>), city |-> ReceivedValue(event.city),
         name |-> ReceivedValue(event.name), date |-> event.date,
         description |-> text, info |-> ReceivedInfo(event)]
  <2>1. SelectLastInSeq(event.description, LAMBDA ch : ch \notin White) = BlackEnd(event.description)
    BY DEF BlackEnd
  <2>2. text = IF BlackEnd(event.description) = 0 THEN <<>>
               ELSE Append(Characters(SubSeq(event.description, 1, BlackEnd(event.description))), Newline)
    BY DEF text, ReceivedText, Kept
  <2> QED BY <2>1, <2>2 DEF AsReceived, ReceivedInfo, ReceivedHeading, Extra
<1>7. /\ n \in Nat /\ FieldsOf(lines) = {i \in 1..h : Occurs(Colon, lines[i])}
  BY <1>1, MessageFields DEF n
<1>8. ASSUME NEW i \in FieldsOf(lines), KeyOf(lines[i]) = <<"date time">>
      PROVE  IsNumber(ValueOf(lines[i]))
  <2>1. i \in 1..(11 + Cardinality(DOMAIN event.info)) /\ Occurs(Colon, lines[i])
    BY <1>7 DEF n, InfoCount
  <2>2. i = 9
    BY <1>1, <1>8, <2>1, KeysApart
  <2>3. ValueOf(lines[9]) = date
    BY <1>1 DEF IsMessage, IsEntry, date
  <2> QED BY <1>4, <2>2, <2>3
<1>9. ASSUME NEW i \in EntriesOf(lines) PROVE KeyOf(lines[i]) # <<>>
  <2>1. /\ EntriesOf(lines) = 11..h /\ KeyOf(lines[h]) = <<"description">>
        /\ \A j \in 1..n : KeyOf(lines[10 + j]) # <<>>
    BY <1>1, MessageEntries DEF n
  <2>2. i = h \/ (i - 10 \in 1..n /\ i = 10 + (i - 10))
    BY <1>7, <2>1
  <2>3. <<"description">> # <<>>
    <3>1. Len(<<"description">>) = 1 /\ Len(<<>>) = 0
      OBVIOUS
    <3> QED BY <3>1
  <2> QED BY <2>1, <2>2, <2>3
<1>10. ~Unreadable(message)
  BY <1>8, <1>9 DEF Unreadable, lines
<1> QED BY <1>5, <1>6, <1>10

=============================================================================
