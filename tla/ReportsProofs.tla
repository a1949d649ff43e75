--------------------------- MODULE ReportsProofs ----------------------------
(***************************************************************************)
(* Theorems about Reports, for every set of users and files, every content *)
(* that the assumptions allow, every size of reads and every interleaving. *)
(***************************************************************************)
EXTENDS ReportTextLemmas

-----------------------------------------------------------------------------
(* Types *)

TypeInv ==
  /\ reported \in [User -> Seq(File)]
  /\ toServer \in [User -> Text] /\ chunk \in [User -> Text]
  /\ buffer \in [User -> Seq(Inner)]
  /\ closed \subseteq User
  /\ toClient \in Seq(DecodedLetter)
  /\ TypeOK

LEMMA InitType == Init => TypeInv
<1> SUFFICES ASSUME Init PROVE TypeInv
  OBVIOUS
<1> USE DEF Init
<1>1. PICK size \in ReadSize : size \in Nat
  BY ReadSizeAssumption
<1>2. /\ <<>> \in Seq(File) /\ <<>> \in Text /\ <<>> \in Seq(Inner) /\ <<>> \in Seq(DecodedLetter)
      /\ Len(<<>>) = 0
  BY EmptySeq DEF Text
<1>3. TypeOK
  <2>1. \A u \in User : /\ reported[u] \in Seq(File)
                        /\ \E s \in ReadSize : Len(chunk[u]) <= s
                        /\ ToSet(buffer[u]) \cap (NonAscii \cup {Nul}) = {}
    BY <1>1, <1>2 DEF ToSet
  <2> QED BY <2>1 DEF TypeOK
<1> QED BY <1>2, <1>3 DEF TypeInv

(* The parts of TypeOK that a step of a user may change *)
UserTypeOK(u) ==
  /\ reported[u] \in Seq(File)
  /\ \E size \in ReadSize : Len(chunk[u]) <= size
  /\ ToSet(buffer[u]) \cap (NonAscii \cup {Nul}) = {}

LEMMA InnerBuffer ==
  ASSUME NEW s \in Seq(Inner)
  PROVE  ToSet(s) \cap (NonAscii \cup {Nul}) = {}
<1>1. \A i \in DOMAIN s : s[i] \in Inner
  BY LenProperties, ElementOfSeq
<1> QED BY <1>1 DEF ToSet, Inner, DecodedLetter

LEMMA ReportType ==
  ASSUME TypeInv, NEW u \in User, NEW file \in File, Report(u, file)
  PROVE  TypeInv'
<1> USE DEF Report
<1>1. reported' \in [User -> Seq(File)]
  BY AppendProperties DEF TypeInv
<1>2. toServer' \in [User -> Text]
  <2>1. toServer[u] \o Frames[<<u, file>>] \in Text
    <3>1. Frames[<<u, file>>] \in Text
      BY FramesType
    <3> QED BY <3>1, ConcatProperties DEF TypeInv, Text
  <2> QED BY <2>1 DEF TypeInv
<1>3. TypeOK'
  BY <1>1 DEF TypeInv, TypeOK
<1> QED BY <1>1, <1>2, <1>3 DEF TypeInv

LEMMA ReadType ==
  ASSUME TypeInv, NEW u \in User, Read(u)
  PROVE  TypeInv'
<1>1. PICK size \in ReadSize :
        LET n == IF size < Len(toServer[u]) THEN size ELSE Len(toServer[u])
        IN  /\ chunk' = [chunk EXCEPT ![u] = SubSeq(toServer[u], 1, n)]
            /\ toServer' = [toServer EXCEPT ![u] = SubSeq(@, n + 1, Len(@))]
  BY DEF Read
<1> DEFINE s == toServer[u]
           n == IF size < Len(s) THEN size ELSE Len(s)
<1>2. s \in Text /\ Len(s) \in Nat /\ size \in Nat
  BY ReadSizeAssumption, LenProperties DEF TypeInv, Text
<1>3. n \in 0..Len(s) /\ n <= size
  BY <1>2
<1>4. SubSeq(s, 1, n) \in Text /\ Len(SubSeq(s, 1, n)) <= size
  <2> HIDE DEF n, s
  <2>1. 1 \in Nat \ {0} /\ n \in Int /\ n <= Len(s) /\ s \in Seq(Letter)
    BY <1>2, <1>3 DEF Text
  <2>2. SubSeq(s, 1, n) \in Seq(Letter) /\ Len(SubSeq(s, 1, n)) = IF 1 <= n THEN n - 1 + 1 ELSE 0
    BY <2>1, PartType
  <2> QED BY <1>2, <1>3, <2>2 DEF Text
<1>5. SubSeq(s, n + 1, Len(s)) \in Text
  <2> HIDE DEF n, s
  <2>1. n + 1 \in Nat \ {0} /\ Len(s) \in Int /\ Len(s) <= Len(s) /\ s \in Seq(Letter)
    BY <1>2, <1>3 DEF Text
  <2> QED BY <2>1, PartType DEF Text
<1>6. chunk' = [chunk EXCEPT ![u] = SubSeq(s, 1, n)] /\ toServer' = [toServer EXCEPT ![u] = SubSeq(s, n + 1, Len(s))]
  BY <1>1
<1> HIDE DEF n, s
<1>7. chunk' \in [User -> Text] /\ toServer' \in [User -> Text]
  BY <1>4, <1>5, <1>6 DEF TypeInv
<1>8. UNCHANGED <<serverType, reported, buffer, closed, toClient, sumerevent, crashed>>
  BY DEF Read
<1>9. ASSUME NEW v \in User PROVE \E z \in ReadSize : Len(chunk'[v]) <= z
  BY <1>4, <1>6 DEF TypeInv, TypeOK
<1> QED BY <1>7, <1>8, <1>9 DEF TypeInv, TypeOK

LEMMA DecodeType ==
  ASSUME TypeInv, NEW u \in User, Decode(u)
  PROVE  TypeInv'
<1> USE DEF Decode
<1>1. \A i \in 1..Len(chunk[u]) : chunk[u][i] # Nul
  BY EndsProperties DEF TypeInv, Text
<1>2. Characters(chunk[u]) \in Seq(Inner)
  BY <1>1, InnerCharacters DEF TypeInv
<1>3. buffer[u] \o Characters(chunk[u]) \in Seq(Inner)
  BY <1>2, ConcatProperties DEF TypeInv
<1>4. buffer' \in [User -> Seq(Inner)]
  BY <1>3 DEF TypeInv
<1>5. chunk' \in [User -> Text] /\ chunk'[u] = <<>>
  BY EmptySeq DEF TypeInv, Text
<1>6. ASSUME NEW v \in User PROVE \E z \in ReadSize : Len(chunk'[v]) <= z
  <2>1. PICK size \in ReadSize : size \in Nat
    BY ReadSizeAssumption
  <2>2. CASE v = u
    BY <1>5, <2>1, <2>2
  <2>3. CASE v # u
    BY <2>3 DEF TypeInv, TypeOK
  <2> QED BY <2>2, <2>3
<1>7. \A v \in User : ToSet(buffer'[v]) \cap (NonAscii \cup {Nul}) = {}
  BY <1>4, InnerBuffer
<1> QED BY <1>4, <1>5, <1>6, <1>7 DEF TypeInv, TypeOK

(* What the decoder hands to parse when a frame ends in a chunk *)
Pending(u) == buffer[u] \o Characters(SubSeq(chunk[u], 1, Ends(chunk[u]) - 1))

LEMMA PendingType ==
  ASSUME TypeInv, NEW u \in User, Ends(chunk[u]) # 0
  PROVE  /\ Ends(chunk[u]) \in 1..Len(chunk[u]) /\ Len(chunk[u]) \in Nat
         /\ Pending(u) \in Seq(Inner)
         /\ SubSeq(chunk[u], Ends(chunk[u]) + 1, Len(chunk[u])) \in Text
         /\ Len(SubSeq(chunk[u], Ends(chunk[u]) + 1, Len(chunk[u]))) = Len(chunk[u]) - Ends(chunk[u])
<1> DEFINE s == chunk[u]
           n == Ends(s)
           t == SubSeq(s, 1, n - 1)
<1>1. /\ s \in Seq(Letter) /\ n \in 1..Len(s) /\ Len(s) \in Nat
      /\ \A i \in 1..(n - 1) : s[i] # Nul
  BY EndsProperties, LenProperties DEF TypeInv, Text
<1>2. /\ t \in Seq(Letter) /\ Len(t) = n - 1
      /\ \A i \in 1..(n - 1) : t[i] = s[i]
  <2> HIDE DEF n, s
  <2>1. 1 \in Nat \ {0} /\ n - 1 \in Int /\ n - 1 <= Len(s)
    BY <1>1
  <2>2. /\ t \in Seq(Letter) /\ Len(t) = IF 1 <= n - 1 THEN n - 1 - 1 + 1 ELSE 0
        /\ \A i \in 1..(n - 1 - 1 + 1) : t[i] = s[1 + i - 1]
    BY <1>1, <2>1, PartType
  <2> QED BY <1>1, <2>2
<1>3. Characters(t) \in Seq(Inner)
  <2> HIDE DEF n, s, t
  <2> QED BY <1>1, <1>2, InnerCharacters DEF Text
<1>4. Pending(u) \in Seq(Inner)
  BY <1>3, ConcatProperties DEF TypeInv, Pending
<1>5. /\ SubSeq(s, n + 1, Len(s)) \in Text
      /\ Len(SubSeq(s, n + 1, Len(s))) = Len(s) - n
  <2> HIDE DEF n, s
  <2>1. n + 1 \in Nat \ {0} /\ Len(s) \in Int /\ Len(s) <= Len(s)
    BY <1>1
  <2>2. /\ SubSeq(s, n + 1, Len(s)) \in Seq(Letter)
        /\ Len(SubSeq(s, n + 1, Len(s))) = IF n + 1 <= Len(s) THEN Len(s) - (n + 1) + 1 ELSE 0
    BY <1>1, <2>1, PartType
  <2> QED BY <1>1, <2>2 DEF Text
<1> QED BY <1>1, <1>4, <1>5

LEMMA CopiesType ==
  ASSUME NEW text \in Seq(Inner)
  PROVE  /\ Copies(Parse(text)) \in Seq(DecodedLetter)
         /\ Copies(Parse(text)) # <<>> => Last(Copies(Parse(text))) = Nul
<1> DEFINE c == Copies(Parse(text))
<1>1. CASE c = <<>>
  BY <1>1, EmptySeq
<1>2. CASE c # <<>>
  <2>1. PICK topic \in Seq(Inner), body \in Seq(Inner) : c = Append(MessageBody(topic, body), Nul)
    BY <1>2, CopiesValue
  <2>2. MessageBody(topic, body) \in Seq(DecodedLetter) /\ Nul \in DecodedLetter
    <3>1. Inner \subseteq DecodedLetter /\ Nul \in DecodedLetter
      BY Letters DEF Inner, DecodedLetter
    <3> QED BY <3>1, MessageType, SeqMonotonic
  <2> DEFINE m == MessageBody(topic, body)
  <2> HIDE DEF m, c
  <2>3. Append(m, Nul) \in Seq(DecodedLetter) /\ Len(Append(m, Nul)) = Len(m) + 1
        /\ Append(m, Nul)[Len(m) + 1] = Nul
    BY <2>2, AppendProperties DEF m
  <2> QED BY <2>1, <2>3 DEF m, c, Last
<1> QED BY <1>1, <1>2

LEMMA LastOfConcat ==
  ASSUME NEW S, NEW s \in Seq(S), NEW t \in Seq(S), t # <<>>
  PROVE  Last(s \o t) = Last(t)
<1>1. Len(t) \in Nat \ {0} /\ Len(s) \in Nat
  BY EmptySeq, LenProperties
<1>2. /\ Len(s \o t) = Len(s) + Len(t)
      /\ \A i \in 1..(Len(s) + Len(t)) : (s \o t)[i] = IF i <= Len(s) THEN s[i] ELSE t[i - Len(s)]
  BY ConcatProperties
<1> DEFINE n == Len(s) + Len(t)
<1>3. n \in 1..(Len(s) + Len(t)) /\ ~(n <= Len(s)) /\ n - Len(s) = Len(t)
  BY <1>1
<1>4. (s \o t)[n] = t[n - Len(s)]
  BY <1>2, <1>3
<1> QED BY <1>2, <1>3, <1>4 DEF Last

LEMMA ProcessType ==
  ASSUME TypeInv, NEW u \in User, Process(u)
  PROVE  TypeInv'
<1> DEFINE frame == Parse(Pending(u))
           rest == SubSeq(chunk[u], Ends(chunk[u]) + 1, Len(chunk[u]))
<1>1. /\ Ends(chunk[u]) # 0
      /\ buffer' = [buffer EXCEPT ![u] = <<>>]
      /\ UNCHANGED <<serverType, reported, sumerevent, crashed>>
      /\ \/ /\ chunk' = [chunk EXCEPT ![u] = rest]
            /\ toClient' = toClient \o Copies(frame)
            /\ UNCHANGED <<toServer, closed>>
         \/ /\ chunk' = [chunk EXCEPT ![u] = <<>>]
            /\ IF serverType = "tpc"
                 THEN closed' = closed \cup {u} /\ toServer' = [toServer EXCEPT ![u] = <<>>]
                 ELSE UNCHANGED <<closed, toServer>>
            /\ UNCHANGED toClient
  BY DEF Process, Pending
<1>2. /\ Pending(u) \in Seq(Inner) /\ rest \in Text /\ Len(rest) <= Len(chunk[u])
      /\ <<>> \in Text /\ <<>> \in Seq(Inner) /\ Len(chunk[u]) \in Nat
  BY <1>1, PendingType, EmptySeq DEF Text
<1>3. buffer' \in [User -> Seq(Inner)]
  BY <1>1, <1>2 DEF TypeInv
<1> HIDE DEF rest
<1>4. chunk' \in [User -> Text] /\ toServer' \in [User -> Text]
  BY <1>1, <1>2 DEF TypeInv
<1>5. ASSUME NEW v \in User PROVE \E z \in ReadSize : Len(chunk'[v]) <= z
  <2>1. PICK size \in ReadSize : Len(chunk[v]) <= size
    BY DEF TypeInv, TypeOK
  <2>2. size \in Nat
    BY ReadSizeAssumption
  <2>3. Len(rest) \in Nat /\ Len(<<>>) = 0
    BY <1>2, LenProperties DEF Text
  <2>4. CASE v = u
    <3>1. chunk'[v] = rest \/ chunk'[v] = <<>>
      BY <1>1, <2>4 DEF TypeInv
    <3>2. Len(chunk'[v]) <= size
      BY <1>2, <2>1, <2>2, <2>3, <2>4, <3>1
    <3> QED BY <3>2
  <2>5. CASE v # u
    BY <1>1, <2>1, <2>5 DEF TypeInv
  <2> QED BY <2>4, <2>5
<1>6. toClient' \in Seq(DecodedLetter) /\ (toClient' = <<>> \/ Last(toClient') = Nul)
  <2>1. toClient \in Seq(DecodedLetter) /\ (toClient = <<>> \/ Last(toClient) = Nul)
    BY DEF TypeInv, TypeOK
  <2> DEFINE c == Copies(frame)
  <2>2. c \in Seq(DecodedLetter) /\ (c # <<>> => Last(c) = Nul)
    BY <1>2, CopiesType
  <2>3. toClient' = toClient \/ toClient' = toClient \o c
    BY <1>1
  <2> HIDE DEF c
  <2>4. CASE c = <<>>
    <3>1. toClient \o c = toClient
      BY <2>1, <2>4, ConcatEmptySeq
    <3> QED BY <2>1, <2>3, <3>1
  <2>5. CASE c # <<>>
    <3>1. Last(toClient \o c) = Nul /\ toClient \o c \in Seq(DecodedLetter)
      BY <2>1, <2>2, <2>5, LastOfConcat, ConcatProperties
    <3> QED BY <2>1, <2>3, <3>1
  <2> QED BY <2>4, <2>5
<1>7. closed' \subseteq (IF serverType' = "tpc" THEN User ELSE {}) /\ closed' \subseteq User
  BY <1>1 DEF TypeInv, TypeOK
<1>8. \A v \in User : ToSet(buffer'[v]) \cap (NonAscii \cup {Nul}) = {}
  BY <1>3, InnerBuffer
<1>9. /\ reported' = reported /\ serverType' = serverType /\ crashed' = crashed
  BY <1>1
<1> QED BY <1>3, <1>4, <1>5, <1>6, <1>7, <1>8, <1>9 DEF TypeInv, TypeOK

LEMMA ReceiveType ==
  ASSUME TypeInv, Receive
  PROVE  TypeInv'
<1> DEFINE s == toClient
           n == Ends(s)
<1>1. /\ toClient # <<>> /\ toClient' = SubSeq(s, n + 1, Len(s))
      /\ UNCHANGED <<serverType, reported, toServer, chunk, buffer, closed>>
      /\ crashed' = TRUE \/ UNCHANGED crashed
  BY DEF Receive
<1>2. /\ s \in Seq(DecodedLetter) /\ Len(s) \in Nat \ {0} /\ s[Len(s)] = Nul
  BY <1>1, EmptySeq DEF TypeInv, TypeOK, Last
<1>3. n \in 1..Len(s)
  BY <1>2, EndsProperties
<1> HIDE DEF n
<1>4. /\ toClient' \in Seq(DecodedLetter)
      /\ Len(toClient') = IF n + 1 <= Len(s) THEN Len(s) - (n + 1) + 1 ELSE 0
      /\ \A i \in 1..(Len(s) - (n + 1) + 1) : toClient'[i] = s[n + 1 + i - 1]
  <2>1. n + 1 \in Nat \ {0} /\ Len(s) \in Int /\ Len(s) <= Len(s)
    BY <1>2, <1>3
  <2> QED BY <1>1, <1>2, <2>1, PartType
<1>5. toClient' = <<>> \/ Last(toClient') = Nul
  <2>1. CASE n + 1 <= Len(s)
    <3>1. Len(toClient') = Len(s) - n /\ Len(s) - n \in 1..(Len(s) - (n + 1) + 1)
      BY <1>2, <1>3, <1>4, <2>1
    <3>2. toClient'[Len(s) - n] = s[n + 1 + (Len(s) - n) - 1]
      BY <1>4, <3>1
    <3>3. n + 1 + (Len(s) - n) - 1 = Len(s)
      BY <1>2, <1>3
    <3> QED BY <1>2, <3>1, <3>2, <3>3 DEF Last
  <2>2. CASE ~(n + 1 <= Len(s))
    <3>1. Len(toClient') = 0
      BY <1>4, <2>2
    <3> QED BY <1>4, <3>1, EmptySeq
  <2> QED BY <2>1, <2>2
<1> QED BY <1>1, <1>4, <1>5 DEF TypeInv, TypeOK

LEMMA StepType ==
  ASSUME TypeInv, [Next]_vars
  PROVE  TypeInv'
<1>1. ASSUME NEW u \in User, NEW file \in File, Report(u, file) PROVE TypeInv'
  BY <1>1, ReportType
<1>2. ASSUME NEW u \in User, Read(u) PROVE TypeInv'
  BY <1>2, ReadType
<1>3. ASSUME NEW u \in User, Decode(u) PROVE TypeInv'
  BY <1>3, DecodeType
<1>4. ASSUME NEW u \in User, Process(u) PROVE TypeInv'
  BY <1>4, ProcessType
<1>5. CASE Receive
  BY <1>5, ReceiveType
<1>6. CASE UNCHANGED vars
  BY <1>6 DEF vars, TypeInv, TypeOK
<1> QED BY <1>1, <1>2, <1>3, <1>4, <1>5, <1>6 DEF Next

(* However the reads cut the reports of whatever users, the buffers of the  *)
(* decoders hold no byte that is not ASCII and no end of a frame, and what  *)
(* the server has written to the receiver are whole frames.                 *)
THEOREM TypeCorrect == Spec => []TypeOK
<1>1. TypeInv /\ [Next]_vars => TypeInv'
  BY StepType
<1>2. TypeInv => TypeOK
  BY DEF TypeInv
<1> QED BY InitType, <1>1, <1>2, PTL DEF Spec

-----------------------------------------------------------------------------
(* What is on its way *)

(* What is on its way from a user to the decoder, and in it *)
Rest(u) == buffer[u] \o Characters(chunk[u] \o toServer[u])

LEMMA RestType ==
  ASSUME TypeInv, NEW u \in User
  PROVE  /\ chunk[u] \in Text /\ toServer[u] \in Text /\ buffer[u] \in Seq(Inner)
         /\ buffer[u] \in Text /\ Rest(u) \in Text
         /\ Characters(chunk[u]) \in Text /\ Characters(toServer[u]) \in Text
         /\ Rest(u) = buffer[u] \o (Characters(chunk[u]) \o Characters(toServer[u]))
<1>1. chunk[u] \in Text /\ toServer[u] \in Text /\ buffer[u] \in Seq(Inner)
  BY DEF TypeInv
<1>2. buffer[u] \in Text
  BY <1>1, InnerLetters, SeqMonotonic DEF Text
<1>3. Characters(chunk[u]) \in Text /\ Characters(toServer[u]) \in Text
  BY <1>1, CharactersType
<1>4. Characters(chunk[u] \o toServer[u]) = Characters(chunk[u]) \o Characters(toServer[u])
  BY <1>1, CharactersConcat
<1>5. Characters(chunk[u]) \o Characters(toServer[u]) \in Text
  BY <1>3, ConcatProperties DEF Text
<1>6. buffer[u] \o (Characters(chunk[u]) \o Characters(toServer[u])) \in Text
  BY <1>2, <1>5, ConcatProperties DEF Text
<1> QED BY <1>1, <1>2, <1>3, <1>4, <1>6 DEF Rest

-----------------------------------------------------------------------------
(* What a step makes of what is on its way *)

(* s is t from some place on. *)
IsEnd(s, t) == \E k \in 1..(Len(t) + 1) : s = SubSeq(t, k, Len(t))

LEMMA EndOfConcat ==
  ASSUME NEW S, NEW s \in Seq(S), NEW t \in Seq(S)
  PROVE  IsEnd(t, s \o t) /\ IsEnd(<<>>, s)
<1>1. s \o t \in Seq(S) /\ Len(s \o t) = Len(s) + Len(t) /\ Len(s) \in Nat /\ Len(t) \in Nat
  BY ConcatProperties, LenProperties
<1>2. t = SubSeq(s \o t, Len(s) + 1, Len(s \o t))
  BY PartsOfConcat
<1>3. Len(s) + 1 \in 1..(Len(s \o t) + 1)
  BY <1>1
<1>4. SubSeq(s, Len(s) + 1, Len(s)) = <<>>
  BY <1>1, SubSeqEmpty
<1>5. Len(s) + 1 \in 1..(Len(s) + 1)
  BY <1>1
<1> QED BY <1>2, <1>3, <1>4, <1>5 DEF IsEnd

LEMMA RestReport ==
  ASSUME TypeInv, NEW u \in User, NEW file \in File, Report(u, file)
  PROVE  /\ \A v \in User \ {u} : Rest(v)' = Rest(v)
         /\ u \in closed => Rest(u)' = Rest(u)
         /\ u \notin closed => Rest(u)' = Rest(u) \o Characters(Frames[<<u, file>>])
<1>1. chunk' = chunk /\ buffer' = buffer
  BY DEF Report
<1>2. /\ u \in closed => toServer' = toServer
      /\ u \notin closed => toServer' = [toServer EXCEPT ![u] = @ \o Frames[<<u, file>>]]
  BY DEF Report
<1>3. toServer \in [User -> Text]
  BY DEF TypeInv
<1>4. ASSUME NEW v \in User \ {u} PROVE Rest(v)' = Rest(v)
  <2>1. toServer'[v] = toServer[v]
    BY <1>2, <1>3
  <2> QED BY <1>1, <2>1 DEF Rest
<1>5. ASSUME u \in closed PROVE Rest(u)' = Rest(u)
  BY <1>1, <1>2, <1>5 DEF Rest
<1>6. ASSUME u \notin closed PROVE Rest(u)' = Rest(u) \o Characters(Frames[<<u, file>>])
  <2> DEFINE f == Frames[<<u, file>>]
             b == buffer[u]
             c == Characters(chunk[u])
             s == Characters(toServer[u])
             x == Characters(f)
  <2>1. f \in Text
    BY FramesType
  <2>2. toServer'[u] = toServer[u] \o f
    BY <1>2, <1>3, <1>6
  <2>3. chunk[u] \in Text /\ toServer[u] \in Text /\ toServer[u] \o f \in Text
    <3>1. chunk[u] \in Text /\ toServer[u] \in Text
      BY RestType
    <3> HIDE DEF f
    <3> QED BY <2>1, <3>1, ConcatProperties DEF Text
  <2>4. Rest(u) = b \o (c \o s) /\ b \in Text /\ c \in Text /\ s \in Text
    BY RestType
  <2>5. x \in Text
    BY <2>1, CharactersType
  <2>6. Rest(u)' = b \o Characters(chunk[u] \o (toServer[u] \o f))
    BY <1>1, <2>2 DEF Rest
  <2>7. Characters(chunk[u] \o (toServer[u] \o f)) = c \o Characters(toServer[u] \o f)
    <3> HIDE DEF f
    <3> QED BY <2>3, CharactersConcat
  <2>8. Characters(toServer[u] \o f) = s \o x
    <3> HIDE DEF f
    <3> QED BY <2>1, <2>3, CharactersConcat
  <2> HIDE DEF f, b, c, s, x
  <2>9. /\ b \in Seq(Letter) /\ c \in Seq(Letter) /\ s \in Seq(Letter) /\ x \in Seq(Letter)
    BY <2>4, <2>5 DEF Text
  <2> DEFINE y == c \o s
  <2>10. y \in Seq(Letter)
    BY <2>9, ConcatProperties
  <2>11. AreSeqs(Letter, c, s, x) /\ AreSeqs(Letter, b, y, x)
    BY <2>9, <2>10 DEF AreSeqs
  <2>12. c \o (s \o x) = y \o x /\ b \o (y \o x) = (b \o y) \o x
    <3>1. c \o (s \o x) = y \o x
      BY <2>11, Regroup
    <3> HIDE DEF y
    <3>2. b \o (y \o x) = (b \o y) \o x
      BY <2>11, Regroup
    <3> QED BY <3>1, <3>2
  <2> QED BY <2>4, <2>6, <2>7, <2>8, <2>12 DEF x, f, y
<1> QED BY <1>4, <1>5, <1>6

LEMMA RestRead ==
  ASSUME TypeInv, NEW u \in User, Read(u)
  PROVE  \A v \in User : Rest(v)' = Rest(v)
<1>1. PICK size \in ReadSize :
        LET n == IF size < Len(toServer[u]) THEN size ELSE Len(toServer[u])
        IN  /\ chunk' = [chunk EXCEPT ![u] = SubSeq(toServer[u], 1, n)]
            /\ toServer' = [toServer EXCEPT ![u] = SubSeq(@, n + 1, Len(@))]
  BY DEF Read
<1>2. buffer' = buffer /\ chunk[u] = <<>>
  BY DEF Read
<1>3. toServer \in [User -> Text] /\ chunk \in [User -> Text]
  BY DEF TypeInv
<1> DEFINE t == toServer[u]
           n == IF size < Len(t) THEN size ELSE Len(t)
<1>4. chunk'[u] = SubSeq(t, 1, n) /\ toServer'[u] = SubSeq(t, n + 1, Len(t))
  BY <1>1, <1>3
<1>5. t \in Seq(Letter) /\ Len(t) \in Nat /\ size \in Nat
  <2>1. t \in Seq(Letter)
    BY <1>3 DEF Text
  <2> HIDE DEF t
  <2>2. Len(t) \in Nat
    BY <2>1, LenProperties
  <2> QED BY <2>1, <2>2, ReadSizeAssumption
<1>6. n \in 0..Len(t)
  <2> HIDE DEF t
  <2> QED BY <1>5
<1>7. chunk'[u] \o toServer'[u] = t
  <2> HIDE DEF t, n
  <2>1. SubSeq(t, 1, n) \o SubSeq(t, n + 1, Len(t)) = t
    BY <1>5, <1>6, CutAt
  <2> QED BY <1>4, <2>1
<1>8. chunk[u] \o toServer[u] = t
  BY <1>2, <1>5, ConcatEmptySeq
<1>9. ASSUME NEW v \in User, v # u PROVE Rest(v)' = Rest(v)
  <2>1. toServer'[v] = toServer[v] /\ chunk'[v] = chunk[v]
    BY <1>1, <1>3, <1>9
  <2> QED BY <1>2, <2>1 DEF Rest
<1>10. Rest(u)' = Rest(u)
  BY <1>2, <1>7, <1>8 DEF Rest
<1> QED BY <1>9, <1>10

LEMMA RestDecode ==
  ASSUME TypeInv, NEW u \in User, Decode(u)
  PROVE  \A v \in User : Rest(v)' = Rest(v)
<1>1. /\ buffer' = [buffer EXCEPT ![u] = @ \o Characters(chunk[u])]
      /\ chunk' = [chunk EXCEPT ![u] = <<>>]
      /\ toServer' = toServer
  BY DEF Decode
<1>2. buffer \in [User -> Seq(Inner)] /\ chunk \in [User -> Text]
  BY DEF TypeInv
<1> DEFINE b == buffer[u]
           c == Characters(chunk[u])
           s == Characters(toServer[u])
<1>3. /\ Rest(u) = b \o (c \o s) /\ b \in Text /\ c \in Text /\ s \in Text
      /\ toServer[u] \in Text
  BY RestType
<1>4. buffer'[u] = b \o c /\ chunk'[u] = <<>>
  BY <1>1, <1>2
<1>5. Rest(u)' = (b \o c) \o Characters(<<>> \o toServer[u])
  BY <1>1, <1>4 DEF Rest
<1>6. <<>> \o toServer[u] = toServer[u]
  BY <1>3, ConcatEmptySeq DEF Text
<1>7. (b \o c) \o s = b \o (c \o s)
  <2> HIDE DEF b, c, s
  <2>1. AreSeqs(Letter, b, c, s)
    BY <1>3 DEF Text, AreSeqs
  <2> QED BY <2>1, Regroup
<1>8. Rest(u)' = Rest(u)
  BY <1>3, <1>5, <1>6, <1>7
<1>9. ASSUME NEW v \in User, v # u PROVE Rest(v)' = Rest(v)
  <2>1. buffer'[v] = buffer[v] /\ chunk'[v] = chunk[v]
    BY <1>1, <1>2, <1>9
  <2> QED BY <1>1, <2>1 DEF Rest
<1> QED BY <1>8, <1>9

(* A frame that is processed is the beginning of what is on its way. *)
After(u) == Characters(SubSeq(chunk[u], Ends(chunk[u]) + 1, Len(chunk[u]))) \o Characters(toServer[u])

LEMMA RestProcess ==
  ASSUME TypeInv, NEW u \in User, Process(u)
  PROVE  /\ \A v \in User \ {u} : Rest(v)' = Rest(v)
         /\ Pending(u) \in Seq(Inner) /\ After(u) \in Text
         /\ Rest(u) = Append(Pending(u), Nul) \o After(u)
         /\ closed' \subseteq closed \cup {u}
         /\ Parse(Pending(u)) # Malformed =>
              Rest(u)' = After(u) /\ toClient' = toClient \o Copies(Parse(Pending(u)))
                /\ closed' = closed
         /\ Parse(Pending(u)) = Malformed =>
              IsEnd(Rest(u)', After(u)) /\ toClient' = toClient
<1> DEFINE c == chunk[u]
           n == Ends(c)
           x == SubSeq(c, 1, n - 1)
           y == SubSeq(c, n + 1, Len(c))
           b == buffer[u]
           s == Characters(toServer[u])
<1>1. Ends(chunk[u]) # 0 /\ buffer' = [buffer EXCEPT ![u] = <<>>]
  BY DEF Process
<1>2. /\ buffer \in [User -> Seq(Inner)] /\ chunk \in [User -> Text]
      /\ toServer \in [User -> Text]
  BY DEF TypeInv
<1>3. /\ n \in 1..Len(c) /\ Len(c) \in Nat /\ Pending(u) \in Seq(Inner) /\ y \in Text
  BY <1>1, PendingType
<1>4. /\ c \in Text /\ b \in Text /\ s \in Text /\ toServer[u] \in Text
      /\ Rest(u) = b \o (Characters(c) \o s)
  BY RestType
<1>5. After(u) = Characters(y) \o s
  BY DEF After
<1>6. Characters(y) \in Text
  <2> HIDE DEF y
  <2> QED BY <1>3, CharactersType
<1>7. After(u) \in Text
  BY <1>4, <1>5, <1>6, ConcatProperties DEF Text
<1>8. x \in Text /\ Characters(x) \in Text
  <2>1. 1 \in Nat \ {0} /\ n - 1 \in Int /\ n - 1 <= Len(c)
    BY <1>3
  <2>2. x \in Text
    <3> DEFINE k == n - 1
    <3> HIDE DEF c, n, k
    <3>1. SubSeq(c, 1, k) \in Seq(Letter)
      BY <1>4, <2>1, PartType DEF Text, k
    <3> QED BY <3>1 DEF k, Text
  <2> HIDE DEF x
  <2> QED BY <2>2, CharactersType
<1>9. Characters(c) = Append(Characters(x), Nul) \o Characters(y)
  <2>1. c = Append(x, Nul) \o y
    <3>1. c = SubSeq(c, 1, n) \o y
      <4>1. n \in 0..Len(c)
        BY <1>3
      <4> HIDE DEF c, n
      <4> QED BY <1>4, <4>1, CutAt DEF Text
    <3>2. SubSeq(c, 1, n) = Append(x, c[n])
      <4>1. 1 \in 1..Len(c) /\ n \in 1..Len(c) /\ c \in Seq(Letter)
        BY <1>3, <1>4 DEF Text
      <4> HIDE DEF c, n
      <4> QED BY <4>1, SubSeqRecursiveSecond
    <3>3. c[n] = Nul
      <4>1. c \in Seq(Letter) /\ n # 0
        BY <1>3, <1>4 DEF Text
      <4> HIDE DEF c
      <4> QED BY <4>1, EndsProperties
    <3> QED BY <3>1, <3>2, <3>3
  <2>2. Nul \in Letter /\ DecodedChar(Nul) = Nul
    <3>1. Nul \in Word /\ Word \subseteq Letter
      BY Letters
    <3> QED BY <3>1, DecodedLetters
  <2> HIDE DEF x, y, c
  <2>3. Append(x, Nul) = x \o <<Nul>> /\ <<Nul>> \in Text /\ x \o <<Nul>> \in Text
    BY <1>8, <2>2, AppendIsConcat, ConcatProperties DEF Text
  <2>4. Characters((x \o <<Nul>>) \o y) = Characters(x \o <<Nul>>) \o Characters(y)
    BY <1>3, <2>3, CharactersConcat
  <2>5. Characters(x \o <<Nul>>) = Characters(x) \o Characters(<<Nul>>)
    BY <1>8, <2>3, CharactersConcat
  <2>6. Characters(<<Nul>>) = <<Nul>>
    BY <2>2 DEF Characters
  <2>7. Characters(x) \o <<Nul>> = Append(Characters(x), Nul)
    BY <1>8, <2>2, AppendIsConcat DEF Text
  <2> QED BY <2>1, <2>3, <2>4, <2>5, <2>6, <2>7
<1>10. Rest(u) = Append(Pending(u), Nul) \o After(u)
  <2> DEFINE X == Characters(x)
             Y == Characters(y)
             A == Append(X, Nul)
  <2>1. Nul \in Letter
    BY Letters
  <2>2. X \in Text /\ Y \in Text /\ A \in Text
    <3>1. X \in Text /\ Y \in Text
      BY <1>6, <1>8
    <3> HIDE DEF X, Y
    <3> QED BY <2>1, <3>1, AppendProperties DEF Text
  <2>3. Rest(u) = b \o ((A \o Y) \o s)
    BY <1>4, <1>9
  <2>4. Pending(u) = b \o X
    BY DEF Pending
  <2>5. b \o A = Append(b \o X, Nul)
    <3> HIDE DEF b, X
    <3> QED BY <1>4, <2>1, <2>2, ConcatAppend DEF Text
  <2>6. After(u) = Y \o s
    BY <1>5
  <2> HIDE DEF b, X, Y, A, s
  <2> DEFINE Ys == Y \o s
  <2>7. b \in Seq(Letter) /\ A \in Seq(Letter) /\ Y \in Seq(Letter) /\ s \in Seq(Letter)
    BY <1>4, <2>2 DEF Text
  <2>8. (A \o Y) \o s = A \o (Y \o s)
    <3>1. AreSeqs(Letter, A, Y, s)
      BY <2>7 DEF AreSeqs
    <3> QED BY <3>1, Regroup
  <2>9. Ys \in Seq(Letter)
    BY <2>7, ConcatProperties
  <2>10. (b \o A) \o Ys = b \o (A \o Ys)
    <3> HIDE DEF Ys
    <3>1. AreSeqs(Letter, b, A, Ys)
      BY <2>7, <2>9 DEF AreSeqs
    <3> QED BY <3>1, Regroup
  <2> QED BY <2>3, <2>4, <2>5, <2>6, <2>8, <2>10
<1>11. buffer'[u] = <<>> /\ \A v \in User \ {u} : buffer'[v] = buffer[v]
  BY <1>1, <1>2
<1>12. ASSUME Parse(Pending(u)) # Malformed
       PROVE  /\ Rest(u)' = After(u) /\ toClient' = toClient \o Copies(Parse(Pending(u)))
              /\ closed' = closed /\ \A v \in User \ {u} : Rest(v)' = Rest(v)
  <2>1. /\ chunk' = [chunk EXCEPT ![u] = SubSeq(@, Ends(@) + 1, Len(@))]
        /\ toClient' = toClient \o Copies(Parse(Pending(u)))
        /\ toServer' = toServer /\ closed' = closed
    BY <1>12 DEF Process, Pending
  <2>2. chunk'[u] = y /\ \A v \in User \ {u} : chunk'[v] = chunk[v]
    BY <1>2, <2>1
  <2>3. Rest(u)' = <<>> \o Characters(y \o toServer[u])
    BY <1>11, <2>1, <2>2 DEF Rest
  <2>4. Characters(y \o toServer[u]) = After(u)
    <3> HIDE DEF y, s
    <3>1. Characters(y \o toServer[u]) = Characters(y) \o Characters(toServer[u])
      BY <1>3, <1>4, CharactersConcat
    <3> QED BY <1>5, <3>1 DEF s
  <2>5. <<>> \o After(u) = After(u)
    BY <1>7, ConcatEmptySeq DEF Text
  <2>6. \A v \in User \ {u} : Rest(v)' = Rest(v)
    BY <1>11, <2>1, <2>2 DEF Rest
  <2> QED BY <2>1, <2>3, <2>4, <2>5, <2>6
<1>13. ASSUME Parse(Pending(u)) = Malformed
       PROVE  /\ IsEnd(Rest(u)', After(u)) /\ toClient' = toClient
              /\ \A v \in User \ {u} : Rest(v)' = Rest(v)
  <2>1. /\ chunk' = [chunk EXCEPT ![u] = <<>>] /\ toClient' = toClient
        /\ toServer' = toServer \/ toServer' = [toServer EXCEPT ![u] = <<>>]
    BY <1>13 DEF Process, Pending
  <2>2. chunk'[u] = <<>> /\ \A v \in User \ {u} : chunk'[v] = chunk[v] /\ toServer'[v] = toServer[v]
    BY <1>2, <2>1
  <2>3. toServer'[u] = toServer[u] \/ toServer'[u] = <<>>
    BY <1>2, <2>1
  <2>4. Rest(u)' = <<>> \o Characters(<<>> \o toServer'[u])
    BY <1>11, <2>2 DEF Rest
  <2>5. CASE toServer'[u] = toServer[u]
    <3>1. <<>> \o toServer[u] = toServer[u] /\ <<>> \o s = s
      BY <1>4, ConcatEmptySeq DEF Text
    <3>2. Rest(u)' = s
      BY <2>4, <2>5, <3>1
    <3>3. IsEnd(s, Characters(y) \o s)
      <4> HIDE DEF s, y
      <4> QED BY <1>4, <1>6, EndOfConcat DEF Text
    <3> QED BY <1>5, <3>2, <3>3, <2>1, <2>2, <1>11 DEF Rest
  <2>6. CASE toServer'[u] = <<>>
    <3>1. <<>> \in Text /\ <<>> \o <<>> = <<>>
      BY EmptySeq, ConcatEmptySeq DEF Text
    <3>2. Characters(<<>>) = <<>>
      BY DEF Characters
    <3>3. Rest(u)' = <<>>
      BY <2>4, <2>6, <3>1, <3>2
    <3>4. IsEnd(<<>>, After(u))
      BY <1>7, EndOfConcat DEF Text
    <3> QED BY <3>3, <3>4, <2>1, <2>2, <1>11 DEF Rest
  <2> QED BY <2>3, <2>5, <2>6
<1>14. closed' \subseteq closed \cup {u}
  BY DEF Process
<1> QED BY <1>3, <1>7, <1>10, <1>12, <1>13, <1>14

-----------------------------------------------------------------------------
(* Every frame on its way is signed *)

(* What is true of texts and of two texts together is true of many. *)
LEMMA FlattenClosed ==
  ASSUME NEW S, NEW Q \in SUBSET Seq(S), <<>> \in Q, \A x, y \in Q : x \o y \in Q,
         NEW seqs \in Seq(Q)
  PROVE  FlattenSeq(seqs) \in Q
<1> DEFINE P == {s \in Seq(Q) : FlattenSeq(s) \in Q}
<1>1. <<>> \in P
  BY FlattenEmpty, EmptySeq
<1>2. ASSUME NEW s \in P, NEW e \in Q PROVE Append(s, e) \in P
  <2>1. s \in Seq(Q) /\ FlattenSeq(s) \in Q
    OBVIOUS
  <2>2. s \in Seq(Seq(S))
    BY <2>1, SeqMonotonic
  <2>3. FlattenSeq(Append(s, e)) = FlattenSeq(s) \o e
    BY <2>2, FlattenAppend
  <2>4. Append(s, e) \in Seq(Q)
    BY <2>1, AppendProperties
  <2> QED BY <2>1, <2>3, <2>4
<1>3. P = Seq(Q)
  <2>1. P \in SUBSET Seq(Q)
    OBVIOUS
  <2> HIDE DEF P
  <2> QED BY <1>1, <1>2, <2>1, Sequences
<1> QED BY <1>3

(* The frames of a report are signed. *)
LEMMA SignedFrames ==
  ASSUME NEW u \in User, NEW file \in File
  PROVE  SignedWhole(Characters(Frames[<<u, file>>]), DecodedChar(u))
<1> DEFINE Q == {t \in Text : SignedWhole(t, u)}
           seqs == FramesOf(u, file)
<1>1. /\ seqs \in Seq(Text) /\ Len(seqs) = Len(Events(file))
      /\ \A i \in 1..Len(Events(file)) : seqs[i] = FrameOf(u, file, i)
      /\ Frames[<<u, file>>] = FlattenSeq(seqs)
  BY FramesType
<1>2. Content(file).channel \in Seq(Payload) /\ Events(file) \in Seq(Event)
  BY EventsType
<1>3. ASSUME NEW i \in 1..Len(seqs) PROVE seqs[i] \in Q
  <2>1. Events(file)[i] \in Event
    BY <1>1, <1>2, ElementOfSeq
  <2>2. SignedWhole(SendText(<<u>>, Content(file).channel, Events(file)[i]), u)
    BY <1>2, <2>1, SignedFrame
  <2>3. seqs[i] \in Text
    BY <1>1, ElementOfSeq
  <2> QED BY <1>1, <2>2, <2>3 DEF FrameOf
<1>4. seqs \in Seq(Q)
  <2> HIDE DEF seqs, Q
  <2>1. Len(seqs) \in Nat /\ seqs \in [1..Len(seqs) -> Text]
    BY <1>1, LenProperties
  <2>2. seqs \in [1..Len(seqs) -> Q]
    BY <1>3, <2>1
  <2> QED BY <2>1, <2>2
<1>5. Q \in SUBSET Seq(Letter)
  BY DEF Text
<1>6. <<>> \in Q
  <2>1. <<>> \in Text /\ Len(<<>>) = 0
    BY EmptySeq DEF Text
  <2> QED BY <2>1 DEF SignedWhole
<1>7. ASSUME NEW x \in Q, NEW y \in Q PROVE x \o y \in Q
  <2>1. x \o y \in Text
    BY ConcatProperties DEF Text
  <2>2. SignedWhole(x \o y, u)
    BY SignedConcat
  <2> QED BY <2>1, <2>2
<1>8. FlattenSeq(seqs) \in Q
  <2> HIDE DEF seqs, Q
  <2> QED BY <1>4, <1>5, <1>6, <1>7, FlattenClosed
<1>9. Frames[<<u, file>>] \in Text /\ SignedWhole(Frames[<<u, file>>], u)
  BY <1>1, <1>8
<1> QED BY <1>9, SignedCharacters

(* What is on its way from a user is signed by it. *)
SignedInv == \A u \in User : SignedWhole(Rest(u), DecodedChar(u))

LEMMA SignedEnd ==
  ASSUME NEW s, NEW t \in Text, NEW d, SignedWhole(t, d), IsEnd(s, t)
  PROVE  SignedWhole(s, d)
<1>1. PICK k \in 1..(Len(t) + 1) : s = SubSeq(t, k, Len(t))
  BY DEF IsEnd
<1> QED BY <1>1, SignedSuffix

LEMMA SignedPending ==
  ASSUME TypeInv, SignedInv, NEW u \in User, Process(u)
  PROVE  Signed(Pending(u), DecodedChar(u)) /\ SignedWhole(After(u), DecodedChar(u))
<1> DEFINE p == Pending(u)
           a == After(u)
           r == Rest(u)
           d == DecodedChar(u)
           n == Len(p) + 1
<1>1. p \in Seq(Inner) /\ a \in Text /\ r = Append(p, Nul) \o a
  BY RestProcess
<1>2. p \in Text /\ Nul \in Letter
  BY <1>1, InnerLetters, Letters, SeqMonotonic DEF Text
<1>3. r \in Text
  BY RestType
<1>4. SignedWhole(r, d)
  BY DEF SignedInv
<1>5. d # Nul
  BY NameLetters
<1> HIDE DEF p, a, r, d
<1>6. /\ Append(p, Nul) \in Text /\ Len(Append(p, Nul)) = Len(p) + 1 /\ Len(p) \in Nat
      /\ Append(p, Nul)[Len(p) + 1] = Nul /\ \A i \in 1..Len(p) : Append(p, Nul)[i] = p[i]
  BY <1>2, AppendProperties, LenProperties DEF Text
<1>7. a = SubSeq(r, Len(Append(p, Nul)) + 1, Len(r))
  BY <1>1, <1>6, PartsOfConcat DEF Text
<1>8. /\ Len(r) = n + Len(a) /\ Len(a) \in Nat
      /\ \A i \in 1..n : r[i] = Append(p, Nul)[i]
  <2>1. Append(p, Nul) \in Seq(Letter) /\ a \in Seq(Letter)
    BY <1>1, <1>6 DEF Text
  <2>2. /\ Len(r) = Len(Append(p, Nul)) + Len(a)
        /\ \A i \in 1..(Len(Append(p, Nul)) + Len(a)) :
             r[i] = IF i <= Len(Append(p, Nul)) THEN Append(p, Nul)[i]
                    ELSE a[i - Len(Append(p, Nul))]
    BY <1>1, <2>1, ConcatProperties
  <2>3. Len(a) \in Nat
    BY <2>1, LenProperties
  <2> QED BY <1>6, <2>2, <2>3
<1>9. n \in 1..Len(r) /\ r[n] = Nul /\ n + 1 \in 1..(Len(r) + 1)
  BY <1>6, <1>8
<1>10. SignedWhole(SubSeq(r, 1, n - 1), d)
  <2> HIDE DEF n
  <2> QED BY <1>3, <1>4, <1>5, <1>9, SignedUpTo
<1>11. SubSeq(r, 1, n - 1) = p
  <2> DEFINE k == n - 1
  <2>1. k = Len(p) /\ k \in Int /\ k <= Len(r)
    BY <1>6, <1>8
  <2>2. /\ SubSeq(r, 1, k) \in Seq(Letter) /\ Len(SubSeq(r, 1, k)) = IF 1 <= k THEN k - 1 + 1 ELSE 0
        /\ \A i \in 1..(k - 1 + 1) : SubSeq(r, 1, k)[i] = r[1 + i - 1]
    <3> HIDE DEF k
    <3> QED BY <1>3, <2>1, PartType DEF Text
  <2> HIDE DEF k
  <2>3. Len(SubSeq(r, 1, k)) = Len(p)
    BY <1>6, <2>1, <2>2
  <2>4. \A i \in 1..Len(p) : SubSeq(r, 1, k)[i] = p[i]
    BY <1>6, <1>8, <2>1, <2>2
  <2>5. p \in Seq(Letter)
    BY <1>2 DEF Text
  <2>6. SubSeq(r, 1, k) = p
    BY <2>2, <2>3, <2>4, <2>5, SeqEqual
  <2> QED BY <2>6 DEF k
<1>12. Signed(p, d)
  BY <1>10, <1>11, SignedWholeSigned
<1>13. SignedWhole(a, d)
  <2> DEFINE k == Len(Append(p, Nul)) + 1
  <2>1. k \in 1..(Len(r) + 1)
    BY <1>6, <1>8
  <2> HIDE DEF k
  <2>2. SignedWhole(SubSeq(r, k, Len(r)), d)
    BY <1>3, <1>4, <2>1, SignedSuffix
  <2> QED BY <1>7, <2>2 DEF k
<1> QED BY <1>12, <1>13 DEF p, a, d

LEMMA InitSigned == Init => SignedInv
<1> SUFFICES ASSUME Init, NEW u \in User PROVE SignedWhole(Rest(u), DecodedChar(u))
  BY DEF SignedInv
<1>1. buffer[u] = <<>> /\ chunk[u] = <<>> /\ toServer[u] = <<>>
  BY DEF Init
<1>2. <<>> \o <<>> = <<>>
  BY EmptySeq, ConcatEmptySeq
<1>3. Characters(<<>>) = <<>>
  BY DEF Characters
<1>4. Rest(u) = <<>>
  BY <1>1, <1>2, <1>3 DEF Rest
<1>5. Len(<<>>) = 0
  BY EmptySeq
<1> QED BY <1>4, <1>5 DEF SignedWhole

LEMMA StepSigned ==
  ASSUME TypeInv, SignedInv, [Next]_vars
  PROVE  SignedInv'
<1>1. ASSUME NEW u \in User, NEW file \in File, Report(u, file) PROVE SignedInv'
  <2>1. /\ \A v \in User \ {u} : Rest(v)' = Rest(v)
        /\ u \in closed => Rest(u)' = Rest(u)
        /\ u \notin closed => Rest(u)' = Rest(u) \o Characters(Frames[<<u, file>>])
    BY <1>1, RestReport
  <2>2. SignedWhole(Rest(u) \o Characters(Frames[<<u, file>>]), DecodedChar(u))
    <3>1. Rest(u) \in Text /\ SignedWhole(Rest(u), DecodedChar(u))
      BY RestType DEF SignedInv
    <3>2. Characters(Frames[<<u, file>>]) \in Text
      BY FramesType, CharactersType
    <3>3. SignedWhole(Characters(Frames[<<u, file>>]), DecodedChar(u))
      BY SignedFrames
    <3> QED BY <3>1, <3>2, <3>3, SignedConcat
  <2>3. ASSUME NEW v \in User PROVE SignedWhole(Rest(v)', DecodedChar(v))
    <3>1. CASE v # u
      BY <2>1, <3>1 DEF SignedInv
    <3>2. CASE v = u
      BY <2>1, <2>2, <3>2 DEF SignedInv
    <3> QED BY <3>1, <3>2
  <2> QED BY <2>3 DEF SignedInv
<1>2. ASSUME NEW u \in User, Read(u) PROVE SignedInv'
  <2>1. \A v \in User : Rest(v)' = Rest(v)
    BY <1>2, RestRead
  <2> QED BY <2>1 DEF SignedInv
<1>3. ASSUME NEW u \in User, Decode(u) PROVE SignedInv'
  <2>1. \A v \in User : Rest(v)' = Rest(v)
    BY <1>3, RestDecode
  <2> QED BY <2>1 DEF SignedInv
<1>4. ASSUME NEW u \in User, Process(u) PROVE SignedInv'
  <2>1. /\ \A v \in User \ {u} : Rest(v)' = Rest(v)
        /\ After(u) \in Text
        /\ Parse(Pending(u)) # Malformed => Rest(u)' = After(u)
        /\ Parse(Pending(u)) = Malformed => IsEnd(Rest(u)', After(u))
    BY <1>4, RestProcess
  <2>2. SignedWhole(After(u), DecodedChar(u))
    BY <1>4, SignedPending
  <2>3. SignedWhole(Rest(u)', DecodedChar(u))
    <3>1. CASE Parse(Pending(u)) # Malformed
      BY <2>1, <2>2, <3>1
    <3>2. CASE Parse(Pending(u)) = Malformed
      BY <2>1, <2>2, <3>2, SignedEnd
    <3> QED BY <3>1, <3>2
  <2>4. ASSUME NEW v \in User PROVE SignedWhole(Rest(v)', DecodedChar(v))
    BY <2>1, <2>3 DEF SignedInv
  <2> QED BY <2>4 DEF SignedInv
<1>5. ASSUME UNCHANGED <<buffer, chunk, toServer>> PROVE SignedInv'
  <2>1. \A v \in User : Rest(v)' = Rest(v)
    BY <1>5 DEF Rest
  <2> QED BY <2>1 DEF SignedInv
<1>6. Receive => UNCHANGED <<buffer, chunk, toServer>>
  BY DEF Receive
<1>7. UNCHANGED vars => UNCHANGED <<buffer, chunk, toServer>>
  BY DEF vars
<1> QED BY <1>1, <1>2, <1>3, <1>4, <1>5, <1>6, <1>7 DEF Next

-----------------------------------------------------------------------------
(* The events of a user *)

OwnStep(own, event, u) == IF event.owner = ReceivedValue(<<u>>) THEN Append(own, event) ELSE own

AreOwn(f, events, u) ==
  f = [n \in 0..Len(events) |-> IF n = 0 THEN <<>> ELSE OwnStep(f[n - 1], events[n], u)]

LEMMA OwnStepType ==
  ASSUME NEW S, NEW own \in Seq(S), NEW event \in S, NEW u
  PROVE  OwnStep(own, event, u) \in Seq(S)
BY AppendProperties DEF OwnStep

LEMMA OwnExist ==
  ASSUME NEW S, NEW events \in Seq(S), NEW u
  PROVE  \E f \in [0..Len(events) -> Seq(S)] : AreOwn(f, events, u)
<1> DEFINE V == Seq(S)
           step == [p \in (1..Len(events)) \X V |-> OwnStep(p[2], events[p[1]], u)]
           base == <<>>
<1>1. Len(events) \in Nat
  BY LenProperties
<1>2. base \in V
  BY EmptySeq
<1>3. step \in [(1..Len(events)) \X V -> V]
  <2> SUFFICES ASSUME NEW p \in (1..Len(events)) \X V
               PROVE  OwnStep(p[2], events[p[1]], u) \in V
    OBVIOUS
  <2>1. p[1] \in 1..Len(events) /\ p[2] \in V
    OBVIOUS
  <2>2. events[p[1]] \in S
    BY <2>1, ElementOfSeq
  <2> QED BY <2>1, <2>2, OwnStepType
<1>4. \E f : Recursive(f, Len(events), V, base, step)
  <2> HIDE DEF V, step, base
  <2> QED BY <1>1, <1>2, <1>3, Recursion
<1>5. PICK f \in [0..Len(events) -> V] :
        f[0] = base /\ \A i \in 1..Len(events) : f[i] = step[<<i, f[i - 1]>>]
  BY <1>4 DEF Recursive
<1>6. ASSUME NEW n \in 0..Len(events)
      PROVE  f[n] = IF n = 0 THEN <<>> ELSE OwnStep(f[n - 1], events[n], u)
  <2>1. CASE n = 0
    BY <1>5, <2>1
  <2>2. CASE n # 0
    <3>1. n \in 1..Len(events) /\ n - 1 \in 0..Len(events)
      BY <1>1, <2>2
    <3>2. f[n - 1] \in V
      BY <1>5, <3>1
    <3>3. f[n] = step[<<n, f[n - 1]>>]
      BY <1>5, <3>1
    <3>4. step[<<n, f[n - 1]>>] = OwnStep(f[n - 1], events[n], u)
      <4> DEFINE q == <<n, f[n - 1]>>
      <4>1. q \in (1..Len(events)) \X V /\ q[1] = n /\ q[2] = f[n - 1]
        BY <3>1, <3>2
      <4> HIDE DEF q
      <4>2. step[q] = OwnStep(q[2], events[q[1]], u)
        BY <4>1
      <4> QED BY <4>1, <4>2 DEF q
    <3> QED BY <2>2, <3>3, <3>4
  <2> QED BY <2>1, <2>2
<1>7. AreOwn(f, events, u)
  <2>1. f = [n \in 0..Len(events) |-> f[n]]
    BY <1>5
  <2> QED BY <1>6, <2>1 DEF AreOwn
<1> QED BY <1>5, <1>7

LEMMA OwnAgree ==
  ASSUME NEW f, NEW g, NEW s, NEW t, NEW u, NEW n \in Nat,
         Len(s) \in Nat, Len(t) \in Nat, n <= Len(s), n <= Len(t),
         \A i \in 1..n : s[i] = t[i],
         AreOwn(f, s, u), AreOwn(g, t, u)
  PROVE  f[n] = g[n]
<1> DEFINE N == {k \in Nat : k <= n => f[k] = g[k]}
<1>1. N \in SUBSET Nat /\ 0 \in N
  BY DEF AreOwn
<1>2. ASSUME NEW k \in N PROVE k + 1 \in N
  <2> SUFFICES ASSUME k + 1 <= n PROVE f[k + 1] = g[k + 1]
    OBVIOUS
  <2>1. f[k] = g[k] /\ s[k + 1] = t[k + 1]
    OBVIOUS
  <2>2. /\ k + 1 \in 0..Len(s) /\ k + 1 \in 0..Len(t) /\ k + 1 # 0 /\ (k + 1) - 1 = k
    OBVIOUS
  <2>3. f[k + 1] = OwnStep(f[k], s[k + 1], u)
    BY <2>2 DEF AreOwn
  <2>4. g[k + 1] = OwnStep(g[k], t[k + 1], u)
    BY <2>2 DEF AreOwn
  <2> QED BY <2>1, <2>3, <2>4
<1> HIDE DEF N
<1>3. N = Nat
  BY <1>1, <1>2, Numbers
<1> QED BY <1>3 DEF N

LEMMA OwnValue ==
  ASSUME NEW S, NEW events \in Seq(S), NEW u
  PROVE  \E f \in [0..Len(events) -> Seq(S)] :
           AreOwn(f, events, u) /\ EventsOf(u, events) = f[Len(events)]
<1> DEFINE h == CHOOSE f : AreOwn(f, events, u)
<1>1. PICK f \in [0..Len(events) -> Seq(S)] : AreOwn(f, events, u)
  BY OwnExist
<1>2. AreOwn(h, events, u)
  BY <1>1
<1>3. EventsOf(u, events) = h[Len(events)]
  BY DEF EventsOf, AreOwn, OwnStep
<1>4. Len(events) \in Nat
  BY LenProperties
<1>5. h[Len(events)] = f[Len(events)]
  <2> HIDE DEF h
  <2> QED BY <1>1, <1>2, <1>4, OwnAgree
<1> QED BY <1>1, <1>3, <1>5

(* The events of a user, one event after the other *)
LEMMA EventsOfType ==
  ASSUME NEW S, NEW events \in Seq(S), NEW u
  PROVE  EventsOf(u, events) \in Seq(S)
<1>1. PICK f \in [0..Len(events) -> Seq(S)] : EventsOf(u, events) = f[Len(events)]
  BY OwnValue
<1>2. Len(events) \in 0..Len(events)
  BY LenProperties
<1> QED BY <1>1, <1>2

LEMMA EventsOfEmpty ==
  ASSUME NEW u
  PROVE  EventsOf(u, <<>>) = <<>>
<1> DEFINE S == {u}
<1>1. <<>> \in Seq(S) /\ Len(<<>>) = 0
  BY EmptySeq
<1>2. PICK f \in [0..Len(<<>>) -> Seq(S)] :
        AreOwn(f, <<>>, u) /\ EventsOf(u, <<>>) = f[Len(<<>>)]
  BY <1>1, OwnValue
<1>3. 0 \in 0..Len(<<>>)
  BY <1>1
<1> HIDE DEF S
<1>4. f[0] = <<>>
  BY <1>2, <1>3 DEF AreOwn
<1> QED BY <1>1, <1>2, <1>4

LEMMA EventsOfAppend ==
  ASSUME NEW S, NEW events \in Seq(S), NEW event \in S, NEW u
  PROVE  EventsOf(u, Append(events, event)) =
           IF event.owner = ReceivedValue(<<u>>) THEN Append(EventsOf(u, events), event)
           ELSE EventsOf(u, events)
<1> DEFINE longer == Append(events, event)
           n == Len(events)
<1>1. /\ longer \in Seq(S) /\ Len(longer) = n + 1 /\ n \in Nat
      /\ \A i \in 1..n : longer[i] = events[i]
      /\ longer[n + 1] = event
  BY AppendProperties, LenProperties
<1>2. PICK f \in [0..n -> Seq(S)] :
        AreOwn(f, events, u) /\ EventsOf(u, events) = f[n]
  BY OwnValue
<1> HIDE DEF longer
<1>3. PICK g \in [0..Len(longer) -> Seq(S)] :
        AreOwn(g, longer, u) /\ EventsOf(u, longer) = g[Len(longer)]
  BY <1>1, OwnValue
<1> HIDE DEF n
<1>4. g[n] = f[n]
  <2>1. n = Len(events) /\ n <= n /\ n <= Len(longer) /\ Len(longer) \in Nat
    BY <1>1 DEF n
  <2>2. AreOwn(g, longer, u) /\ AreOwn(f, events, u)
    BY <1>2, <1>3
  <2>3. \A i \in 1..n : longer[i] = events[i]
    BY <1>1
  <2> QED BY <1>1, <2>1, <2>2, <2>3, OwnAgree
<1>5. n + 1 \in 0..Len(longer) /\ n + 1 # 0 /\ (n + 1) - 1 = n
  BY <1>1
<1>6. g[n + 1] = OwnStep(g[n], longer[n + 1], u)
  BY <1>3, <1>5 DEF AreOwn
<1>7. EventsOf(u, longer) = OwnStep(EventsOf(u, events), event, u)
  BY <1>1, <1>2, <1>3, <1>4, <1>6
<1> QED BY <1>7 DEF longer, OwnStep

(* The events of a user in a longer sequence *)
LEMMA EventsOfConcat ==
  ASSUME NEW S, NEW s \in Seq(S), NEW t \in Seq(S), NEW u
  PROVE  EventsOf(u, s \o t) = EventsOf(u, s) \o EventsOf(u, t)
<1> DEFINE P == {x \in Seq(S) : EventsOf(u, s \o x) = EventsOf(u, s) \o EventsOf(u, x)}
           a == EventsOf(u, s)
<1>1. a \in Seq(S)
  BY EventsOfType
<1>2. <<>> \in P
  <2>1. s \o <<>> = s /\ <<>> \in Seq(S)
    BY ConcatEmptySeq, EmptySeq
  <2>2. a \o <<>> = a
    <3> HIDE DEF a
    <3> QED BY <1>1, ConcatEmptySeq
  <2> QED BY <2>1, <2>2, EventsOfEmpty
<1>3. ASSUME NEW x \in P, NEW e \in S PROVE Append(x, e) \in P
  <2> DEFINE b == EventsOf(u, x)
  <2>1. x \in Seq(S) /\ EventsOf(u, s \o x) = a \o b
    OBVIOUS
  <2>2. b \in Seq(S) /\ s \o x \in Seq(S) /\ Append(x, e) \in Seq(S)
    BY <2>1, EventsOfType, ConcatProperties, AppendProperties
  <2>3. s \o Append(x, e) = Append(s \o x, e)
    BY <2>1, ConcatAppend
  <2>4. EventsOf(u, Append(s \o x, e)) =
          IF e.owner = ReceivedValue(<<u>>) THEN Append(a \o b, e) ELSE a \o b
    <3> DEFINE sx == s \o x
    <3>1. sx \in Seq(S)
      BY <2>2
    <3> HIDE DEF sx
    <3>2. EventsOf(u, Append(sx, e)) =
            IF e.owner = ReceivedValue(<<u>>) THEN Append(EventsOf(u, sx), e) ELSE EventsOf(u, sx)
      BY <3>1, EventsOfAppend
    <3>3. EventsOf(u, sx) = a \o b
      BY <2>1 DEF sx
    <3> QED BY <3>2, <3>3 DEF sx
  <2>5. EventsOf(u, Append(x, e)) = IF e.owner = ReceivedValue(<<u>>) THEN Append(b, e) ELSE b
    BY <2>1, EventsOfAppend
  <2>6. a \o Append(b, e) = Append(a \o b, e)
    <3> HIDE DEF a, b
    <3> QED BY <1>1, <2>2, ConcatAppend
  <2>7. EventsOf(u, s \o Append(x, e)) = a \o EventsOf(u, Append(x, e))
    BY <2>3, <2>4, <2>5, <2>6
  <2> QED BY <2>2, <2>7
<1>4. P = Seq(S)
  <2>1. P \in SUBSET Seq(S)
    OBVIOUS
  <2> HIDE DEF P
  <2> QED BY <1>2, <1>3, <2>1, Sequences
<1> QED BY <1>4

-----------------------------------------------------------------------------
(* Sequences without some elements *)

(* The places of s in t *)
Places(at, s, t) ==
  /\ at \in [1..Len(s) -> 1..Len(t)]
  /\ \A i \in 1..Len(s) : s[i] = t[at[i]]
  /\ \A i, j \in 1..Len(s) : i < j => at[i] < at[j]

LEMMA PlacesGrow ==
  ASSUME NEW n \in Nat, NEW m \in Nat, NEW at \in [1..n -> 1..m],
         \A i \in 1..n : i > 1 => at[i - 1] < at[i]
  PROVE  \A i, j \in 1..n : i < j => at[i] < at[j]
<1> SUFFICES ASSUME NEW i \in 1..n PROVE \A j \in 1..n : i < j => at[i] < at[j]
  OBVIOUS
<1> DEFINE N == {k \in Nat : k \in 1..n /\ i < k => at[i] < at[k]}
<1>1. N \in SUBSET Nat /\ 0 \in N
  OBVIOUS
<1>2. ASSUME NEW k \in N PROVE k + 1 \in N
  <2> SUFFICES ASSUME k + 1 \in 1..n, i < k + 1 PROVE at[i] < at[k + 1]
    OBVIOUS
  <2>1. k \in Nat /\ k \in 1..n /\ k + 1 > 1 /\ (k + 1) - 1 = k
    OBVIOUS
  <2>2. at[k] < at[k + 1]
    BY <2>1
  <2>3. at[i] \in Nat /\ at[k] \in Nat /\ at[k + 1] \in Nat
    BY <2>1
  <2>4. CASE i = k
    BY <2>2, <2>4
  <2>5. CASE i < k
    <3>1. at[i] < at[k]
      BY <2>1, <2>5
    <3> QED BY <2>2, <2>3, <3>1
  <2> QED BY <2>1, <2>4, <2>5
<1> HIDE DEF N
<1>3. N = Nat
  BY <1>1, <1>2, Numbers
<1>4. ASSUME NEW j \in 1..n, i < j PROVE at[i] < at[j]
  <2>1. j \in N
    BY <1>3
  <2> QED BY <1>4, <2>1 DEF N
<1> QED BY <1>4

LEMMA AmongValue ==
  ASSUME NEW S, NEW s \in Seq(S), NEW t \in Seq(S)
  PROVE  Among(s, t) <=> \E at : Places(at, s, t)
<1>1. /\ Len(s) \in Nat /\ Len(t) \in Nat /\ DOMAIN s = 1..Len(s) /\ DOMAIN t = 1..Len(t)
  BY LenProperties
<1>2. ASSUME Among(s, t) PROVE \E at : Places(at, s, t)
  <2>1. PICK at \in [1..Len(s) -> 1..Len(t)] :
          \A i \in 1..Len(s) : s[i] = t[at[i]] /\ (i > 1 => at[i - 1] < at[i])
    BY <1>1, <1>2 DEF Among
  <2>2. \A i, j \in 1..Len(s) : i < j => at[i] < at[j]
    BY <1>1, <2>1, PlacesGrow
  <2> QED BY <2>1, <2>2 DEF Places
<1>3. ASSUME NEW at, Places(at, s, t) PROVE Among(s, t)
  <2>1. at \in [DOMAIN s -> DOMAIN t]
    BY <1>1, <1>3 DEF Places
  <2>2. ASSUME NEW i \in DOMAIN s PROVE s[i] = t[at[i]] /\ (i > 1 => at[i - 1] < at[i])
    <3>1. i \in 1..Len(s) /\ (i > 1 => i - 1 \in 1..Len(s) /\ i - 1 < i)
      BY <1>1
    <3> QED BY <1>3, <3>1 DEF Places
  <2> QED BY <2>1, <2>2 DEF Among
<1> QED BY <1>2, <1>3

LEMMA AmongSelf ==
  ASSUME NEW S, NEW s \in Seq(S)
  PROVE  Among(s, s)
<1> DEFINE at == [i \in 1..Len(s) |-> i]
<1>1. Places(at, s, s)
  <2>1. Len(s) \in Nat
    BY LenProperties
  <2> QED BY <2>1 DEF Places
<1> QED BY <1>1, AmongValue

(* What is added to both is among the longer one. *)
LEMMA AmongConcat ==
  ASSUME NEW S, NEW s \in Seq(S), NEW t \in Seq(S), NEW a \in Seq(S), Among(s, t)
  PROVE  Among(s \o a, t \o a)
<1> DEFINE sa == s \o a
           ta == t \o a
<1>1. PICK at : Places(at, s, t)
  BY AmongValue
<1> DEFINE m == Len(s)
           n == Len(t)
           k == Len(a)
           by == [i \in 1..(m + k) |-> IF i <= m THEN at[i] ELSE n + (i - m)]
<1>2. m \in Nat /\ n \in Nat /\ k \in Nat
  BY LenProperties
<1>3. /\ sa \in Seq(S) /\ Len(sa) = m + k
      /\ \A i \in 1..(m + k) : sa[i] = IF i <= m THEN s[i] ELSE a[i - m]
  BY ConcatProperties
<1>4. /\ ta \in Seq(S) /\ Len(ta) = n + k
      /\ \A i \in 1..(n + k) : ta[i] = IF i <= n THEN t[i] ELSE a[i - n]
  BY ConcatProperties
<1>5. /\ at \in [1..m -> 1..n] /\ \A i \in 1..m : s[i] = t[at[i]]
      /\ \A i, j \in 1..m : i < j => at[i] < at[j]
  BY <1>1 DEF Places
<1> HIDE DEF sa, ta, m, n, k
<1>6. ASSUME NEW i \in 1..(m + k) PROVE by[i] \in 1..(n + k) /\ sa[i] = ta[by[i]]
  <2>1. CASE i <= m
    <3>1. i \in 1..m
      BY <1>2, <2>1
    <3>2. at[i] \in 1..n
      BY <1>5, <3>1
    <3>3. by[i] = at[i]
      BY <2>1
    <3>4. at[i] \in 1..(n + k) /\ at[i] <= n
      BY <1>2, <3>2
    <3> QED BY <1>3, <1>4, <1>5, <2>1, <3>1, <3>3, <3>4
  <2>2. CASE ~(i <= m)
    <3>1. by[i] = n + (i - m)
      BY <2>2
    <3>2. n + (i - m) \in 1..(n + k) /\ ~(n + (i - m) <= n) /\ (n + (i - m)) - n = i - m
      BY <1>2, <2>2
    <3> QED BY <1>3, <1>4, <2>2, <3>1, <3>2
  <2> QED BY <2>1, <2>2
<1>7. ASSUME NEW i \in 1..(m + k), NEW j \in 1..(m + k), i < j PROVE by[i] < by[j]
  <2>1. CASE j <= m
    <3>1. i \in 1..m /\ j \in 1..m /\ i <= m
      BY <1>2, <1>7, <2>1
    <3>2. by[i] = at[i] /\ by[j] = at[j]
      BY <2>1, <3>1
    <3> QED BY <1>5, <1>7, <3>1, <3>2
  <2>2. CASE ~(j <= m) /\ i <= m
    <3>1. i \in 1..m
      BY <1>2, <2>2
    <3>2. by[i] = at[i] /\ by[j] = n + (j - m) /\ at[i] \in 1..n
      BY <1>5, <2>2, <3>1
    <3>3. n + (j - m) > n
      BY <1>2, <2>2
    <3> QED BY <1>2, <3>2, <3>3
  <2>3. CASE ~(i <= m)
    <3>1. ~(j <= m)
      BY <1>2, <1>7, <2>3
    <3>2. by[i] = n + (i - m) /\ by[j] = n + (j - m)
      BY <2>3, <3>1
    <3> QED BY <1>2, <1>7, <3>2
  <2> QED BY <2>1, <2>2, <2>3
<1>8. by \in [1..(m + k) -> 1..(n + k)]
  BY <1>6
<1> HIDE DEF by
<1>9. Places(by, sa, ta)
  BY <1>3, <1>4, <1>6, <1>7, <1>8 DEF Places
<1> QED BY <1>3, <1>4, <1>9, AmongValue DEF sa, ta

LEMMA AmongLonger ==
  ASSUME NEW S, NEW s \in Seq(S), NEW t \in Seq(S), NEW a \in Seq(S), Among(s, t)
  PROVE  Among(s, t \o a)
<1> DEFINE ta == t \o a
<1>1. PICK at : Places(at, s, t)
  BY AmongValue
<1>2. Len(t) \in Nat /\ Len(a) \in Nat
  BY LenProperties
<1>3. /\ ta \in Seq(S) /\ Len(ta) = Len(t) + Len(a)
      /\ \A i \in 1..(Len(t) + Len(a)) : ta[i] = IF i <= Len(t) THEN t[i] ELSE a[i - Len(t)]
  BY ConcatProperties
<1> HIDE DEF ta
<1>4. \A i \in 1..Len(t) : i \in 1..Len(ta) /\ ta[i] = t[i]
  BY <1>2, <1>3
<1>5. at \in [1..Len(s) -> 1..Len(ta)]
  BY <1>1, <1>4 DEF Places
<1>6. \A i \in 1..Len(s) : s[i] = ta[at[i]]
  BY <1>1, <1>4 DEF Places
<1>7. Places(at, s, ta)
  BY <1>1, <1>5, <1>6 DEF Places
<1> QED BY <1>3, <1>7, AmongValue DEF ta

(* What is among a sequence still is when something is left out of it. *)
LEMMA AmongDrop ==
  ASSUME NEW S, NEW x \in Seq(S), NEW y \in Seq(S), NEW z \in Seq(S), NEW t \in Seq(S),
         Among(x \o (y \o z), t)
  PROVE  Among(x \o z, t)
<1> DEFINE yz == y \o z
           s == x \o yz
           r == x \o z
           m == Len(x)
           n == Len(y)
           k == Len(z)
<1>1. m \in Nat /\ n \in Nat /\ k \in Nat
  BY LenProperties
<1>2. /\ yz \in Seq(S) /\ Len(yz) = n + k
      /\ \A i \in 1..(n + k) : yz[i] = IF i <= n THEN y[i] ELSE z[i - n]
  BY ConcatProperties
<1>3. /\ s \in Seq(S) /\ Len(s) = m + Len(yz)
      /\ \A i \in 1..(m + Len(yz)) : s[i] = IF i <= m THEN x[i] ELSE yz[i - m]
  <2> HIDE DEF yz
  <2>1. yz \in Seq(S)
    BY <1>2
  <2>2. /\ x \o yz \in Seq(S) /\ Len(x \o yz) = Len(x) + Len(yz)
        /\ \A i \in 1..(Len(x) + Len(yz)) : (x \o yz)[i] = IF i <= Len(x) THEN x[i] ELSE yz[i - Len(x)]
    BY <2>1, ConcatProperties
  <2> QED BY <2>2
<1>4. /\ r \in Seq(S) /\ Len(r) = m + k
      /\ \A i \in 1..(m + k) : r[i] = IF i <= m THEN x[i] ELSE z[i - m]
  BY ConcatProperties
<1>5. Among(s, t)
  OBVIOUS
<1> HIDE DEF yz, s, r, m, n, k
<1>6. PICK at : Places(at, s, t)
  BY <1>3, <1>5, AmongValue
<1> DEFINE to == [i \in 1..(m + k) |-> IF i <= m THEN i ELSE i + n]
<1>7. ASSUME NEW i \in 1..(m + k)
      PROVE  to[i] \in 1..Len(s) /\ r[i] = s[to[i]]
  <2>1. CASE i <= m
    <3>1. to[i] = i /\ i \in 1..(m + Len(yz))
      BY <1>1, <1>2, <2>1
    <3> QED BY <1>3, <1>4, <2>1, <3>1
  <2>2. CASE ~(i <= m)
    <3>1. to[i] = i + n
      BY <2>2
    <3>2. /\ i + n \in 1..(m + Len(yz)) /\ ~(i + n <= m) /\ (i + n) - m \in 1..(n + k)
          /\ ~((i + n) - m <= n) /\ ((i + n) - m) - n = i - m
      BY <1>1, <1>2, <2>2
    <3>3. s[i + n] = yz[(i + n) - m]
      BY <1>3, <3>2
    <3>4. yz[(i + n) - m] = z[i - m]
      <4> DEFINE j == (i + n) - m
      <4>1. j \in 1..(n + k) /\ ~(j <= n) /\ j - n = i - m
        BY <3>2
      <4> HIDE DEF j
      <4>2. yz[j] = z[j - n]
        BY <1>2, <4>1
      <4> QED BY <4>1, <4>2 DEF j
    <3> QED BY <1>3, <1>4, <2>2, <3>1, <3>2, <3>3, <3>4
  <2> QED BY <2>1, <2>2
<1>8. ASSUME NEW i \in 1..(m + k), NEW j \in 1..(m + k), i < j PROVE to[i] < to[j]
  BY <1>1, <1>8
<1> DEFINE by == [i \in 1..(m + k) |-> at[to[i]]]
<1> HIDE DEF to
<1>9. /\ at \in [1..Len(s) -> 1..Len(t)] /\ \A i \in 1..Len(s) : s[i] = t[at[i]]
      /\ \A i, j \in 1..Len(s) : i < j => at[i] < at[j]
  BY <1>6 DEF Places
<1>10. by \in [1..(m + k) -> 1..Len(t)]
  BY <1>7, <1>9
<1>11. \A i \in 1..(m + k) : r[i] = t[by[i]]
  BY <1>7, <1>9
<1>12. ASSUME NEW i \in 1..(m + k), NEW j \in 1..(m + k), i < j PROVE by[i] < by[j]
  <2>1. to[i] \in 1..Len(s) /\ to[j] \in 1..Len(s) /\ to[i] < to[j]
    BY <1>7, <1>8, <1>12
  <2>2. at[to[i]] < at[to[j]]
    BY <1>9, <2>1
  <2> QED BY <2>2
<1> HIDE DEF by
<1>13. Places(by, r, t)
  BY <1>4, <1>10, <1>11, <1>12 DEF Places
<1> QED BY <1>4, <1>13, AmongValue DEF r

LEMMA AmongStart ==
  ASSUME NEW S, NEW x \in Seq(S), NEW y \in Seq(S), NEW t \in Seq(S), Among(x \o y, t)
  PROVE  Among(x, t)
<1>1. <<>> \in Seq(S) /\ y \o <<>> = y /\ x \o <<>> = x
  BY EmptySeq, ConcatEmptySeq
<1>2. Among(x \o (y \o <<>>), t)
  BY <1>1
<1>3. Among(x \o <<>>, t)
  BY <1>1, <1>2, AmongDrop
<1> QED BY <1>1, <1>3

-----------------------------------------------------------------------------
(* Ends of frames *)

(* The end of two texts together *)
LEMMA EndCases ==
  ASSUME NEW S, NEW s \in Seq(S), NEW t \in Seq(S), NEW k \in 1..(Len(s \o t) + 1)
  PROVE  /\ Len(s) \in Nat /\ Len(t) \in Nat
         /\ k <= Len(s) => SubSeq(s \o t, k, Len(s \o t)) = SubSeq(s, k, Len(s)) \o t
         /\ k > Len(s) => /\ SubSeq(s \o t, k, Len(s \o t)) = SubSeq(t, k - Len(s), Len(t))
                          /\ k - Len(s) \in 1..(Len(t) + 1)
<1> DEFINE st == s \o t
           m == Len(s)
           n == Len(t)
<1>1. /\ st \in Seq(S) /\ Len(st) = m + n /\ m \in Nat /\ n \in Nat
      /\ \A i \in 1..(m + n) : st[i] = IF i <= m THEN s[i] ELSE t[i - m]
  BY ConcatProperties, LenProperties
<1>2. k \in Nat \ {0} /\ k \in 1..(m + n + 1)
  BY <1>1
<1>3. /\ SubSeq(st, k, m + n) \in Seq(S)
      /\ Len(SubSeq(st, k, m + n)) = IF k <= m + n THEN m + n - k + 1 ELSE 0
      /\ \A i \in 1..(m + n - k + 1) : SubSeq(st, k, m + n)[i] = st[k + i - 1]
  <2> DEFINE l == m + n
  <2>1. l \in Int /\ l <= Len(st)
    BY <1>1
  <2> HIDE DEF st, l
  <2>2. /\ SubSeq(st, k, l) \in Seq(S)
        /\ Len(SubSeq(st, k, l)) = IF k <= l THEN l - k + 1 ELSE 0
        /\ \A i \in 1..(l - k + 1) : SubSeq(st, k, l)[i] = st[k + i - 1]
    BY <1>1, <1>2, <2>1, PartType
  <2> QED BY <2>2 DEF l
<1> HIDE DEF st, m, n
<1> DEFINE e == SubSeq(st, k, m + n)
<1> HIDE DEF e
<1>4. /\ e \in Seq(S) /\ Len(e) = m + n - k + 1
      /\ \A i \in 1..(m + n - k + 1) : e[i] = st[k + i - 1]
  BY <1>1, <1>2, <1>3 DEF e
<1>5. ASSUME k <= m PROVE e = SubSeq(s, k, m) \o t
  <2> DEFINE a == SubSeq(s, k, m)
  <2>1. /\ a \in Seq(S) /\ Len(a) = IF k <= m THEN m - k + 1 ELSE 0
        /\ \A i \in 1..(m - k + 1) : a[i] = s[k + i - 1]
    <3>1. m \in Int /\ m <= Len(s)
      BY <1>1 DEF m
    <3> QED BY <1>2, <3>1, PartType
  <2> HIDE DEF a
  <2>2. Len(a) = m - k + 1 /\ Len(a) \in Nat
    BY <1>1, <1>2, <1>5, <2>1
  <2>3. /\ a \o t \in Seq(S) /\ Len(a \o t) = Len(a) + n
        /\ \A i \in 1..(Len(a) + n) : (a \o t)[i] = IF i <= Len(a) THEN a[i] ELSE t[i - Len(a)]
    BY <2>1, ConcatProperties DEF n
  <2>4. Len(a \o t) = Len(e)
    BY <1>1, <1>2, <1>4, <2>2, <2>3
  <2>5. ASSUME NEW i \in 1..Len(e) PROVE e[i] = (a \o t)[i]
    <3>1. i \in 1..(m + n - k + 1) /\ k + i - 1 \in 1..(m + n)
      BY <1>1, <1>2, <1>4
    <3>2. e[i] = IF k + i - 1 <= m THEN s[k + i - 1] ELSE t[k + i - 1 - m]
      BY <1>1, <1>4, <3>1
    <3>3. CASE k + i - 1 <= m
      <4>1. i \in 1..(m - k + 1) /\ i <= Len(a) /\ i \in 1..(Len(a) + n)
        BY <1>1, <1>2, <2>2, <3>1, <3>3
      <4> QED BY <2>1, <2>3, <3>2, <3>3, <4>1
    <3>4. CASE ~(k + i - 1 <= m)
      <4>1. ~(i <= Len(a)) /\ i \in 1..(Len(a) + n) /\ i - Len(a) = k + i - 1 - m
        BY <1>1, <1>2, <2>2, <3>1, <3>4
      <4> QED BY <2>3, <3>2, <3>4, <4>1
    <3> QED BY <3>3, <3>4
  <2>6. e = a \o t
    BY <1>4, <2>3, <2>4, <2>5, SeqEqual
  <2> QED BY <2>6 DEF a
<1>6. ASSUME k > m PROVE e = SubSeq(t, k - m, n) /\ k - m \in 1..(n + 1)
  <2> DEFINE j == k - m
             a == SubSeq(t, j, n)
  <2>1. j \in Nat \ {0} /\ j \in 1..(n + 1)
    BY <1>1, <1>2, <1>6
  <2>2. /\ a \in Seq(S) /\ Len(a) = IF j <= n THEN n - j + 1 ELSE 0
        /\ \A i \in 1..(n - j + 1) : a[i] = t[j + i - 1]
    <3>1. n \in Int /\ n <= Len(t)
      BY <1>1 DEF n
    <3> HIDE DEF j
    <3> QED BY <2>1, <3>1, PartType
  <2> HIDE DEF a
  <2>3. Len(a) = Len(e)
    BY <1>1, <1>2, <1>4, <2>1, <2>2
  <2>4. ASSUME NEW i \in 1..Len(e) PROVE e[i] = a[i]
    <3>1. /\ i \in 1..(m + n - k + 1) /\ k + i - 1 \in 1..(m + n) /\ ~(k + i - 1 <= m)
          /\ i \in 1..(n - j + 1) /\ k + i - 1 - m = j + i - 1
      BY <1>1, <1>2, <1>4, <1>6
    <3>2. e[i] = st[k + i - 1]
      BY <1>4, <3>1
    <3>3. st[k + i - 1] = t[k + i - 1 - m]
      BY <1>1, <3>1
    <3>4. a[i] = t[j + i - 1]
      BY <2>2, <3>1
    <3>5. k + i - 1 - m = j + i - 1
      BY <3>1
    <3> HIDE DEF j
    <3> QED BY <3>2, <3>3, <3>4, <3>5
  <2>5. e = a
    BY <1>4, <2>2, <2>3, <2>4, SeqEqual
  <2> QED BY <2>1, <2>5 DEF a
<1>7. Len(st) = m + n
  BY <1>1
<1> QED BY <1>1, <1>5, <1>6, <1>7 DEF e, st, m, n

(* What is left of a frame of which the server has dropped the beginning *)
Ending(p) == p \in Seq(DecodedLetter \ Commands) /\ (p = <<>> \/ p[Len(p)] = Nul)

WholeFrame == {b \in Seq(DecodedLetter) : Whole(b)}

LEMMA EndingType ==
  ASSUME NEW p, Ending(p)
  PROVE  p \in Seq(DecodedLetter) /\ p \in Text
<1>1. DecodedLetter \ Commands \subseteq DecodedLetter /\ DecodedLetter \ Commands \subseteq Letter
  BY DEF DecodedLetter
<1> QED BY <1>1, SeqMonotonic DEF Ending, Text

LEMMA EndOfEnding ==
  ASSUME NEW p, Ending(p), NEW s, IsEnd(s, p)
  PROVE  Ending(s)
<1> DEFINE S == DecodedLetter \ Commands
<1>1. p \in Seq(S) /\ (p = <<>> \/ p[Len(p)] = Nul)
  BY DEF Ending
<1> HIDE DEF S
<1>2. Len(p) \in Nat
  BY <1>1, LenProperties
<1>3. PICK k \in 1..(Len(p) + 1) : s = SubSeq(p, k, Len(p))
  BY DEF IsEnd
<1> DEFINE n == Len(p)
<1>4. k \in Nat \ {0} /\ n \in Int /\ n <= Len(p)
  BY <1>2
<1>5. /\ s \in Seq(S) /\ Len(s) = IF k <= n THEN n - k + 1 ELSE 0
      /\ \A i \in 1..(n - k + 1) : s[i] = p[k + i - 1]
  <2> HIDE DEF n
  <2>1. /\ SubSeq(p, k, n) \in Seq(S) /\ Len(SubSeq(p, k, n)) = IF k <= n THEN n - k + 1 ELSE 0
        /\ \A i \in 1..(n - k + 1) : SubSeq(p, k, n)[i] = p[k + i - 1]
    BY <1>1, <1>4, PartType
  <2> QED BY <1>3, <2>1 DEF n
<1>6. CASE k = n + 1
  <2>1. Len(s) = 0
    BY <1>2, <1>5, <1>6
  <2>2. s = <<>>
    BY <1>5, <2>1, EmptySeq
  <2> QED BY <1>5, <2>2 DEF Ending, S
<1>7. CASE k \in 1..n
  <2>1. p # <<>>
    BY <1>2, <1>7, EmptySeq
  <2>2. Len(s) = n - k + 1 /\ Len(s) \in 1..(n - k + 1) /\ k + Len(s) - 1 = n
    BY <1>2, <1>5, <1>7
  <2>3. s[Len(s)] = p[n]
    BY <1>5, <2>2
  <2> QED BY <1>1, <1>5, <2>1, <2>3 DEF Ending, S
<1> QED BY <1>2, <1>6, <1>7

LEMMA EndOfWhole ==
  ASSUME NEW b \in WholeFrame, NEW k \in 2..(Len(b) + 1)
  PROVE  Ending(SubSeq(b, k, Len(b)))
<1> DEFINE n == Len(b)
           S == DecodedLetter \ Commands
           s == SubSeq(b, k, n)
<1>1. /\ b \in Seq(DecodedLetter) /\ n \in Nat /\ n > 0 /\ b[n] = Nul
      /\ \A j \in 2..n : b[j] \notin Commands
  BY LenProperties DEF WholeFrame, Whole
<1>2. k \in Nat \ {0} /\ n \in Int /\ n <= Len(b)
  BY <1>1
<1>3. /\ s \in Seq(DecodedLetter) /\ Len(s) = IF k <= n THEN n - k + 1 ELSE 0
      /\ \A i \in 1..(n - k + 1) : s[i] = b[k + i - 1]
  <2> HIDE DEF n
  <2> QED BY <1>1, <1>2, PartType
<1> HIDE DEF s
<1>4. Len(s) \in Nat /\ Len(s) = n - k + 1
  BY <1>1, <1>3
<1>5. \A i \in 1..Len(s) : s[i] \in S
  <2> TAKE i \in 1..Len(s)
  <2>1. s[i] \in DecodedLetter
    BY <1>3, ElementOfSeq
  <2>2. i \in 1..(n - k + 1) /\ k + i - 1 \in 2..n
    BY <1>1, <1>4
  <2> QED BY <1>1, <1>3, <2>1, <2>2
<1>6. s \in Seq(S)
  <2> HIDE DEF S
  <2>1. s \in [1..Len(s) -> DecodedLetter]
    BY <1>3, LenProperties
  <2>2. s \in [1..Len(s) -> S]
    BY <1>5, <2>1
  <2> QED BY <1>4, <2>2
<1>7. s = <<>> \/ s[Len(s)] = Nul
  <2>1. CASE Len(s) = 0
    BY <1>3, <2>1, EmptySeq
  <2>2. CASE Len(s) # 0
    <3>1. Len(s) \in 1..(n - k + 1) /\ k + Len(s) - 1 = n
      BY <1>1, <1>4, <2>2
    <3> QED BY <1>1, <1>3, <3>1
  <2> QED BY <2>1, <2>2
<1> QED BY <1>6, <1>7 DEF Ending, s, S

(* From anywhere in a stream of frames, the rest of one comes first and     *)
(* then whole frames.                                                       *)
IsRest(s, bs) ==
  \E q, n : /\ Ending(q) /\ n \in 1..(Len(bs) + 1)
            /\ s = q \o FlattenSeq(SubSeq(bs, n, Len(bs)))

LEMMA RestOfStream ==
  ASSUME NEW p, Ending(p), NEW bs \in Seq(WholeFrame), NEW s, IsEnd(s, p \o FlattenSeq(bs))
  PROVE  IsRest(s, bs)
<1> DEFINE P == {x \in Seq(WholeFrame) :
                   \A t : IsEnd(t, p \o FlattenSeq(x)) => IsRest(t, x)}
           D == DecodedLetter
<1>1. WholeFrame \subseteq Seq(D)
  BY DEF WholeFrame
<1>2. p \in Seq(D)
  BY EndingType
<1>3. <<>> \in P
  <2>1. <<>> \in Seq(WholeFrame) /\ Len(<<>>) = 0
    BY EmptySeq
  <2>2. p \o FlattenSeq(<<>>) = p
    BY <1>2, FlattenEmpty, ConcatEmptySeq
  <2>3. ASSUME NEW t, IsEnd(t, p) PROVE IsRest(t, <<>>)
    <3>1. Ending(t)
      BY <2>3, EndOfEnding
    <3>2. t \in Seq(D)
      BY <3>1, EndingType
    <3>3. SubSeq(<<>>, 1, 0) = <<>>
      BY SubSeqEmpty
    <3>4. t \o FlattenSeq(<<>>) = t
      BY <3>2, FlattenEmpty, ConcatEmptySeq
    <3>5. 1 \in 1..(Len(<<>>) + 1)
      BY <2>1
    <3> QED BY <2>1, <3>1, <3>3, <3>4, <3>5 DEF IsRest
  <2> QED BY <2>1, <2>2, <2>3
<1>4. ASSUME NEW x \in P, NEW b \in WholeFrame PROVE Append(x, b) \in P
  <2> DEFINE y == Append(x, b)
             f == FlattenSeq(x)
             a == p \o f
             l == Len(x)
  <2>1. x \in Seq(WholeFrame) /\ x \in Seq(Seq(D)) /\ b \in Seq(D)
    <3>1. x \in Seq(WholeFrame) /\ b \in Seq(D)
      BY <1>1
    <3> QED BY <1>1, <3>1, SeqMonotonic
  <2>2. /\ y \in Seq(WholeFrame) /\ Len(y) = l + 1 /\ l \in Nat
        /\ \A i \in 1..l : y[i] = x[i]
        /\ y[l + 1] = b
    <3>1. x \in Seq(WholeFrame)
      BY <2>1
    <3> QED BY <3>1, AppendProperties, LenProperties
  <2>3. FlattenSeq(y) = f \o b
    BY <2>1, FlattenAppend
  <2>4. f \in Seq(D)
    BY <2>1, FlattenType
  <2>5. a \in Seq(D)
    <3> HIDE DEF f
    <3> QED BY <1>2, <2>4, ConcatProperties
  <2>6. p \o FlattenSeq(y) = a \o b
    <3> HIDE DEF f
    <3>1. (p \o f) \o b = p \o (f \o b)
      BY <1>2, <2>1, <2>4, ConcatAssociative
    <3> QED BY <2>3, <3>1
  <2>7. \A t : IsEnd(t, a) => IsRest(t, x)
    OBVIOUS
  <2> HIDE DEF y, f, a, l
  <2>8. ASSUME NEW t, IsEnd(t, a \o b) PROVE IsRest(t, y)
    <3>1. PICK k \in 1..(Len(a \o b) + 1) : t = SubSeq(a \o b, k, Len(a \o b))
      BY <2>8 DEF IsEnd
    <3>2. /\ Len(a) \in Nat /\ Len(b) \in Nat
          /\ k <= Len(a) => SubSeq(a \o b, k, Len(a \o b)) = SubSeq(a, k, Len(a)) \o b
          /\ k > Len(a) => /\ SubSeq(a \o b, k, Len(a \o b)) = SubSeq(b, k - Len(a), Len(b))
                           /\ k - Len(a) \in 1..(Len(b) + 1)
      BY <2>1, <2>5, EndCases
    <3> DEFINE Q(n) == FlattenSeq(SubSeq(y, n, Len(y)))
    <3>3. ASSUME NEW n \in 1..(l + 1)
          PROVE  /\ SubSeq(x, n, l) \in Seq(Seq(D))
                 /\ Q(n) = FlattenSeq(SubSeq(x, n, l)) \o b
      <4>1. n \in Nat \ {0} /\ l \in Int /\ l <= Len(x) /\ n \in 1..(Len(x) + 1)
        BY <2>2 DEF l
      <4>2. SubSeq(x, n, l) \in Seq(Seq(D))
        BY <2>1, <4>1, PartType
      <4>3. SubSeq(y, n, Len(y)) = Append(SubSeq(x, n, l), b)
        <5> DEFINE X == SubSeq(x, n, l)
                   Y == SubSeq(y, n, Len(y))
        <5>1. /\ X \in Seq(Seq(D)) /\ Len(X) = IF n <= l THEN l - n + 1 ELSE 0
              /\ \A i \in 1..(l - n + 1) : X[i] = x[n + i - 1]
          BY <2>1, <4>1, PartType
        <5>2. y \in Seq(Seq(D))
          BY <1>1, <2>2, SeqMonotonic
        <5>3. Len(y) \in Int /\ Len(y) <= Len(y)
          BY <2>2
        <5>4. /\ Y \in Seq(Seq(D)) /\ Len(Y) = IF n <= Len(y) THEN Len(y) - n + 1 ELSE 0
              /\ \A i \in 1..(Len(y) - n + 1) : Y[i] = y[n + i - 1]
          BY <4>1, <5>2, <5>3, PartType
        <5> HIDE DEF X, Y
        <5>5. Len(X) = l - n + 1 /\ Len(X) \in Nat /\ Len(Y) = Len(X) + 1
          BY <2>2, <5>1, <5>4
        <5>6. /\ Append(X, b) \in Seq(Seq(D)) /\ Len(Append(X, b)) = Len(X) + 1
              /\ \A i \in 1..Len(X) : Append(X, b)[i] = X[i]
              /\ Append(X, b)[Len(X) + 1] = b
          BY <2>1, <5>1, AppendProperties
        <5>7. ASSUME NEW i \in 1..Len(Y) PROVE Y[i] = Append(X, b)[i]
          <6>1. i \in 1..(Len(y) - n + 1)
            BY <2>2, <5>5
          <6>2. Y[i] = y[n + i - 1]
            BY <5>4, <6>1
          <6>3. CASE i \in 1..Len(X)
            <7>1. n + i - 1 \in 1..l /\ i \in 1..(l - n + 1)
              BY <2>2, <5>5, <6>3
            <7> QED BY <2>2, <5>1, <5>6, <6>2, <6>3, <7>1
          <6>4. CASE i = Len(X) + 1
            <7>1. n + i - 1 = l + 1
              BY <2>2, <5>5, <6>4
            <7> QED BY <2>2, <5>6, <6>2, <6>4, <7>1
          <6> QED BY <5>5, <6>3, <6>4
        <5>8. Y = Append(X, b)
          BY <5>4, <5>5, <5>6, <5>7, SeqEqual
        <5> QED BY <5>8 DEF X, Y
      <4>4. FlattenSeq(Append(SubSeq(x, n, l), b)) = FlattenSeq(SubSeq(x, n, l)) \o b
        <5> DEFINE X == SubSeq(x, n, l)
        <5>1. X \in Seq(Seq(D))
          BY <4>2
        <5> HIDE DEF X
        <5>2. FlattenSeq(Append(X, b)) = FlattenSeq(X) \o b
          BY <2>1, <5>1, FlattenAppend
        <5> QED BY <5>2 DEF X
      <4> QED BY <4>2, <4>3, <4>4
    <3>4. CASE k <= Len(a)
      <4>1. IsEnd(SubSeq(a, k, Len(a)), a)
        <5>1. k \in 1..(Len(a) + 1)
          BY <3>2, <3>4
        <5> QED BY <5>1 DEF IsEnd
      <4>2. PICK q, n : /\ Ending(q) /\ n \in 1..(Len(x) + 1)
                        /\ SubSeq(a, k, Len(a)) = q \o FlattenSeq(SubSeq(x, n, Len(x)))
        BY <2>7, <4>1 DEF IsRest
      <4> DEFINE X == SubSeq(x, n, l)
                 F == FlattenSeq(X)
      <4>3. X \in Seq(Seq(D)) /\ Q(n) = F \o b
        BY <3>3, <4>2 DEF l
      <4>4. F \in Seq(D)
        <5> HIDE DEF X
        <5> QED BY <4>3, FlattenType
      <4>5. q \in Seq(D)
        BY <4>2, EndingType
      <4>6. t = (q \o F) \o b
        BY <3>1, <3>2, <3>4, <4>2 DEF l
      <4>7. (q \o F) \o b = q \o (F \o b)
        <5> HIDE DEF F
        <5> QED BY <2>1, <4>4, <4>5, ConcatAssociative
      <4>8. n \in 1..(Len(y) + 1)
        BY <2>2, <4>2 DEF l
      <4> HIDE DEF F, X
      <4>9. t = q \o Q(n)
        BY <4>3, <4>6, <4>7
      <4> QED BY <4>2, <4>8, <4>9 DEF IsRest
    <3>5. CASE k = Len(a) + 1
      <4>1. SubSeq(b, 1, Len(b)) = b /\ <<>> \o b = b
        BY <2>1, SubSeqFull, ConcatEmptySeq
      <4>2. k - Len(a) = 1 /\ k > Len(a)
        BY <3>2, <3>5
      <4>3. t = b
        BY <3>1, <3>2, <4>1, <4>2
      <4>4. l + 1 \in 1..(l + 1) /\ l + 1 \in 1..(Len(y) + 1) /\ l < l + 1 /\ l + 1 \in Int /\ l \in Int
        BY <2>2
      <4>5. SubSeq(x, l + 1, l) = <<>>
        BY <4>4, SubSeqEmpty
      <4>6. Q(l + 1) = <<>> \o b
        BY <3>3, <4>4, <4>5, FlattenEmpty
      <4>7. Ending(<<>>)
        BY EmptySeq DEF Ending
      <4>8. t = <<>> \o Q(l + 1)
        BY <4>1, <4>3, <4>6
      <4> QED BY <4>4, <4>7, <4>8 DEF IsRest
    <3>6. CASE k > Len(a) + 1
      <4> DEFINE j == k - Len(a)
      <4>1. j \in 2..(Len(b) + 1) /\ k > Len(a)
        BY <3>2, <3>6
      <4>2. t = SubSeq(b, j, Len(b))
        BY <3>1, <3>2, <4>1
      <4>3. Ending(t)
        <5> HIDE DEF j
        <5> QED BY <4>1, <4>2, EndOfWhole
      <4>4. Len(y) + 1 \in 1..(Len(y) + 1) /\ Len(y) + 1 \in Int /\ Len(y) \in Int /\ Len(y) < Len(y) + 1
        BY <2>2
      <4>5. Q(Len(y) + 1) = <<>>
        BY <4>4, SubSeqEmpty, FlattenEmpty
      <4>6. t \o <<>> = t
        BY <4>3, EndingType, ConcatEmptySeq
      <4> QED BY <4>3, <4>4, <4>5, <4>6 DEF IsRest
    <3> QED BY <3>2, <3>4, <3>5, <3>6
  <2> QED BY <2>2, <2>6, <2>8 DEF y
<1>5. P = Seq(WholeFrame)
  <2>1. P \in SUBSET Seq(WholeFrame)
    OBVIOUS
  <2> HIDE DEF P
  <2> QED BY <1>3, <1>4, <2>1, Sequences
<1> QED BY <1>5

-----------------------------------------------------------------------------
(* Streams: what is on its way, and what becomes of it *)

(* What is before the first separator, and what is after it *)
LEMMA UniqueNul ==
  ASSUME NEW x \in Seq(Inner), NEW y \in Seq(Inner),
         NEW a \in Seq(DecodedLetter), NEW b \in Seq(DecodedLetter),
         Append(x, Nul) \o a = Append(y, Nul) \o b
  PROVE  x = y /\ a = b
<1> DEFINE S == DecodedLetter
           separator == Nul
           r == Append(x, separator) \o a
           m == Len(x)
           n == Len(y)
<1>0. /\ separator \in S /\ x \in Seq(S \ {separator}) /\ y \in Seq(S \ {separator})
      /\ a \in Seq(S) /\ b \in Seq(S) /\ x \in Seq(S) /\ y \in Seq(S)
  <2>1. Nul \in Letter /\ Nul \notin NonAscii
    BY Letters
  <2>2. Inner \subseteq DecodedLetter
    BY DEF Inner
  <2>3. x \in Seq(DecodedLetter) /\ y \in Seq(DecodedLetter)
    BY <2>2, SeqMonotonic
  <2> QED BY <2>1, <2>3 DEF DecodedLetter, Inner
<1> HIDE DEF S
<1>1. ASSUME NEW z \in Seq(S \ {separator}), NEW c \in Seq(S), r = Append(z, separator) \o c
      PROVE  /\ Len(z) \in Nat /\ r[Len(z) + 1] = separator
             /\ Len(r) = Len(z) + 1 + Len(c)
             /\ \A i \in 1..Len(z) : r[i] = z[i] /\ r[i] # separator
             /\ c = SubSeq(r, Len(z) + 2, Len(r))
  <2> DEFINE A == Append(z, separator)
  <2>1. z \in Seq(S)
    BY WholePiece
  <2>2. /\ A \in Seq(S) /\ Len(A) = Len(z) + 1 /\ Len(z) \in Nat
        /\ \A i \in 1..Len(z) : A[i] = z[i]
        /\ A[Len(z) + 1] = separator
    <3>1. separator \in S
      BY <1>0
    <3> HIDE DEF separator
    <3> QED BY <2>1, <3>1, AppendProperties, LenProperties
  <2> HIDE DEF A
  <2>3. /\ Len(A \o c) = Len(A) + Len(c) /\ Len(c) \in Nat
        /\ \A i \in 1..(Len(A) + Len(c)) : (A \o c)[i] = IF i <= Len(A) THEN A[i] ELSE c[i - Len(A)]
    BY <2>2, ConcatProperties, LenProperties
  <2>4. SubSeq(A \o c, Len(A) + 1, Len(A \o c)) = c
    BY <2>2, PartsOfConcat
  <2>5. r = A \o c
    BY <1>1 DEF A
  <2> HIDE DEF r
  <2>6. ASSUME NEW i \in 1..Len(z) PROVE r[i] = z[i] /\ r[i] # separator
    <3>1. i \in 1..(Len(A) + Len(c)) /\ i <= Len(A)
      BY <2>2, <2>3
    <3>2. z[i] \in S \ {separator}
      BY ElementOfSeq
    <3> QED BY <2>2, <2>3, <2>5, <3>1, <3>2
  <2>7. r[Len(z) + 1] = separator
    <3>1. Len(z) + 1 \in 1..(Len(A) + Len(c)) /\ Len(z) + 1 <= Len(A)
      BY <2>2, <2>3
    <3> QED BY <2>2, <2>3, <2>5, <3>1
  <2>8. Len(A) + 1 = Len(z) + 2
    BY <2>2
  <2> QED BY <2>2, <2>3, <2>4, <2>5, <2>6, <2>7, <2>8
<1>2. r = Append(y, separator) \o b
  OBVIOUS
<1> HIDE DEF separator
<1>3. /\ m \in Nat /\ r[m + 1] = separator /\ Len(r) = m + 1 + Len(a)
      /\ \A i \in 1..m : r[i] = x[i] /\ r[i] # separator
      /\ a = SubSeq(r, m + 2, Len(r))
  <2> HIDE DEF r
  <2>1. r = Append(x, separator) \o a
    BY DEF r
  <2> QED BY <1>0, <1>1, <2>1
<1>4. /\ n \in Nat /\ r[n + 1] = separator /\ Len(r) = n + 1 + Len(b)
      /\ \A i \in 1..n : r[i] = y[i] /\ r[i] # separator
      /\ b = SubSeq(r, n + 2, Len(r))
  <2> HIDE DEF r
  <2> QED BY <1>0, <1>1, <1>2
<1> HIDE DEF r
<1>5. m = n
  <2>1. ~(m < n)
    <3> SUFFICES ASSUME m < n PROVE FALSE
      OBVIOUS
    <3>1. m + 1 \in 1..n
      BY <1>3, <1>4
    <3> QED BY <1>3, <1>4, <3>1
  <2>2. ~(n < m)
    <3> SUFFICES ASSUME n < m PROVE FALSE
      OBVIOUS
    <3>1. n + 1 \in 1..m
      BY <1>3, <1>4
    <3> QED BY <1>3, <1>4, <3>1
  <2> QED BY <1>3, <1>4, <2>1, <2>2
<1>6. x = y
  <2>1. \A i \in 1..Len(x) : x[i] = y[i]
    BY <1>3, <1>4, <1>5
  <2> QED BY <1>0, <1>5, <2>1, SeqEqual
<1> QED BY <1>3, <1>4, <1>5, <1>6

LEMMA EndingCut ==
  ASSUME NEW p, Ending(p), p # <<>>
  PROVE  \E x, q :
           x \in Seq(Inner) /\ Ending(q) /\ p = Append(x, Nul) \o q /\ Parse(x) = Malformed
<1> DEFINE S == DecodedLetter \ Commands
<1>1. p \in Seq(S) /\ p[Len(p)] = Nul
  BY DEF Ending
<1>2. Nul \in S
  <2>1. Nul \in Letter /\ Nul \notin NonAscii
    BY Letters
  <2>2. Nul \notin Commands
    BY DEF Nul, Commands
  <2> QED BY <2>1, <2>2 DEF DecodedLetter
<1>3. Len(p) \in 1..Len(p)
  <2>1. Len(p) \in Nat /\ Len(p) # 0
    BY <1>1, EmptySeq, LenProperties
  <2> QED BY <2>1
<1>4. p \notin Seq(S \ {Nul})
  <2> SUFFICES ASSUME p \in Seq(S \ {Nul}) PROVE FALSE
    OBVIOUS
  <2>1. p[Len(p)] \in S \ {Nul}
    <3> HIDE DEF S
    <3> QED BY <1>3, ElementOfSeq
  <2> QED BY <1>1, <2>1
<1>5. PICK x \in Seq(S \ {Nul}), q \in Seq(S) :
        p = Append(x, Nul) \o q /\ Len(p) = Len(x) + 1 + Len(q)
  <2> HIDE DEF S
  <2>1. IsCut(p, S, Nul)
    BY <1>1, <1>2, FirstCut
  <2> QED BY <1>4, <2>1 DEF IsCut
<1>6. x \in Seq(S)
  <2> HIDE DEF S
  <2> QED BY WholePiece
<1>7. Ending(q)
  <2>1. Append(x, Nul) \in Seq(S)
    <3> HIDE DEF S
    <3> QED BY <1>2, <1>6, AppendProperties
  <2>2. IsEnd(q, p)
    <3> HIDE DEF S
    <3> QED BY <1>5, <2>1, EndOfConcat
  <2> QED BY <2>2, EndOfEnding
<1>8. x \in Seq(Inner)
  <2>1. S \ {Nul} \subseteq Inner
    BY DEF Inner
  <2> HIDE DEF S
  <2> QED BY <2>1, SeqMonotonic
<1>9. Parse(x) = Malformed
  <2>1. S \cap Commands = {}
    OBVIOUS
  <2> HIDE DEF S
  <2> QED BY <1>6, <2>1, CommandFree
<1> QED BY <1>5, <1>7, <1>8, <1>9

(* A frame that the server refuses *)
Refusal(b) ==
  \E x \in Seq(Inner), t \in Seq(DecodedLetter) :
    b = Append(x, Nul) \o t /\ Parse(x) = Malformed

(* A frame of a user that it sends on as the events e, one or none *)
DeliveredAs(u, copies, e) ==
  \/ copies = <<>> /\ e = <<>>
  \/ \E m \in Seq(Inner) :
       /\ copies = Append(m, Nul) /\ ~Unreadable(m)
       /\ e = <<ReadEvent(m)>> /\ ReadEvent(m).owner = ReceivedValue(<<u>>)

Delivery(u, b, e) ==
  \E x \in Seq(Inner) :
    b = Append(x, Nul) /\ Parse(x) # Malformed /\ DeliveredAs(u, Copies(Parse(x)), e)

(* What the receiver reads, and what it should *)
Note ==
  {ReadEvent(m) : m \in Seq(Inner)} \cup {AsReceived(u, event) : u \in User, event \in Event}

(* Frames of a user and the events that each of them stands for *)
Flows(u, bs, es) ==
  /\ bs \in Seq(WholeFrame) /\ es \in Seq(Seq(Note)) /\ Len(bs) = Len(es)
  /\ \A i \in 1..Len(bs) : Refusal(bs[i]) \/ Delivery(u, bs[i], es[i])

AllDelivered(u, bs, es) == \A i \in 1..Len(bs) : Delivery(u, bs[i], es[i])

(* What is on its way from a user: the rest of a frame, and frames, of      *)
(* which the events are still expected after those that it has already own. *)
Streams(u, rest, own, expected, lossless) ==
  \E p, bs, es :
    /\ Ending(p) /\ Flows(u, bs, es)
    /\ rest = p \o FlattenSeq(bs)
    /\ Among(own \o FlattenSeq(es), expected)
    /\ lossless => /\ p = <<>> /\ AllDelivered(u, bs, es)
                   /\ own \o FlattenSeq(es) = expected

LEMMA FlowsType ==
  ASSUME NEW u, NEW bs, NEW es, Flows(u, bs, es)
  PROVE  /\ bs \in Seq(Seq(DecodedLetter)) /\ FlattenSeq(bs) \in Seq(DecodedLetter)
         /\ es \in Seq(Seq(Note)) /\ FlattenSeq(es) \in Seq(Note)
         /\ Len(bs) \in Nat /\ Len(es) = Len(bs)
<1>1. bs \in Seq(WholeFrame) /\ es \in Seq(Seq(Note)) /\ Len(bs) = Len(es)
  BY DEF Flows
<1>2. WholeFrame \subseteq Seq(DecodedLetter)
  BY DEF WholeFrame
<1>3. bs \in Seq(Seq(DecodedLetter))
  BY <1>1, <1>2, SeqMonotonic
<1>4. FlattenSeq(bs) \in Seq(DecodedLetter) /\ FlattenSeq(es) \in Seq(Note)
  BY <1>1, <1>3, FlattenType
<1> QED BY <1>1, <1>3, <1>4, LenProperties

(* Some of the frames from the n-th on *)
LEMMA FlowsFrom ==
  ASSUME NEW u, NEW bs, NEW es, Flows(u, bs, es), NEW n \in 1..(Len(bs) + 1)
  PROVE  /\ Flows(u, SubSeq(bs, n, Len(bs)), SubSeq(es, n, Len(es)))
         /\ AllDelivered(u, bs, es) =>
              AllDelivered(u, SubSeq(bs, n, Len(bs)), SubSeq(es, n, Len(es)))
<1> DEFINE l == Len(bs)
           b == SubSeq(bs, n, l)
           e == SubSeq(es, n, l)
<1>1. /\ bs \in Seq(WholeFrame) /\ es \in Seq(Seq(Note)) /\ Len(es) = l /\ l \in Nat
      /\ \A i \in 1..l : Refusal(bs[i]) \/ Delivery(u, bs[i], es[i])
  BY LenProperties DEF Flows
<1>2. n \in Nat \ {0} /\ l \in Int /\ l <= Len(bs) /\ l <= Len(es)
  BY <1>1
<1> HIDE DEF l
<1>3. /\ b \in Seq(WholeFrame) /\ Len(b) = IF n <= l THEN l - n + 1 ELSE 0
      /\ \A i \in 1..(l - n + 1) : b[i] = bs[n + i - 1]
  <2>1. bs \in Seq(WholeFrame)
    BY <1>1
  <2> QED BY <1>2, <2>1, PartType
<1>4. /\ e \in Seq(Seq(Note)) /\ Len(e) = IF n <= l THEN l - n + 1 ELSE 0
      /\ \A i \in 1..(l - n + 1) : e[i] = es[n + i - 1]
  <2> DEFINE N == Seq(Note)
  <2>1. es \in Seq(N)
    BY <1>1
  <2> HIDE DEF N
  <2>2. /\ e \in Seq(N) /\ Len(e) = IF n <= l THEN l - n + 1 ELSE 0
        /\ \A i \in 1..(l - n + 1) : e[i] = es[n + i - 1]
    BY <1>2, <2>1, PartType
  <2> QED BY <2>2 DEF N
<1> HIDE DEF b, e
<1>5. n \in 1..(l + 1)
  BY DEF l
<1>6. Len(b) = l - n + 1 /\ Len(e) = Len(b)
  BY <1>1, <1>3, <1>4, <1>5
<1>7. ASSUME NEW i \in 1..Len(b)
      PROVE  n + i - 1 \in 1..l /\ b[i] = bs[n + i - 1] /\ e[i] = es[n + i - 1]
  <2>1. i \in 1..(l - n + 1) /\ n + i - 1 \in 1..l
    BY <1>1, <1>5, <1>6
  <2> QED BY <1>3, <1>4, <2>1
<1>8. \A i \in 1..Len(b) : Refusal(b[i]) \/ Delivery(u, b[i], e[i])
  BY <1>1, <1>7
<1>9. Flows(u, b, e)
  BY <1>3, <1>4, <1>6, <1>8 DEF Flows
<1>10. ASSUME AllDelivered(u, bs, es) PROVE AllDelivered(u, b, e)
  <2>1. \A i \in 1..l : Delivery(u, bs[i], es[i])
    BY <1>10 DEF AllDelivered, l
  <2>2. \A i \in 1..Len(b) : Delivery(u, b[i], e[i])
    BY <1>7, <2>1
  <2> QED BY <2>2 DEF AllDelivered
<1>11. Len(es) = Len(bs)
  BY DEF Flows
<1> QED BY <1>9, <1>10, <1>11 DEF b, e, l

-----------------------------------------------------------------------------
(* A stream that loses its first frame *)

LEMMA EndOfEnd ==
  ASSUME NEW S, NEW z \in Seq(S), NEW a \in Seq(S), NEW s, IsEnd(s, a)
  PROVE  IsEnd(s, z \o a) /\ s \in Seq(S)
<1>1. PICK k \in 1..(Len(a) + 1) : s = SubSeq(a, k, Len(a))
  BY DEF IsEnd
<1>2. Len(z \o a) = Len(z) + Len(a) /\ Len(z) \in Nat /\ Len(a) \in Nat
  BY ConcatProperties, LenProperties
<1> DEFINE j == Len(z) + k
<1>3. j \in 1..(Len(z \o a) + 1) /\ j > Len(z) /\ j - Len(z) = k
  BY <1>2
<1> HIDE DEF j
<1>4. SubSeq(z \o a, j, Len(z \o a)) = SubSeq(a, j - Len(z), Len(a))
  BY <1>3, EndCases
<1>5. s \in Seq(S)
  <2>1. k \in Nat \ {0} /\ Len(a) \in Int /\ Len(a) <= Len(a)
    BY <1>2
  <2> QED BY <1>1, <2>1, PartType
<1> QED BY <1>1, <1>3, <1>4, <1>5 DEF IsEnd

(* The first frame of a stream *)
LEMMA FirstOfStream ==
  ASSUME NEW u, NEW bs, NEW es, Flows(u, bs, es), NEW x \in Seq(Inner),
         NEW a \in Seq(DecodedLetter), FlattenSeq(bs) = Append(x, Nul) \o a
  PROVE  /\ bs # <<>> /\ 1 \in 1..Len(bs) /\ 2 \in 1..(Len(bs) + 1)
         /\ Refusal(bs[1]) => Parse(x) = Malformed
         /\ Delivery(u, bs[1], es[1]) =>
              /\ Parse(x) # Malformed /\ DeliveredAs(u, Copies(Parse(x)), es[1])
              /\ a = FlattenSeq(SubSeq(bs, 2, Len(bs)))
<1> DEFINE D == DecodedLetter
           F == FlattenSeq(SubSeq(bs, 2, Len(bs)))
<1>1. bs \in Seq(Seq(D))
  BY FlowsType
<1>2. Nul \in D /\ D \ {Nul} = Inner
  <2>1. Nul \in Letter /\ Nul \notin NonAscii
    BY Letters
  <2> QED BY <2>1 DEF DecodedLetter, Inner
<1>3. bs # <<>>
  <2> SUFFICES ASSUME bs = <<>> PROVE FALSE
    OBVIOUS
  <2> DEFINE A == Append(x, Nul)
  <2>1. x \in Seq(D)
    BY <1>2, WholePiece
  <2>2. A \in Seq(D) /\ Len(A) = Len(x) + 1 /\ Len(x) \in Nat
    BY <1>2, <2>1, AppendProperties, LenProperties
  <2>3. Len(A \o a) = Len(A) + Len(a) /\ Len(a) \in Nat
    <3> HIDE DEF A
    <3> QED BY <2>2, ConcatProperties, LenProperties
  <2>4. A \o a = <<>>
    BY FlattenEmpty
  <2>5. Len(A \o a) = 0
    <3> HIDE DEF A
    <3> QED BY <2>4, EmptySeq
  <2> QED BY <2>2, <2>3, <2>5
<1>4. /\ 1 \in 1..Len(bs) /\ 2 \in 1..(Len(bs) + 1) /\ bs[1] \in Seq(D) /\ F \in Seq(D)
      /\ FlattenSeq(bs) = bs[1] \o F
  BY <1>1, <1>3, FlattenFirst
<1> HIDE DEF F
<1>5. ASSUME Refusal(bs[1]) PROVE Parse(x) = Malformed
  <2>1. PICK y \in Seq(Inner), t \in Seq(D) : bs[1] = Append(y, Nul) \o t /\ Parse(y) = Malformed
    BY <1>5 DEF Refusal
  <2> DEFINE A == Append(y, Nul)
             tF == t \o F
  <2>2. A \in Seq(D)
    <3>1. y \in Seq(D)
      BY <1>2, WholePiece
    <3> QED BY <1>2, <3>1, AppendProperties
  <2>3. (A \o t) \o F = A \o (t \o F)
    <3>1. AreSeqs(D, A, t, F)
      BY <1>4, <2>2 DEF AreSeqs
    <3> HIDE DEF A, D
    <3> QED BY <3>1, Regroup
  <2>4. tF \in Seq(D)
    BY <1>4, ConcatProperties
  <2>5. Append(x, Nul) \o a = Append(y, Nul) \o tF
    BY <1>4, <2>1, <2>3
  <2>6. x = y
    <3> HIDE DEF tF
    <3> QED BY <2>4, <2>5, UniqueNul
  <2> QED BY <2>1, <2>6
<1>6. ASSUME Delivery(u, bs[1], es[1])
      PROVE  /\ Parse(x) # Malformed /\ DeliveredAs(u, Copies(Parse(x)), es[1])
             /\ a = F
  <2>1. PICK y \in Seq(Inner) :
          bs[1] = Append(y, Nul) /\ Parse(y) # Malformed /\ DeliveredAs(u, Copies(Parse(y)), es[1])
    BY <1>6 DEF Delivery
  <2>2. Append(x, Nul) \o a = Append(y, Nul) \o F
    BY <1>4, <2>1
  <2>3. x = y /\ a = F
    BY <1>4, <2>2, UniqueNul
  <2> QED BY <2>1, <2>3
<1> QED BY <1>3, <1>4, <1>5, <1>6 DEF F

(* A text that is refused *)
LEMMA StreamsRefused ==
  ASSUME NEW u, NEW rest, NEW own \in Seq(Note), NEW expected \in Seq(Note), NEW lossless,
         Streams(u, rest, own, expected, lossless),
         NEW x \in Seq(Inner), NEW a \in Seq(DecodedLetter), rest = Append(x, Nul) \o a,
         Parse(x) = Malformed, NEW s, IsEnd(s, a)
  PROVE  ~lossless /\ Streams(u, s, own, expected, FALSE)
<1> DEFINE D == DecodedLetter
<1>1. PICK p, bs, es :
        /\ Ending(p) /\ Flows(u, bs, es)
        /\ rest = p \o FlattenSeq(bs)
        /\ Among(own \o FlattenSeq(es), expected)
        /\ lossless => /\ p = <<>> /\ AllDelivered(u, bs, es)
                       /\ own \o FlattenSeq(es) = expected
  BY DEF Streams
<1>2. /\ bs \in Seq(Seq(D)) /\ FlattenSeq(bs) \in Seq(D) /\ es \in Seq(Seq(Note))
      /\ FlattenSeq(es) \in Seq(Note) /\ Len(bs) \in Nat /\ Len(es) = Len(bs)
  BY <1>1, FlowsType
<1>3. ~lossless
  <2> SUFFICES ASSUME lossless PROVE FALSE
    OBVIOUS
  <2>1. p = <<>> /\ AllDelivered(u, bs, es)
    BY <1>1
  <2>2. <<>> \o FlattenSeq(bs) = FlattenSeq(bs)
    BY <1>2, ConcatEmptySeq
  <2>3. FlattenSeq(bs) = Append(x, Nul) \o a
    BY <1>1, <2>1, <2>2
  <2>4. /\ 1 \in 1..Len(bs)
        /\ Delivery(u, bs[1], es[1]) => Parse(x) # Malformed
    BY <1>1, <2>3, FirstOfStream
  <2>5. Delivery(u, bs[1], es[1])
    BY <2>1, <2>4 DEF AllDelivered
  <2> QED BY <2>4, <2>5
<1>4. IsEnd(s, rest)
  <2>1. Append(x, Nul) \in Seq(D)
    <3>1. Nul \in D /\ Inner \subseteq D
      <4>1. Nul \in Letter /\ Nul \notin NonAscii
        BY Letters
      <4> QED BY <4>1 DEF DecodedLetter, Inner
    <3>2. x \in Seq(D)
      BY <3>1, SeqMonotonic
    <3> QED BY <3>1, <3>2, AppendProperties
  <2> QED BY <2>1, EndOfEnd
<1>5. IsRest(s, bs)
  <2>1. bs \in Seq(WholeFrame)
    BY <1>1 DEF Flows
  <2>2. Ending(p) /\ IsEnd(s, p \o FlattenSeq(bs))
    BY <1>1, <1>4
  <2> QED BY <2>1, <2>2, RestOfStream
<1>6. PICK q, n : /\ Ending(q) /\ n \in 1..(Len(bs) + 1)
                  /\ s = q \o FlattenSeq(SubSeq(bs, n, Len(bs)))
  BY <1>5 DEF IsRest
<1>7. Flows(u, SubSeq(bs, n, Len(bs)), SubSeq(es, n, Len(es)))
  BY <1>1, <1>6, FlowsFrom
<1> DEFINE y == FlattenSeq(SubSeq(es, 1, n - 1))
           z == FlattenSeq(SubSeq(es, n, Len(es)))
<1>8. y \in Seq(Note) /\ z \in Seq(Note) /\ FlattenSeq(es) = y \o z
  <2>1. n \in 1..(Len(es) + 1)
    BY <1>2, <1>6
  <2> QED BY <1>2, <2>1, FlattenCut
<1> HIDE DEF y, z
<1>9. Among(own \o z, expected)
  <2>1. Among(own \o (y \o z), expected)
    BY <1>1, <1>8
  <2> QED BY <1>8, <2>1, AmongDrop
<1>10. Streams(u, s, own, expected, FALSE)
  BY <1>6, <1>7, <1>9 DEF Streams, z
<1> QED BY <1>3, <1>10

(* A text that is not refused *)
Accepted(u, copies, a, own, expected, lossless) ==
  \/ copies = <<>> /\ Streams(u, a, own, expected, lossless)
  \/ \E m \in Seq(Inner) :
       /\ copies = Append(m, Nul) /\ ~Unreadable(m)
       /\ ReadEvent(m).owner = ReceivedValue(<<u>>)
       /\ Streams(u, a, Append(own, ReadEvent(m)), expected, lossless)

LEMMA StreamsAccepted ==
  ASSUME NEW u, NEW rest, NEW own \in Seq(Note), NEW expected \in Seq(Note), NEW lossless,
         Streams(u, rest, own, expected, lossless),
         NEW x \in Seq(Inner), NEW a \in Seq(DecodedLetter), rest = Append(x, Nul) \o a,
         Parse(x) # Malformed
  PROVE  Accepted(u, Copies(Parse(x)), a, own, expected, lossless)
<1> DEFINE D == DecodedLetter
<1>1. PICK p, bs, es :
        /\ Ending(p) /\ Flows(u, bs, es)
        /\ rest = p \o FlattenSeq(bs)
        /\ Among(own \o FlattenSeq(es), expected)
        /\ lossless => /\ p = <<>> /\ AllDelivered(u, bs, es)
                       /\ own \o FlattenSeq(es) = expected
  BY DEF Streams
<1>2. /\ bs \in Seq(Seq(D)) /\ FlattenSeq(bs) \in Seq(D) /\ es \in Seq(Seq(Note))
      /\ FlattenSeq(es) \in Seq(Note) /\ Len(bs) \in Nat /\ Len(es) = Len(bs)
  BY <1>1, FlowsType
<1>3. Nul \in D /\ D \ {Nul} = Inner
  <2>1. Nul \in Letter /\ Nul \notin NonAscii
    BY Letters
  <2> QED BY <2>1 DEF DecodedLetter, Inner
<1>4. p = <<>>
  <2> SUFFICES ASSUME p # <<>> PROVE FALSE
    OBVIOUS
  <2>1. PICK y, q :
          y \in Seq(Inner) /\ Ending(q) /\ p = Append(y, Nul) \o q /\ Parse(y) = Malformed
    BY <1>1, EndingCut
  <2> DEFINE F == FlattenSeq(bs)
             A == Append(y, Nul)
             qF == q \o F
  <2>2. q \in Seq(D) /\ F \in Seq(D)
    BY <1>2, <2>1, EndingType
  <2>3. A \in Seq(D)
    <3>1. y \in Seq(D)
      BY <1>3, <2>1, WholePiece
    <3> QED BY <1>3, <3>1, AppendProperties
  <2>4. (A \o q) \o F = A \o (q \o F)
    <3>1. AreSeqs(D, A, q, F)
      BY <2>2, <2>3 DEF AreSeqs
    <3> HIDE DEF A, F, D
    <3> QED BY <3>1, Regroup
  <2>5. qF \in Seq(D)
    <3> HIDE DEF F
    <3> QED BY <2>2, ConcatProperties
  <2>6. Append(x, Nul) \o a = Append(y, Nul) \o qF
    BY <1>1, <2>1, <2>4
  <2>7. x = y
    <3> HIDE DEF qF
    <3> QED BY <2>1, <2>5, <2>6, UniqueNul
  <2> QED BY <2>1, <2>7
<1>5. FlattenSeq(bs) = Append(x, Nul) \o a
  <2>1. <<>> \o FlattenSeq(bs) = FlattenSeq(bs)
    BY <1>2, ConcatEmptySeq
  <2> QED BY <1>1, <1>4, <2>1
<1> DEFINE tb == SubSeq(bs, 2, Len(bs))
           te == SubSeq(es, 2, Len(es))
           F == FlattenSeq(te)
<1>6. /\ bs # <<>> /\ 1 \in 1..Len(bs) /\ 2 \in 1..(Len(bs) + 1)
      /\ Refusal(bs[1]) => Parse(x) = Malformed
      /\ Delivery(u, bs[1], es[1]) =>
           /\ Parse(x) # Malformed /\ DeliveredAs(u, Copies(Parse(x)), es[1])
           /\ a = FlattenSeq(tb)
  BY <1>1, <1>5, FirstOfStream
<1>7. Delivery(u, bs[1], es[1])
  BY <1>1, <1>6 DEF Flows
<1>8. DeliveredAs(u, Copies(Parse(x)), es[1]) /\ a = FlattenSeq(tb)
  BY <1>6, <1>7
<1>9. Flows(u, tb, te) /\ (AllDelivered(u, bs, es) => AllDelivered(u, tb, te))
  BY <1>1, <1>6, FlowsFrom
<1>10. /\ es[1] \in Seq(Note) /\ F \in Seq(Note) /\ FlattenSeq(es) = es[1] \o F
  <2>1. es # <<>>
    BY <1>2, <1>6, EmptySeq
  <2> QED BY <1>2, <2>1, FlattenFirst
<1>11. a \in Seq(D) /\ <<>> \o a = a
  BY ConcatEmptySeq
<1>12. Ending(<<>>)
  BY EmptySeq DEF Ending
<1> HIDE DEF tb, te, F
<1>13. ASSUME NEW o, o \o F = own \o (es[1] \o F)
       PROVE  Streams(u, a, o, expected, lossless)
  <2>1. Among(o \o F, expected)
    BY <1>1, <1>10, <1>13
  <2>2. lossless => <<>> = <<>> /\ AllDelivered(u, tb, te) /\ o \o F = expected
    BY <1>1, <1>9, <1>10, <1>13
  <2>3. a = <<>> \o FlattenSeq(tb)
    BY <1>8, <1>11
  <2> QED BY <1>9, <1>12, <2>1, <2>2, <2>3 DEF Streams, F
<1>14. CASE Copies(Parse(x)) = <<>> /\ es[1] = <<>>
  <2>1. <<>> \o F = F
    BY <1>10, ConcatEmptySeq
  <2>2. own \o F = own \o (es[1] \o F)
    BY <1>14, <2>1
  <2> QED BY <1>13, <1>14, <2>2 DEF Accepted
<1>15. ASSUME NEW m \in Seq(Inner), Copies(Parse(x)) = Append(m, Nul), ~Unreadable(m),
              es[1] = <<ReadEvent(m)>>, ReadEvent(m).owner = ReceivedValue(<<u>>)
       PROVE  Accepted(u, Copies(Parse(x)), a, own, expected, lossless)
  <2> DEFINE e == ReadEvent(m)
  <2>1. e \in Note
    BY DEF Note
  <2> HIDE DEF e
  <2>2. Append(own, e) = own \o <<e>> /\ <<e>> \in Seq(Note)
    BY <2>1, AppendIsConcat
  <2>3. (own \o <<e>>) \o F = own \o (<<e>> \o F)
    BY <1>10, <2>2, ConcatAssociative
  <2>4. Append(own, e) \o F = own \o (es[1] \o F)
    BY <1>15, <2>2, <2>3 DEF e
  <2>5. Streams(u, a, Append(own, e), expected, lossless)
    BY <1>13, <2>4
  <2> QED BY <1>15, <2>5 DEF Accepted, e
<1> QED BY <1>8, <1>14, <1>15 DEF DeliveredAs

-----------------------------------------------------------------------------
(* What becomes of the frame of a plain event *)

(* The server takes off the slash and the white space at the end. *)
LEMMA TopicOfChannel ==
  ASSUME NEW channel, Characters(channel) \in Seq(LineInner)
  PROVE  /\ Topic(channel) \in Seq(LineInner)
         /\ Unslashed(Trim(<<Slash>> \o Characters(channel))) = Topic(channel)
<1> DEFINE c == Characters(channel)
           l == <<Slash>>
           s == l \o c
           t == Trim(s)
<1>1. Slash \in LineInner /\ Slash \notin White
  <2>1. Slash \in LineInner
    BY LineInnerLetters
  <2> QED BY <2>1 DEF Slash, White, Newline, Blank
<1>2. l \in Seq(LineInner) /\ Len(l) = 1 /\ l[1] = Slash
  BY <1>1
<1> HIDE DEF l, c
<1>3. c \in Seq(LineInner)
  BY DEF c
<1>4. s \in Seq(LineInner) /\ Len(s) \in Nat /\ Len(s) >= 1 /\ s[1] = Slash
  <2>1. /\ l \o c \in Seq(LineInner) /\ Len(l \o c) = Len(l) + Len(c)
        /\ \A i \in 1..(Len(l) + Len(c)) : (l \o c)[i] = IF i <= Len(l) THEN l[i] ELSE c[i - Len(l)]
    BY <1>2, <1>3, ConcatProperties
  <2>2. Len(c) \in Nat
    BY <1>3, LenProperties
  <2>3. 1 \in 1..(1 + Len(c))
    BY <2>2
  <2> QED BY <1>2, <2>1, <2>2, <2>3
<1> HIDE DEF s
<1>5. \E n \in 1..Len(s) : t = SubSeq(s, 1, n)
  <2>1. 1 \in 1..Len(s)
    BY <1>4
  <2>2. PICK m \in 1..Len(s), n \in 1..Len(s) :
          /\ m <= n /\ \A i \in 1..(m - 1) : s[i] \in White
          /\ t = SubSeq(s, m, n)
    BY <1>1, <1>4, <2>1, TrimValue
  <2>3. m = 1
    <3>1. m # 1 => 1 \in 1..(m - 1)
      BY <1>4
    <3> QED BY <1>1, <1>4, <2>2, <3>1
  <2> QED BY <2>2, <2>3
<1>6. t \in Seq(LineInner) /\ t # <<>> /\ t[1] = Slash
  <2>1. PICK n \in 1..Len(s) : t = SubSeq(s, 1, n)
    BY <1>5
  <2> HIDE DEF t
  <2>2. 1 \in Nat \ {0} /\ n \in Int /\ n <= Len(s) /\ 1 <= n /\ 1 \in 1..(n - 1 + 1)
    BY <1>4
  <2> DEFINE x == SubSeq(s, 1, n)
  <2>3. /\ x \in Seq(LineInner) /\ Len(x) = (IF 1 <= n THEN n - 1 + 1 ELSE 0)
        /\ \A i \in 1..(n - 1 + 1) : x[i] = s[1 + i - 1]
    BY <1>4, <2>2, PartType
  <2> HIDE DEF x
  <2>4. x[1] = Slash
    BY <1>4, <2>2, <2>3
  <2>5. x # <<>>
    <3>1. Len(<<>>) = 0
      OBVIOUS
    <3> QED BY <2>2, <2>3, <3>1
  <2> QED BY <2>1, <2>3, <2>4, <2>5 DEF x
<1>7. Tail(t) \in Seq(LineInner)
  <2> HIDE DEF t
  <2> QED BY <1>6, HeadTailProperties
<1>8. Topic(channel) = Tail(t)
  BY DEF Topic, t, s, l, c
<1>9. Unslashed(t) = Tail(t)
  <2> HIDE DEF t
  <2> QED BY <1>6 DEF Unslashed
<1> QED BY <1>7, <1>8, <1>9 DEF t, s, l, c

(* What the receiver should get of an event *)
Notice(u, channel, event) == IF Topic(channel) \in Topics THEN <<AsReceived(u, event)>> ELSE <<>>

LEMMA PlainDelivery ==
  ASSUME NEW u \in User, NEW channel \in Seq(Payload), OneLine(channel),
         NEW event \in Event, PlainEvent(event)
  PROVE  Delivery(u, Characters(SendText(<<u>>, channel, event)), Notice(u, channel, event))
<1> DEFINE c == Characters(channel)
           R == FrameBody(u, event)
           x == Lines(SendHead(c)) \o R
           body == Trim(R)
           t == Trim(<<Slash>> \o c)
           topic == Topic(channel)
           m == MessageBody(topic, body)
           e == Notice(u, channel, event)
           frame == Parse(x)
<1>1. channel \in Text
  BY LineLetters, SeqMonotonic DEF Text
<1>2. c \in Seq(LineInner)
  BY <1>1, OneLineCharacters
<1>3. Characters(SendText(<<u>>, channel, event)) = Append(x, Nul)
  BY DecodedFrame
<1>4. /\ R \in Seq(Inner) /\ R # <<>> /\ R[1] \notin White
  BY FrameBodyRead
<1>5. body \in Seq(Inner) /\ body # <<>>
  <2> DEFINE a == Lines(DecodedLines(ForeLines(u, event)))
             z == ReceivedTail(event.description)
  <2>1. a \in Seq(Inner) /\ z \in Seq(Inner) /\ body = a \o z
    BY FrameBodyRead
  <2>2. z # <<>>
    BY ForeType, TailCut DEF PlainEvent
  <2> HIDE DEF a, z, body
  <2>3. a \o z \in Seq(Inner) /\ a \o z # <<>>
    BY <2>1, <2>2, LastOfWhole
  <2> QED BY <2>1, <2>3
<1>6. topic \in Seq(LineInner) /\ Unslashed(t) = topic
  BY <1>2, TopicOfChannel
<1>7. x \in Seq(Inner) /\ frame = SendFrame(c, body)
  <2> HIDE DEF c, R
  <2> QED BY <1>2, <1>4, ParseSend
<1>8. /\ frame.command = "SEND" /\ frame.body = body
      /\ Destination \in DOMAIN frame.headers /\ frame.headers[Destination] = t
  <2>1. frame = [command |-> "SEND", headers |-> [key \in {Destination} |-> t], body |-> body]
    BY <1>7 DEF SendFrame
  <2> HIDE DEF frame, t, body
  <2> QED BY <2>1
<1>9. frame # Malformed
  <2>1. Malformed.command = "none"
    BY DEF Malformed
  <2> QED BY <1>8, <2>1
<1>10. ReadEvent(m) = AsReceived(u, event) /\ ~Unreadable(m)
  <2>1. IsMessage(GetLines(m, Newline), u, event, ReceivedHeading(event.description),
                  ReceivedText(event.description))
    BY <1>6, MessageRead
  <2> HIDE DEF m
  <2> QED BY <2>1, ReadMessage
<1>11. m \in Seq(Inner) /\ MessageText(topic, body) = Append(m, Nul)
  <2>1. topic \in Seq(Inner)
    BY <1>6, LineInnerLetters, SeqMonotonic
  <2> QED BY <1>5, <2>1, MessageType
<1> HIDE DEF m, frame, body, t, x
<1>12. Copies(frame) = IF topic \in Topics THEN Append(m, Nul) ELSE <<>>
  <2> HIDE DEF topic
  <2> QED BY <1>5, <1>6, <1>8, <1>11 DEF Copies
<1>13. DeliveredAs(u, Copies(frame), e)
  <2>1. AsReceived(u, event).owner = ReceivedValue(<<u>>)
    BY DEF AsReceived
  <2>2. e = IF topic \in Topics THEN <<ReadEvent(m)>> ELSE <<>>
    BY <1>10 DEF Notice
  <2> HIDE DEF topic, e
  <2>3. CASE topic \in Topics
    BY <1>10, <1>11, <1>12, <2>1, <2>2, <2>3 DEF DeliveredAs
  <2>4. CASE topic \notin Topics
    BY <1>12, <2>2, <2>4 DEF DeliveredAs
  <2> QED BY <2>3, <2>4
<1> QED BY <1>3, <1>7, <1>9, <1>13 DEF Delivery, frame

-----------------------------------------------------------------------------
(* Flattened sequences *)

(* Sequences of one element each, and empty ones *)
Ones(s) == [i \in DOMAIN s |-> <<s[i]>>]

LEMMA OnesType ==
  ASSUME NEW S, NEW s \in Seq(S)
  PROVE  Ones(s) \in Seq(Seq(S)) /\ Len(Ones(s)) = Len(s) /\ \A i \in 1..Len(s) : Ones(s)[i] = <<s[i]>>
<1> DEFINE T == Seq(S)
           n == Len(s)
           d == Ones(s)
<1>1. n \in Nat /\ DOMAIN s = 1..n
  BY LenProperties
<1>2. \A i \in 1..n : <<s[i]>> \in T
  BY ElementOfSeq
<1>3. d = [i \in 1..n |-> <<s[i]>>]
  BY <1>1 DEF Ones
<1> HIDE DEF T, n, d
<1>4. d \in [1..n -> T] /\ \A i \in 1..n : d[i] = <<s[i]>>
  BY <1>2, <1>3
<1>5. d \in Seq(T) /\ Len(d) = n
  BY <1>1, <1>4
<1> QED BY <1>4, <1>5 DEF T, n, d

LEMMA OnesAppend ==
  ASSUME NEW S, NEW s \in Seq(S), NEW e \in S
  PROVE  Ones(Append(s, e)) = Append(Ones(s), <<e>>)
<1> DEFINE T == Seq(S)
           n == Len(s)
           a == Append(s, e)
           one == <<e>>
           d == Ones(s)
           g == Ones(a)
           f == Append(d, one)
<1>1. /\ d \in Seq(T) /\ Len(d) = n /\ \A i \in 1..n : d[i] = <<s[i]>>
  BY OnesType
<1>2. one \in T /\ n \in Nat
  BY LenProperties
<1>3. /\ a \in Seq(S) /\ Len(a) = n + 1 /\ \A i \in 1..n : a[i] = s[i]
      /\ a[n + 1] = e
  BY AppendProperties, LenProperties
<1>4. /\ g \in Seq(T) /\ Len(g) = n + 1 /\ \A i \in 1..(n + 1) : g[i] = <<a[i]>>
  <2> HIDE DEF a
  <2> QED BY <1>3, OnesType
<1>5. /\ f \in Seq(T) /\ Len(f) = n + 1 /\ \A i \in 1..n : f[i] = d[i]
      /\ f[n + 1] = one
  <2> HIDE DEF d, n, T, one
  <2> QED BY <1>1, <1>2, AppendProperties, LenProperties
<1> HIDE DEF a, d, g, f, n, T
<1>6. ASSUME NEW i \in 1..(n + 1) PROVE g[i] = f[i]
  <2>1. CASE i = n + 1
    BY <1>3, <1>4, <1>5, <2>1
  <2>2. CASE i \in 1..n
    BY <1>1, <1>3, <1>4, <1>5, <2>2
  <2> QED BY <1>2, <2>1, <2>2
<1>7. g = f
  BY <1>4, <1>5, <1>6, SeqEqual
<1> QED BY <1>7 DEF a, d, g, f

LEMMA FlattenOnes ==
  ASSUME NEW S, NEW s \in Seq(S)
  PROVE  FlattenSeq(Ones(s)) = s
<1> DEFINE P == {t \in Seq(S) : FlattenSeq(Ones(t)) = t}
<1>1. <<>> \in P
  <2>1. <<>> \in Seq(S) /\ Len(<<>>) = 0
    BY EmptySeq
  <2>2. Ones(<<>>) \in Seq(Seq(S)) /\ Len(Ones(<<>>)) = 0
    BY <2>1, OnesType
  <2>3. Ones(<<>>) = <<>>
    BY <2>2, EmptySeq
  <2> QED BY <2>1, <2>3, FlattenEmpty
<1>2. ASSUME NEW t \in P, NEW e \in S PROVE Append(t, e) \in P
  <2> DEFINE one == <<e>>
  <2>1. t \in Seq(S) /\ FlattenSeq(Ones(t)) = t
    OBVIOUS
  <2>2. Append(t, e) \in Seq(S) /\ Append(t, e) = t \o one /\ one \in Seq(S)
    BY <2>1, AppendProperties, AppendIsConcat
  <2>3. Ones(Append(t, e)) = Append(Ones(t), one) /\ Ones(t) \in Seq(Seq(S))
    BY <2>1, OnesAppend, OnesType
  <2> HIDE DEF one
  <2>4. FlattenSeq(Append(Ones(t), one)) = FlattenSeq(Ones(t)) \o one
    BY <2>2, <2>3, FlattenAppend
  <2> QED BY <2>1, <2>2, <2>3, <2>4
<1>3. P = Seq(S)
  <2>1. P \in SUBSET Seq(S)
    OBVIOUS
  <2> HIDE DEF P
  <2> QED BY <1>1, <1>2, <2>1, Sequences
<1> QED BY <1>3

LEMMA FlattenNone ==
  ASSUME NEW T, NEW s \in Seq(T), \A i \in 1..Len(s) : s[i] = <<>>
  PROVE  FlattenSeq(s) = <<>>
<1> DEFINE Q == {<<>>}
<1>1. s \in Seq(Q)
  <2>1. Len(s) \in Nat /\ s \in [1..Len(s) -> Q]
    BY LenProperties
  <2> HIDE DEF Q
  <2> QED BY <2>1
<1>2. Q \in SUBSET Seq({}) /\ <<>> \in Q
  BY EmptySeq
<1>3. \A x, y \in Q : x \o y \in Q
  <2>1. <<>> \in Seq({}) /\ <<>> \o <<>> = <<>>
    BY EmptySeq, ConcatEmptySeq
  <2> QED BY <2>1
<1>4. FlattenSeq(s) \in Q
  <2> HIDE DEF Q
  <2> QED BY <1>1, <1>2, <1>3, FlattenClosed
<1> QED BY <1>4

(* The first frame of a text, decoded *)
LEMMA DecodedFirst ==
  ASSUME NEW c \in Text, Ends(c) # 0
  PROVE  LET x == Characters(SubSeq(c, 1, Ends(c) - 1))
             t == Characters(SubSeq(c, Ends(c) + 1, Len(c)))
         IN  /\ x \in Seq(Inner) /\ t \in Seq(DecodedLetter)
             /\ Characters(c) = Append(x, Nul) \o t
<1> DEFINE n == Ends(c)
           a == SubSeq(c, 1, n - 1)
           b == SubSeq(c, n + 1, Len(c))
<1>1. /\ c \in Seq(Letter) /\ Len(c) \in Nat
      /\ n \in 1..Len(c) /\ c[n] = Nul /\ \A i \in 1..(n - 1) : c[i] # Nul
  <2>1. c \in Seq(Letter) /\ Len(c) \in Nat
    BY LenProperties DEF Text
  <2>2. n \in 0..Len(c) /\ c[n] = Nul /\ \A i \in 1..(n - 1) : c[i] # Nul
    BY <2>1, EndsProperties
  <2> QED BY <2>1, <2>2
<1> HIDE DEF n
<1>2. a \in Seq(Letter) /\ Len(a) = n - 1 /\ \A i \in 1..(n - 1) : a[i] = c[i]
  <2>1. 1 \in Nat \ {0} /\ n - 1 \in Int /\ n - 1 <= Len(c)
    BY <1>1
  <2> DEFINE k == n - 1
  <2>2. /\ SubSeq(c, 1, k) \in Seq(Letter)
        /\ Len(SubSeq(c, 1, k)) = (IF 1 <= k THEN k - 1 + 1 ELSE 0)
        /\ \A i \in 1..(k - 1 + 1) : SubSeq(c, 1, k)[i] = c[1 + i - 1]
    <3> HIDE DEF k
    <3> QED BY <1>1, <2>1, PartType DEF k
  <2> HIDE DEF a
  <2>3. a = SubSeq(c, 1, k)
    BY DEF a
  <2>4. Len(a) = k
    BY <1>1, <2>2, <2>3
  <2>5. \A i \in 1..k : i \in 1..(k - 1 + 1) /\ 1 + i - 1 = i
    BY <1>1
  <2> QED BY <2>2, <2>3, <2>4, <2>5
<1>3. b \in Text
  <2>1. n + 1 \in Nat \ {0} /\ Len(c) \in Int /\ Len(c) <= Len(c)
    BY <1>1
  <2> DEFINE k == n + 1
  <2> HIDE DEF k
  <2>2. SubSeq(c, k, Len(c)) \in Seq(Letter)
    BY <1>1, <2>1, PartType DEF k
  <2> QED BY <2>2 DEF k, Text
<1>4. c = Append(a, Nul) \o b
  <2>1. c = SubSeq(c, 1, n) \o b
    <3>1. n \in 0..Len(c)
      BY <1>1
    <3> QED BY <1>1, <3>1, CutAt
  <2>2. SubSeq(c, 1, n) = Append(a, c[n])
    <3>1. 1 \in 1..Len(c) /\ n \in 1..Len(c) /\ c \in Seq(Letter)
      BY <1>1
    <3> QED BY <3>1, SubSeqRecursiveSecond
  <2> QED BY <1>1, <2>1, <2>2
<1> HIDE DEF a, b
<1>5. a \in Text /\ \A i \in 1..Len(a) : a[i] # Nul
  BY <1>1, <1>2 DEF Text
<1>6. Characters(a) \in Seq(Inner)
  BY <1>5, InnerCharacters
<1>7. Characters(b) \in Seq(DecodedLetter)
  <2>1. {} \in SUBSET Word /\ \A i \in 1..Len(b) : b[i] \notin {}
    OBVIOUS
  <2>2. Characters(b) \in Seq(DecodedLetter \ {})
    BY <1>3, <2>1, CharactersFree
  <2>3. DecodedLetter \ {} = DecodedLetter
    OBVIOUS
  <2> QED BY <2>2, <2>3
<1>8. Characters(c) = Append(Characters(a), Nul) \o Characters(b)
  <2>1. Nul \in Letter /\ DecodedChar(Nul) = Nul
    <3>1. Nul \in Word /\ Word \subseteq Letter
      BY Letters
    <3> QED BY <3>1, DecodedLetters
  <2> DEFINE an == Append(a, Nul)
  <2>2. an \in Text
    BY <1>5, <2>1, AppendProperties DEF Text
  <2>3. Characters(an) = Append(Characters(a), Nul)
    BY <1>5, <2>1, CharactersAppend
  <2> HIDE DEF an
  <2>4. Characters(an \o b) = Characters(an) \o Characters(b)
    BY <1>3, <2>2, CharactersConcat
  <2> QED BY <1>4, <2>3, <2>4 DEF an
<1> QED BY <1>6, <1>7, <1>8 DEF a, b, n

-----------------------------------------------------------------------------
(* What becomes of a report *)

Clear(user, file) == Plain(file) \/ <<user, file>> \in Refused

(* What the receiver should get of each event of a file *)
Notices(user, file) ==
  [i \in DOMAIN Events(file) |-> Notice(user, Content(file).channel, Events(file)[i])]

LEMMA NoticesType ==
  ASSUME NEW u \in User, NEW file \in File
  PROVE  /\ Notices(u, file) \in Seq(Seq(Note)) /\ Len(Notices(u, file)) = Len(Events(file))
         /\ \A i \in 1..Len(Events(file)) :
              Notices(u, file)[i] = Notice(u, Content(file).channel, Events(file)[i])
         /\ Arriving[<<u, file>>] = FlattenSeq(Notices(u, file))
         /\ Arriving[<<u, file>>] \in Seq(Note)
<1> DEFINE es == Events(file)
           n == Len(es)
           topic == Topic(Content(file).channel)
           s == Notices(u, file)
           r == [i \in DOMAIN es |-> AsReceived(u, es[i])]
           T == Seq(Note)
<1>1. es \in Seq(Event) /\ n \in Nat /\ DOMAIN es = 1..n
  BY EventsType, LenProperties
<1>2. \A i \in 1..n : AsReceived(u, es[i]) \in Note
  <2>1. \A i \in 1..n : es[i] \in Event
    BY <1>1, ElementOfSeq
  <2> QED BY <2>1 DEF Note
<1>3. /\ s = [i \in 1..n |-> IF topic \in Topics THEN <<AsReceived(u, es[i])>> ELSE <<>>]
      /\ r = [i \in 1..n |-> AsReceived(u, es[i])]
  BY <1>1 DEF Notices, Notice
<1>4. r \in Seq(Note) /\ Len(r) = n /\ \A i \in 1..n : r[i] = AsReceived(u, es[i])
  <2> HIDE DEF r, n
  <2>1. r \in [1..n -> Note]
    BY <1>2, <1>3
  <2> QED BY <1>1, <1>3, <2>1
<1>5. s \in Seq(T) /\ Len(s) = n
  <2> HIDE DEF s, n
  <2>1. s \in [1..n -> T]
    BY <1>2, <1>3
  <2> HIDE DEF T
  <2> QED BY <1>1, <2>1
<1>6. \A i \in 1..n : s[i] = Notice(u, Content(file).channel, es[i])
  <2> HIDE DEF s
  <2> QED BY <1>3 DEF Notice
<1>7. Arriving[<<u, file>>] = IF topic \in Topics THEN r ELSE <<>>
  BY DEF Arriving, Forwarded
<1>8. CASE topic \in Topics
  <2>1. s = Ones(r)
    <3>1. DOMAIN r = 1..n
      BY <1>3
    <3> HIDE DEF r, n, s
    <3> QED BY <1>3, <1>4, <1>8, <3>1 DEF Ones
  <2>2. FlattenSeq(Ones(r)) = r
    <3> HIDE DEF r
    <3> QED BY <1>4, FlattenOnes
  <2> HIDE DEF r, s
  <2> QED BY <1>4, <1>5, <1>6, <1>7, <1>8, <2>1, <2>2 DEF s
<1>9. CASE topic \notin Topics
  <2>1. \A i \in 1..Len(s) : s[i] = <<>>
    <3> HIDE DEF s, n
    <3> QED BY <1>3, <1>5, <1>9
  <2>2. FlattenSeq(s) = <<>>
    <3> HIDE DEF s, T
    <3> QED BY <1>5, <2>1, FlattenNone
  <2>3. <<>> \in Seq(Note)
    BY EmptySeq
  <2> HIDE DEF s
  <2> QED BY <1>5, <1>6, <1>7, <1>9, <2>2, <2>3 DEF s
<1> QED BY <1>8, <1>9

LEMMA FrameRefused ==
  ASSUME NEW u \in User, NEW file \in File, <<u, file>> \in Refused,
         NEW i \in 1..Len(Events(file))
  PROVE  Refusal(Characters(FrameOf(u, file, i)))
<1> DEFINE c == FrameOf(u, file, i)
           x == Characters(SubSeq(c, 1, Ends(c) - 1))
           t == Characters(SubSeq(c, Ends(c) + 1, Len(c)))
<1>1. /\ Content(file).channel \in Seq(Payload) /\ Events(file) \in Seq(Event)
      /\ DOMAIN Events(file) = 1..Len(Events(file)) /\ Events(file)[i] \in Event
  BY EventsType, LenProperties, ElementOfSeq
<1>2. Whole(c)
  BY <1>1, FrameShape DEF FrameOf
<1>3. c \in Text /\ Ends(c) # 0
  <2>1. c \in Text /\ c[Len(c)] = Nul /\ Len(c) > 0
    BY <1>2 DEF Whole
  <2> HIDE DEF c
  <2>2. c \in Seq(Letter) /\ Len(c) \in 1..Len(c)
    BY <2>1, LenProperties DEF Text
  <2>3. Ends(c) = 0 => \A j \in 1..Len(c) : c[j] # Nul
    BY <2>2, EndsProperties
  <2> QED BY <2>1, <2>2, <2>3
<1>4. Parse(x) = Malformed
  <2>1. \A j \in DOMAIN Events(file) : Parse(Decoded(u, file, j)) = Malformed
    BY DEF Refused
  <2>2. Decoded(u, file, i) = x
    BY DEF Decoded, FrameOf
  <2> QED BY <1>1, <2>1, <2>2
<1> HIDE DEF c
<1>5. /\ x \in Seq(Inner) /\ t \in Seq(DecodedLetter)
      /\ Characters(c) = Append(x, Nul) \o t
  BY <1>3, DecodedFirst
<1> QED BY <1>4, <1>5 DEF Refusal, c

(* A report, as the server decodes it and the receiver should get it *)
IsReport(u, file, bs, es) ==
  /\ Flows(u, bs, es)
  /\ Characters(Frames[<<u, file>>]) = FlattenSeq(bs)
  /\ Arriving[<<u, file>>] = FlattenSeq(es)
  /\ Plain(file) => AllDelivered(u, bs, es)

LEMMA ReportFlows ==
  ASSUME NEW u \in User, NEW file \in File, Clear(u, file)
  PROVE  IsReport(u, file, DecodedLines(FramesOf(u, file)), Notices(u, file))
<1> DEFINE fs == FramesOf(u, file)
           bs == DecodedLines(fs)
           es == Notices(u, file)
           n == Len(Events(file))
           channel == Content(file).channel
<1>1. /\ channel \in Seq(Payload) /\ Events(file) \in Seq(Event) /\ n \in Nat
      /\ DOMAIN Events(file) = 1..n
  BY EventsType, LenProperties
<1>2. \A i \in 1..n : Events(file)[i] \in Event
  BY <1>1, ElementOfSeq
<1>3. /\ fs \in Seq(Text) /\ Len(fs) = n /\ \A i \in 1..n : fs[i] = FrameOf(u, file, i)
      /\ Frames[<<u, file>>] = FlattenSeq(fs)
  BY FramesType
<1>4. /\ es \in Seq(Seq(Note)) /\ Len(es) = n
      /\ \A i \in 1..n : es[i] = Notice(u, channel, Events(file)[i])
      /\ Arriving[<<u, file>>] = FlattenSeq(es)
  BY NoticesType
<1> HIDE DEF fs, es, n
<1>5. bs \in Seq(Text) /\ Len(bs) = n /\ \A i \in 1..n : bs[i] = Characters(FrameOf(u, file, i))
  BY <1>3, DecodedLinesType
<1>6. Characters(Frames[<<u, file>>]) = FlattenSeq(bs)
  BY <1>3, CharactersFlatten
<1> HIDE DEF bs
<1>7. ASSUME NEW i \in 1..n PROVE bs[i] \in WholeFrame
  <2>1. Whole(FrameOf(u, file, i))
    BY <1>1, <1>2, FrameShape DEF FrameOf
  <2>2. Whole(Characters(FrameOf(u, file, i))) /\ Characters(FrameOf(u, file, i)) \in Seq(DecodedLetter)
    BY <2>1, WholeCharacters
  <2> QED BY <1>5, <2>2 DEF WholeFrame
<1>8. bs \in Seq(WholeFrame)
  <2>1. bs \in [1..n -> WholeFrame]
    <3>1. Len(bs) \in Nat /\ bs \in [1..Len(bs) -> Text]
      BY <1>5, LenProperties
    <3> QED BY <1>5, <1>7, <3>1
  <2> QED BY <1>1, <2>1
<1>9. ASSUME Plain(file), NEW i \in 1..n PROVE Delivery(u, bs[i], es[i])
  <2>1. OneLine(channel)
    <3>1. Events(file) # <<>>
      <4>1. Len(<<>>) = 0
        OBVIOUS
      <4> QED BY <1>1, <4>1 DEF n
    <3> QED BY <1>9, <3>1 DEF Plain
  <2>2. PlainEvent(Events(file)[i]) /\ Events(file)[i] \in Event
    BY <1>1, <1>2, <1>9 DEF Plain
  <2>3. Delivery(u, Characters(SendText(<<u>>, channel, Events(file)[i])),
                 Notice(u, channel, Events(file)[i]))
    <3> DEFINE e == Events(file)[i]
    <3> HIDE DEF e, channel
    <3> QED BY <1>1, <2>1, <2>2, PlainDelivery DEF e
  <2> QED BY <1>4, <1>5, <2>3 DEF FrameOf
<1>10. ASSUME <<u, file>> \in Refused, NEW i \in 1..n PROVE Refusal(bs[i])
  BY <1>5, <1>10, FrameRefused DEF n
<1>11. Flows(u, bs, es)
  BY <1>4, <1>5, <1>8, <1>9, <1>10 DEF Flows, Clear
<1>12. Plain(file) => AllDelivered(u, bs, es)
  BY <1>5, <1>9 DEF AllDelivered
<1> QED BY <1>4, <1>6, <1>11, <1>12 DEF IsReport, bs, es, fs

-----------------------------------------------------------------------------
(* Streams that grow, and what they say *)

LEMMA FlowsConcat ==
  ASSUME NEW u, NEW bs, NEW es, Flows(u, bs, es), NEW cs, NEW fs, Flows(u, cs, fs)
  PROVE  /\ Flows(u, bs \o cs, es \o fs)
         /\ AllDelivered(u, bs, es) /\ AllDelivered(u, cs, fs)
              => AllDelivered(u, bs \o cs, es \o fs)
<1> DEFINE T == Seq(Note)
           m == Len(bs)
           n == Len(cs)
           b == bs \o cs
           e == es \o fs
<1>1. /\ bs \in Seq(WholeFrame) /\ cs \in Seq(WholeFrame) /\ es \in Seq(T) /\ fs \in Seq(T)
      /\ Len(es) = m /\ Len(fs) = n /\ m \in Nat /\ n \in Nat
  <2>1. bs \in Seq(WholeFrame) /\ cs \in Seq(WholeFrame) /\ es \in Seq(T) /\ fs \in Seq(T)
        /\ Len(es) = m /\ Len(fs) = n
    BY DEF Flows
  <2> QED BY <2>1, LenProperties
<1>2. /\ \A i \in 1..m : Refusal(bs[i]) \/ Delivery(u, bs[i], es[i])
      /\ \A i \in 1..n : Refusal(cs[i]) \/ Delivery(u, cs[i], fs[i])
  BY DEF Flows
<1>3. /\ b \in Seq(WholeFrame) /\ Len(b) = m + n
      /\ \A i \in 1..(m + n) : b[i] = IF i <= m THEN bs[i] ELSE cs[i - m]
  BY <1>1, ConcatProperties
<1>4. /\ e \in Seq(T) /\ Len(e) = m + n
      /\ \A i \in 1..(m + n) : e[i] = IF i <= m THEN es[i] ELSE fs[i - m]
  <2> HIDE DEF T, m, n
  <2>1. /\ es \o fs \in Seq(T) /\ Len(es \o fs) = Len(es) + Len(fs)
        /\ \A i \in 1..(Len(es) + Len(fs)) : (es \o fs)[i] = IF i <= Len(es) THEN es[i] ELSE fs[i - Len(es)]
    BY <1>1, ConcatProperties
  <2> QED BY <1>1, <2>1
<1> HIDE DEF m, n, b, e, T
<1>5. ASSUME NEW i \in 1..(m + n)
      PROVE  \/ i \in 1..m /\ b[i] = bs[i] /\ e[i] = es[i]
             \/ i - m \in 1..n /\ b[i] = cs[i - m] /\ e[i] = fs[i - m]
  <2>1. CASE i <= m
    BY <1>1, <1>3, <1>4, <2>1
  <2>2. CASE ~(i <= m)
    <3>1. i - m \in 1..n
      BY <1>1, <2>2
    <3> QED BY <1>3, <1>4, <2>2, <3>1
  <2> QED BY <2>1, <2>2
<1>6. ASSUME NEW i \in 1..(m + n) PROVE Refusal(b[i]) \/ Delivery(u, b[i], e[i])
  BY <1>2, <1>5
<1>7. ASSUME AllDelivered(u, bs, es), AllDelivered(u, cs, fs), NEW i \in 1..(m + n)
      PROVE  Delivery(u, b[i], e[i])
  <2>1. /\ \A j \in 1..m : Delivery(u, bs[j], es[j])
        /\ \A j \in 1..n : Delivery(u, cs[j], fs[j])
    BY <1>7 DEF AllDelivered, m, n
  <2> QED BY <1>5, <2>1
<1>8. Flows(u, b, e)
  BY <1>3, <1>4, <1>6 DEF Flows, T
<1>9. AllDelivered(u, bs, es) /\ AllDelivered(u, cs, fs) => AllDelivered(u, b, e)
  BY <1>3, <1>7 DEF AllDelivered
<1> QED BY <1>8, <1>9 DEF b, e

(* More reports of a user *)
LEMMA StreamsReport ==
  ASSUME NEW u, NEW rest, NEW own \in Seq(Note), NEW expected \in Seq(Note), NEW lossless,
         Streams(u, rest, own, expected, lossless),
         NEW cs, NEW fs, Flows(u, cs, fs), NEW all, all => lossless /\ AllDelivered(u, cs, fs)
  PROVE  Streams(u, rest \o FlattenSeq(cs), own, expected \o FlattenSeq(fs), all)
<1> DEFINE D == DecodedLetter
           C == FlattenSeq(cs)
           F == FlattenSeq(fs)
<1>1. PICK p, bs, es :
        /\ Ending(p) /\ Flows(u, bs, es)
        /\ rest = p \o FlattenSeq(bs)
        /\ Among(own \o FlattenSeq(es), expected)
        /\ lossless => /\ p = <<>> /\ AllDelivered(u, bs, es)
                       /\ own \o FlattenSeq(es) = expected
  BY DEF Streams
<1> DEFINE B == FlattenSeq(bs)
           E == FlattenSeq(es)
<1>2. /\ bs \in Seq(Seq(D)) /\ B \in Seq(D) /\ es \in Seq(Seq(Note)) /\ E \in Seq(Note)
  BY <1>1, FlowsType
<1>3. /\ cs \in Seq(Seq(D)) /\ C \in Seq(D) /\ fs \in Seq(Seq(Note)) /\ F \in Seq(Note)
  BY FlowsType
<1>4. p \in Seq(D)
  BY <1>1, EndingType
<1>5. FlattenSeq(bs \o cs) = B \o C
  <2> HIDE DEF D
  <2> QED BY <1>2, <1>3, FlattenConcat
<1>6. FlattenSeq(es \o fs) = E \o F
  BY <1>2, <1>3, FlattenConcat
<1> HIDE DEF B, C, E, F, D
<1>7. rest \o C = p \o (B \o C)
  <2>1. (p \o B) \o C = p \o (B \o C)
    <3>1. p \in Seq(D) /\ B \in Seq(D) /\ C \in Seq(D)
      BY <1>2, <1>3, <1>4
    <3> QED BY <3>1, ConcatAssociative
  <2> QED BY <1>1, <2>1 DEF B
<1>8. own \o (E \o F) = (own \o E) \o F
  <2>1. own \in Seq(Note) /\ E \in Seq(Note) /\ F \in Seq(Note)
    BY <1>2, <1>3
  <2> QED BY <2>1, ConcatAssociative
<1>9. Among(own \o (E \o F), expected \o F)
  <2> DEFINE x == own \o E
  <2>1. x \in Seq(Note)
    BY <1>2, ConcatProperties
  <2>2. Among(x, expected)
    BY <1>1 DEF E
  <2> HIDE DEF x
  <2>3. Among(x \o F, expected \o F)
    BY <1>3, <2>1, <2>2, AmongConcat
  <2> QED BY <1>8, <2>3 DEF x
<1>10. Flows(u, bs \o cs, es \o fs)
  BY <1>1, FlowsConcat
<1>11. ASSUME all
       PROVE  p = <<>> /\ AllDelivered(u, bs \o cs, es \o fs) /\ own \o (E \o F) = expected \o F
  <2>1. p = <<>> /\ AllDelivered(u, bs, es) /\ AllDelivered(u, cs, fs) /\ own \o E = expected
    BY <1>1, <1>11 DEF E
  <2>2. AllDelivered(u, bs \o cs, es \o fs)
    BY <1>1, <2>1, FlowsConcat
  <2> QED BY <1>8, <2>1, <2>2
<1> QED BY <1>1, <1>5, <1>6, <1>7, <1>9, <1>10, <1>11 DEF Streams, C, F

(* Reports of a user whose thread has ended *)
LEMMA StreamsClosed ==
  ASSUME NEW u, NEW rest, NEW own \in Seq(Note), NEW expected \in Seq(Note), NEW lossless,
         Streams(u, rest, own, expected, lossless), NEW a \in Seq(Note)
  PROVE  Streams(u, rest, own, expected \o a, FALSE)
<1>1. PICK p, bs, es :
        /\ Ending(p) /\ Flows(u, bs, es)
        /\ rest = p \o FlattenSeq(bs)
        /\ Among(own \o FlattenSeq(es), expected)
  BY DEF Streams
<1> DEFINE E == FlattenSeq(es)
           x == own \o E
<1>2. E \in Seq(Note)
  BY <1>1, FlowsType
<1>3. Among(x, expected)
  BY <1>1
<1> HIDE DEF E
<1>4. x \in Seq(Note)
  BY <1>2, ConcatProperties
<1> HIDE DEF x
<1>5. Among(x, expected \o a)
  BY <1>3, <1>4, AmongLonger
<1> QED BY <1>1, <1>5 DEF Streams, x, E

LEMMA StreamsStart ==
  ASSUME NEW u, NEW lossless
  PROVE  Streams(u, <<>>, <<>>, <<>>, lossless)
<1>1. Ending(<<>>)
  BY EmptySeq DEF Ending
<1>2. <<>> \in Seq(Note) /\ <<>> \in Seq(Seq(Note)) /\ <<>> \in Seq(WholeFrame) /\ Len(<<>>) = 0
  BY EmptySeq
<1>3. Flows(u, <<>>, <<>>) /\ AllDelivered(u, <<>>, <<>>)
  BY <1>2 DEF Flows, AllDelivered
<1>4. <<>> \o <<>> = <<>>
  BY <1>2, ConcatEmptySeq
<1>5. Among(<<>>, <<>>)
  BY <1>2, AmongSelf
<1> QED BY <1>1, <1>3, <1>4, <1>5, FlattenEmpty DEF Streams

(* What a stream says of what has been received *)
LEMMA StreamsReceived ==
  ASSUME NEW u, NEW rest, NEW x \in Seq(Note), NEW y \in Seq(Note), NEW expected \in Seq(Note),
         NEW lossless, Streams(u, rest, x \o y, expected, lossless)
  PROVE  /\ Among(x, expected)
         /\ lossless => IsPrefix(x, expected)
         /\ lossless /\ rest \in Seq(Inner) => x \o y = expected
<1> DEFINE own == x \o y
<1>1. own \in Seq(Note)
  BY ConcatProperties
<1>2. PICK p, bs, es :
        /\ Ending(p) /\ Flows(u, bs, es)
        /\ rest = p \o FlattenSeq(bs)
        /\ Among(own \o FlattenSeq(es), expected)
        /\ lossless => /\ p = <<>> /\ AllDelivered(u, bs, es)
                       /\ own \o FlattenSeq(es) = expected
  BY DEF Streams
<1> DEFINE B == FlattenSeq(bs)
           E == FlattenSeq(es)
           z == y \o E
           D == DecodedLetter
<1>3. /\ bs \in Seq(Seq(D)) /\ B \in Seq(D) /\ E \in Seq(Note) /\ es \in Seq(Seq(Note))
      /\ Len(bs) \in Nat /\ Len(es) = Len(bs) /\ bs \in Seq(WholeFrame)
  BY <1>2, FlowsType DEF Flows
<1>4. lossless => own \o E = expected
  BY <1>2
<1>5. Among(own \o E, expected)
  BY <1>2
<1> HIDE DEF E
<1>6. own \o E = x \o z /\ z \in Seq(Note)
  <2>1. x \in Seq(Note) /\ y \in Seq(Note) /\ E \in Seq(Note)
    BY <1>3
  <2>2. (x \o y) \o E = x \o (y \o E)
    BY <2>1, ConcatAssociative
  <2>3. y \o E \in Seq(Note)
    BY <2>1, ConcatProperties
  <2> QED BY <2>2, <2>3
<1> HIDE DEF z
<1>7. Among(x, expected)
  BY <1>5, <1>6, AmongStart
<1>8. ASSUME lossless PROVE IsPrefix(x, expected)
  <2>1. expected = x \o z
    BY <1>4, <1>6, <1>8
  <2>2. /\ Len(x \o z) = Len(x) + Len(z) /\ Len(x) \in Nat /\ Len(z) \in Nat
    BY <1>6, ConcatProperties, LenProperties
  <2>3. SubSeq(x \o z, 1, Len(x)) = x
    BY <1>6, PartsOfConcat
  <2>4. SubSeq(x, 1, Len(x)) = x
    <3>1. 1 \in Nat \ {0} /\ Len(x) \in Int /\ Len(x) <= Len(x)
      BY <2>2
    <3> DEFINE s == SubSeq(x, 1, Len(x))
    <3>2. /\ s \in Seq(Note) /\ Len(s) = (IF 1 <= Len(x) THEN Len(x) - 1 + 1 ELSE 0)
          /\ \A i \in 1..(Len(x) - 1 + 1) : s[i] = x[1 + i - 1]
      BY <3>1, PartType
    <3> HIDE DEF s
    <3>3. Len(s) = Len(x)
      BY <2>2, <3>2
    <3>4. \A i \in 1..Len(x) : s[i] = x[i]
      <4>1. \A i \in 1..Len(x) : i \in 1..(Len(x) - 1 + 1) /\ 1 + i - 1 = i
        BY <2>2
      <4> QED BY <3>2, <4>1
    <3>5. s = x
      BY <3>2, <3>3, <3>4, SeqEqual
    <3> QED BY <3>5 DEF s
  <2> QED BY <2>1, <2>2, <2>3, <2>4 DEF IsPrefix
<1>9. ASSUME lossless, rest \in Seq(Inner) PROVE own = expected
  <2>1. rest = B
    <3>1. p = <<>> /\ rest = p \o B
      BY <1>2, <1>9
    <3> HIDE DEF B
    <3> QED BY <1>3, <3>1, ConcatEmptySeq
  <2>2. bs = <<>>
    <3> SUFFICES ASSUME bs # <<>> PROVE FALSE
      OBVIOUS
    <3> DEFINE b == bs[1]
               t == FlattenSeq(SubSeq(bs, 2, Len(bs)))
    <3>1. 1 \in 1..Len(bs) /\ b \in Seq(D) /\ t \in Seq(D) /\ B = b \o t
      BY <1>3, FlattenFirst
    <3>2. b \in WholeFrame
      BY <1>3, <3>1, ElementOfSeq
    <3> HIDE DEF b, t
    <3>3. Len(b) > 0 /\ b[Len(b)] = Nul /\ Len(b) \in Nat /\ Len(t) \in Nat
      BY <3>1, <3>2, LenProperties DEF WholeFrame, Whole
    <3>4. /\ Len(b \o t) = Len(b) + Len(t)
          /\ \A i \in 1..(Len(b) + Len(t)) : (b \o t)[i] = IF i <= Len(b) THEN b[i] ELSE t[i - Len(b)]
      BY <3>1, ConcatProperties
    <3>5. Len(b) \in 1..(Len(b) + Len(t))
      BY <3>3
    <3>6. rest[Len(b)] = Nul /\ Len(b) \in 1..Len(rest)
      BY <2>1, <3>1, <3>3, <3>4, <3>5
    <3>7. rest[Len(b)] \in Inner
      BY <1>9, <3>6, ElementOfSeq
    <3> QED BY <3>6, <3>7 DEF Inner
  <2>3. Len(bs) = 0
    BY <2>2
  <2>4. es = <<>>
    BY <1>3, <2>3, EmptySeq
  <2>5. E = <<>>
    BY <2>4, FlattenEmpty DEF E
  <2>6. own \o <<>> = own
    BY <1>1, ConcatEmptySeq
  <2> QED BY <1>4, <1>9, <2>5, <2>6
<1> QED BY <1>7, <1>8, <1>9

-----------------------------------------------------------------------------
(* What has been reported *)

(* What the receiver should get of some files *)
ArrivalsOf(u, files) == [i \in DOMAIN files |-> Arriving[<<u, files[i]>>]]

LEMMA ArrivalsType ==
  ASSUME NEW u \in User, NEW files \in Seq(File)
  PROVE  /\ ArrivalsOf(u, files) \in Seq(Seq(Note)) /\ Len(ArrivalsOf(u, files)) = Len(files)
         /\ \A i \in 1..Len(files) : ArrivalsOf(u, files)[i] = Arriving[<<u, files[i]>>]
<1> DEFINE T == Seq(Note)
           n == Len(files)
           d == ArrivalsOf(u, files)
<1>1. n \in Nat /\ DOMAIN files = 1..n
  BY LenProperties
<1>2. \A i \in 1..n : Arriving[<<u, files[i]>>] \in T
  BY ElementOfSeq, NoticesType
<1>3. d = [i \in 1..n |-> Arriving[<<u, files[i]>>]]
  BY <1>1 DEF ArrivalsOf
<1> HIDE DEF T, n, d
<1>4. d \in [1..n -> T] /\ \A i \in 1..n : d[i] = Arriving[<<u, files[i]>>]
  BY <1>2, <1>3
<1>5. d \in Seq(T) /\ Len(d) = n
  BY <1>1, <1>4
<1> QED BY <1>4, <1>5 DEF T, n, d

LEMMA ArrivalsAppend ==
  ASSUME NEW u \in User, NEW files \in Seq(File), NEW file \in File
  PROVE  ArrivalsOf(u, Append(files, file)) = Append(ArrivalsOf(u, files), Arriving[<<u, file>>])
<1> DEFINE T == Seq(Note)
           n == Len(files)
           a == Append(files, file)
           one == Arriving[<<u, file>>]
           d == ArrivalsOf(u, files)
           g == ArrivalsOf(u, a)
           f == Append(d, one)
<1>1. /\ d \in Seq(T) /\ Len(d) = n /\ \A i \in 1..n : d[i] = Arriving[<<u, files[i]>>]
  BY ArrivalsType
<1>2. one \in T /\ n \in Nat
  BY LenProperties, NoticesType
<1>3. /\ a \in Seq(File) /\ Len(a) = n + 1 /\ \A i \in 1..n : a[i] = files[i]
      /\ a[n + 1] = file
  BY AppendProperties, LenProperties
<1>4. /\ g \in Seq(T) /\ Len(g) = n + 1 /\ \A i \in 1..(n + 1) : g[i] = Arriving[<<u, a[i]>>]
  <2> HIDE DEF a
  <2> QED BY <1>3, ArrivalsType
<1>5. /\ f \in Seq(T) /\ Len(f) = n + 1 /\ \A i \in 1..n : f[i] = d[i]
      /\ f[n + 1] = one
  <2> HIDE DEF d, n, T, one
  <2> QED BY <1>1, <1>2, AppendProperties, LenProperties
<1> HIDE DEF a, d, g, f, n, T
<1>6. ASSUME NEW i \in 1..(n + 1) PROVE g[i] = f[i]
  <2>1. CASE i = n + 1
    BY <1>2, <1>3, <1>4, <1>5, <2>1
  <2>2. CASE i \in 1..n
    BY <1>1, <1>2, <1>3, <1>4, <1>5, <2>2
  <2> QED BY <1>2, <2>1, <2>2
<1>7. g = f
  BY <1>4, <1>5, <1>6, SeqEqual
<1> QED BY <1>7 DEF a, d, g, f

LEMMA ExpectedType ==
  ASSUME TypeInv, NEW u \in User
  PROVE  /\ reported[u] \in Seq(File)
         /\ Expected(u) = FlattenSeq(ArrivalsOf(u, reported[u])) /\ Expected(u) \in Seq(Note)
<1>1. reported[u] \in Seq(File)
  BY DEF TypeInv
<1>2. ArrivalsOf(u, reported[u]) \in Seq(Seq(Note))
  BY <1>1, ArrivalsType
<1>3. Expected(u) = FlattenSeq(ArrivalsOf(u, reported[u]))
  BY DEF Expected, ArrivalsOf
<1> QED BY <1>1, <1>2, <1>3, FlattenType

(* Every file that the user has reported is plain or refused. *)
Clean(u) == \A i \in DOMAIN reported[u] : Clear(u, reported[u][i])

LEMMA WellFormedClean ==
  ASSUME NEW u, WellFormed(u)
  PROVE  Clean(u)
BY DEF WellFormed, Clean, Clear

LEMMA ReportedSame ==
  ASSUME reported' = reported, NEW u
  PROVE  Expected(u)' = Expected(u) /\ Clean(u)' = Clean(u) /\ WellFormed(u)' = WellFormed(u)
BY DEF Expected, Clean, WellFormed

LEMMA ReportedMore ==
  ASSUME TypeInv, NEW u \in User, NEW file \in File, Report(u, file)
  PROVE  /\ Expected(u)' = Expected(u) \o Arriving[<<u, file>>]
         /\ Clean(u)' => Clean(u) /\ Clear(u, file)
         /\ WellFormed(u)' => WellFormed(u) /\ Plain(file)
         /\ \A v \in User \ {u} :
              Expected(v)' = Expected(v) /\ Clean(v)' = Clean(v) /\ WellFormed(v)' = WellFormed(v)
<1> DEFINE files == reported[u]
           new == Append(files, file)
           n == Len(files)
<1>1. reported' = [reported EXCEPT ![u] = Append(@, file)]
  BY DEF Report
<1>2. reported \in [User -> Seq(File)]
  BY DEF TypeInv
<1>3. files \in Seq(File) /\ reported'[u] = new /\ \A v \in User \ {u} : reported'[v] = reported[v]
  BY <1>1, <1>2
<1>4. /\ new \in Seq(File) /\ Len(new) = n + 1 /\ n \in Nat /\ DOMAIN files = 1..n
      /\ DOMAIN new = 1..(n + 1)
      /\ new[n + 1] = file /\ \A i \in 1..n : new[i] = files[i]
  <2>1. /\ new \in Seq(File) /\ Len(new) = n + 1 /\ new[n + 1] = file
        /\ \A i \in 1..n : new[i] = files[i]
    BY <1>3, AppendProperties
  <2> HIDE DEF new
  <2> QED BY <1>3, <2>1, LenProperties
<1>5. Expected(u)' = FlattenSeq(ArrivalsOf(u, new))
  BY <1>3 DEF Expected, ArrivalsOf
<1>6. FlattenSeq(ArrivalsOf(u, new)) = FlattenSeq(ArrivalsOf(u, files)) \o Arriving[<<u, file>>]
  <2> DEFINE s == ArrivalsOf(u, files)
             a == Arriving[<<u, file>>]
  <2>1. s \in Seq(Seq(Note)) /\ a \in Seq(Note)
    BY <1>3, ArrivalsType, NoticesType
  <2>2. ArrivalsOf(u, new) = Append(s, a)
    BY <1>3, ArrivalsAppend
  <2> HIDE DEF s, a
  <2>3. FlattenSeq(Append(s, a)) = FlattenSeq(s) \o a
    BY <2>1, FlattenAppend
  <2> QED BY <2>2, <2>3 DEF s, a
<1>7. Expected(u) = FlattenSeq(ArrivalsOf(u, files))
  BY ExpectedType
<1>8. \A i \in 1..n : i \in 1..(n + 1)
  BY <1>4
<1>9. n + 1 \in 1..(n + 1)
  BY <1>4
<1>10. ASSUME Clean(u)' PROVE Clean(u) /\ Clear(u, file)
  <2>1. \A i \in 1..(n + 1) : Clear(u, new[i])
    <3> HIDE DEF new, n
    <3> QED BY <1>3, <1>4, <1>10 DEF Clean
  <2> HIDE DEF new, n
  <2>2. Clear(u, file) /\ \A i \in 1..n : Clear(u, files[i])
    BY <1>4, <1>8, <1>9, <2>1
  <2> QED BY <1>4, <2>2 DEF Clean
<1>11. ASSUME WellFormed(u)' PROVE WellFormed(u) /\ Plain(file)
  <2>1. \A i \in 1..(n + 1) : Plain(new[i])
    <3> HIDE DEF new, n
    <3> QED BY <1>3, <1>4, <1>11 DEF WellFormed
  <2> HIDE DEF new, n
  <2>2. Plain(file) /\ \A i \in 1..n : Plain(files[i])
    BY <1>4, <1>8, <1>9, <2>1
  <2> QED BY <1>4, <2>2 DEF WellFormed
<1>12. ASSUME NEW v \in User \ {u}
       PROVE  Expected(v)' = Expected(v) /\ Clean(v)' = Clean(v) /\ WellFormed(v)' = WellFormed(v)
  BY <1>3 DEF Expected, Clean, WellFormed
<1> QED BY <1>5, <1>6, <1>7, <1>10, <1>11, <1>12

LEMMA CharactersDecoded ==
  ASSUME NEW s \in Text
  PROVE  Characters(s) \in Seq(DecodedLetter)
<1>1. {} \in SUBSET Word /\ \A i \in 1..Len(s) : s[i] \notin {}
  OBVIOUS
<1>2. Characters(s) \in Seq(DecodedLetter \ {})
  BY <1>1, CharactersFree
<1>3. DecodedLetter \ {} = DecodedLetter
  OBVIOUS
<1> QED BY <1>2, <1>3

LEMMA AfterType ==
  ASSUME TypeInv, NEW u \in User, Process(u)
  PROVE  After(u) \in Seq(DecodedLetter)
<1> DEFINE a == Characters(SubSeq(chunk[u], Ends(chunk[u]) + 1, Len(chunk[u])))
           b == Characters(toServer[u])
<1>1. Ends(chunk[u]) # 0
  BY DEF Process
<1>2. SubSeq(chunk[u], Ends(chunk[u]) + 1, Len(chunk[u])) \in Text /\ toServer[u] \in Text
  BY <1>1, PendingType, RestType
<1>3. a \in Seq(DecodedLetter)
  <2> DEFINE s == SubSeq(chunk[u], Ends(chunk[u]) + 1, Len(chunk[u]))
  <2> HIDE DEF s
  <2>1. Characters(s) \in Seq(DecodedLetter)
    BY <1>2, CharactersDecoded DEF s
  <2> QED BY <2>1 DEF s
<1>4. b \in Seq(DecodedLetter)
  BY <1>2, CharactersDecoded
<1> HIDE DEF a, b
<1>5. a \o b \in Seq(DecodedLetter)
  BY <1>3, <1>4, ConcatProperties
<1> QED BY <1>5 DEF a, b, After

-----------------------------------------------------------------------------
(* The messages that wait for the receiver *)

(* The events that are read in some messages *)
Readings(ms) == [i \in DOMAIN ms |-> ReadEvent(ms[i])]

LEMMA ReadingsType ==
  ASSUME NEW ms \in Seq(Seq(Inner))
  PROVE  /\ Readings(ms) \in Seq(Note) /\ Len(Readings(ms)) = Len(ms)
         /\ \A i \in 1..Len(ms) : Readings(ms)[i] = ReadEvent(ms[i])
<1> DEFINE n == Len(ms)
           d == Readings(ms)
           T == Seq(Inner)
<1>1. n \in Nat /\ DOMAIN ms = 1..n
  BY LenProperties
<1>2. \A i \in 1..n : ms[i] \in T
  <2> HIDE DEF T
  <2> QED BY ElementOfSeq DEF T
<1>3. \A i \in 1..n : ReadEvent(ms[i]) \in Note
  BY <1>2 DEF Note
<1>4. d = [i \in 1..n |-> ReadEvent(ms[i])]
  BY <1>1 DEF Readings
<1> HIDE DEF n, d
<1>5. d \in [1..n -> Note] /\ \A i \in 1..n : d[i] = ReadEvent(ms[i])
  BY <1>3, <1>4
<1>6. d \in Seq(Note) /\ Len(d) = n
  BY <1>1, <1>5
<1> QED BY <1>5, <1>6 DEF n, d

LEMMA ReadingsAppend ==
  ASSUME NEW ms \in Seq(Seq(Inner)), NEW m \in Seq(Inner)
  PROVE  Readings(Append(ms, m)) = Append(Readings(ms), ReadEvent(m))
<1> DEFINE T == Seq(Inner)
           n == Len(ms)
           a == Append(ms, m)
           one == ReadEvent(m)
           d == Readings(ms)
           g == Readings(a)
           f == Append(d, one)
<1>1. /\ d \in Seq(Note) /\ Len(d) = n /\ \A i \in 1..n : d[i] = ReadEvent(ms[i])
  BY ReadingsType
<1>2. one \in Note /\ n \in Nat
  BY LenProperties DEF Note
<1>3. /\ a \in Seq(T) /\ Len(a) = n + 1 /\ \A i \in 1..n : a[i] = ms[i]
      /\ a[n + 1] = m
  BY AppendProperties, LenProperties
<1>4. /\ g \in Seq(Note) /\ Len(g) = n + 1 /\ \A i \in 1..(n + 1) : g[i] = ReadEvent(a[i])
  <2> HIDE DEF a
  <2> QED BY <1>3, ReadingsType
<1>5. /\ f \in Seq(Note) /\ Len(f) = n + 1 /\ \A i \in 1..n : f[i] = d[i]
      /\ f[n + 1] = one
  <2> HIDE DEF d, n, one
  <2> QED BY <1>1, <1>2, AppendProperties, LenProperties
<1> HIDE DEF a, d, g, f, n, T
<1>6. ASSUME NEW i \in 1..(n + 1) PROVE g[i] = f[i]
  <2>1. CASE i = n + 1
    BY <1>2, <1>3, <1>4, <1>5, <2>1
  <2>2. CASE i \in 1..n
    BY <1>1, <1>2, <1>3, <1>4, <1>5, <2>2
  <2> QED BY <1>2, <2>1, <2>2
<1>7. g = f
  BY <1>4, <1>5, <1>6, SeqEqual
<1> QED BY <1>7 DEF a, d, g, f

Others(ms) == SubSeq(ms, 2, Len(ms))

LEMMA OthersType ==
  ASSUME NEW T, NEW ms \in Seq(T), ms # <<>>
  PROVE  /\ Others(ms) \in Seq(T) /\ Len(ms) \in Nat \ {0} /\ Len(Others(ms)) = Len(ms) - 1
         /\ \A i \in 1..(Len(ms) - 1) : Others(ms)[i] = ms[i + 1]
         /\ ms[1] \in T
<1>1. Len(ms) \in Nat \ {0}
  BY EmptySeq, LenProperties
<1> DEFINE k == Len(ms)
           o == SubSeq(ms, 2, k)
<1>2. /\ o \in Seq(T) /\ Len(o) = (IF 2 <= k THEN k - 2 + 1 ELSE 0)
      /\ \A i \in 1..(k - 2 + 1) : o[i] = ms[2 + i - 1]
  <2>1. 2 \in Nat \ {0} /\ k \in Int /\ k <= Len(ms)
    BY <1>1
  <2> HIDE DEF k
  <2> QED BY <2>1, PartType
<1> HIDE DEF o
<1>3. Len(o) = k - 1
  <2>1. k \in Nat \ {0} /\ Len(o) = (IF 2 <= k THEN k - 2 + 1 ELSE 0)
    BY <1>1, <1>2
  <2> HIDE DEF k
  <2>2. CASE 2 <= k
    BY <2>1, <2>2
  <2>3. CASE ~(2 <= k)
    BY <2>1, <2>3
  <2> QED BY <2>2, <2>3
<1>4. \A i \in 1..(k - 1) : i \in 1..(k - 2 + 1) /\ 2 + i - 1 = i + 1
  BY <1>1
<1>5. ms[1] \in T
  <2>1. 1 \in 1..Len(ms)
    BY <1>1
  <2> QED BY <2>1, ElementOfSeq
<1> QED BY <1>1, <1>2, <1>3, <1>4, <1>5 DEF o, Others

LEMMA ReadingsFirst ==
  ASSUME NEW ms \in Seq(Seq(Inner)), ms # <<>>
  PROVE  /\ ReadEvent(ms[1]) \in Note /\ Readings(Others(ms)) \in Seq(Note)
         /\ Readings(ms) = <<ReadEvent(ms[1])>> \o Readings(Others(ms))
<1> DEFINE n == Len(ms)
           e == ReadEvent(ms[1])
           o == Others(ms)
           one == <<e>>
           d == Readings(o)
           g == Readings(ms)
           f == one \o d
<1>1. /\ o \in Seq(Seq(Inner)) /\ n \in Nat \ {0} /\ Len(o) = n - 1
      /\ \A i \in 1..(n - 1) : o[i] = ms[i + 1]
      /\ ms[1] \in Seq(Inner)
  BY OthersType
<1> HIDE DEF o
<1>2. e \in Note
  BY <1>1 DEF Note
<1>3. d \in Seq(Note) /\ Len(d) = Len(o) /\ \A i \in 1..Len(o) : d[i] = ReadEvent(o[i])
  BY <1>1, ReadingsType
<1>4. g \in Seq(Note) /\ Len(g) = n /\ \A i \in 1..n : g[i] = ReadEvent(ms[i])
  BY ReadingsType
<1> HIDE DEF d, g, e
<1>5. one \in Seq(Note) /\ Len(one) = 1 /\ one[1] = e
  BY <1>2
<1> HIDE DEF one
<1>6. /\ f \in Seq(Note) /\ Len(f) = n
      /\ \A i \in 1..n : f[i] = IF i <= 1 THEN one[1] ELSE d[i - 1]
  <2>1. /\ f \in Seq(Note) /\ Len(f) = Len(one) + Len(d)
        /\ \A i \in 1..(Len(one) + Len(d)) : f[i] = IF i <= Len(one) THEN one[i] ELSE d[i - Len(one)]
    BY <1>3, <1>5, ConcatProperties
  <2> HIDE DEF f
  <2>2. Len(one) + Len(d) = n
    BY <1>1, <1>3, <1>5
  <2>3. \A i \in 1..n : i <= 1 => i = 1
    BY <1>1
  <2> QED BY <1>5, <2>1, <2>2, <2>3
<1> HIDE DEF f, n
<1>7. ASSUME NEW i \in 1..n PROVE g[i] = f[i]
  <2>1. CASE i = 1
    BY <1>4, <1>5, <1>6, <2>1 DEF e
  <2>2. CASE i # 1
    <3>1. ~(i <= 1) /\ i - 1 \in 1..(n - 1) /\ (i - 1) + 1 = i
      BY <1>1, <2>2
    <3>2. d[i - 1] = ReadEvent(o[i - 1]) /\ o[i - 1] = ms[i]
      BY <1>1, <1>3, <3>1 DEF n
    <3> QED BY <1>4, <1>6, <3>1, <3>2
  <2> QED BY <2>1, <2>2
<1>8. g = f
  BY <1>4, <1>6, <1>7, SeqEqual
<1> QED BY <1>2, <1>3, <1>8 DEF f, g, d, o, one, e

(* What the server has written to the receiver, as some messages *)
Written(ms) == FlattenSeq(EndEach(ms, Nul))

LEMMA WrittenAppend ==
  ASSUME NEW ms \in Seq(Seq(Inner)), NEW m \in Seq(Inner)
  PROVE  Written(Append(ms, m)) = Written(ms) \o Append(m, Nul)
<1> DEFINE D == DecodedLetter
           s == EndEach(ms, Nul)
           e == Append(m, Nul)
<1>1. Nul \in D /\ Inner \subseteq D
  BY Letters DEF DecodedLetter, Inner
<1>2. m \in Seq(D) /\ ms \in Seq(Seq(D))
  <2>1. m \in Seq(D) /\ Seq(Inner) \subseteq Seq(D)
    BY <1>1, SeqMonotonic
  <2> QED BY <2>1, SeqMonotonic
<1> HIDE DEF D
<1>3. EndEach(Append(ms, m), Nul) = Append(s, e)
  BY <1>1, <1>2, EndEachAppend
<1>4. s \in Seq(Seq(D)) /\ e \in Seq(D)
  BY <1>1, <1>2, EndEachType, AppendProperties
<1> HIDE DEF s, e
<1>5. FlattenSeq(Append(s, e)) = FlattenSeq(s) \o e
  BY <1>4, FlattenAppend
<1> QED BY <1>3, <1>5 DEF Written, s, e

LEMMA WrittenFirst ==
  ASSUME NEW ms \in Seq(Seq(Inner)), Written(ms) # <<>>
  PROVE  LET client == Written(ms)
         IN  /\ ms # <<>>
             /\ SubSeq(client, 1, Ends(client) - 1) = ms[1]
             /\ SubSeq(client, Ends(client) + 1, Len(client)) = Written(Others(ms))
<1> DEFINE D == DecodedLetter
           n == Len(ms)
           s == EndEach(ms, Nul)
           o == Others(ms)
           w == Written(ms)
           m == ms[1]
           e == Append(m, Nul)
           r == Written(o)
<1>0. Nul \in D /\ Inner = D \ {Nul}
  BY Letters DEF DecodedLetter, Inner
<1>1. ms # <<>>
  <2>1. DOMAIN <<>> = {}
    OBVIOUS
  <2>2. EndEach(<<>>, Nul) = <<>>
    BY <2>1 DEF EndEach
  <2> QED BY <2>2, FlattenEmpty DEF Written
<1>2. /\ o \in Seq(Seq(Inner)) /\ n \in Nat \ {0} /\ Len(o) = n - 1
      /\ \A i \in 1..(n - 1) : o[i] = ms[i + 1]
      /\ m \in Seq(Inner)
  BY <1>1, OthersType
<1>3. Seq(Inner) \subseteq Seq(D)
  BY <1>0, SeqMonotonic
<1>4. ms \in Seq(Seq(D)) /\ o \in Seq(Seq(D)) /\ m \in Seq(D)
  <2> HIDE DEF o
  <2> QED BY <1>2, <1>3, SeqMonotonic
<1> HIDE DEF D, o
<1>5. /\ s \in Seq(Seq(D)) /\ Len(s) = n /\ \A i \in 1..n : s[i] = Append(ms[i], Nul)
  BY <1>0, <1>4, EndEachType
<1>6. /\ EndEach(o, Nul) \in Seq(Seq(D)) /\ Len(EndEach(o, Nul)) = n - 1
      /\ \A i \in 1..(n - 1) : EndEach(o, Nul)[i] = Append(o[i], Nul)
  BY <1>0, <1>2, <1>4, EndEachType
<1> DEFINE x == EndEach(o, Nul)
           y == SubSeq(s, 2, Len(s))
<1> HIDE DEF s
<1>7. s # <<>>
  <2>1. Len(<<>>) = 0
    OBVIOUS
  <2> QED BY <1>2, <1>5, <2>1
<1>8. y = x
  <2> DEFINE T == Seq(D)
  <2> HIDE DEF T, x
  <2>1. /\ Others(s) \in Seq(T) /\ Len(Others(s)) = Len(s) - 1
        /\ \A i \in 1..(Len(s) - 1) : Others(s)[i] = s[i + 1]
    BY <1>5, <1>7, OthersType DEF T
  <2>2. x \in Seq(T) /\ Len(x) = n - 1 /\ \A i \in 1..(n - 1) : x[i] = Append(o[i], Nul)
    BY <1>6 DEF x, T
  <2>3. ASSUME NEW i \in 1..(n - 1) PROVE Others(s)[i] = x[i]
    <3>1. i + 1 \in 1..n
      BY <1>2
    <3> QED BY <1>2, <1>5, <2>1, <2>2, <3>1
  <2> DEFINE z == Others(s)
  <2>4. z \in Seq(T) /\ Len(z) = n - 1 /\ \A i \in 1..(n - 1) : z[i] = x[i]
    BY <1>5, <2>1, <2>3
  <2> HIDE DEF z
  <2>5. z = x
    BY <2>2, <2>4, SeqEqual
  <2> QED BY <2>5 DEF z, Others
<1>9. s[1] = e /\ FlattenSeq(y) \in Seq(D) /\ FlattenSeq(s) = s[1] \o FlattenSeq(y)
  <2>1. s[1] = e
    <3>1. 1 \in 1..n
      BY <1>2
    <3> QED BY <1>5, <3>1
  <2>2. FlattenSeq(y) \in Seq(D) /\ FlattenSeq(s) = s[1] \o FlattenSeq(y)
    BY <1>5, <1>7, FlattenFirst
  <2> QED BY <2>1, <2>2
<1>10. r \in Seq(D) /\ w = e \o r
  BY <1>8, <1>9 DEF Written, s, x
<1> HIDE DEF r, w, m
<1>11. e \in Seq(D) /\ Len(e) = Len(m) + 1 /\ Len(m) \in Nat /\ e[Len(m) + 1] = Nul
       /\ \A i \in 1..Len(m) : e[i] = m[i]
  BY <1>0, <1>4, AppendProperties, LenProperties
<1> DEFINE q == <<Nul>>
<1>12. e = m \o q /\ q \in Seq(D)
  BY <1>0, <1>4, AppendIsConcat
<1> HIDE DEF e, q
<1>13. w \in Seq(D) /\ w = m \o (q \o r) /\ q \o r \in Seq(D)
  <2>1. m \in Seq(D) /\ q \in Seq(D) /\ r \in Seq(D)
    BY <1>4, <1>10, <1>12
  <2>2. (m \o q) \o r = m \o (q \o r) /\ q \o r \in Seq(D)
    BY <2>1, ConcatAssociative, ConcatProperties
  <2>3. e \o r \in Seq(D)
    BY <1>10, <1>11, ConcatProperties
  <2> QED BY <1>10, <1>12, <2>2, <2>3
<1>14. Ends(w) = Len(m) + 1
  <2> DEFINE k == Len(m) + 1
  <2>1. /\ Len(w) = Len(e) + Len(r) /\ Len(r) \in Nat
        /\ \A i \in 1..(Len(e) + Len(r)) : w[i] = IF i <= Len(e) THEN e[i] ELSE r[i - Len(e)]
    <3>1. /\ Len(e \o r) = Len(e) + Len(r)
          /\ \A i \in 1..(Len(e) + Len(r)) : (e \o r)[i] = IF i <= Len(e) THEN e[i] ELSE r[i - Len(e)]
      BY <1>10, <1>11, ConcatProperties
    <3>2. Len(r) \in Nat
      BY <1>10, LenProperties
    <3> QED BY <1>10, <3>1, <3>2
  <2>2. k \in 1..Len(w) /\ \A i \in 1..k : i \in 1..(Len(e) + Len(r)) /\ i <= Len(e)
    BY <1>11, <2>1
  <2>3. k \in 1..k
    BY <1>11
  <2>4. w[k] = Nul
    BY <1>11, <2>1, <2>2, <2>3
  <2>5. ASSUME NEW i \in 1..(k - 1) PROVE w[i] # Nul
    <3>1. i \in 1..Len(m) /\ i \in 1..k
      BY <1>11
    <3>2. w[i] = m[i]
      BY <1>11, <2>1, <2>2, <3>1
    <3>3. m[i] \in Inner
      BY <1>2, <3>1, ElementOfSeq
    <3> QED BY <1>0, <3>2, <3>3
  <2> HIDE DEF k
  <2> QED BY <1>13, <2>2, <2>4, <2>5, EndsValue DEF k
<1>15. SubSeq(w, 1, Ends(w) - 1) = m
  <2>1. Ends(w) - 1 = Len(m)
    BY <1>11, <1>14
  <2> DEFINE t == q \o r
  <2> HIDE DEF t
  <2>2. m \in Seq(D) /\ t \in Seq(D) /\ w = m \o t
    BY <1>4, <1>13 DEF t
  <2>3. SubSeq(m \o t, 1, Len(m)) = m
    BY <2>2, PartsOfConcat
  <2> QED BY <2>1, <2>2, <2>3
<1>16. SubSeq(w, Ends(w) + 1, Len(w)) = r
  <2>1. Ends(w) = Len(e)
    BY <1>11, <1>14
  <2>2. SubSeq(e \o r, Len(e) + 1, Len(e \o r)) = r
    BY <1>10, <1>11, PartsOfConcat
  <2> QED BY <1>10, <2>1, <2>2
<1> QED BY <1>1, <1>15, <1>16 DEF w, m, r, o

-----------------------------------------------------------------------------
(* The inductive invariant *)

(* The events of a user that the receiver has got or is to get in some messages *)
Coming(u, ms) == EventsOf(u, sumerevent \o Readings(ms))

(* Every file that has been reported is plain or refused. *)
Unharmed == \A u \in User : Clean(u)

(* The messages that wait for the receiver *)
IsWaiting(ms) ==
  /\ ms \in Seq(Seq(Inner)) /\ toClient = Written(ms)
  /\ Unharmed => \A i \in 1..Len(ms) : ~Unreadable(ms[i])
  /\ \A u \in User :
       /\ Clean(u) => Streams(u, Rest(u), Coming(u, ms), Expected(u), WellFormed(u))
       /\ WellFormed(u) => u \notin closed

FlowInv ==
  /\ sumerevent \in Seq(Note)
  /\ crashed => ~Unharmed /\ \A u \in User : Clean(u) => Among(Received(u), Expected(u))
  /\ ~crashed => \E ms : IsWaiting(ms)

LEMMA ComingType ==
  ASSUME sumerevent \in Seq(Note), NEW ms \in Seq(Seq(Inner)), NEW u
  PROVE  Coming(u, ms) \in Seq(Note)
<1> DEFINE r == Readings(ms)
           s == sumerevent \o r
<1>1. r \in Seq(Note)
  BY ReadingsType
<1> HIDE DEF r
<1>2. s \in Seq(Note)
  BY <1>1, ConcatProperties
<1> HIDE DEF s
<1>3. EventsOf(u, s) \in Seq(Note)
  BY <1>2, EventsOfType
<1> QED BY <1>3 DEF Coming, s, r

LEMMA InitFlow == Init => FlowInv
<1> SUFFICES ASSUME Init PROVE FlowInv
  OBVIOUS
<1>1. sumerevent = <<>> /\ toClient = <<>> /\ closed = {} /\ crashed = FALSE
  BY DEF Init
<1>2. <<>> \in Seq(Note) /\ <<>> \in Seq(Seq(Inner)) /\ Len(<<>>) = 0 /\ DOMAIN <<>> = {}
  BY EmptySeq
<1>3. Readings(<<>>) = <<>> /\ EndEach(<<>>, Nul) = <<>>
  BY <1>2 DEF Readings, EndEach
<1>4. Written(<<>>) = <<>>
  BY <1>3, FlattenEmpty DEF Written
<1>5. ASSUME NEW u \in User PROVE Streams(u, Rest(u), Coming(u, <<>>), Expected(u), WellFormed(u))
  <2>1. /\ toServer[u] = <<>> /\ chunk[u] = <<>> /\ buffer[u] = <<>> /\ reported[u] = <<>>
    BY DEF Init
  <2>2. <<>> \o <<>> = <<>>
    BY <1>2, ConcatEmptySeq
  <2>3. Characters(<<>>) = <<>>
    BY <1>2 DEF Characters
  <2>4. Rest(u) = <<>>
    BY <2>1, <2>2, <2>3 DEF Rest
  <2>5. Coming(u, <<>>) = <<>>
    BY <1>1, <1>3, <2>2, EventsOfEmpty DEF Coming
  <2>6. Expected(u) = <<>>
    <3>1. Expected(u) = FlattenSeq(ArrivalsOf(u, <<>>))
      BY <2>1 DEF Expected, ArrivalsOf
    <3>2. ArrivalsOf(u, <<>>) = <<>>
      BY <1>2 DEF ArrivalsOf
    <3> QED BY <3>1, <3>2, FlattenEmpty
  <2> QED BY <2>4, <2>5, <2>6, StreamsStart
<1>6. IsWaiting(<<>>)
  BY <1>1, <1>2, <1>4, <1>5 DEF IsWaiting
<1> QED BY <1>1, <1>2, <1>6 DEF FlowInv

(* Steps in which no text gets further *)
LEMMA FlowSame ==
  ASSUME FlowInv,
         UNCHANGED <<reported, closed, toClient, sumerevent, crashed>>,
         \A v \in User : Rest(v)' = Rest(v)
  PROVE  FlowInv'
<1>1. \A v : Expected(v)' = Expected(v) /\ Clean(v)' = Clean(v) /\ WellFormed(v)' = WellFormed(v)
  BY ReportedSame
<1>2. Unharmed' = Unharmed
  BY <1>1 DEF Unharmed
<1>3. ASSUME NEW ms, IsWaiting(ms) PROVE IsWaiting(ms)'
  <2>1. \A v : Coming(v, ms)' = Coming(v, ms)
    BY DEF Coming
  <2> QED BY <1>1, <1>2, <1>3, <2>1 DEF IsWaiting
<1>4. \A v : Received(v)' = Received(v)
  BY DEF Received
<1>5. ~crashed' => \E ms : IsWaiting(ms)'
  BY <1>3 DEF FlowInv
<1> QED BY <1>1, <1>2, <1>4, <1>5 DEF FlowInv

LEMMA FlowReport ==
  ASSUME TypeInv, FlowInv, NEW u \in User, NEW file \in File, Report(u, file)
  PROVE  FlowInv'
<1>1. /\ toClient' = toClient /\ sumerevent' = sumerevent /\ crashed' = crashed /\ closed' = closed
  BY DEF Report
<1>2. /\ Expected(u)' = Expected(u) \o Arriving[<<u, file>>]
      /\ Clean(u)' => Clean(u) /\ Clear(u, file)
      /\ WellFormed(u)' => WellFormed(u) /\ Plain(file)
      /\ \A v \in User \ {u} :
           Expected(v)' = Expected(v) /\ Clean(v)' = Clean(v) /\ WellFormed(v)' = WellFormed(v)
  BY ReportedMore
<1>3. /\ \A v \in User \ {u} : Rest(v)' = Rest(v)
      /\ u \in closed => Rest(u)' = Rest(u)
      /\ u \notin closed => Rest(u)' = Rest(u) \o Characters(Frames[<<u, file>>])
  BY RestReport
<1>4. Unharmed' => Unharmed
  BY <1>2 DEF Unharmed
<1>5. Expected(u) \in Seq(Note) /\ Arriving[<<u, file>>] \in Seq(Note)
  BY ExpectedType, NoticesType
<1>6. sumerevent \in Seq(Note)
  BY DEF FlowInv
<1>7. ASSUME crashed, NEW v \in User, Clean(v)' PROVE Among(Received(v)', Expected(v)')
  <2>1. Received(v)' = Received(v)
    BY <1>1 DEF Received
  <2>2. Clean(v)
    BY <1>2, <1>7
  <2>3. Among(Received(v), Expected(v))
    BY <1>7, <2>2 DEF FlowInv
  <2>4. CASE v # u
    BY <1>2, <2>1, <2>3, <2>4
  <2>5. CASE v = u
    <3> DEFINE r == Received(v)
               x == Expected(v)
               a == Arriving[<<u, file>>]
    <3>1. r \in Seq(Note) /\ x \in Seq(Note) /\ a \in Seq(Note) /\ Among(r, x)
      BY <1>5, <1>6, <2>3, <2>5, EventsOfType DEF Received
    <3> HIDE DEF r, x, a
    <3>2. Among(r, x \o a)
      BY <3>1, AmongLonger
    <3> QED BY <1>2, <2>1, <2>5, <3>2 DEF r, x, a
  <2> QED BY <2>4, <2>5
<1>8. ASSUME ~crashed, NEW ms, IsWaiting(ms) PROVE IsWaiting(ms)'
  <2>1. /\ ms \in Seq(Seq(Inner)) /\ toClient = Written(ms)
        /\ Unharmed => \A i \in 1..Len(ms) : ~Unreadable(ms[i])
        /\ \A v \in User :
             /\ Clean(v) => Streams(v, Rest(v), Coming(v, ms), Expected(v), WellFormed(v))
             /\ WellFormed(v) => v \notin closed
    BY <1>8 DEF IsWaiting
  <2>2. \A v : Coming(v, ms)' = Coming(v, ms)
    BY <1>1 DEF Coming
  <2>3. ASSUME Clean(u)'
        PROVE  Streams(u, Rest(u)', Coming(u, ms), Expected(u)', WellFormed(u)')
    <3> DEFINE rest == Rest(u)
               own == Coming(u, ms)
               expected == Expected(u)
               lossless == WellFormed(u)
               all == WellFormed(u)'
               bs == DecodedLines(FramesOf(u, file))
               es == Notices(u, file)
    <3>1. Streams(u, rest, own, expected, lossless)
      BY <1>2, <2>1, <2>3
    <3>2. own \in Seq(Note) /\ expected \in Seq(Note)
      BY <1>5, <1>6, <2>1, ComingType
    <3>3. IsReport(u, file, bs, es)
      BY <1>2, <2>3, ReportFlows
    <3>4. /\ Flows(u, bs, es) /\ Characters(Frames[<<u, file>>]) = FlattenSeq(bs)
          /\ Arriving[<<u, file>>] = FlattenSeq(es)
          /\ Plain(file) => AllDelivered(u, bs, es)
      BY <3>3 DEF IsReport
    <3>5. all => lossless /\ AllDelivered(u, bs, es)
      BY <1>2, <3>4
    <3>6. CASE u \notin closed
      <4>1. Rest(u)' = rest \o FlattenSeq(bs) /\ Expected(u)' = expected \o FlattenSeq(es)
        BY <1>2, <1>3, <3>4, <3>6
      <4> HIDE DEF rest, own, expected, lossless, all, bs, es
      <4>2. Streams(u, rest \o FlattenSeq(bs), own, expected \o FlattenSeq(es), all)
        BY <3>1, <3>2, <3>4, <3>5, StreamsReport
      <4> QED BY <4>1, <4>2 DEF own, all
    <3>7. CASE u \in closed
      <4>1. Rest(u)' = rest /\ Expected(u)' = expected \o Arriving[<<u, file>>]
        BY <1>2, <1>3, <3>7
      <4>2. ~all
        BY <1>2, <2>1, <3>7
      <4> DEFINE a == Arriving[<<u, file>>]
      <4>3. a \in Seq(Note)
        BY <1>5
      <4> HIDE DEF rest, own, expected, lossless, a
      <4>4. Streams(u, rest, own, expected \o a, FALSE)
        BY <3>1, <3>2, <4>3, StreamsClosed
      <4>5. all = FALSE
        BY <4>2
      <4> QED BY <4>1, <4>4, <4>5 DEF own, a
    <3> QED BY <3>6, <3>7
  <2>4. ASSUME NEW v \in User
        PROVE  /\ Clean(v)' => Streams(v, Rest(v)', Coming(v, ms)', Expected(v)', WellFormed(v)')
               /\ WellFormed(v)' => v \notin closed'
    <3>1. CASE v # u
      BY <1>1, <1>2, <1>3, <2>1, <2>2, <3>1
    <3>2. CASE v = u
      BY <1>1, <1>2, <2>1, <2>2, <2>3, <3>2
    <3> QED BY <3>1, <3>2
  <2> QED BY <1>1, <1>4, <2>1, <2>4 DEF IsWaiting
<1>9. ~crashed' => \E ms : IsWaiting(ms)'
  BY <1>1, <1>8 DEF FlowInv
<1>10. crashed' => ~Unharmed'
  BY <1>1, <1>4 DEF FlowInv
<1> QED BY <1>1, <1>6, <1>7, <1>9, <1>10 DEF FlowInv

-----------------------------------------------------------------------------
(* A frame that is accepted *)

LEMMA OwnersApart ==
  ASSUME NEW u \in User, NEW v \in User, u # v
  PROVE  ReceivedValue(<<u>>) # ReceivedValue(<<v>>) /\ ReceivedValue(<<v>>) # <<>>
<1>1. /\ ReceivedValue(<<u>>) = <<Blank, DecodedChar(u)>>
      /\ ReceivedValue(<<v>>) = <<Blank, DecodedChar(v)>>
  BY OwnName
<1>2. DecodedChar(u) # DecodedChar(v)
  BY UserAssumption
<1>3. \A x, y, z : <<x, y>> = <<x, z>> => y = z
  OBVIOUS
<1>4. \A x, y : <<x, y>> # <<>>
  <2>1. Len(<<>>) = 0 /\ \A x, y : Len(<<x, y>>) = 2
    OBVIOUS
  <2> QED BY <2>1
<1> QED BY <1>1, <1>2, <1>3, <1>4

(* One more message *)
LEMMA ComingMore ==
  ASSUME sumerevent \in Seq(Note), NEW ms \in Seq(Seq(Inner)), NEW m \in Seq(Inner), NEW v
  PROVE  Coming(v, Append(ms, m)) =
           IF ReadEvent(m).owner = ReceivedValue(<<v>>) THEN Append(Coming(v, ms), ReadEvent(m))
           ELSE Coming(v, ms)
<1> DEFINE r == Readings(ms)
           e == ReadEvent(m)
           s == sumerevent \o r
<1>0. r \in Seq(Note)
  BY ReadingsType
<1>1. r \in Seq(Note) /\ e \in Note
  BY <1>0 DEF Note
<1>2. Readings(Append(ms, m)) = Append(r, e)
  BY ReadingsAppend
<1> HIDE DEF r, e
<1>3. sumerevent \o Append(r, e) = Append(s, e) /\ s \in Seq(Note)
  BY <1>1, ConcatAppend, ConcatProperties
<1> HIDE DEF s
<1>4. EventsOf(v, Append(s, e)) = IF e.owner = ReceivedValue(<<v>>) THEN Append(EventsOf(v, s), e)
                                  ELSE EventsOf(v, s)
  BY <1>1, <1>3, EventsOfAppend
<1> QED BY <1>2, <1>3, <1>4 DEF Coming, r, e, s

(* The copy of a frame, for the receiver and for the user that has sent it *)
IsCopy(u, copies, m, rest, own, expected) ==
  /\ m \in Seq(Inner) /\ copies = Append(m, Nul)
  /\ ReadEvent(m).owner \in {<<>>, ReceivedValue(<<u>>)}
  /\ Clean(u) => /\ ~Unreadable(m) /\ ReadEvent(m).owner = ReceivedValue(<<u>>)
                 /\ Streams(u, rest, Append(own, ReadEvent(m)), expected, WellFormed(u))

LEMMA CopyOfFrame ==
  ASSUME TypeInv, SignedInv, FlowInv, NEW u \in User, Process(u), NEW ms, IsWaiting(ms),
         Parse(Pending(u)) # Malformed
  PROVE  LET copies == Copies(Parse(Pending(u)))
         IN  \/ /\ copies = <<>>
                /\ Clean(u) =>
                     Streams(u, After(u), Coming(u, ms), Expected(u), WellFormed(u))
             \/ \E m : IsCopy(u, copies, m, After(u), Coming(u, ms), Expected(u))
<1> DEFINE x == Pending(u)
           a == After(u)
           copies == Copies(Parse(x))
           own == Coming(u, ms)
           expected == Expected(u)
           lossless == WellFormed(u)
           rest == Rest(u)
<1>1. x \in Seq(Inner) /\ rest = Append(x, Nul) \o a
  BY RestProcess
<1>2. a \in Seq(DecodedLetter)
  BY AfterType
<1>3. Signed(x, DecodedChar(u))
  BY SignedPending
<1>4. expected \in Seq(Note) /\ own \in Seq(Note)
  <2>1. sumerevent \in Seq(Note) /\ ms \in Seq(Seq(Inner))
    BY DEF FlowInv, IsWaiting
  <2> QED BY <2>1, ExpectedType, ComingType
<1>5. Clean(u) => Streams(u, rest, own, expected, lossless)
  BY DEF IsWaiting
<1> HIDE DEF x, a, own, expected, rest, lossless
<1>6. Clean(u) => Accepted(u, copies, a, own, expected, lossless)
  BY <1>1, <1>2, <1>4, <1>5, StreamsAccepted DEF x
<1>7. \A m \in Seq(Inner) : Append(m, Nul) # <<>>
  <2>1. ASSUME NEW m \in Seq(Inner) PROVE Append(m, Nul) # <<>>
    <3>1. Nul \in Letter /\ Inner \subseteq Letter
      BY Letters, InnerLetters
    <3>2. m \in Seq(Letter)
      BY <3>1, SeqMonotonic
    <3>3. Len(Append(m, Nul)) = Len(m) + 1 /\ Len(m) \in Nat /\ Len(<<>>) = 0
      BY <3>1, <3>2, AppendProperties, LenProperties
    <3> QED BY <3>3
  <2> QED BY <2>1
<1>8. CASE copies = <<>>
  <2> HIDE DEF copies
  <2>1. Clean(u) => Streams(u, a, own, expected, lossless)
    BY <1>6, <1>7, <1>8 DEF Accepted
  <2> QED BY <1>8, <2>1 DEF copies, a, own, expected, lossless, x
<1>9. CASE copies # <<>> /\ Clean(u)
  <2>1. PICK m \in Seq(Inner) :
          /\ copies = Append(m, Nul) /\ ~Unreadable(m)
          /\ ReadEvent(m).owner = ReceivedValue(<<u>>)
          /\ Streams(u, a, Append(own, ReadEvent(m)), expected, lossless)
    <3> HIDE DEF copies
    <3> QED BY <1>6, <1>9 DEF Accepted
  <2> HIDE DEF copies
  <2>2. IsCopy(u, copies, m, a, own, expected)
    BY <2>1 DEF IsCopy, lossless
  <2> QED BY <2>2 DEF copies, a, own, expected, x
<1>10. CASE copies # <<>> /\ ~Clean(u)
  <2>1. OwnedCopy(copies, u)
    BY <1>1, <1>3, <1>10, OwnerOfCopy
  <2> HIDE DEF copies
  <2>2. PICK m \in Seq(Inner) :
          copies = Append(m, Nul) /\ ReadEvent(m).owner \in {<<>>, ReceivedValue(<<u>>)}
    BY <2>1 DEF OwnedCopy
  <2>3. IsCopy(u, copies, m, a, own, expected)
    BY <1>10, <2>2 DEF IsCopy
  <2> QED BY <2>3 DEF copies, a, own, expected, x
<1> QED BY <1>8, <1>9, <1>10

-----------------------------------------------------------------------------
(* A frame that is processed *)

LEMMA ProcessSame ==
  ASSUME NEW u \in User, Process(u)
  PROVE  UNCHANGED <<reported, sumerevent, crashed>>
BY DEF Process

(* What a copy makes of the streams of the users *)
LEMMA CopyWaits ==
  ASSUME TypeInv, FlowInv, NEW u \in User, Process(u), NEW ms, IsWaiting(ms),
         Parse(Pending(u)) # Malformed, NEW m,
         IsCopy(u, Copies(Parse(Pending(u))), m, After(u), Coming(u, ms), Expected(u))
  PROVE  IsWaiting(Append(ms, m))'
<1> DEFINE more == Append(ms, m)
           copies == Copies(Parse(Pending(u)))
<1>1. UNCHANGED <<reported, sumerevent, crashed>>
  BY ProcessSame
<1>2. \A v : Expected(v)' = Expected(v) /\ Clean(v)' = Clean(v) /\ WellFormed(v)' = WellFormed(v)
  BY <1>1, ReportedSame
<1>3. Unharmed' = Unharmed
  BY <1>2 DEF Unharmed
<1>4. /\ \A v \in User \ {u} : Rest(v)' = Rest(v)
      /\ Rest(u)' = After(u) /\ toClient' = toClient \o copies /\ closed' = closed
  BY RestProcess
<1>5. /\ m \in Seq(Inner) /\ copies = Append(m, Nul)
      /\ ReadEvent(m).owner \in {<<>>, ReceivedValue(<<u>>)}
      /\ Clean(u) => /\ ~Unreadable(m) /\ ReadEvent(m).owner = ReceivedValue(<<u>>)
                     /\ Streams(u, After(u), Append(Coming(u, ms), ReadEvent(m)), Expected(u),
                                WellFormed(u))
  BY DEF IsCopy
<1>6. /\ ms \in Seq(Seq(Inner)) /\ toClient = Written(ms)
      /\ Unharmed => \A i \in 1..Len(ms) : ~Unreadable(ms[i])
      /\ \A v \in User :
           /\ Clean(v) => Streams(v, Rest(v), Coming(v, ms), Expected(v), WellFormed(v))
           /\ WellFormed(v) => v \notin closed
  BY DEF IsWaiting
<1> HIDE DEF copies
<1>7. /\ more \in Seq(Seq(Inner)) /\ Len(more) = Len(ms) + 1 /\ Len(ms) \in Nat
      /\ \A i \in 1..Len(ms) : more[i] = ms[i]
      /\ more[Len(ms) + 1] = m
  BY <1>5, <1>6, AppendProperties, LenProperties
<1>8. toClient' = Written(more)
  <2>1. Written(more) = Written(ms) \o Append(m, Nul)
    BY <1>5, <1>6, WrittenAppend
  <2> QED BY <1>4, <1>5, <1>6, <2>1
<1>9. sumerevent \in Seq(Note)
  BY DEF FlowInv
<1>10. \A v : Coming(v, more) =
                IF ReadEvent(m).owner = ReceivedValue(<<v>>) THEN Append(Coming(v, ms), ReadEvent(m))
                ELSE Coming(v, ms)
  BY <1>5, <1>6, <1>9, ComingMore
<1>11. \A v : Coming(v, more)' = Coming(v, more)
  BY <1>1 DEF Coming
<1> HIDE DEF more
<1>12. Unharmed => \A i \in 1..Len(more) : ~Unreadable(more[i])
  <2> SUFFICES ASSUME Unharmed, NEW i \in 1..Len(more) PROVE ~Unreadable(more[i])
    OBVIOUS
  <2>1. Clean(u)
    BY DEF Unharmed
  <2>2. CASE i \in 1..Len(ms)
    BY <1>6, <1>7, <2>2
  <2>3. CASE i = Len(ms) + 1
    BY <1>5, <1>7, <2>1, <2>3
  <2> QED BY <1>7, <2>2, <2>3
<1>13. ASSUME NEW v \in User
       PROVE  /\ Clean(v)' => Streams(v, Rest(v)', Coming(v, more)', Expected(v)', WellFormed(v)')
              /\ WellFormed(v)' => v \notin closed'
  <2>1. CASE v = u
    <3>1. Clean(u) => Coming(u, more) = Append(Coming(u, ms), ReadEvent(m))
      BY <1>5, <1>10
    <3> QED BY <1>2, <1>4, <1>5, <1>6, <1>11, <2>1, <3>1
  <2>2. CASE v # u
    <3>1. ReceivedValue(<<u>>) # ReceivedValue(<<v>>) /\ ReceivedValue(<<v>>) # <<>>
      BY <2>2, OwnersApart
    <3>2. ReadEvent(m).owner # ReceivedValue(<<v>>)
      BY <1>5, <3>1
    <3>3. Coming(v, more) = Coming(v, ms)
      BY <1>10, <3>2
    <3> QED BY <1>2, <1>4, <1>6, <1>11, <2>2, <3>3
  <2> QED BY <2>1, <2>2
<1>14. IsWaiting(more)'
  BY <1>3, <1>7, <1>8, <1>12, <1>13 DEF IsWaiting
<1> QED BY <1>14 DEF more

LEMMA NoCopyWaits ==
  ASSUME TypeInv, NEW u \in User, Process(u), NEW ms, IsWaiting(ms),
         Parse(Pending(u)) # Malformed, Copies(Parse(Pending(u))) = <<>>,
         Clean(u) => Streams(u, After(u), Coming(u, ms), Expected(u), WellFormed(u))
  PROVE  IsWaiting(ms)'
<1>1. UNCHANGED <<reported, sumerevent, crashed>>
  BY ProcessSame
<1>2. \A v : Expected(v)' = Expected(v) /\ Clean(v)' = Clean(v) /\ WellFormed(v)' = WellFormed(v)
  BY <1>1, ReportedSame
<1>3. Unharmed' = Unharmed
  BY <1>2 DEF Unharmed
<1>4. /\ \A v \in User \ {u} : Rest(v)' = Rest(v)
      /\ Rest(u)' = After(u) /\ toClient' = toClient \o <<>> /\ closed' = closed
  BY RestProcess
<1>5. toClient' = toClient
  <2>1. toClient \in Seq(DecodedLetter)
    BY DEF TypeInv
  <2> QED BY <1>4, <2>1, ConcatEmptySeq
<1>6. \A v : Coming(v, ms)' = Coming(v, ms)
  BY <1>1 DEF Coming
<1>7. ASSUME NEW v \in User
      PROVE  /\ Clean(v)' => Streams(v, Rest(v)', Coming(v, ms)', Expected(v)', WellFormed(v)')
             /\ WellFormed(v)' => v \notin closed'
  <2>1. CASE v = u
    BY <1>2, <1>4, <1>6, <2>1 DEF IsWaiting
  <2>2. CASE v # u
    BY <1>2, <1>4, <1>6, <2>2 DEF IsWaiting
  <2> QED BY <2>1, <2>2
<1> QED BY <1>3, <1>5, <1>7 DEF IsWaiting

LEMMA RefusalWaits ==
  ASSUME TypeInv, FlowInv, NEW u \in User, Process(u), NEW ms, IsWaiting(ms),
         Parse(Pending(u)) = Malformed
  PROVE  IsWaiting(ms)'
<1>1. UNCHANGED <<reported, sumerevent, crashed>>
  BY ProcessSame
<1>2. \A v : Expected(v)' = Expected(v) /\ Clean(v)' = Clean(v) /\ WellFormed(v)' = WellFormed(v)
  BY <1>1, ReportedSame
<1>3. Unharmed' = Unharmed
  BY <1>2 DEF Unharmed
<1>4. /\ \A v \in User \ {u} : Rest(v)' = Rest(v)
      /\ Pending(u) \in Seq(Inner) /\ Rest(u) = Append(Pending(u), Nul) \o After(u)
      /\ IsEnd(Rest(u)', After(u)) /\ toClient' = toClient /\ closed' \subseteq closed \cup {u}
  BY RestProcess
<1>5. \A v : Coming(v, ms)' = Coming(v, ms)
  BY <1>1 DEF Coming
<1>6. Clean(u) => ~WellFormed(u) /\ Streams(u, Rest(u)', Coming(u, ms), Expected(u), FALSE)
  <2> SUFFICES ASSUME Clean(u)
               PROVE  ~WellFormed(u) /\ Streams(u, Rest(u)', Coming(u, ms), Expected(u), FALSE)
    OBVIOUS
  <2> DEFINE x == Pending(u)
             a == After(u)
             own == Coming(u, ms)
             expected == Expected(u)
             lossless == WellFormed(u)
             rest == Rest(u)
             s == Rest(u)'
  <2>1. expected \in Seq(Note) /\ own \in Seq(Note)
    <3>1. sumerevent \in Seq(Note) /\ ms \in Seq(Seq(Inner))
      BY DEF FlowInv, IsWaiting
    <3> QED BY <3>1, ExpectedType, ComingType
  <2>2. x \in Seq(Inner) /\ rest = Append(x, Nul) \o a /\ IsEnd(s, a) /\ Parse(x) = Malformed
    BY <1>4
  <2>3. a \in Seq(DecodedLetter)
    BY AfterType
  <2>4. Streams(u, rest, own, expected, lossless)
    BY DEF IsWaiting
  <2> HIDE DEF x, a, own, expected, rest, lossless, s
  <2>5. ~lossless /\ Streams(u, s, own, expected, FALSE)
    BY <2>1, <2>2, <2>3, <2>4, StreamsRefused
  <2> QED BY <2>5 DEF own, expected, lossless, s
<1>7. ~WellFormed(u)
  BY <1>6, WellFormedClean
<1>8. ASSUME NEW v \in User
      PROVE  /\ Clean(v)' => Streams(v, Rest(v)', Coming(v, ms)', Expected(v)', WellFormed(v)')
             /\ WellFormed(v)' => v \notin closed'
  <2>1. CASE v = u
    <3>1. WellFormed(u)' = FALSE
      BY <1>2, <1>7 DEF WellFormed
    <3>2. Clean(u)' => Streams(u, Rest(u)', Coming(u, ms)', Expected(u)', FALSE)
      BY <1>2, <1>5, <1>6
    <3> QED BY <2>1, <3>1, <3>2
  <2>2. CASE v # u
    BY <1>2, <1>4, <1>5, <2>2 DEF IsWaiting
  <2> QED BY <2>1, <2>2
<1> QED BY <1>3, <1>4, <1>8 DEF IsWaiting

LEMMA FlowProcess ==
  ASSUME TypeInv, SignedInv, FlowInv, NEW u \in User, Process(u)
  PROVE  FlowInv'
<1>1. UNCHANGED <<reported, sumerevent, crashed>>
  BY ProcessSame
<1>2. \A v : Expected(v)' = Expected(v) /\ Clean(v)' = Clean(v)
  BY <1>1, ReportedSame
<1>3. Unharmed' = Unharmed
  BY <1>2 DEF Unharmed
<1>4. \A v : Received(v)' = Received(v)
  BY <1>1 DEF Received
<1>5. ASSUME ~crashed PROVE \E ms : IsWaiting(ms)'
  <2>1. PICK ms : IsWaiting(ms)
    BY <1>5 DEF FlowInv
  <2>2. CASE Parse(Pending(u)) = Malformed
    BY <2>1, <2>2, RefusalWaits
  <2>3. CASE Parse(Pending(u)) # Malformed
    <3> DEFINE copies == Copies(Parse(Pending(u)))
    <3>1. \/ /\ copies = <<>>
             /\ Clean(u) => Streams(u, After(u), Coming(u, ms), Expected(u), WellFormed(u))
          \/ \E m : IsCopy(u, copies, m, After(u), Coming(u, ms), Expected(u))
      BY <2>1, <2>3, CopyOfFrame
    <3>2. CASE /\ copies = <<>>
               /\ Clean(u) => Streams(u, After(u), Coming(u, ms), Expected(u), WellFormed(u))
      BY <2>1, <2>3, <3>2, NoCopyWaits
    <3>3. CASE \E m : IsCopy(u, copies, m, After(u), Coming(u, ms), Expected(u))
      <4>1. PICK m : IsCopy(u, copies, m, After(u), Coming(u, ms), Expected(u))
        BY <3>3
      <4>2. IsWaiting(Append(ms, m))'
        BY <2>1, <2>3, <4>1, CopyWaits
      <4> QED BY <4>2
    <3> QED BY <3>1, <3>2, <3>3
  <2> QED BY <2>2, <2>3
<1> QED BY <1>1, <1>2, <1>3, <1>4, <1>5 DEF FlowInv

-----------------------------------------------------------------------------
(* A copy that is received *)

(* What the receiver has got and is to get, with the first of the messages *)
LEMMA ComingFirst ==
  ASSUME sumerevent \in Seq(Note), NEW ms \in Seq(Seq(Inner)), ms # <<>>, NEW v
  PROVE  /\ Append(sumerevent, ReadEvent(ms[1])) \in Seq(Note)
         /\ EventsOf(v, Append(sumerevent, ReadEvent(ms[1])) \o Readings(Others(ms))) = Coming(v, ms)
<1> DEFINE e == ReadEvent(ms[1])
           r == Readings(Others(ms))
<1>1. e \in Note /\ r \in Seq(Note) /\ Readings(ms) = <<e>> \o r
  BY ReadingsFirst
<1> HIDE DEF e, r
<1>2. <<e>> \in Seq(Note)
  BY <1>1
<1>3. (sumerevent \o <<e>>) \o r = sumerevent \o (<<e>> \o r)
  BY <1>1, <1>2, ConcatAssociative
<1>4. sumerevent \o <<e>> = Append(sumerevent, e) /\ Append(sumerevent, e) \in Seq(Note)
  BY <1>1, AppendIsConcat, AppendProperties
<1>5. Append(sumerevent, e) \o r = sumerevent \o Readings(ms)
  BY <1>1, <1>3, <1>4
<1> QED BY <1>4, <1>5 DEF Coming, e, r

LEMMA FlowReceive ==
  ASSUME TypeInv, FlowInv, Receive
  PROVE  FlowInv'
<1> DEFINE text == SubSeq(toClient, 1, Ends(toClient) - 1)
<1>1. /\ ~crashed /\ toClient # <<>>
      /\ toClient' = SubSeq(toClient, Ends(toClient) + 1, Len(toClient))
      /\ \/ Unreadable(text) /\ crashed' = TRUE /\ sumerevent' = sumerevent
         \/ /\ ~Unreadable(text) /\ crashed' = crashed
            /\ sumerevent' = Append(sumerevent, ReadEvent(text))
      /\ UNCHANGED <<serverType, reported, toServer, chunk, buffer, closed>>
  BY DEF Receive
<1>2. PICK ms : IsWaiting(ms)
  BY <1>1 DEF FlowInv
<1>3. /\ ms \in Seq(Seq(Inner)) /\ toClient = Written(ms)
      /\ Unharmed => \A i \in 1..Len(ms) : ~Unreadable(ms[i])
      /\ \A v \in User :
           /\ Clean(v) => Streams(v, Rest(v), Coming(v, ms), Expected(v), WellFormed(v))
           /\ WellFormed(v) => v \notin closed
  BY <1>2 DEF IsWaiting
<1>4. ms # <<>> /\ text = ms[1] /\ toClient' = Written(Others(ms))
  BY <1>1, <1>3, WrittenFirst
<1> HIDE DEF text
<1>5. sumerevent \in Seq(Note)
  BY DEF FlowInv
<1>6. \A v : Expected(v)' = Expected(v) /\ Clean(v)' = Clean(v) /\ WellFormed(v)' = WellFormed(v)
  BY <1>1, ReportedSame
<1>7. Unharmed' = Unharmed
  BY <1>6 DEF Unharmed
<1>8. \A v : Rest(v)' = Rest(v)
  BY <1>1 DEF Rest
<1>9. /\ Others(ms) \in Seq(Seq(Inner)) /\ Len(ms) \in Nat \ {0} /\ Len(Others(ms)) = Len(ms) - 1
      /\ \A i \in 1..(Len(ms) - 1) : Others(ms)[i] = ms[i + 1]
  BY <1>3, <1>4, OthersType
<1>10. CASE Unreadable(text) /\ crashed' = TRUE /\ sumerevent' = sumerevent
  <2>1. ~Unharmed
    BY <1>3, <1>4, <1>9, <1>10
  <2>2. ASSUME NEW v \in User, Clean(v)' PROVE Among(Received(v)', Expected(v)')
    <3> DEFINE x == Received(v)
               y == EventsOf(v, Readings(ms))
               expected == Expected(v)
               own == Coming(v, ms)
    <3>1. Streams(v, Rest(v), own, expected, WellFormed(v))
      BY <1>3, <1>6, <2>2
    <3>2. Readings(ms) \in Seq(Note)
      BY <1>3, ReadingsType
    <3>3. x \in Seq(Note) /\ y \in Seq(Note)
      BY <1>5, <3>2, EventsOfType DEF Received
    <3>4. own = x \o y
      BY <1>5, <3>2, EventsOfConcat DEF Coming, Received
    <3>5. expected \in Seq(Note)
      BY ExpectedType
    <3>6. x = Received(v)' /\ expected = Expected(v)'
      BY <1>6, <1>10 DEF Received
    <3> HIDE DEF x, y, expected, own
    <3>7. Among(x, expected)
      BY <3>1, <3>3, <3>4, <3>5, StreamsReceived
    <3> QED BY <3>6, <3>7
  <2> QED BY <1>5, <1>7, <1>10, <2>1, <2>2 DEF FlowInv
<1>11. CASE /\ ~Unreadable(text) /\ crashed' = crashed
            /\ sumerevent' = Append(sumerevent, ReadEvent(text))
  <2> DEFINE left == Others(ms)
  <2>1. sumerevent' = Append(sumerevent, ReadEvent(ms[1]))
    BY <1>4, <1>11
  <2>2. /\ sumerevent' \in Seq(Note)
        /\ \A v : EventsOf(v, sumerevent' \o Readings(left)) = Coming(v, ms)
    BY <1>3, <1>4, <1>5, <2>1, ComingFirst
  <2>3. \A v : Coming(v, left)' = Coming(v, ms)
    BY <2>2 DEF Coming
  <2>4. Unharmed => \A i \in 1..Len(left) : ~Unreadable(left[i])
    <3> SUFFICES ASSUME Unharmed, NEW i \in 1..(Len(ms) - 1) PROVE ~Unreadable(Others(ms)[i])
      BY <1>9
    <3>1. Others(ms)[i] = ms[i + 1] /\ i + 1 \in 1..Len(ms)
      BY <1>9
    <3> QED BY <1>3, <3>1
  <2> HIDE DEF left
  <2>5. ASSUME NEW v \in User
        PROVE  /\ Clean(v)' => Streams(v, Rest(v)', Coming(v, left)', Expected(v)', WellFormed(v)')
               /\ WellFormed(v)' => v \notin closed'
    BY <1>1, <1>3, <1>6, <1>8, <2>3
  <2>6. left \in Seq(Seq(Inner)) /\ toClient' = Written(left)
    BY <1>4, <1>9 DEF left
  <2>7. IsWaiting(left)'
    BY <1>7, <2>4, <2>5, <2>6 DEF IsWaiting
  <2> QED BY <1>1, <1>11, <2>2, <2>7 DEF FlowInv
<1> QED BY <1>1, <1>10, <1>11

LEMMA FlowStep ==
  ASSUME TypeInv, SignedInv, FlowInv, [Next]_vars
  PROVE  FlowInv'
<1>1. ASSUME NEW u \in User, NEW file \in File, Report(u, file) PROVE FlowInv'
  BY <1>1, FlowReport
<1>2. ASSUME NEW u \in User, Read(u) PROVE FlowInv'
  <2>1. \A v \in User : Rest(v)' = Rest(v)
    BY <1>2, RestRead
  <2>2. UNCHANGED <<reported, closed, toClient, sumerevent, crashed>>
    BY <1>2 DEF Read
  <2> QED BY <2>1, <2>2, FlowSame
<1>3. ASSUME NEW u \in User, Decode(u) PROVE FlowInv'
  <2>1. \A v \in User : Rest(v)' = Rest(v)
    BY <1>3, RestDecode
  <2>2. UNCHANGED <<reported, closed, toClient, sumerevent, crashed>>
    BY <1>3 DEF Decode
  <2> QED BY <2>1, <2>2, FlowSame
<1>4. ASSUME NEW u \in User, Process(u) PROVE FlowInv'
  BY <1>4, FlowProcess
<1>5. CASE Receive
  BY <1>5, FlowReceive
<1>6. CASE UNCHANGED vars
  <2>1. UNCHANGED <<reported, closed, toClient, sumerevent, crashed>>
    BY <1>6 DEF vars
  <2>2. \A v \in User : Rest(v)' = Rest(v)
    BY <1>6 DEF vars, Rest
  <2> QED BY <2>1, <2>2, FlowSame
<1> QED BY <1>1, <1>2, <1>3, <1>4, <1>5, <1>6 DEF Next

-----------------------------------------------------------------------------
(* The theorems *)

LEMMA WrittenNothing ==
  ASSUME NEW ms \in Seq(Seq(Inner)), Written(ms) = <<>>
  PROVE  ms = <<>>
<1> SUFFICES ASSUME ms # <<>> PROVE FALSE
  OBVIOUS
<1>1. PICK s \in Seq(Seq(Inner)), m \in Seq(Inner) : ms = Append(s, m)
  BY SequenceEmptyOrAppend
<1> DEFINE w == Written(s)
           e == Append(m, Nul)
<1>2. w \o e = <<>>
  BY <1>1, WrittenAppend
<1>3. Nul \in DecodedLetter /\ Inner \subseteq DecodedLetter
  BY Letters DEF DecodedLetter, Inner
<1>4. Seq(Inner) \subseteq Seq(DecodedLetter)
  BY <1>3, SeqMonotonic
<1>5. s \in Seq(Seq(DecodedLetter)) /\ m \in Seq(DecodedLetter)
  BY <1>4, SeqMonotonic
<1>6. EndEach(s, Nul) \in Seq(Seq(DecodedLetter))
  BY <1>3, <1>5, EndEachType
<1>7. w \in Seq(DecodedLetter)
  BY <1>6, FlattenType DEF Written
<1>8. e \in Seq(DecodedLetter) /\ Len(e) = Len(m) + 1 /\ Len(m) \in Nat
  BY <1>3, <1>5, AppendProperties, LenProperties
<1> HIDE DEF w, e
<1>9. e = <<>>
  BY <1>2, <1>7, <1>8, ConcatEqualIffEmpty
<1>10. Len(<<>>) = 0
  OBVIOUS
<1> QED BY <1>8, <1>9, <1>10

FlowsInv == TypeInv /\ SignedInv /\ FlowInv

LEMMA AlwaysFlows == Spec => []FlowsInv
<1>1. Init => FlowsInv
  BY InitType, InitSigned, InitFlow DEF FlowsInv
<1>2. FlowsInv /\ [Next]_vars => FlowsInv'
  <2> SUFFICES ASSUME TypeInv, SignedInv, FlowInv, [Next]_vars PROVE FlowsInv'
    BY DEF FlowsInv
  <2>1. TypeInv'
    BY StepType
  <2>2. SignedInv'
    BY StepSigned
  <2>3. FlowInv'
    BY FlowStep
  <2> QED BY <2>1, <2>2, <2>3 DEF FlowsInv
<1> QED BY <1>1, <1>2, PTL DEF Spec

(* What the streams say of a user of whom every file is plain or refused *)
LEMMA ReceivedOfClean ==
  ASSUME FlowsInv, NEW u \in User, Clean(u), NEW ms, IsWaiting(ms)
  PROVE  /\ Among(Received(u), Expected(u))
         /\ WellFormed(u) => IsPrefix(Received(u), Expected(u))
         /\ WellFormed(u) /\ Rest(u) \in Seq(Inner) => Coming(u, ms) = Expected(u)
<1> DEFINE x == Received(u)
           y == EventsOf(u, Readings(ms))
           expected == Expected(u)
           own == Coming(u, ms)
           rest == Rest(u)
           lossless == WellFormed(u)
<1>1. sumerevent \in Seq(Note) /\ ms \in Seq(Seq(Inner))
  BY DEF FlowsInv, FlowInv, IsWaiting
<1>2. Readings(ms) \in Seq(Note)
  BY <1>1, ReadingsType
<1>3. x \in Seq(Note) /\ y \in Seq(Note)
  BY <1>1, <1>2, EventsOfType DEF Received
<1>4. own = x \o y
  BY <1>1, <1>2, EventsOfConcat DEF Coming, Received
<1>5. expected \in Seq(Note)
  BY ExpectedType DEF FlowsInv
<1>6. Streams(u, rest, own, expected, lossless)
  BY DEF IsWaiting
<1> HIDE DEF x, y, expected, own, rest, lossless
<1>7. /\ Among(x, expected)
      /\ lossless => IsPrefix(x, expected)
      /\ lossless /\ rest \in Seq(Inner) => x \o y = expected
  BY <1>3, <1>4, <1>5, <1>6, StreamsReceived
<1> QED BY <1>4, <1>7 DEF x, expected, own, rest, lossless

LEMMA DrainedRest ==
  ASSUME TypeInv, NEW u \in User, Drained(u)
  PROVE  Rest(u) \in Seq(Inner)
<1>1. toServer[u] = <<>> /\ chunk[u] = <<>> /\ buffer[u] \in Seq(Inner)
  BY DEF Drained, TypeInv
<1>2. <<>> \o <<>> = <<>> /\ DOMAIN <<>> = {}
  OBVIOUS
<1>3. Characters(<<>>) = <<>>
  BY <1>2 DEF Characters
<1>4. buffer[u] \o <<>> = buffer[u]
  BY <1>1, ConcatEmptySeq
<1> QED BY <1>1, <1>2, <1>3, <1>4 DEF Rest

LEMMA FlowsReceiver ==
  ASSUME FlowsInv
  PROVE  ReceiverSurvives
<1> SUFFICES ASSUME crashed PROVE ReceiverSurvives
  BY DEF ReceiverSurvives
<1>1. ~Unharmed
  BY DEF FlowsInv, FlowInv
<1>2. PICK u \in User : ~Clean(u)
  BY <1>1 DEF Unharmed
<1> QED BY <1>2 DEF Clean, Clear, ReceiverSurvives

LEMMA FlowsInvented ==
  ASSUME FlowsInv
  PROVE  NothingInvented
<1>1. ASSUME NEW u \in User, Clean(u) PROVE Among(Received(u), Expected(u))
  <2>1. CASE crashed
    BY <1>1, <2>1 DEF FlowsInv, FlowInv
  <2>2. CASE ~crashed
    <3>1. PICK ms : IsWaiting(ms)
      BY <2>2 DEF FlowsInv, FlowInv
    <3> QED BY <1>1, <3>1, ReceivedOfClean
  <2> QED BY <2>1, <2>2
<1> QED BY <1>1 DEF NothingInvented, Clean, Clear

LEMMA FlowsLost ==
  ASSUME FlowsInv
  PROVE  NothingLost
<1>1. ASSUME NEW u \in User, WellFormed(u), ~crashed
      PROVE  /\ IsPrefix(Received(u), Expected(u))
             /\ Drained(u) => Received(u) = Expected(u)
  <2>1. PICK ms : IsWaiting(ms)
    BY <1>1 DEF FlowsInv, FlowInv
  <2>2. /\ IsPrefix(Received(u), Expected(u))
        /\ Rest(u) \in Seq(Inner) => Coming(u, ms) = Expected(u)
    BY <1>1, <2>1, WellFormedClean, ReceivedOfClean
  <2>3. ASSUME Drained(u) PROVE Received(u) = Expected(u)
    <3>1. Rest(u) \in Seq(Inner)
      BY <2>3, DrainedRest DEF FlowsInv
    <3>2. ms \in Seq(Seq(Inner)) /\ Written(ms) = <<>>
      BY <2>1, <2>3 DEF IsWaiting, Drained
    <3>3. ms = <<>>
      BY <3>2, WrittenNothing
    <3>4. Readings(<<>>) = <<>>
      <4>1. DOMAIN <<>> = {}
        OBVIOUS
      <4> QED BY <4>1 DEF Readings
    <3>5. sumerevent \o <<>> = sumerevent
      <4>1. sumerevent \in Seq(Note)
        BY DEF FlowsInv, FlowInv
      <4> QED BY <4>1, ConcatEmptySeq
    <3>6. Coming(u, ms) = Received(u)
      BY <3>3, <3>4, <3>5 DEF Coming, Received
    <3> QED BY <2>2, <3>1, <3>6
  <2> QED BY <2>2, <2>3
<1> QED BY <1>1 DEF NothingLost

(* An exception leaves communicationThread, in Event(frame_body), only if   *)
(* some client has reported a file that is neither plain nor refused frame  *)
(* by frame.                                                                *)
THEOREM ReceiverHolds == Spec => []ReceiverSurvives
<1>1. FlowsInv => ReceiverSurvives
  BY FlowsReceiver
<1> QED BY <1>1, AlwaysFlows, PTL

(* Of a user whose files are plain or refused the receiver never has an     *)
(* event twice, out of order, or put together from two, though an exception *)
(* of parse makes the reactor drop the rest of a chunk.                     *)
THEOREM InventsNothing == Spec => []NothingInvented
<1>1. FlowsInv => NothingInvented
  BY FlowsInvented
<1> QED BY <1>1, AlwaysFlows, PTL

(* However reads cut the reports of a user whose files are plain, and       *)
(* whatever others report, the receiver has a prefix of the user's events,  *)
(* and all of them when nothing is on its way.                              *)
THEOREM LosesNothing == Spec => []NothingLost
<1>1. FlowsInv => NothingLost
  BY FlowsLost
<1> QED BY <1>1, AlwaysFlows, PTL

-----------------------------------------------------------------------------
(* Totals *)

(* Totals, one event after another *)
PairsOf(own, events, key) == UNION {{i} \X True(events[i], key) : i \in own}

LEMMA TotalMore ==
  ASSUME NEW own, NEW events, NEW key, IsFiniteSet(PairsOf(own, events, key)),
         NEW n, n \notin own, IsFiniteSet(True(events[n], key))
  PROVE  /\ IsFiniteSet(PairsOf(own \cup {n}, events, key))
         /\ Total(own \cup {n}, events, key) =
              Total(own, events, key) + Cardinality(True(events[n], key))
<1> DEFINE T == True(events[n], key)
           N == {n} \X T
           P == PairsOf(own, events, key)
           f == [x \in T |-> <<n, x>>]
<1>1. PairsOf(own \cup {n}, events, key) = P \cup N
  BY DEF PairsOf
<1>2. P \cap N = {}
  BY DEF PairsOf
<1>3. IsFiniteSet(T) /\ IsFiniteSet(P)
  OBVIOUS
<1>4. /\ Total(own, events, key) = Cardinality(P)
      /\ Total(own \cup {n}, events, key) = Cardinality(PairsOf(own \cup {n}, events, key))
  BY DEF Total, PairsOf
<1> HIDE DEF T, P
<1>5. f \in Bijection(T, N)
  <2>1. f \in [T -> N]
    OBVIOUS
  <2>2. \A x, y \in T : f[x] = f[y] => x = y
    OBVIOUS
  <2>3. \A y \in N : \E x \in T : f[x] = y
    OBVIOUS
  <2> HIDE DEF f, N
  <2> QED BY <2>1, <2>2, <2>3 DEF Bijection, Injection, Surjection, IsInjective
<1>6. ExistsBijection(T, N)
  BY <1>5 DEF ExistsBijection
<1> HIDE DEF N, f
<1>7. IsFiniteSet(N) /\ Cardinality(N) = Cardinality(T)
  BY <1>3, <1>6, FS_Bijection
<1>8. /\ IsFiniteSet(P \cup N)
      /\ Cardinality(P \cup N) = Cardinality(P) + Cardinality(N) - Cardinality(P \cap N)
  BY <1>3, <1>7, FS_Union
<1>9. Cardinality(P \cap N) = 0 /\ Cardinality(P) \in Nat /\ Cardinality(N) \in Nat
  BY <1>2, <1>3, <1>7, FS_EmptySet, FS_CardinalityType
<1>10. Cardinality(P \cup N) = Cardinality(P) + Cardinality(T)
  BY <1>7, <1>8, <1>9
<1>11. IsFiniteSet(P \cup N)
  BY <1>8
<1> QED BY <1>1, <1>4, <1>10, <1>11 DEF T

LEMMA TotalSame ==
  ASSUME NEW own, NEW s, NEW t, NEW key, \A i \in own : s[i] = t[i]
  PROVE  PairsOf(own, s, key) = PairsOf(own, t, key) /\ Total(own, s, key) = Total(own, t, key)
<1>1. PairsOf(own, s, key) = PairsOf(own, t, key)
  BY DEF PairsOf
<1>2. /\ Total(own, s, key) = Cardinality(PairsOf(own, s, key))
      /\ Total(own, t, key) = Cardinality(PairsOf(own, t, key))
  BY DEF Total, PairsOf
<1> QED BY <1>1, <1>2

LEMMA TotalNone ==
  ASSUME NEW events, NEW key
  PROVE  IsFiniteSet(PairsOf({}, events, key)) /\ Total({}, events, key) = 0
<1>1. PairsOf({}, events, key) = {} /\ Total({}, events, key) = Cardinality(PairsOf({}, events, key))
  BY DEF PairsOf, Total
<1> QED BY <1>1, FS_EmptySet

(* Events of which as many entries are true have the same total. *)
LEMMA EqualTotals ==
  ASSUME NEW s, NEW t, NEW key, NEW n \in Nat,
         \A i \in 1..n : /\ IsFiniteSet(True(s[i], key)) /\ IsFiniteSet(True(t[i], key))
                         /\ Cardinality(True(s[i], key)) = Cardinality(True(t[i], key))
  PROVE  Total(1..n, s, key) = Total(1..n, t, key)
<1> DEFINE Equal(k) == /\ IsFiniteSet(PairsOf(1..k, s, key)) /\ IsFiniteSet(PairsOf(1..k, t, key))
                       /\ Total(1..k, s, key) = Total(1..k, t, key)
           S == {k \in Nat : k <= n => Equal(k)}
<1>1. 0 \in S
  <2>1. 1..0 = {}
    OBVIOUS
  <2>2. Equal(0)
    BY <2>1, TotalNone
  <2> QED BY <2>2
<1>2. ASSUME NEW k \in S PROVE k + 1 \in S
  <2>1. ASSUME k + 1 <= n PROVE Equal(k + 1)
    <3>1. k \in Nat /\ Equal(k) /\ k + 1 \in 1..n
      BY <2>1
    <3>2. 1..(k + 1) = 1..k \cup {k + 1} /\ k + 1 \notin 1..k
      BY <3>1
    <3>3. /\ IsFiniteSet(True(s[k + 1], key)) /\ IsFiniteSet(True(t[k + 1], key))
          /\ Cardinality(True(s[k + 1], key)) = Cardinality(True(t[k + 1], key))
      BY <3>1
    <3> DEFINE j == k + 1
               K == 1..k
    <3>0. /\ j \notin K /\ IsFiniteSet(True(s[j], key)) /\ IsFiniteSet(True(t[j], key))
          /\ IsFiniteSet(PairsOf(K, s, key)) /\ IsFiniteSet(PairsOf(K, t, key))
      BY <3>1, <3>2, <3>3
    <3> HIDE DEF j, K
    <3>4. /\ IsFiniteSet(PairsOf(K \cup {j}, s, key))
          /\ Total(K \cup {j}, s, key) = Total(K, s, key) + Cardinality(True(s[j], key))
      BY <3>0, TotalMore
    <3>5. /\ IsFiniteSet(PairsOf(K \cup {j}, t, key))
          /\ Total(K \cup {j}, t, key) = Total(K, t, key) + Cardinality(True(t[j], key))
      BY <3>0, TotalMore
    <3> QED BY <3>1, <3>2, <3>3, <3>4, <3>5 DEF j, K
  <2> QED BY <2>1
<1>3. S \in SUBSET Nat
  OBVIOUS
<1> HIDE DEF S
<1>4. S = Nat
  BY <1>1, <1>2, <1>3, Numbers
<1> QED BY <1>4 DEF S

(* The general information of an event that is read or expected is finite. *)
LEMMA NoteFinite ==
  ASSUME NEW e \in Note, NEW key
  PROVE  IsFiniteSet(True(e, key))
<1>1. IsFiniteSet(DOMAIN e.info)
  <2>1. ASSUME NEW m \in Seq(Inner), e = ReadEvent(m) PROVE IsFiniteSet(DOMAIN e.info)
    <3> DEFINE lines == GetLines(m, Newline)
               entries == EntriesOf(lines)
               keys == [i \in entries |-> WithoutFirst(KeyOf(lines[i]))]
               D == {keys[i] : i \in entries}
    <3>1. DOMAIN e.info = D
      BY <2>1 DEF ReadEvent, Information
    <3>2. entries \subseteq DOMAIN lines
      BY DEF EntriesOf, FieldsOf
    <3>3. m \in Text
      <4>1. Inner \subseteq Letter
        BY InnerLetters
      <4> QED BY <4>1, SeqMonotonic DEF Text
    <3>4. IsFiniteSet(DOMAIN lines)
      <4>1. \E S : lines \in Seq(S)
        BY <3>3, GetLinesValue DEF Text
      <4>2. Len(lines) \in Nat /\ DOMAIN lines = 1..Len(lines)
        BY <4>1, LenProperties
      <4> QED BY <4>2, FS_Interval
    <3> HIDE DEF lines
    <3>5. IsFiniteSet(entries)
      BY <3>2, <3>4, FS_Subset
    <3> HIDE DEF entries
    <3>6. keys \in Surjection(entries, D)
      BY DEF Surjection
    <3> HIDE DEF keys, D
    <3> QED BY <3>1, <3>5, <3>6, FS_Surjection
  <2>2. ASSUME NEW u \in User, NEW event \in Event, e = AsReceived(u, event)
        PROVE  IsFiniteSet(DOMAIN e.info)
    <3>1. e.info = ReceivedInfo(event)
      BY <2>2 DEF AsReceived, ReceivedInfo, ReceivedHeading, Extra, BlackEnd
    <3> DEFINE K == DOMAIN event.info
               B == {<<Blank>> \o k : k \in K}
               f == [k \in K |-> <<Blank>> \o k]
    <3>2. DOMAIN e.info = B \cup {Extra}
      BY <3>1, ReceivedInfoValue
    <3>3. IsFiniteSet(K)
      BY DEF Event
    <3> HIDE DEF K
    <3>4. f \in Surjection(K, B)
      BY DEF Surjection
    <3> HIDE DEF B, f
    <3>5. IsFiniteSet(B)
      BY <3>3, <3>4, FS_Surjection
    <3> QED BY <3>2, <3>5, FS_AddElement
  <2> QED BY <2>1, <2>2 DEF Note
<1>2. True(e, key) \subseteq DOMAIN e.info
  BY DEF True
<1> QED BY <1>1, <1>2, FS_Subset

(* The events of a user, counted in all events and among its own *)
OwnAt(u, events) == {i \in DOMAIN events : events[i].owner = ReceivedValue(<<u>>)}

CountsAgree(u, events, key) ==
  LET own == EventsOf(u, events)
      at  == OwnAt(u, events)
  IN  /\ IsFiniteSet(at) /\ Cardinality(at) = Len(own)
      /\ IsFiniteSet(PairsOf(at, events, key)) /\ IsFiniteSet(PairsOf(1..Len(own), own, key))
      /\ Total(at, events, key) = Total(1..Len(own), own, key)

LEMMA CountOwn ==
  ASSUME NEW s \in Seq(Note), NEW u, NEW key
  PROVE  CountsAgree(u, s, key)
<1> DEFINE P == {x \in Seq(Note) : CountsAgree(u, x, key)}
<1>1. <<>> \in P
  <2>1. DOMAIN <<>> = {} /\ Len(<<>>) = 0 /\ 1..0 = {}
    OBVIOUS
  <2>2. OwnAt(u, <<>>) = {}
    BY <2>1 DEF OwnAt
  <2>3. EventsOf(u, <<>>) = <<>>
    BY EventsOfEmpty
  <2>4. IsFiniteSet({}) /\ Cardinality({}) = 0
    BY FS_EmptySet
  <2>5. IsFiniteSet(PairsOf({}, <<>>, key)) /\ Total({}, <<>>, key) = 0
    BY TotalNone
  <2>6. CountsAgree(u, <<>>, key)
    BY <2>1, <2>2, <2>3, <2>4, <2>5 DEF CountsAgree
  <2> QED BY <2>6, EmptySeq
<1>2. ASSUME NEW x \in P, NEW e \in Note PROVE Append(x, e) \in P
  <2> DEFINE y == Append(x, e)
             n == Len(x)
             at == OwnAt(u, x)
             own == EventsOf(u, x)
             l == Len(own)
  <2>1. x \in Seq(Note) /\ CountsAgree(u, x, key)
    OBVIOUS
  <2>2. /\ y \in Seq(Note) /\ Len(y) = n + 1 /\ n \in Nat
        /\ \A i \in 1..n : y[i] = x[i]
        /\ y[n + 1] = e
        /\ DOMAIN x = 1..n /\ DOMAIN y = 1..(n + 1)
    BY <2>1, AppendProperties, LenProperties
  <2>3. own \in Seq(Note) /\ l \in Nat
    BY <2>1, EventsOfType, LenProperties
  <2>4. /\ IsFiniteSet(at) /\ Cardinality(at) = l
        /\ IsFiniteSet(PairsOf(at, x, key)) /\ IsFiniteSet(PairsOf(1..l, own, key))
        /\ Total(at, x, key) = Total(1..l, own, key)
    BY <2>1 DEF CountsAgree
  <2>5. EventsOf(u, y) = IF e.owner = ReceivedValue(<<u>>) THEN Append(own, e) ELSE own
    BY <2>1, EventsOfAppend
  <2>6. at \subseteq 1..n /\ n + 1 \notin at
    BY <2>2 DEF OwnAt
  <2>7. OwnAt(u, y) = IF e.owner = ReceivedValue(<<u>>) THEN at \cup {n + 1} ELSE at
    <3> HIDE DEF y
    <3>1. CASE e.owner = ReceivedValue(<<u>>)
      BY <2>2, <3>1 DEF OwnAt
    <3>2. CASE e.owner # ReceivedValue(<<u>>)
      BY <2>2, <3>2 DEF OwnAt
    <3> QED BY <3>1, <3>2
  <2>8. PairsOf(at, y, key) = PairsOf(at, x, key) /\ Total(at, y, key) = Total(at, x, key)
    <3>1. \A i \in at : y[i] = x[i]
      BY <2>2, <2>6
    <3> HIDE DEF y, at
    <3> QED BY <3>1, TotalSame
  <2> HIDE DEF y, n, at, own, l
  <2>9. ASSUME e.owner # ReceivedValue(<<u>>) PROVE CountsAgree(u, y, key)
    BY <2>4, <2>5, <2>7, <2>8, <2>9 DEF CountsAgree, l
  <2>10. ASSUME e.owner = ReceivedValue(<<u>>) PROVE CountsAgree(u, y, key)
    <3> DEFINE o == Append(own, e)
    <3>1. /\ Len(o) = l + 1 /\ o[l + 1] = e /\ \A i \in 1..l : o[i] = own[i]
      BY <2>3, AppendProperties DEF l
    <3> HIDE DEF o
    <3>2. IsFiniteSet(True(e, key))
      BY NoteFinite
    <3>3. /\ IsFiniteSet(PairsOf(at \cup {n + 1}, y, key))
          /\ Total(at \cup {n + 1}, y, key) = Total(at, y, key) + Cardinality(True(e, key))
      <4> DEFINE j == n + 1
      <4>1. j \notin at /\ y[j] = e /\ IsFiniteSet(PairsOf(at, y, key))
        BY <2>2, <2>4, <2>6, <2>8
      <4> HIDE DEF j
      <4>2. IsFiniteSet(True(y[j], key))
        BY <3>2, <4>1
      <4>3. /\ IsFiniteSet(PairsOf(at \cup {j}, y, key))
            /\ Total(at \cup {j}, y, key) = Total(at, y, key) + Cardinality(True(y[j], key))
        BY <4>1, <4>2, TotalMore
      <4> QED BY <4>1, <4>3 DEF j
    <3>4. PairsOf(1..l, o, key) = PairsOf(1..l, own, key) /\ Total(1..l, o, key) = Total(1..l, own, key)
      BY <3>1, TotalSame
    <3>5. /\ IsFiniteSet(PairsOf(1..(l + 1), o, key))
          /\ Total(1..(l + 1), o, key) = Total(1..l, o, key) + Cardinality(True(e, key))
      <4> DEFINE j == l + 1
                 K == 1..l
      <4>1. j \notin K /\ o[j] = e /\ 1..(l + 1) = K \cup {j} /\ IsFiniteSet(PairsOf(K, o, key))
        BY <2>3, <2>4, <3>1, <3>4
      <4> HIDE DEF j, K
      <4>2. IsFiniteSet(True(o[j], key))
        BY <3>2, <4>1
      <4>3. /\ IsFiniteSet(PairsOf(K \cup {j}, o, key))
            /\ Total(K \cup {j}, o, key) = Total(K, o, key) + Cardinality(True(o[j], key))
        BY <4>1, <4>2, TotalMore
      <4> QED BY <4>1, <4>3 DEF K
    <3>6. IsFiniteSet(at \cup {n + 1}) /\ Cardinality(at \cup {n + 1}) = l + 1
      BY <2>4, <2>6, FS_AddElement
    <3>7. EventsOf(u, y) = o /\ OwnAt(u, y) = at \cup {n + 1}
      BY <2>5, <2>7, <2>10 DEF o
    <3>8. Total(at \cup {n + 1}, y, key) = Total(1..(l + 1), o, key)
      BY <2>4, <2>8, <3>3, <3>4, <3>5
    <3> QED BY <3>1, <3>3, <3>5, <3>6, <3>7, <3>8 DEF CountsAgree
  <2>11. CountsAgree(u, y, key)
    BY <2>9, <2>10
  <2> QED BY <2>2, <2>11 DEF y
<1>3. P \in SUBSET Seq(Note)
  OBVIOUS
<1> HIDE DEF P
<1>4. P = Seq(Note)
  BY <1>1, <1>2, <1>3, Sequences
<1>5. s \in P
  BY <1>4
<1> QED BY <1>5 DEF P

-----------------------------------------------------------------------------
(* The owners of the events *)

(* An event without an owner, or of a user *)
IsOwned(e) == e.owner = <<>> \/ \E v \in User : e.owner = ReceivedValue(<<v>>)

OwnedMessages(ms) ==
  ms \in Seq(Seq(Inner)) /\ toClient = Written(ms) /\ \A i \in 1..Len(ms) : IsOwned(ReadEvent(ms[i]))

(* No event has an owner but the users. *)
OwnedInv ==
  (\A i \in 1..Len(sumerevent) : IsOwned(sumerevent[i])) /\ \E ms : OwnedMessages(ms)

LEMMA InitOwned == Init => OwnedInv
<1> SUFFICES ASSUME Init PROVE OwnedInv
  OBVIOUS
<1>1. sumerevent = <<>> /\ toClient = <<>>
  BY DEF Init
<1>2. <<>> \in Seq(Seq(Inner)) /\ Len(<<>>) = 0 /\ DOMAIN <<>> = {} /\ 1..0 = {}
  BY EmptySeq
<1>3. EndEach(<<>>, Nul) = <<>>
  BY <1>2 DEF EndEach
<1>4. Written(<<>>) = <<>>
  BY <1>3, FlattenEmpty DEF Written
<1>5. OwnedMessages(<<>>)
  BY <1>1, <1>2, <1>4 DEF OwnedMessages
<1> QED BY <1>1, <1>2, <1>5 DEF OwnedInv

LEMMA OwnedProcess ==
  ASSUME TypeInv, SignedInv, OwnedInv, NEW u \in User, Process(u)
  PROVE  OwnedInv'
<1> DEFINE copies == Copies(Parse(Pending(u)))
<1>1. sumerevent' = sumerevent
  BY ProcessSame
<1>2. PICK ms : OwnedMessages(ms)
  BY DEF OwnedInv
<1>3. ms \in Seq(Seq(Inner)) /\ toClient = Written(ms) /\ \A i \in 1..Len(ms) : IsOwned(ReadEvent(ms[i]))
  BY <1>2 DEF OwnedMessages
<1>4. ASSUME toClient' = toClient PROVE OwnedInv'
  <2>1. OwnedMessages(ms)'
    BY <1>3, <1>4 DEF OwnedMessages
  <2> QED BY <1>1, <2>1 DEF OwnedInv
<1>5. Parse(Pending(u)) = Malformed => toClient' = toClient
  BY RestProcess
<1>6. Parse(Pending(u)) # Malformed => toClient' = toClient \o copies
  BY RestProcess
<1>7. Pending(u) \in Seq(Inner) /\ Signed(Pending(u), DecodedChar(u))
  BY RestProcess, SignedPending
<1>8. copies # <<>> => OwnedCopy(copies, u)
  BY <1>7, OwnerOfCopy
<1> HIDE DEF copies
<1>9. CASE toClient' = toClient \o copies /\ copies = <<>>
  <2>1. toClient \in Seq(DecodedLetter)
    BY DEF TypeInv
  <2>2. toClient \o <<>> = toClient
    BY <2>1, ConcatEmptySeq
  <2> QED BY <1>4, <1>9, <2>2
<1>10. CASE toClient' = toClient \o copies /\ copies # <<>>
  <2>1. PICK m \in Seq(Inner) :
          copies = Append(m, Nul) /\ ReadEvent(m).owner \in {<<>>, ReceivedValue(<<u>>)}
    BY <1>8, <1>10 DEF OwnedCopy
  <2> DEFINE more == Append(ms, m)
  <2>2. /\ more \in Seq(Seq(Inner)) /\ Len(more) = Len(ms) + 1 /\ Len(ms) \in Nat
        /\ \A i \in 1..Len(ms) : more[i] = ms[i]
        /\ more[Len(ms) + 1] = m
    BY <1>3, AppendProperties, LenProperties
  <2>3. toClient' = Written(more)
    BY <1>3, <1>10, <2>1, WrittenAppend
  <2> HIDE DEF more
  <2>4. IsOwned(ReadEvent(m))
    BY <2>1 DEF IsOwned
  <2>5. ASSUME NEW i \in 1..Len(more) PROVE IsOwned(ReadEvent(more[i]))
    <3>1. CASE i \in 1..Len(ms)
      BY <1>3, <2>2, <3>1
    <3>2. CASE i = Len(ms) + 1
      BY <2>2, <2>4, <3>2
    <3> QED BY <2>2, <3>1, <3>2
  <2>6. OwnedMessages(more)'
    BY <2>2, <2>3, <2>5 DEF OwnedMessages
  <2> QED BY <1>1, <2>6 DEF OwnedInv
<1> QED BY <1>4, <1>5, <1>6, <1>9, <1>10

LEMMA OwnedReceive ==
  ASSUME sumerevent \in Seq(Note), OwnedInv, Receive
  PROVE  OwnedInv'
<1> DEFINE text == SubSeq(toClient, 1, Ends(toClient) - 1)
<1>1. /\ toClient # <<>>
      /\ toClient' = SubSeq(toClient, Ends(toClient) + 1, Len(toClient))
      /\ \/ sumerevent' = sumerevent
         \/ sumerevent' = Append(sumerevent, ReadEvent(text))
  BY DEF Receive
<1>2. PICK ms : OwnedMessages(ms)
  BY DEF OwnedInv
<1>3. ms \in Seq(Seq(Inner)) /\ toClient = Written(ms) /\ \A i \in 1..Len(ms) : IsOwned(ReadEvent(ms[i]))
  BY <1>2 DEF OwnedMessages
<1>4. ms # <<>> /\ text = ms[1] /\ toClient' = Written(Others(ms))
  BY <1>1, <1>3, WrittenFirst
<1> HIDE DEF text
<1>5. /\ Others(ms) \in Seq(Seq(Inner)) /\ Len(ms) \in Nat \ {0} /\ Len(Others(ms)) = Len(ms) - 1
      /\ \A i \in 1..(Len(ms) - 1) : Others(ms)[i] = ms[i + 1]
      /\ ms[1] \in Seq(Inner)
  BY <1>3, <1>4, OthersType
<1>6. ASSUME NEW i \in 1..Len(Others(ms)) PROVE IsOwned(ReadEvent(Others(ms)[i]))
  <2>1. i + 1 \in 1..Len(ms) /\ Others(ms)[i] = ms[i + 1]
    BY <1>5
  <2> QED BY <1>3, <2>1
<1>7. OwnedMessages(Others(ms))'
  BY <1>4, <1>5, <1>6 DEF OwnedMessages
<1>8. IsOwned(ReadEvent(text))
  <2>1. 1 \in 1..Len(ms)
    BY <1>5
  <2> QED BY <1>3, <1>4, <2>1
<1>9. CASE sumerevent' = sumerevent
  BY <1>7, <1>9 DEF OwnedInv
<1>10. CASE sumerevent' = Append(sumerevent, ReadEvent(text))
  <2> DEFINE e == ReadEvent(text)
             n == Len(sumerevent)
  <2>1. e \in Note
    BY <1>4, <1>5 DEF Note
  <2>2. IsOwned(e)
    BY <1>8
  <2> HIDE DEF e
  <2>3. /\ Len(Append(sumerevent, e)) = n + 1 /\ n \in Nat /\ Append(sumerevent, e)[n + 1] = e
        /\ \A i \in 1..n : Append(sumerevent, e)[i] = sumerevent[i]
    BY <2>1, AppendProperties, LenProperties
  <2>4. sumerevent' = Append(sumerevent, e)
    BY <1>10 DEF e
  <2>5. \A i \in 1..n : IsOwned(sumerevent[i])
    BY DEF OwnedInv
  <2> HIDE DEF n
  <2>6. ASSUME NEW i \in 1..(n + 1) PROVE IsOwned(sumerevent'[i])
    <3>1. CASE i \in 1..n
      BY <2>3, <2>4, <2>5, <3>1
    <3>2. CASE i = n + 1
      BY <2>2, <2>3, <2>4, <3>2
    <3> QED BY <2>3, <3>1, <3>2
  <2>7. \A i \in 1..Len(sumerevent') : IsOwned(sumerevent'[i])
    BY <2>3, <2>4, <2>6
  <2>8. (\A i \in 1..Len(sumerevent) : IsOwned(sumerevent[i]))'
    BY <2>7 DEF IsOwned
  <2> QED BY <1>7, <2>8 DEF OwnedInv
<1> QED BY <1>1, <1>9, <1>10

LEMMA StepOwned ==
  ASSUME TypeInv, SignedInv, FlowInv, OwnedInv, [Next]_vars
  PROVE  OwnedInv'
<1>1. ASSUME UNCHANGED <<toClient, sumerevent>> PROVE OwnedInv'
  BY <1>1 DEF OwnedInv, OwnedMessages
<1>2. ASSUME NEW u \in User, NEW file \in File, Report(u, file) PROVE OwnedInv'
  BY <1>1, <1>2 DEF Report
<1>3. ASSUME NEW u \in User, Read(u) \/ Decode(u) PROVE OwnedInv'
  BY <1>1, <1>3 DEF Read, Decode
<1>4. ASSUME NEW u \in User, Process(u) PROVE OwnedInv'
  BY <1>4, OwnedProcess
<1>5. CASE Receive
  BY <1>5, OwnedReceive DEF FlowInv
<1>6. CASE UNCHANGED vars
  BY <1>1, <1>6 DEF vars
<1> QED BY <1>2, <1>3, <1>4, <1>5, <1>6 DEF Next

-----------------------------------------------------------------------------
(* Texts of one word *)

(* A text that is a character, but for white space *)
OneBlack(text, w) ==
  \E n \in 1..Len(text) : text[n] = w /\ \A i \in 1..Len(text) : i # n => text[i] \in White

LEMMA TrimOne ==
  ASSUME NEW S, NEW text \in Seq(S), NEW w, w \notin White
  PROVE  Trim(text) = <<w>> <=> OneBlack(text, w)
<1> DEFINE l == Len(text)
           one == <<w>>
<1>0. l \in Nat /\ Len(one) = 1 /\ one[1] = w /\ one # <<>>
  BY LenProperties
<1> HIDE DEF one
<1>1. ASSUME NEW n \in 1..l, text[n] = w, \A i \in 1..l : i # n => text[i] \in White
      PROVE  Trim(text) = one
  <2>1. /\ \A i \in 1..(n - 1) : text[i] \in White
        /\ \A i \in (n + 1)..l : text[i] \in White
        /\ n <= n /\ text[n] \notin White
    BY <1>0, <1>1
  <2>2. Trim(text) = SubSeq(text, n, n)
    BY <2>1, TrimIs
  <2>3. n \in Nat \ {0} /\ n \in Int /\ n <= l
    BY <1>0
  <2>4. /\ SubSeq(text, n, n) \in Seq(S)
        /\ Len(SubSeq(text, n, n)) = IF n <= n THEN n - n + 1 ELSE 0
        /\ \A i \in 1..(n - n + 1) : SubSeq(text, n, n)[i] = text[n + i - 1]
    BY <2>3, PartType
  <2>5. Len(SubSeq(text, n, n)) = 1 /\ SubSeq(text, n, n)[1] = w
    BY <1>1, <2>3, <2>4
  <2>6. w \in S /\ one \in Seq(S)
    BY <1>1, ElementOfSeq DEF one
  <2>7. \A i \in 1..1 : SubSeq(text, n, n)[i] = one[i]
    BY <1>0, <2>5
  <2>8. SubSeq(text, n, n) = one
    BY <1>0, <2>4, <2>5, <2>6, <2>7, SeqEqual
  <2> QED BY <2>2, <2>8
<1>2. ASSUME Trim(text) = one PROVE OneBlack(text, w)
  <2>1. PICK m \in 1..l, n \in 1..l :
          /\ m <= n /\ text[m] \notin White /\ text[n] \notin White
          /\ \A i \in 1..(m - 1) : text[i] \in White
          /\ \A i \in (n + 1)..l : text[i] \in White
          /\ Trim(text) = SubSeq(text, m, n)
    BY <1>0, <1>2, TrimValue
  <2>2. m \in Nat \ {0} /\ n \in Int /\ n <= l
    BY <1>0
  <2>3. /\ Len(SubSeq(text, m, n)) = IF m <= n THEN n - m + 1 ELSE 0
        /\ \A i \in 1..(n - m + 1) : SubSeq(text, m, n)[i] = text[m + i - 1]
    BY <2>2, PartType
  <2>4. Len(SubSeq(text, m, n)) = 1 /\ SubSeq(text, m, n)[1] = w
    BY <1>0, <1>2, <2>1
  <2>5. m = n
    BY <2>1, <2>2, <2>3, <2>4
  <2>6. text[m] = w
    BY <2>2, <2>3, <2>4, <2>5
  <2>7. ASSUME NEW i \in 1..l, i # m PROVE text[i] \in White
    BY <1>0, <2>1, <2>2, <2>5, <2>7
  <2> QED BY <2>6, <2>7 DEF OneBlack
<1> QED BY <1>1, <1>2 DEF OneBlack, one

LEMMA OneBlackAgain ==
  ASSUME NEW t \in Text, NEW w, w \notin White
  PROVE  /\ <<Blank>> \o t \in Text
         /\ OneBlack(<<Blank>> \o t, w) <=> OneBlack(t, w)
<1> DEFINE b == <<Blank>>
           s == b \o t
           n == Len(t)
<1>0. Blank \in Letter /\ Blank \in White
  BY Letters DEF White
<1>1. b \in Seq(Letter) /\ Len(b) = 1 /\ b[1] = Blank
  BY <1>0
<1> HIDE DEF b
<1>2. t \in Seq(Letter) /\ n \in Nat
  BY LenProperties DEF Text
<1>3. /\ s \in Seq(Letter) /\ Len(s) = 1 + n
      /\ \A i \in 1..(1 + n) : s[i] = IF i <= 1 THEN b[i] ELSE t[i - 1]
  BY <1>1, <1>2, ConcatProperties
<1> HIDE DEF s, n
<1>4. s[1] = Blank /\ \A i \in 1..n : s[i + 1] = t[i]
  BY <1>1, <1>2, <1>3
<1>5. ASSUME OneBlack(t, w) PROVE OneBlack(s, w)
  <2>1. PICK k \in 1..n : t[k] = w /\ \A i \in 1..n : i # k => t[i] \in White
    BY <1>5 DEF OneBlack, n
  <2>2. k + 1 \in 1..(1 + n) /\ s[k + 1] = w
    BY <1>2, <1>4, <2>1
  <2>3. ASSUME NEW i \in 1..(1 + n), i # k + 1 PROVE s[i] \in White
    <3>1. CASE i = 1
      BY <1>0, <1>4, <3>1
    <3>2. CASE i # 1
      <4>1. i - 1 \in 1..n /\ i - 1 # k /\ s[i] = t[i - 1]
        BY <1>2, <1>3, <2>1, <2>3, <3>2
      <4> QED BY <2>1, <4>1
    <3> QED BY <3>1, <3>2
  <2> QED BY <1>3, <2>2, <2>3 DEF OneBlack
<1>6. ASSUME OneBlack(s, w) PROVE OneBlack(t, w)
  <2>1. PICK k \in 1..(1 + n) : s[k] = w /\ \A i \in 1..(1 + n) : i # k => s[i] \in White
    BY <1>3, <1>6 DEF OneBlack
  <2>2. k # 1
    BY <1>0, <1>4, <2>1
  <2>3. k - 1 \in 1..n /\ t[k - 1] = w
    BY <1>2, <1>3, <2>1, <2>2
  <2>4. ASSUME NEW i \in 1..n, i # k - 1 PROVE t[i] \in White
    <3>1. i + 1 \in 1..(1 + n) /\ i + 1 # k
      BY <1>2, <2>1, <2>4
    <3> QED BY <1>4, <2>1, <3>1
  <2> QED BY <2>3, <2>4 DEF OneBlack, n
<1> QED BY <1>3, <1>5, <1>6 DEF s, b, Text

LEMMA OneBlackDecoded ==
  ASSUME NEW t \in Text, NEW w, w \notin NonAscii, w # Garbage
  PROVE  OneBlack(Characters(t), w) <=> OneBlack(t, w)
<1> DEFINE c == Characters(t)
           n == Len(t)
<1>1. Len(c) = n /\ \A i \in 1..n : c[i] = DecodedChar(t[i])
  BY CharactersType
<1>2. \A i \in 1..n : t[i] \in Letter
  BY ElementOfSeq DEF Text
<1> HIDE DEF c
<1>3. ASSUME NEW i \in 1..n PROVE (c[i] \in White <=> t[i] \in White) /\ (c[i] = w <=> t[i] = w)
  <2>1. c[i] \in White <=> t[i] \in White
    BY <1>1, <1>2, WhiteDecoded
  <2>2. c[i] = IF t[i] \in NonAscii THEN Garbage ELSE t[i]
    BY <1>1 DEF DecodedChar
  <2> QED BY <2>1, <2>2
<1> QED BY <1>1, <1>3 DEF OneBlack, c

-----------------------------------------------------------------------------
(* Entries that are true *)

LEMMA OneElement ==
  ASSUME NEW S, NEW r \in S
  PROVE  <<r>> \in Seq(S) /\ Len(<<r>>) = 1 /\ \A n \in 1..Len(<<r>>) : <<r>>[n] = r
<1>1. <<r>> \in Seq(S) /\ Len(<<r>>) = 1 /\ <<r>>[1] = r
  OBVIOUS
<1>2. \A n \in 1..1 : n = 1
  OBVIOUS
<1> QED BY <1>1, <1>2

LEMMA UncutValue ==
  ASSUME NEW value \in Text, ~Occurs(Colon, value)
  PROVE  ReceivedValue(value) = <<Blank>> \o Characters(value)
<1>1. value \in Seq(Letter) /\ DOMAIN value = 1..Len(value) /\ Len(value) \in Nat
  BY LenProperties DEF Text
<1>2. \A i \in 1..Len(value) : value[i] # Colon
  BY <1>1 DEF Occurs, ToSet
<1>3. /\ FirstColon(value) \in 0..Len(value)
      /\ FirstColon(value) # 0 => value[FirstColon(value)] = Colon
  BY <1>1, FirstColonValue
<1>4. FirstColon(value) = 0
  BY <1>1, <1>2, <1>3
<1> QED BY <1>4 DEF ReceivedValue, FirstColon

(* An entry of the general information is true for the receiver if it is in *)
(* the file.                                                                *)
LEMMA TrueReceived ==
  ASSUME NEW u \in User, NEW event \in Event,
         \A k \in DOMAIN event.info : ~Occurs(Colon, event.info[k]),
         NEW w, w \notin White, w # "rest of a word"
  PROVE  /\ IsFiniteSet(True(event, w)) /\ IsFiniteSet(True(AsReceived(u, event), w))
         /\ Cardinality(True(AsReceived(u, event), w)) = Cardinality(True(event, w))
<1> DEFINE e == AsReceived(u, event)
           K == DOMAIN event.info
           b == <<Blank>>
           A == True(event, w)
           B == True(e, w)
           g == ReceivedInfo(event)
           f == [k \in A |-> b \o k]
           true == "true"
<1>1. e.info = g
  BY DEF AsReceived, ReceivedInfo, ReceivedHeading, Extra, BlackEnd
<1>2. DOMAIN g = {b \o k : k \in K} \cup {Extra} /\ \A k \in K : g[b \o k] = ReceivedValue(event.info[k])
  BY ReceivedInfoValue
<1>3. \A k \in K : k \in Text /\ event.info[k] \in Text
  BY InfoLinesType, LineLetters, SeqMonotonic DEF Text
<1>4. true \notin White /\ true \notin NonAscii /\ true # Garbage
  BY Letters DEF White, Newline, Blank, Garbage
<1>5. /\ A = {k \in K : Trim(k) = <<w>> /\ Trim(event.info[k]) = <<true>>}
      /\ B = {x \in DOMAIN g : Trim(x) = <<w>> /\ Trim(g[x]) = <<true>>}
  BY <1>1 DEF True
<1> HIDE DEF e, g, A, B, true, K
<1>6. ASSUME NEW k \in K
      PROVE  /\ Trim(b \o k) = <<w>> <=> Trim(k) = <<w>>
             /\ Trim(g[b \o k]) = <<true>> <=> Trim(event.info[k]) = <<true>>
  <2> DEFINE v == event.info[k]
             c == Characters(v)
  <2>1. k \in Text /\ v \in Text
    BY <1>3
  <2>2. c \in Text
    BY <2>1, CharactersType
  <2>3. g[b \o k] = b \o c
    BY <1>2, <2>1, UncutValue DEF K
  <2> HIDE DEF v
  <2>4. b \o k \in Text /\ (OneBlack(b \o k, w) <=> OneBlack(k, w))
    BY <2>1, OneBlackAgain
  <2>5. Trim(b \o k) = <<w>> <=> Trim(k) = <<w>>
    <3>1. Trim(b \o k) = <<w>> <=> OneBlack(b \o k, w)
      BY <2>4, TrimOne DEF Text
    <3>2. Trim(k) = <<w>> <=> OneBlack(k, w)
      BY <2>1, TrimOne DEF Text
    <3> QED BY <2>4, <3>1, <3>2
  <2>6. OneBlack(c, true) <=> OneBlack(v, true)
    BY <1>4, <2>1, OneBlackDecoded
  <2> HIDE DEF c
  <2>7. b \o c \in Text /\ (OneBlack(b \o c, true) <=> OneBlack(c, true))
    BY <1>4, <2>2, OneBlackAgain
  <2>8. Trim(b \o c) = <<true>> <=> Trim(v) = <<true>>
    <3>1. Trim(b \o c) = <<true>> <=> OneBlack(b \o c, true)
      BY <1>4, <2>7, TrimOne DEF Text
    <3>2. Trim(v) = <<true>> <=> OneBlack(v, true)
      BY <1>4, <2>1, TrimOne DEF Text
    <3> QED BY <2>6, <2>7, <3>1, <3>2
  <2> QED BY <2>3, <2>5, <2>8 DEF v
<1>7. Trim(Extra) # <<w>>
  <2> SUFFICES ASSUME Trim(Extra) = <<w>> PROVE FALSE
    OBVIOUS
  <2> DEFINE r == "rest of a word"
  <2>1. Extra = <<r>> /\ r # w
    BY DEF Extra
  <2> HIDE DEF r
  <2> DEFINE S == {r}
  <2>2. r \in S
    OBVIOUS
  <2> HIDE DEF S
  <2>3. Extra \in Seq(S) /\ \A n \in 1..Len(Extra) : Extra[n] = r
    BY <2>1, <2>2, OneElement
  <2>4. OneBlack(Extra, w)
    BY <2>3, TrimOne
  <2> QED BY <2>1, <2>3, <2>4 DEF OneBlack
<1>8. B = {b \o k : k \in A}
  <2>1. ASSUME NEW x \in B PROVE x \in {b \o k : k \in A}
    <3>1. x \in DOMAIN g /\ Trim(x) = <<w>> /\ Trim(g[x]) = <<true>>
      BY <1>5
    <3>2. PICK k \in K : x = b \o k
      BY <1>2, <1>7, <3>1
    <3>3. k \in A
      BY <1>5, <1>6, <3>1, <3>2
    <3> QED BY <3>2, <3>3
  <2>2. ASSUME NEW k \in A PROVE b \o k \in B
    <3>1. k \in K /\ Trim(k) = <<w>> /\ Trim(event.info[k]) = <<true>>
      BY <1>5
    <3>2. b \o k \in DOMAIN g /\ Trim(b \o k) = <<w>> /\ Trim(g[b \o k]) = <<true>>
      BY <1>2, <1>6, <3>1
    <3> QED BY <1>5, <3>2
  <2> QED BY <2>1, <2>2
<1>9. IsFiniteSet(A)
  <2>1. IsFiniteSet(K)
    BY DEF Event, K
  <2>2. A \subseteq K
    BY <1>5
  <2> QED BY <2>1, <2>2, FS_Subset
<1>10. f \in Bijection(A, B)
  <2>1. \A k, m \in A : b \o k = b \o m => k = m
    <3>1. A \subseteq Text
      BY <1>3, <1>5
    <3> QED BY <3>1, BlankApart
  <2>2. f \in [A -> B] /\ \A k \in A : f[k] = b \o k
    BY <1>8
  <2>3. \A y \in B : \E k \in A : f[k] = y
    BY <1>8, <2>2
  <2> HIDE DEF f
  <2> QED BY <2>1, <2>2, <2>3 DEF Bijection, Injection, Surjection, IsInjective
<1>11. ExistsBijection(A, B)
  BY <1>10 DEF ExistsBijection
<1>12. IsFiniteSet(B) /\ Cardinality(B) = Cardinality(A)
  BY <1>9, <1>11, FS_Bijection
<1> QED BY <1>9, <1>12 DEF A, B, e

-----------------------------------------------------------------------------
(* The events, as they are in the files *)

(* The events of files that the receiver should get, as they are in the files *)
Original(file) == IF file \in Forwarded THEN Events(file) ELSE <<>>

OriginalsOf(files) == [i \in DOMAIN files |-> Original(files[i])]

LEMMA OriginalType ==
  ASSUME NEW file \in File
  PROVE  Original(file) \in Seq(Event)
<1>1. Events(file) \in Seq(Event)
  BY EventsType
<1> HIDE DEF Event
<1>2. <<>> \in Seq(Event)
  BY EmptySeq
<1> QED BY <1>1, <1>2 DEF Original

LEMMA OriginalsType ==
  ASSUME NEW files \in Seq(File)
  PROVE  /\ OriginalsOf(files) \in Seq(Seq(Event)) /\ Len(OriginalsOf(files)) = Len(files)
         /\ \A i \in 1..Len(files) : OriginalsOf(files)[i] = Original(files[i])
<1> DEFINE T == Seq(Event)
           n == Len(files)
           d == OriginalsOf(files)
<1>1. n \in Nat /\ DOMAIN files = 1..n
  BY LenProperties
<1>2. \A i \in 1..n : Original(files[i]) \in T
  BY ElementOfSeq, OriginalType
<1>3. d = [i \in 1..n |-> Original(files[i])]
  BY <1>1 DEF OriginalsOf
<1> HIDE DEF T, n, d
<1>4. d \in [1..n -> T] /\ \A i \in 1..n : d[i] = Original(files[i])
  BY <1>2, <1>3
<1>5. d \in Seq(T) /\ Len(d) = n
  BY <1>1, <1>4
<1> QED BY <1>4, <1>5 DEF T, n, d

LEMMA OriginalsAppend ==
  ASSUME NEW files \in Seq(File), NEW file \in File
  PROVE  OriginalsOf(Append(files, file)) = Append(OriginalsOf(files), Original(file))
<1> DEFINE T == Seq(Event)
           n == Len(files)
           a == Append(files, file)
           one == Original(file)
           d == OriginalsOf(files)
           g == OriginalsOf(a)
           f == Append(d, one)
<1>1. /\ d \in Seq(T) /\ Len(d) = n /\ \A i \in 1..n : d[i] = Original(files[i])
  BY OriginalsType
<1>2. one \in T /\ n \in Nat
  BY LenProperties, OriginalType
<1>3. /\ a \in Seq(File) /\ Len(a) = n + 1 /\ \A i \in 1..n : a[i] = files[i]
      /\ a[n + 1] = file
  BY AppendProperties, LenProperties
<1>4. /\ g \in Seq(T) /\ Len(g) = n + 1 /\ \A i \in 1..(n + 1) : g[i] = Original(a[i])
  <2> HIDE DEF a
  <2> QED BY <1>3, OriginalsType
<1>5. /\ f \in Seq(T) /\ Len(f) = n + 1 /\ \A i \in 1..n : f[i] = d[i]
      /\ f[n + 1] = one
  <2> HIDE DEF d, n, T, one
  <2> QED BY <1>1, <1>2, AppendProperties, LenProperties
<1> HIDE DEF a, d, g, f, n, T
<1>6. ASSUME NEW i \in 1..(n + 1) PROVE g[i] = f[i]
  <2>1. CASE i = n + 1
    BY <1>2, <1>3, <1>4, <1>5, <2>1
  <2>2. CASE i \in 1..n
    BY <1>1, <1>2, <1>3, <1>4, <1>5, <2>2
  <2> QED BY <1>2, <2>1, <2>2
<1>7. g = f
  BY <1>4, <1>5, <1>6, SeqEqual
<1> QED BY <1>7 DEF a, d, g, f

(* Some events are others as they are received. *)
ReceivedAs(u, expected, events) ==
  /\ expected \in Seq(Note) /\ events \in Seq(Event) /\ Len(expected) = Len(events)
  /\ \A i \in 1..Len(events) : expected[i] = AsReceived(u, events[i])

LEMMA ReceivedAsConcat ==
  ASSUME NEW u, NEW x, NEW s, NEW y, NEW t, ReceivedAs(u, x, s), ReceivedAs(u, y, t)
  PROVE  ReceivedAs(u, x \o y, s \o t)
<1> DEFINE n == Len(s)
           k == Len(t)
           As(e) == AsReceived(u, e)
<1>1. /\ x \in Seq(Note) /\ s \in Seq(Event) /\ y \in Seq(Note) /\ t \in Seq(Event)
      /\ Len(x) = n /\ Len(y) = k /\ Len(s) = n /\ Len(t) = k
      /\ \A i \in 1..n : x[i] = As(s[i])
      /\ \A i \in 1..k : y[i] = As(t[i])
  BY DEF ReceivedAs
<1>2. n \in Nat /\ k \in Nat
  BY <1>1, LenProperties
<1> HIDE DEF As, n, k
<1>3. /\ x \o y \in Seq(Note) /\ Len(x \o y) = n + k
      /\ \A i \in 1..(n + k) : (x \o y)[i] = IF i <= n THEN x[i] ELSE y[i - n]
  <2>1. x \in Seq(Note) /\ y \in Seq(Note)
    BY <1>1
  <2>2. /\ x \o y \in Seq(Note) /\ Len(x \o y) = Len(x) + Len(y)
        /\ \A i \in 1..(Len(x) + Len(y)) :
             (x \o y)[i] = IF i <= Len(x) THEN x[i] ELSE y[i - Len(x)]
    BY <2>1, ConcatProperties
  <2> QED BY <1>1, <2>2
<1>4. /\ s \o t \in Seq(Event) /\ Len(s \o t) = n + k
      /\ \A i \in 1..(n + k) : (s \o t)[i] = IF i <= n THEN s[i] ELSE t[i - n]
  <2>1. s \in Seq(Event) /\ t \in Seq(Event)
    BY <1>1
  <2>2. /\ s \o t \in Seq(Event) /\ Len(s \o t) = Len(s) + Len(t)
        /\ \A i \in 1..(Len(s) + Len(t)) :
             (s \o t)[i] = IF i <= Len(s) THEN s[i] ELSE t[i - Len(s)]
    BY <2>1, ConcatProperties
  <2> QED BY <2>2 DEF n, k
<1>5. ASSUME NEW i \in 1..(n + k) PROVE (x \o y)[i] = As((s \o t)[i])
  <2>1. CASE i <= n
    <3>1. i \in 1..n
      BY <1>2, <2>1
    <3> QED BY <1>1, <1>3, <1>4, <2>1, <3>1
  <2>2. CASE ~(i <= n)
    <3>1. i - n \in 1..k
      BY <1>2, <2>2
    <3>2. y[i - n] = As(t[i - n])
      BY <1>1, <3>1
    <3> QED BY <1>3, <1>4, <2>2, <3>2
  <2> QED BY <2>1, <2>2
<1> QED BY <1>2, <1>3, <1>4, <1>5 DEF ReceivedAs, As

LEMMA ReceivedAsFile ==
  ASSUME NEW u \in User, NEW file \in File
  PROVE  ReceivedAs(u, Arriving[<<u, file>>], Original(file))
<1> DEFINE a == Arriving[<<u, file>>]
           o == Original(file)
           As(e) == AsReceived(u, e)
<1>1. a \in Seq(Note) /\ o \in Seq(Event)
  BY NoticesType, OriginalType
<1>2. a = IF file \in Forwarded THEN [i \in DOMAIN Events(file) |-> As(Events(file)[i])] ELSE <<>>
  BY DEF Arriving
<1> HIDE DEF a, As
<1>3. CASE file \in Forwarded
  <2>1. a = [i \in DOMAIN o |-> As(o[i])]
    BY <1>2, <1>3 DEF Original
  <2>2. DOMAIN o = 1..Len(o) /\ Len(o) \in Nat /\ DOMAIN a = 1..Len(a) /\ Len(a) \in Nat
    BY <1>1, LenProperties
  <2> HIDE DEF o
  <2>3. Len(a) = Len(o)
    BY <2>1, <2>2
  <2>4. \A i \in 1..Len(o) : a[i] = As(o[i])
    BY <2>1, <2>2
  <2> QED BY <1>1, <2>3, <2>4 DEF ReceivedAs, a, o, As
<1>4. CASE file \notin Forwarded
  <2>1. a = <<>> /\ o = <<>>
    BY <1>2, <1>4 DEF Original
  <2>2. Len(<<>>) = 0 /\ 1..0 = {}
    OBVIOUS
  <2> QED BY <1>1, <2>1, <2>2 DEF ReceivedAs, a, o
<1> QED BY <1>3, <1>4

LEMMA ReceivedAsFiles ==
  ASSUME NEW u \in User, NEW files \in Seq(File)
  PROVE  ReceivedAs(u, FlattenSeq(ArrivalsOf(u, files)), FlattenSeq(OriginalsOf(files)))
<1> DEFINE As(s) == ReceivedAs(u, FlattenSeq(ArrivalsOf(u, s)), FlattenSeq(OriginalsOf(s)))
           P == {s \in Seq(File) : As(s)}
<1>1. <<>> \in P
  <2>1. <<>> \in Seq(File) /\ DOMAIN <<>> = {} /\ Len(<<>>) = 0 /\ 1..0 = {}
    BY EmptySeq
  <2>2. ArrivalsOf(u, <<>>) = <<>> /\ OriginalsOf(<<>>) = <<>>
    BY <2>1 DEF ArrivalsOf, OriginalsOf
  <2>3. <<>> \in Seq(Note) /\ <<>> \in Seq(Event)
    <3> HIDE DEF Note, Event
    <3> QED BY EmptySeq
  <2>4. As(<<>>)
    BY <2>1, <2>2, <2>3, FlattenEmpty DEF ReceivedAs
  <2> QED BY <2>1, <2>4
<1>2. ASSUME NEW s \in P, NEW file \in File PROVE Append(s, file) \in P
  <2> DEFINE x == ArrivalsOf(u, s)
             a == Arriving[<<u, file>>]
             y == OriginalsOf(s)
             o == Original(file)
  <2>1. s \in Seq(File) /\ Append(s, file) \in Seq(File)
    BY AppendProperties
  <2>2. x \in Seq(Seq(Note)) /\ a \in Seq(Note)
    BY <2>1, ArrivalsType, NoticesType
  <2>3. y \in Seq(Seq(Event)) /\ o \in Seq(Event)
    BY <2>1, OriginalsType, OriginalType
  <2>4. ArrivalsOf(u, Append(s, file)) = Append(x, a) /\ OriginalsOf(Append(s, file)) = Append(y, o)
    BY <2>1, ArrivalsAppend, OriginalsAppend
  <2>5. ReceivedAs(u, FlattenSeq(x), FlattenSeq(y))
    OBVIOUS
  <2>6. ReceivedAs(u, a, o)
    BY ReceivedAsFile
  <2> HIDE DEF x, a, y, o
  <2>7. FlattenSeq(Append(x, a)) = FlattenSeq(x) \o a
    BY <2>2, FlattenAppend
  <2>8. FlattenSeq(Append(y, o)) = FlattenSeq(y) \o o
    BY <2>3, FlattenAppend
  <2>9. ReceivedAs(u, FlattenSeq(x) \o a, FlattenSeq(y) \o o)
    BY <2>5, <2>6, ReceivedAsConcat
  <2>10. As(Append(s, file))
    BY <2>4, <2>7, <2>8, <2>9
  <2> QED BY <2>1, <2>10
<1>3. P \in SUBSET Seq(File)
  OBVIOUS
<1> HIDE DEF P
<1>4. P = Seq(File)
  BY <1>1, <1>2, <1>3, Sequences
<1>5. files \in P
  BY <1>4
<1> QED BY <1>5 DEF P

-----------------------------------------------------------------------------
(* Summaries *)

(* The invariant behind SummaryCounts *)
CountsInv == FlowsInv /\ OwnedInv

LEMMA AlwaysCounts == Spec => []CountsInv
<1>1. Init => OwnedInv
  BY InitOwned
<1>2. FlowsInv /\ OwnedInv /\ [Next]_vars => OwnedInv'
  BY StepOwned DEF FlowsInv
<1>3. Spec => []OwnedInv
  BY <1>1, <1>2, AlwaysFlows, PTL DEF Spec
<1> QED BY <1>3, AlwaysFlows, PTL DEF CountsInv

LEMMA OneBlackAlone ==
  ASSUME NEW d \in Letter, NEW w
  PROVE  <<d>> \in Text /\ (OneBlack(<<d>>, w) <=> d = w)
<1> DEFINE s == <<d>>
<1>1. s \in Seq(Letter) /\ Len(s) = 1 /\ \A n \in 1..Len(s) : s[n] = d
  BY OneElement
<1> HIDE DEF s
<1>2. \A n \in 1..1 : n = 1
  OBVIOUS
<1>3. OneBlack(s, w) <=> d = w
  BY <1>1, <1>2 DEF OneBlack
<1> QED BY <1>1, <1>3 DEF s, Text

(* The summary takes a name in ASCII for that of its user only. *)
LEMMA TrimmedName ==
  ASSUME NEW u \in User \ NonAscii
  PROVE  /\ Trim(<<u>>) = <<u>> /\ <<u>> # <<>> /\ Trim(<<>>) = <<>>
         /\ \A v \in User : Trim(ReceivedValue(<<v>>)) = <<u>> <=> v = u
<1>1. u \in Letter /\ u \notin White /\ DecodedChar(u) = u
  BY NameLetters DEF DecodedChar
<1>2. Trim(<<u>>) = <<u>>
  <2>1. <<u>> \in Text /\ OneBlack(<<u>>, u)
    BY <1>1, OneBlackAlone
  <2> QED BY <1>1, <2>1, TrimOne DEF Text
<1>3. Len(<<u>>) = 1 /\ Len(<<>>) = 0
  OBVIOUS
<1>4. Trim(<<>>) = <<>>
  <2>1. <<>> \in Seq(Letter) /\ \A i \in 1..Len(<<>>) : <<>>[i] \in White
    BY <1>3, EmptySeq
  <2> QED BY <2>1, TrimWhite
<1>5. ASSUME NEW v \in User PROVE Trim(ReceivedValue(<<v>>)) = <<u>> <=> v = u
  <2> DEFINE d == DecodedChar(v)
             b == <<Blank>>
             s == <<d>>
  <2>1. d \in Letter /\ Blank \in Letter
    BY NameLetters, InnerLetters, Letters
  <2>2. ReceivedValue(<<v>>) = <<Blank, d>>
    BY OwnName
  <2>3. d = u <=> v = u
    BY <1>1, UserAssumption
  <2> HIDE DEF d
  <2>4. b \o s = <<Blank, d>>
    BY <2>1, TupleConcat
  <2>5. s \in Text /\ (OneBlack(s, u) <=> d = u)
    BY <2>1, OneBlackAlone
  <2> HIDE DEF s
  <2>6. b \o s \in Text /\ (OneBlack(b \o s, u) <=> OneBlack(s, u))
    BY <1>1, <2>5, OneBlackAgain
  <2> HIDE DEF b
  <2>7. Trim(b \o s) = <<u>> <=> OneBlack(b \o s, u)
    BY <1>1, <2>6, TrimOne DEF Text
  <2> QED BY <2>2, <2>3, <2>4, <2>5, <2>6, <2>7
<1>6. <<u>> # <<>>
  BY <1>3
<1> QED BY <1>2, <1>4, <1>5, <1>6

LEMMA OwnedIsOwn ==
  ASSUME NEW u \in User \ NonAscii, NEW events, NEW n, DOMAIN events = 1..n,
         \A i \in 1..n : IsOwned(events[i])
  PROVE  OwnedBy(<<u>>, events) = OwnAt(u, events)
<1>1. ASSUME NEW i \in 1..n
      PROVE  Trim(events[i].owner) = Trim(<<u>>) <=> events[i].owner = ReceivedValue(<<u>>)
  <2> DEFINE o == events[i].owner
  <2>1. o = <<>> \/ \E v \in User : o = ReceivedValue(<<v>>)
    BY DEF IsOwned
  <2> HIDE DEF o
  <2>2. CASE o = <<>>
    <3>1. Trim(ReceivedValue(<<u>>)) = <<u>>
      BY TrimmedName
    <3> QED BY <2>2, <3>1, TrimmedName DEF o
  <2>3. CASE \E v \in User : o = ReceivedValue(<<v>>)
    <3>1. PICK v \in User : o = ReceivedValue(<<v>>)
      BY <2>3
    <3>2. Trim(o) = <<u>> <=> v = u
      BY <3>1, TrimmedName
    <3>3. o = ReceivedValue(<<u>>) => v = u
      BY <3>1, TrimmedName
    <3>4. Trim(<<u>>) = <<u>>
      BY TrimmedName
    <3> QED BY <3>1, <3>2, <3>3, <3>4 DEF o
  <2> QED BY <2>1, <2>2, <2>3
<1> QED BY <1>1 DEF OwnedBy, OwnAt

LEMMA CountsSummary ==
  ASSUME CountsInv
  PROVE  SummaryCounts
<1> SUFFICES ASSUME NEW u \in User \ NonAscii, WellFormed(u), ~crashed, Drained(u),
                    \A i \in DOMAIN FlattenSeq(OriginalsOf(reported[u])) :
                      \A key \in DOMAIN FlattenSeq(OriginalsOf(reported[u]))[i].info :
                        ~Occurs(Colon, FlattenSeq(OriginalsOf(reported[u]))[i].info[key])
             PROVE  LET events == FlattenSeq(OriginalsOf(reported[u]))
                    IN  Summary(<<u>>, sumerevent) =
                          [reports |-> Len(events), active |-> Total(DOMAIN events, events, "active"),
                           arrived |-> Total(DOMAIN events, events, "forces_arrival_at_scene")]
  BY DEF SummaryCounts, OriginalsOf, Original
<1> DEFINE events == FlattenSeq(OriginalsOf(reported[u]))
           expected == Expected(u)
           n == Len(events)
           own == OwnedBy(<<u>>, sumerevent)
<1>1. \A i \in DOMAIN events : \A key \in DOMAIN events[i].info : ~Occurs(Colon, events[i].info[key])
  OBVIOUS
<1>2. ReceivedAs(u, expected, events)
  <2>1. reported[u] \in Seq(File) /\ expected = FlattenSeq(ArrivalsOf(u, reported[u]))
    BY ExpectedType DEF CountsInv, FlowsInv
  <2> QED BY <2>1, ReceivedAsFiles
<1>3. EventsOf(u, sumerevent) = expected
  <2>1. NothingLost
    BY FlowsLost DEF CountsInv
  <2> QED BY <2>1 DEF NothingLost, Received
<1>4. sumerevent \in Seq(Note) /\ \A i \in 1..Len(sumerevent) : IsOwned(sumerevent[i])
  BY DEF CountsInv, FlowsInv, FlowInv, OwnedInv
<1> HIDE DEF events, expected, own
<1>5. /\ events \in Seq(Event) /\ Len(expected) = n /\ n \in Nat /\ DOMAIN events = 1..n
      /\ \A i \in 1..n : expected[i] = AsReceived(u, events[i])
  <2>1. /\ events \in Seq(Event) /\ Len(expected) = n
        /\ \A i \in 1..n : expected[i] = AsReceived(u, events[i])
    BY <1>2 DEF ReceivedAs
  <2> QED BY <2>1, LenProperties
<1>6. own = OwnAt(u, sumerevent)
  <2>1. DOMAIN sumerevent = 1..Len(sumerevent)
    BY <1>4, LenProperties
  <2> QED BY <1>4, <2>1, OwnedIsOwn DEF own
<1>7. Cardinality(own) = n
  <2>1. CountsAgree(u, sumerevent, "active")
    BY <1>4, CountOwn
  <2> QED BY <1>3, <1>5, <1>6, <2>1 DEF CountsAgree
<1>8. ASSUME NEW w, w \notin White, w # "rest of a word"
      PROVE  Total(own, sumerevent, w) = Total(1..n, events, w)
  <2>1. CountsAgree(u, sumerevent, w)
    BY <1>4, CountOwn
  <2>2. Total(own, sumerevent, w) = Total(1..n, expected, w)
    BY <1>3, <1>5, <1>6, <2>1 DEF CountsAgree
  <2>3. ASSUME NEW i \in 1..n
        PROVE  /\ IsFiniteSet(True(expected[i], w)) /\ IsFiniteSet(True(events[i], w))
               /\ Cardinality(True(expected[i], w)) = Cardinality(True(events[i], w))
    <3> DEFINE event == events[i]
    <3>1. event \in Event /\ expected[i] = AsReceived(u, event)
      BY <1>5, ElementOfSeq
    <3>2. \A key \in DOMAIN event.info : ~Occurs(Colon, event.info[key])
      BY <1>1, <1>5
    <3> HIDE DEF event
    <3>3. /\ IsFiniteSet(True(event, w)) /\ IsFiniteSet(True(AsReceived(u, event), w))
          /\ Cardinality(True(AsReceived(u, event), w)) = Cardinality(True(event, w))
      BY <1>8, <3>1, <3>2, TrueReceived
    <3> QED BY <3>1, <3>3 DEF event
  <2> HIDE DEF n
  <2>4. Total(1..n, expected, w) = Total(1..n, events, w)
    BY <1>5, <2>3, EqualTotals
  <2> QED BY <2>2, <2>4
<1>9. /\ "active" \notin White /\ "active" # "rest of a word"
      /\ "forces_arrival_at_scene" \notin White /\ "forces_arrival_at_scene" # "rest of a word"
  BY DEF White, Newline, Blank
<1>10. Summary(<<u>>, sumerevent) =
         [reports |-> Cardinality(own), active |-> Total(own, sumerevent, "active"),
          arrived |-> Total(own, sumerevent, "forces_arrival_at_scene")]
  BY DEF Summary, own
<1>11. /\ Total(own, sumerevent, "active") = Total(DOMAIN events, events, "active")
       /\ Total(own, sumerevent, "forces_arrival_at_scene") =
            Total(DOMAIN events, events, "forces_arrival_at_scene")
  BY <1>5, <1>8, <1>9
<1> QED BY <1>7, <1>10, <1>11 DEF events

(* When all that a user has reported has arrived, a summary has the numbers *)
(* of its files, whatever has been read in which pieces and whatever other  *)
(* users have sent.                                                         *)
THEOREM SummaryAgrees == Spec => []SummaryCounts
<1>1. CountsInv => SummaryCounts
  BY CountsSummary
<1> QED BY <1>1, AlwaysCounts, PTL

=============================================================================
