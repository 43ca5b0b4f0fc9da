---------------------------- MODULE StdioLoopProofs ----------------------------
(***************************************************************************)
(* The lines of the stdio transport and their responses, for any text, any *)
(* limit and any size of the BufReader.                                    *)
(***************************************************************************)
EXTENDS StdioLoop, FiniteSetTheorems, WellFoundedInduction, TLAPS

(* A set of numbers has a least one. *)
LEMMA LeastIsThere ==
  ASSUME NEW T \in SUBSET Nat, T # {}
  PROVE  Min(T) \in T /\ \A k \in T : Min(T) <= k
<1> DEFINE R == {p \in Nat \X Nat : p[1] < p[2]}
<1>1. IsWellFoundedOn(R, Nat)
  BY NatLessThanWellFounded, Zenon DEF OpToRel
<1>2. PICK m \in T : \A k \in T : <<k, m>> \notin R
  BY <1>1, WFMin, Zenon
<1>3. ASSUME NEW k \in T
      PROVE  m <= k
  <2>1. k \in Nat /\ m \in Nat
    OBVIOUS
  <2>2. ~(k < m)
    BY <1>2, <2>1
  <2>q. QED
    BY <2>1, <2>2
<1>q. QED
  BY <1>3 DEF Min

(* A line and the next piece of it. *)
LEMMA Joined ==
  ASSUME NEW S, NEW a \in Seq(S), NEW b \in Seq(S)
  PROVE  a \o b \in Seq(S) /\ Len(a \o b) = Len(a) + Len(b)
OBVIOUS

LEMMA EmptyFits == <<>> \in Seq(Bytes) /\ Len(<<>>) <= MaxLine
BY StdioAssumption

(* The bytes between the reader and the line. *)
LEMMA AvailableBytes ==
  ASSUME TypeOK
  PROVE  /\ input \in Seq(Bytes) /\ Len(input) \in Nat
         /\ Available \in Seq(Bytes) /\ Len(Available) = filled - consumed
         /\ Newlines \subseteq 1..Len(Available)
<1>1. input \in Seq(Bytes)
  BY StdioAssumption DEF TypeOK
<1>2. /\ Len(input) \in Nat /\ written \in 0..Len(input) /\ filled \in 0..written
      /\ consumed \in 0..filled
  BY <1>1 DEF TypeOK
<1>3. Available \in Seq(Bytes) /\ Len(Available) = filled - consumed
  BY <1>1, <1>2 DEF Available
<1>4. Newlines \subseteq 1..Len(Available)
  BY <1>3 DEF Newlines
<1>q. QED
  BY <1>1, <1>2, <1>3, <1>4

(* A piece is taken whole or refused. *)
LEMMA TakeKeepsType ==
  ASSUME TypeOK, NEW n \in 1..Len(Available), NEW next \in Stages, Take(n, next)
  PROVE  TypeOK'
<1> USE DEF TypeOK
<1>1. Available \in Seq(Bytes) /\ Len(Available) = filled - consumed
  BY AvailableBytes
<1>2. n \in Nat /\ consumed' \in 0..filled
  BY <1>1 DEF Take
<1>3. CASE Len(buffer) + n > MaxLine
  BY <1>2, <1>3 DEF Take, Stages
<1>4. CASE ~(Len(buffer) + n > MaxLine)
  <2> DEFINE piece == SubSeq(Available, 1, n)
  <2>1. piece \in Seq(Bytes) /\ Len(piece) = n
    BY <1>1
  <2>2. buffer' = buffer \o piece /\ stage' = next
    BY <1>4 DEF Take
  <2> HIDE DEF piece
  <2>3. buffer' \in Seq(Bytes) /\ Len(buffer') = Len(buffer) + n
    <3> HIDE DEF TypeOK
    <3>1. buffer \in Seq(Bytes)
      BY DEF TypeOK
    <3>q. QED
      BY <2>1, <2>2, <3>1, Joined
  <2>4. Len(buffer') <= MaxLine
    BY <1>2, <1>4, <2>3, StdioAssumption
  <2>q. QED
    BY <1>2, <2>2, <2>3, <2>4 DEF Take
<1>q. QED
  BY <1>3, <1>4

(* However the bytes arrive, read_line_capped holds no more of a line than *)
(* max_request_bytes, and hands out nothing that has not been written.     *)
THEOREM LinesAreCapped == Spec => []TypeOK
<1>1. Init => TypeOK
  <2>1. SUFFICES ASSUME Init PROVE TypeOK
    OBVIOUS
  <2>2. Len(input) \in Nat
    BY <2>1, StdioAssumption DEF Init
  <2>3. buffer \in Seq(Bytes) /\ Len(buffer) <= MaxLine
    BY <2>1, EmptyFits DEF Init
  <2>q. QED
    <3>1. input \in Inputs /\ closed \in BOOLEAN /\ stage \in Stages
      BY <2>1 DEF Init, Stages
    <3>2. written = 0 /\ filled = 0 /\ consumed = 0 /\ lines = 0
      BY <2>1 DEF Init
    <3>3. written \in 0..Len(input) /\ filled \in 0..written /\ consumed \in 0..filled
      BY <2>2, <3>2
    <3>q. QED
      BY <2>3, <3>1, <3>2, <3>3 DEF TypeOK
<1>2. ASSUME TypeOK, [Next]_vars
      PROVE  TypeOK'
  <2> USE DEF TypeOK
  <2>1. input \in Seq(Bytes) /\ Len(input) \in Nat
    BY <1>2, AvailableBytes
  <2>2. CASE ClientWrites
    BY <1>2, <2>1, <2>2 DEF ClientWrites
  <2>3. CASE ClientCloses
    BY <1>2, <2>3 DEF ClientCloses
  <2>4. CASE Fill
    BY <1>2, <2>1, <2>4, StdioAssumption DEF Fill
  <2>5. CASE TakeLine
    <3>1. Newlines \in SUBSET Nat /\ Newlines # {} /\ Newlines \subseteq 1..Len(Available)
      BY <1>2, <2>5, AvailableBytes DEF TakeLine
    <3>2. Min(Newlines) \in 1..Len(Available)
      BY <3>1, LeastIsThere
    <3>q. QED
      BY <1>2, <2>5, <3>2, TakeKeepsType DEF TakeLine, Stages
  <2>6. CASE TakePart
    <3>1. Len(Available) \in 1..Len(Available)
      BY <1>2, <2>1, <2>6, AvailableBytes DEF TakePart
    <3>q. QED
      BY <1>2, <2>6, <3>1, TakeKeepsType DEF TakePart, Stages
  <2>7. CASE TakeEnd \/ ReadFails \/ WriteFails
    BY <1>2, <2>7 DEF TakeEnd, ReadFails, WriteFails, Stages
  <2>8. CASE Answer \/ Refuse
    <3>1. /\ UNCHANGED <<input, written, closed, filled, consumed>>
          /\ stage' \in Stages /\ lines' = lines + 1
      BY <2>8 DEF Answer, Refuse, Stages
    <3>2. buffer' = buffer \/ buffer' = <<>>
      BY <2>8 DEF Answer, Refuse
    <3>3. buffer' \in Seq(Bytes) /\ Len(buffer') <= MaxLine
      BY <1>2, <3>2, EmptyFits
    <3>q. QED
      BY <1>2, <3>1, <3>3
  <2>9. CASE Rest \/ UNCHANGED vars
    BY <1>2, <2>9 DEF Rest, vars
  <2>q. QED
    BY <1>2, <2>2, <2>3, <2>4, <2>5, <2>6, <2>7, <2>8, <2>9 DEF Next, ServerStep
<1>q. QED
  BY <1>1, <1>2, PTL DEF Spec

-----------------------------------------------------------------------------
(***************************************************************************)
(* The lines of a text.                                                    *)
(***************************************************************************)

(* The ends of the lines up to a place, and a place behind which a line    *)
(* begins.                                                                 *)
Behind(text, s) == {i \in Ends(text) : i <= s}

Beginning(text, s) == s \in 0..Len(text) /\ (s = 0 \/ s \in Ends(text))

(* No line ends in between. *)
Unbroken(text, s, k) == \A i \in s + 1..k : text[i] # NL

(* The line that begins behind s ends at e. *)
Line(text, s, e) == Beginning(text, s) /\ e \in Ends(text) /\ s < e /\ Unbroken(text, s, e - 1)

LEMMA EndsAreFinite ==
  ASSUME NEW text \in Seq(Bytes), NEW T \in SUBSET Ends(text)
  PROVE  IsFiniteSet(T) /\ Cardinality(T) \in Nat /\ T \subseteq 1..Len(text)
<1>1. Ends(text) \subseteq 1..Len(text) /\ Len(text) \in Nat
  BY DEF Ends
<1>2. IsFiniteSet(1..Len(text))
  BY <1>1, FS_Interval
<1>3. T \in SUBSET (1..Len(text))
  BY <1>1
<1>4. IsFiniteSet(T)
  BY <1>2, <1>3, FS_Subset
<1> QED BY <1>3, <1>4, FS_CardinalityType

LEMMA GreatestIs ==
  ASSUME NEW T \in SUBSET Nat, NEW m \in T, \A k \in T : k <= m
  PROVE  Max(T) = m
<1>1. \A x \in T : (\A y \in T : x >= y) => x = m
  OBVIOUS
<1>2. \A y \in T : m >= y
  OBVIOUS
<1> QED BY <1>1, <1>2 DEF Max

(* What the definitions make of such a line. *)
LEMMA LineIs ==
  ASSUME NEW text \in Seq(Bytes), NEW s, NEW e, Line(text, s, e)
  PROVE  /\ EndsBefore(text, e) = Behind(text, s)
         /\ LineTo(text, e) = SubSeq(text, s + 1, e)
         /\ Number(text, e) = Cardinality(Behind(text, s)) + 1
<1>1. s \in Nat /\ e \in Nat /\ s < e /\ e <= Len(text) /\ Len(text) \in Nat
  BY DEF Line, Beginning, Ends
<1>2. EndsBefore(text, e) = Behind(text, s)
  <2>1. ASSUME NEW i \in Ends(text), i < e
        PROVE  i <= s
    <3>1. i \in Nat /\ i # Len(text) /\ text[i] = NL
      BY <1>1, <2>1 DEF Ends
    <3>2. i \notin s + 1..e - 1
      BY <3>1 DEF Line, Unbroken
    <3> QED BY <1>1, <2>1, <3>1, <3>2
  <2>2. ASSUME NEW i \in Ends(text), i <= s
        PROVE  i < e
    BY <1>1, <2>2 DEF Ends
  <2> QED BY <2>1, <2>2 DEF EndsBefore, Behind
<1>3. Max({0} \cup EndsBefore(text, e)) = s
  <2> DEFINE T == {0} \cup EndsBefore(text, e)
  <2>1. T \in SUBSET Nat
    BY DEF EndsBefore, Ends
  <2>2. s \in T
    BY <1>1 DEF EndsBefore, Line, Beginning
  <2>3. \A k \in T : k <= s
    BY <1>1, <1>2 DEF Behind
  <2> HIDE DEF T
  <2>4. Max(T) = s
    BY <2>1, <2>2, <2>3, GreatestIs
  <2> QED BY <2>4 DEF T
<1> QED BY <1>2, <1>3 DEF LineTo, Number

(* One line more. *)
LEMMA LineCounts ==
  ASSUME NEW text \in Seq(Bytes), NEW s, NEW e, Line(text, s, e)
  PROVE  /\ Beginning(text, e)
         /\ Behind(text, e) = Behind(text, s) \cup {e}
         /\ Cardinality(Behind(text, e)) = Cardinality(Behind(text, s)) + 1
<1>1. s \in Nat /\ e \in Nat /\ s < e /\ e <= Len(text) /\ Len(text) \in Nat /\ e \in Ends(text)
  BY DEF Line, Beginning, Ends
<1>2. EndsBefore(text, e) = Behind(text, s)
  BY LineIs
<1>3. Behind(text, e) = EndsBefore(text, e) \cup {e}
  BY <1>1 DEF Behind, EndsBefore, Ends
<1>4. e \notin EndsBefore(text, e)
  BY <1>1 DEF EndsBefore
<1>5. IsFiniteSet(Behind(text, s))
  BY EndsAreFinite DEF Behind
<1>6. Cardinality(Behind(text, s) \cup {e}) = Cardinality(Behind(text, s)) + 1
  BY <1>2, <1>4, <1>5, FS_AddElement
<1> QED BY <1>1, <1>2, <1>3, <1>6 DEF Beginning

(* Its response, if it has one, is the one more that is due; there is no   *)
(* other when it is too long.                                              *)
LEMMA LineResponds ==
  ASSUME NEW text \in Seq(Bytes), NEW s, NEW e, Line(text, s, e),
         \A b \in Behind(text, s) : ~TooLong(text, b)
  PROVE  LET now == IF TooLong(text, e) THEN Ends(text) ELSE Behind(text, e)
             one == IF Response(text, e).what = "none" THEN {} ELSE {Response(text, e)}
         IN Responses(text, now) = Responses(text, Behind(text, s)) \cup one
<1> DEFINE Due(d) == /\ Response(text, d).what # "none"
                     /\ \A b \in EndsBefore(text, d) : ~TooLong(text, b)
<1>1. Due(e) <=> Response(text, e).what # "none"
  BY LineIs
<1>2. e \in Ends(text) /\ Behind(text, e) = Behind(text, s) \cup {e}
  BY LineCounts DEF Line
<1>3. ASSUME TooLong(text, e), NEW d \in Ends(text), Due(d)
      PROVE  d \in Behind(text, s) \cup {e}
  <2>1. e \notin EndsBefore(text, d)
    BY <1>3
  <2>2. d <= e
    BY <1>2, <2>1 DEF EndsBefore, Ends
  <2> QED BY <1>2, <2>2 DEF Behind
<1>4. Behind(text, e) \subseteq Ends(text)
  BY DEF Behind
<1>5. \A T : Responses(text, T) = {Response(text, d) : d \in {x \in T : Due(x)}}
  BY DEF Responses
<1> HIDE DEF Due
<1>6. CASE TooLong(text, e)
  <2>1. {x \in Ends(text) : Due(x)} = {x \in Behind(text, s) \cup {e} : Due(x)}
    BY <1>2, <1>3, <1>4, <1>6
  <2> QED BY <1>1, <1>5, <1>6, <2>1
<1>7. CASE ~TooLong(text, e)
  BY <1>1, <1>2, <1>5, <1>7
<1> QED BY <1>6, <1>7

-----------------------------------------------------------------------------
(***************************************************************************)
(* The responses.                                                          *)
(***************************************************************************)

(* The lines up to s are counted and answered, in their order. *)
Kept ==
  /\ output \in Seq(Responses(input, Ends(input)))
  /\ \A i, j \in 1..Len(output) : i < j => output[i].line < output[j].line

AnsweredTo(s) ==
  /\ Beginning(input, s) /\ s <= consumed
  /\ lines = Cardinality(Behind(input, s))
  /\ Range(output) = Responses(input, Behind(input, s))
  /\ \A b \in Behind(input, s) : ~TooLong(input, b)
  /\ \A i \in 1..Len(output) : output[i].line \in 1..lines

(* The line that is being read, has been read, or is too long. *)
ReadFrom(s) ==
  /\ stage \in {"reading", "line"} => buffer = SubSeq(input, s + 1, consumed)
  /\ stage = "reading" => Unbroken(input, s, consumed)
  /\ stage = "line" => Line(input, s, consumed)
  /\ stage = "too_long" => \E e : Line(input, s, e) /\ e - s > MaxLine
  /\ stage = "eof" => s = Len(input)

LinesInv ==
  /\ closed => written = Len(input)
  /\ Kept
  /\ stage = "refused" => Range(output) = Responses(input, Ends(input))
  /\ stage # "refused" => \E s : AnsweredTo(s) /\ ReadFrom(s)

(* Reading and waiting change nothing that has been answered. *)
LEMMA SilentKeeps ==
  ASSUME TypeOK, LinesInv, stage # "refused", stage' # "refused",
         UNCHANGED <<input, lines, output>>, consumed' \in Nat, consumed <= consumed',
         closed' => written' = Len(input),
         ASSUME NEW s, AnsweredTo(s), ReadFrom(s) PROVE ReadFrom(s)'
  PROVE  LinesInv'
<1>1. PICK s : AnsweredTo(s) /\ ReadFrom(s)
  BY DEF LinesInv
<1>2. s \in Nat /\ consumed \in Nat /\ s <= consumed
  BY <1>1 DEF AnsweredTo, Beginning, TypeOK
<1>3. AnsweredTo(s)'
  BY <1>1, <1>2 DEF AnsweredTo
<1>4. ReadFrom(s)'
  BY <1>1
<1>5. Kept'
  BY DEF LinesInv, Kept
<1> QED BY <1>3, <1>4, <1>5 DEF LinesInv

LEMMA PieceIs ==
  ASSUME NEW S, NEW text \in Seq(S), NEW a \in 0..Len(text), NEW b \in a..Len(text)
  PROVE  \A i \in 1..b - a : SubSeq(text, a + 1, b)[i] = text[a + i]
OBVIOUS

(* What has been read of a line, and the next piece of it. *)
LEMMA Continued ==
  ASSUME NEW S, NEW text \in Seq(S), NEW k \in 0..Len(text), NEW s \in 0..k,
         NEW n \in 0..Len(text) - k
  PROVE  SubSeq(text, s + 1, k) \o SubSeq(text, k + 1, k + n) = SubSeq(text, s + 1, k + n)
OBVIOUS

(* A piece of a line, up to a newline or not. *)
LEMMA TakeKeepsLines ==
  ASSUME TypeOK, LinesInv, stage = "reading", NEW n \in 1..Len(Available),
         NEW next \in {"reading", "line"}, Take(n, next),
         \A i \in 1..n - 1 : Available[i] # NL,
         next = "line" <=> Available[n] = NL
  PROVE  LinesInv'
<1>1. /\ input \in Seq(Bytes) /\ Len(input) \in Nat /\ Len(Available) = filled - consumed
      /\ consumed \in Nat /\ filled \in Nat /\ filled <= Len(input) /\ n \in Nat \ {0}
  BY AvailableBytes DEF TypeOK
<1>2. /\ consumed' = consumed + n /\ consumed + n <= Len(input)
      /\ \A i \in 1..n : Available[i] = input[consumed + i]
  <2>1. consumed' = consumed + n
    BY DEF Take
  <2>2. n <= filled - consumed
    BY <1>1
  <2>3. \A i \in 1..filled - consumed : Available[i] = input[consumed + i]
    <3>1. consumed \in 0..Len(input) /\ filled \in consumed..Len(input)
      BY <1>1 DEF TypeOK
    <3> QED BY <1>1, <3>1, PieceIs DEF Available
  <2>4. consumed + n <= Len(input)
    BY <1>1, <2>2
  <2>5. ASSUME NEW i \in 1..n
        PROVE  Available[i] = input[consumed + i]
    <3>1. i \in 1..filled - consumed
      BY <1>1, <2>2
    <3> QED BY <2>3, <3>1
  <2> QED BY <2>1, <2>4, <2>5
<1>3. ASSUME NEW i \in 1..n - 1
      PROVE  input[consumed + i] # NL
  <2>1. i \in 1..n /\ Available[i] # NL
    BY <1>1
  <2> QED BY <1>2, <2>1
<1>4. /\ input' = input /\ lines' = lines /\ output' = output
      /\ closed' = closed /\ written' = written
  BY DEF Take
<1>5. stage' \in {"too_long", next}
  BY DEF Take
<1>6. ASSUME NEW s, AnsweredTo(s), ReadFrom(s)
      PROVE  ReadFrom(s)'
  <2>1. /\ s \in Nat /\ s <= consumed /\ Unbroken(input, s, consumed)
        /\ buffer = SubSeq(input, s + 1, consumed) /\ Beginning(input, s)
    BY <1>6 DEF AnsweredTo, ReadFrom, Beginning
  <2>2. Len(buffer) = consumed - s
    BY <1>1, <1>2, <2>1
  <2>3. Unbroken(input, s, consumed + n - 1)
    <3>1. SUFFICES ASSUME NEW i \in s + 1..consumed + n - 1 PROVE input[i] # NL
      BY DEF Unbroken
    <3>2. CASE i <= consumed
      BY <1>1, <2>1, <3>2 DEF Unbroken
    <3>3. CASE i > consumed
      <4>1. i - consumed \in 1..n - 1 /\ consumed + (i - consumed) = i
        BY <1>1, <2>1, <3>3
      <4> QED BY <1>3, <4>1
    <3> QED BY <1>1, <2>1, <3>2, <3>3
  <2>4. CASE Len(buffer) + n > MaxLine
    <3>1. stage' = "too_long"
      BY <2>4 DEF Take
    <3>2. \E e : Line(input, s, e) /\ e - s > MaxLine
      <4> DEFINE T == {i \in Ends(input) : i >= consumed + n}
      <4>1. Len(input) \in T
        BY <1>1, <1>2 DEF Ends
      <4>2. T \in SUBSET Nat /\ T # {}
        BY <4>1 DEF Ends
      <4> DEFINE e == Min(T)
      <4>3. e \in T /\ \A k \in T : e <= k
        BY <4>2, LeastIsThere
      <4> HIDE DEF T, e
      <4>4. e \in Ends(input) /\ e \in Nat /\ e >= consumed + n /\ e <= Len(input)
        BY <4>3 DEF T, Ends
      <4>5. Unbroken(input, s, e - 1)
        <5>1. SUFFICES ASSUME NEW i \in s + 1..e - 1 PROVE input[i] # NL
          BY DEF Unbroken
        <5>2. CASE i <= consumed + n - 1
          BY <1>1, <2>1, <2>3, <5>2 DEF Unbroken
        <5>3. CASE i >= consumed + n
          <6>1. i \notin T /\ i \in 1..Len(input)
            BY <1>1, <2>1, <4>3, <4>4
          <6> QED BY <5>3, <6>1 DEF T, Ends
        <5> QED BY <1>1, <2>1, <4>4, <5>2, <5>3
      <4>6. s < e /\ e - s > MaxLine
        BY <1>1, <2>1, <2>2, <2>4, <4>4, StdioAssumption
      <4> QED BY <2>1, <4>4, <4>5, <4>6 DEF Line
    <3> QED BY <1>4, <3>1, <3>2 DEF ReadFrom
  <2>5. CASE ~(Len(buffer) + n > MaxLine)
    <3>1. stage' = next /\ buffer' = buffer \o SubSeq(Available, 1, n)
      BY <2>5 DEF Take
    <3>2. buffer' = SubSeq(input, s + 1, consumed + n)
      <4>1. SubSeq(Available, 1, n) = SubSeq(input, consumed + 1, consumed + n)
        BY <1>1, <1>2 DEF Available
      <4>2. /\ consumed \in 0..Len(input) /\ s \in 0..consumed
            /\ n \in 0..Len(input) - consumed
        BY <1>1, <1>2, <2>1
      <4>3. SubSeq(input, s + 1, consumed) \o SubSeq(input, consumed + 1, consumed + n)
              = SubSeq(input, s + 1, consumed + n)
        BY <1>1, <4>2, Continued
      <4> QED BY <2>1, <3>1, <4>1, <4>3
    <3>3. CASE next = "line"
      <4>1. input[consumed + n] = NL
        BY <1>1, <1>2, <3>3
      <4>2. Line(input, s, consumed + n)
        BY <1>1, <1>2, <2>1, <2>3, <4>1 DEF Line, Ends
      <4> QED BY <1>2, <1>4, <3>1, <3>2, <3>3, <4>2 DEF ReadFrom
    <3>4. CASE next = "reading"
      <4>1. input[consumed + n] # NL
        BY <1>1, <1>2, <3>4
      <4>2. Unbroken(input, s, consumed + n)
        BY <1>1, <1>2, <2>1, <2>3, <4>1 DEF Unbroken
      <4> QED BY <1>2, <1>4, <3>1, <3>2, <3>4, <4>2 DEF ReadFrom
    <3> QED BY <3>3, <3>4
  <2> QED BY <2>4, <2>5
<1>7. consumed' \in Nat /\ consumed <= consumed'
  BY <1>1, <1>2
<1>8. closed' => written' = Len(input)
  BY <1>4 DEF LinesInv
<1> QED BY <1>4, <1>5, <1>6, <1>7, <1>8, SilentKeeps

(* A response is added behind the others. *)
LEMMA ReplyKeeps ==
  ASSUME NEW what, Kept, lines \in Nat, \A i \in 1..Len(output) : output[i].line \in 1..lines,
         Reply(what), UNCHANGED input, lines' = lines + 1,
         [line |-> lines + 1, what |-> what] \in Responses(input, Ends(input))
  PROVE  /\ Kept'
         /\ Range(output') = Range(output) \cup {[line |-> lines + 1, what |-> what]}
         /\ \A i \in 1..Len(output') : output'[i].line \in 1..lines'
<1> DEFINE R == Responses(input, Ends(input))
<1> PICK one \in R : one = [line |-> lines + 1, what |-> what]
  OBVIOUS
<1>1. output \in Seq(R) /\ output' = Append(output, one) /\ one.line = lines + 1
  BY DEF Kept, Reply
<1> HIDE DEF R
<1>2. /\ output' \in Seq(R) /\ Len(output') = Len(output) + 1 /\ Len(output) \in Nat
      /\ \A i \in 1..Len(output) : output'[i] = output[i]
      /\ output'[Len(output) + 1] = one
  BY <1>1
<1>3. \A i \in 1..Len(output') : i \in 1..Len(output) \/ i = Len(output) + 1
  BY <1>2
<1>4. ASSUME NEW i \in 1..Len(output')
      PROVE  output'[i].line \in 1..lines'
  BY <1>1, <1>2, <1>3
<1>5. ASSUME NEW i \in 1..Len(output'), NEW j \in 1..Len(output'), i < j
      PROVE  output'[i].line < output'[j].line
  <2>1. i \in 1..Len(output)
    BY <1>2, <1>5
  <2>2. CASE j \in 1..Len(output)
    <3>1. output[i].line < output[j].line
      BY <1>5, <2>1, <2>2 DEF Kept
    <3> QED BY <1>2, <2>1, <2>2, <3>1
  <2>3. CASE j = Len(output) + 1
    <3>1. output'[i].line \in 1..lines /\ output'[j].line = lines + 1
      BY <1>1, <1>2, <2>1, <2>3
    <3> QED BY <3>1
  <2> QED BY <1>3, <2>2, <2>3
<1>6. Kept'
  BY <1>2, <1>5 DEF Kept, R
<1>7. Range(output') = Range(output) \cup {one}
  <2>1. DOMAIN output' = 1..Len(output) + 1 /\ DOMAIN output = 1..Len(output)
    BY <1>1, <1>2
  <2>2. 1..Len(output) + 1 = (1..Len(output)) \cup {Len(output) + 1}
    BY <1>2
  <2> QED BY <1>2, <2>1, <2>2 DEF Range
<1> QED BY <1>4, <1>6, <1>7

(* The response to the line behind s is due. *)
LEMMA LineIsDue ==
  ASSUME NEW text \in Seq(Bytes), NEW s, NEW e, Line(text, s, e),
         \A b \in Behind(text, s) : ~TooLong(text, b),
         Response(text, e).what # "none"
  PROVE  Response(text, e) \in Responses(text, Ends(text))
BY LineIs DEF Line, Responses

LEMMA AnswerKeeps ==
  ASSUME TypeOK, LinesInv, Answer
  PROVE  LinesInv'
<1>1. /\ stage = "line" /\ stage' = "reading" /\ lines' = lines + 1 /\ buffer' = <<>>
      /\ UNCHANGED <<input, written, closed, filled, consumed>>
  BY DEF Answer
<1>2. PICK s : AnsweredTo(s) /\ ReadFrom(s)
  BY <1>1 DEF LinesInv
<1>3. /\ input \in Seq(Bytes) /\ Len(buffer) <= MaxLine /\ lines \in Nat /\ consumed \in Nat
      /\ MaxLine \in Nat
  BY AvailableBytes, StdioAssumption DEF TypeOK
<1>4. /\ buffer = SubSeq(input, s + 1, consumed) /\ Line(input, s, consumed)
      /\ \A b \in Behind(input, s) : ~TooLong(input, b)
      /\ lines = Cardinality(Behind(input, s))
      /\ Range(output) = Responses(input, Behind(input, s))
      /\ \A i \in 1..Len(output) : output[i].line \in 1..lines
  BY <1>1, <1>2 DEF ReadFrom, AnsweredTo
<1> DEFINE e == consumed
<1>5. LineTo(input, e) = buffer /\ Number(input, e) = lines + 1
  BY <1>3, <1>4, LineIs
<1>6. ~TooLong(input, e)
  <2>1. Len(buffer) \in Nat
    BY DEF TypeOK
  <2> QED BY <1>3, <1>5, <2>1 DEF TooLong
<1>7. Response(input, e) = [line |-> lines + 1, what |-> Verdict(buffer)]
  BY <1>5, <1>6 DEF Response
<1>8. /\ Beginning(input, e) /\ Behind(input, e) = Behind(input, s) \cup {e}
      /\ lines' = Cardinality(Behind(input, e))
  BY <1>1, <1>3, <1>4, LineCounts
<1>9. \A b \in Behind(input, e) : ~TooLong(input, b)
  BY <1>4, <1>6, <1>8
<1>10. Responses(input, Behind(input, e)) = Responses(input, Behind(input, s)) \cup
         IF Verdict(buffer) = "none" THEN {} ELSE {Response(input, e)}
  <2>1. Response(input, e).what = Verdict(buffer)
    BY <1>7
  <2> QED BY <1>3, <1>4, <1>6, <2>1, LineResponds
<1>11. /\ Kept' /\ Range(output') = Responses(input, Behind(input, e))
       /\ \A i \in 1..Len(output') : output'[i].line \in 1..lines'
  <2>1. CASE Verdict(buffer) = "none"
    <3>1. output' = output
      BY <2>1 DEF Answer
    <3>2. \A i \in 1..Len(output) : output[i].line \in 1..lines + 1
      BY <1>3, <1>4
    <3> QED BY <1>1, <1>4, <1>10, <2>1, <3>1, <3>2 DEF LinesInv, Kept
  <2>2. CASE Verdict(buffer) # "none"
    <3>1. Reply(Verdict(buffer))
      BY <2>2 DEF Answer
    <3>2. Response(input, e).what # "none"
      BY <1>7, <2>2
    <3>3. Response(input, e) \in Responses(input, Ends(input))
      BY <1>3, <1>4, <3>2, LineIsDue
    <3>4. Kept
      BY DEF LinesInv
    <3> QED BY <1>1, <1>3, <1>4, <1>7, <1>10, <2>2, <3>1, <3>3, <3>4, ReplyKeeps
  <2> QED BY <2>1, <2>2
<1>12. AnsweredTo(e)'
  BY <1>1, <1>3, <1>8, <1>9, <1>11 DEF AnsweredTo
<1>13. ReadFrom(e)'
  <2>1. Unbroken(input, e, e)
    BY <1>3 DEF Unbroken
  <2>2. SubSeq(input, e + 1, e) = <<>>
    BY <1>3
  <2> QED BY <1>1, <2>1, <2>2 DEF ReadFrom
<1>14. closed' => written' = Len(input')
  BY <1>1 DEF LinesInv
<1> QED BY <1>1, <1>11, <1>12, <1>13, <1>14 DEF LinesInv

LEMMA RefuseKeeps ==
  ASSUME TypeOK, LinesInv, Refuse
  PROVE  LinesInv'
<1>1. /\ stage = "too_long" /\ stage' = "refused" /\ lines' = lines + 1 /\ Reply("too_long")
      /\ UNCHANGED <<input, written, closed>>
  BY DEF Refuse
<1>2. PICK s : AnsweredTo(s) /\ ReadFrom(s)
  BY <1>1 DEF LinesInv
<1>3. input \in Seq(Bytes) /\ lines \in Nat /\ MaxLine \in Nat
  BY AvailableBytes, StdioAssumption DEF TypeOK
<1>4. PICK e : Line(input, s, e) /\ e - s > MaxLine
  BY <1>1, <1>2 DEF ReadFrom
<1>5. /\ \A b \in Behind(input, s) : ~TooLong(input, b)
      /\ lines = Cardinality(Behind(input, s))
      /\ Range(output) = Responses(input, Behind(input, s))
      /\ \A i \in 1..Len(output) : output[i].line \in 1..lines
  BY <1>2 DEF AnsweredTo
<1>6. LineTo(input, e) = SubSeq(input, s + 1, e) /\ Number(input, e) = lines + 1
  BY <1>3, <1>4, <1>5, LineIs
<1>7. TooLong(input, e)
  <2>1. s \in Nat /\ e \in Nat /\ s < e /\ e <= Len(input)
    BY <1>3, <1>4 DEF Line, Beginning, Ends
  <2>2. Len(LineTo(input, e)) = e - s
    BY <1>3, <1>6, <2>1
  <2> QED BY <1>4, <2>2 DEF TooLong
<1>8. Response(input, e) = [line |-> lines + 1, what |-> "too_long"]
  BY <1>6, <1>7 DEF Response
<1>9. Response(input, e).what = "too_long" /\ "too_long" # "none"
  BY <1>8
<1>10. Responses(input, Ends(input))
         = Responses(input, Behind(input, s)) \cup {Response(input, e)}
  BY <1>3, <1>4, <1>5, <1>7, <1>9, LineResponds
<1>11. Kept' /\ Range(output') = Responses(input, Ends(input))
  <2>1. Kept
    BY DEF LinesInv
  <2>2. Response(input, e) \in Responses(input, Ends(input))
    BY <1>10
  <2> QED BY <1>1, <1>3, <1>5, <1>8, <1>10, <2>1, <2>2, ReplyKeeps
<1> QED BY <1>1, <1>11 DEF LinesInv

(* The invariant holds at the start and is kept by every step. *)
LEMMA LinesAreKept == Spec => []LinesInv
<1>1. ASSUME Init
      PROVE  LinesInv
  <2>1. /\ stage = "reading" /\ lines = 0 /\ consumed = 0 /\ buffer = <<>> /\ output = <<>>
        /\ ~closed /\ input \in Seq(Bytes)
    BY <1>1, StdioAssumption DEF Init
  <2>2. Behind(input, 0) = {}
    BY <2>1 DEF Behind, Ends
  <2>3. Kept
    BY <2>1 DEF Kept
  <2>4. Range(output) = Responses(input, Behind(input, 0))
    BY <2>1, <2>2 DEF Range, Responses
  <2>5. AnsweredTo(0)
    <3>1. Beginning(input, 0)
      BY <2>1 DEF Beginning
    <3>2. lines = Cardinality(Behind(input, 0))
      BY <2>1, <2>2, FS_EmptySet
    <3>3. Len(output) = 0
      BY <2>1
    <3> QED BY <2>1, <2>2, <2>4, <3>1, <3>2, <3>3 DEF AnsweredTo
  <2>6. ReadFrom(0)
    BY <2>1 DEF ReadFrom, Unbroken
  <2> QED BY <2>1, <2>3, <2>5, <2>6 DEF LinesInv
<1>2. ASSUME TypeOK, LinesInv, [Next]_vars
      PROVE  LinesInv'
  <2>1. /\ input \in Seq(Bytes) /\ Len(input) \in Nat /\ consumed \in Nat /\ MaxLine \in Nat
        /\ filled \in Nat /\ filled <= written /\ written <= Len(input) /\ consumed <= filled
    BY <1>2, AvailableBytes, StdioAssumption DEF TypeOK
  <2>2. CASE ClientWrites \/ ClientCloses \/ Fill
    <3>1. /\ UNCHANGED <<input, consumed, buffer, stage, lines, output>>
          /\ closed' => written' = Len(input)
      BY <1>2, <2>1, <2>2 DEF ClientWrites, ClientCloses, Fill, LinesInv
    <3>2. ASSUME NEW s PROVE AnsweredTo(s)' = AnsweredTo(s) /\ ReadFrom(s)' = ReadFrom(s)
      BY <3>1 DEF AnsweredTo, ReadFrom
    <3> QED BY <1>2, <3>1, <3>2 DEF LinesInv, Kept
  <2>3. CASE TakeLine
    <3>1. /\ Newlines \in SUBSET Nat /\ Newlines # {} /\ Newlines \subseteq 1..Len(Available)
          /\ Available \in Seq(Bytes)
      BY <1>2, <2>3, AvailableBytes DEF TakeLine
    <3> DEFINE n == Min(Newlines)
    <3>2. n \in Newlines /\ \A k \in Newlines : n <= k
      BY <3>1, LeastIsThere
    <3>3. stage = "reading" /\ Take(n, "line")
      BY <2>3 DEF TakeLine
    <3> HIDE DEF n
    <3>4. n \in 1..Len(Available) /\ Available[n] = NL
      BY <3>1, <3>2 DEF Newlines
    <3>5. ASSUME NEW i \in 1..n - 1 PROVE Available[i] # NL
      <4>1. i \in DOMAIN Available /\ i < n
        BY <3>1, <3>4
      <4> QED BY <3>2, <3>4, <4>1 DEF Newlines
    <3> QED BY <1>2, <3>3, <3>4, <3>5, TakeKeepsLines
  <2>4. CASE TakePart
    <3> DEFINE n == Len(Available)
    <3>1. n \in 1..Len(Available) /\ Available \in Seq(Bytes)
      BY <1>2, <2>1, <2>4, AvailableBytes DEF TakePart
    <3>2. stage = "reading" /\ Take(n, "reading")
      BY <2>4 DEF TakePart
    <3>3. \A i \in 1..Len(Available) : Available[i] # NL
      BY <2>4, <3>1 DEF TakePart, Newlines
    <3> HIDE DEF n
    <3>4. \A i \in 1..n - 1 : Available[i] # NL
      BY <3>1, <3>3
    <3>5. Available[n] # NL
      BY <3>1, <3>3
    <3> QED BY <1>2, <3>1, <3>2, <3>4, <3>5, TakeKeepsLines
  <2>5. CASE TakeEnd
    <3>1. /\ stage = "reading" /\ closed /\ consumed = written
          /\ stage' = (IF buffer = <<>> THEN "eof" ELSE "line")
          /\ UNCHANGED <<input, written, closed, filled, consumed, buffer, lines, output>>
      BY <2>5 DEF TakeEnd
    <3>2. consumed = Len(input)
      BY <1>2, <3>1 DEF LinesInv
    <3>3. ASSUME NEW s, AnsweredTo(s), ReadFrom(s)
          PROVE  ReadFrom(s)'
      <4>1. /\ s \in Nat /\ s <= consumed /\ Beginning(input, s)
            /\ buffer = SubSeq(input, s + 1, consumed) /\ Unbroken(input, s, consumed)
        BY <3>1, <3>3 DEF AnsweredTo, ReadFrom, Beginning
      <4>2. Len(buffer) = consumed - s
        BY <2>1, <3>2, <4>1
      <4>3. CASE buffer = <<>>
        <5>1. s = consumed
          BY <2>1, <4>1, <4>2, <4>3
        <5> QED BY <3>1, <3>2, <4>3, <5>1 DEF ReadFrom
      <4>4. CASE buffer # <<>>
        <5>1. s < consumed
          <6>1. s # consumed
            BY <2>1, <4>1, <4>4
          <6> QED BY <2>1, <4>1, <6>1
        <5>2. consumed \in Ends(input)
          BY <2>1, <3>2, <4>1, <5>1 DEF Ends
        <5>3. Unbroken(input, s, consumed - 1)
          BY <2>1, <4>1 DEF Unbroken
        <5>4. Line(input, s, consumed)
          BY <4>1, <5>1, <5>2, <5>3 DEF Line
        <5> QED BY <3>1, <4>1, <4>4, <5>4 DEF ReadFrom
      <4> QED BY <4>3, <4>4
    <3>4. stage # "refused" /\ stage' # "refused"
      BY <3>1
    <3>5. closed' => written' = Len(input)
      BY <1>2, <3>1 DEF LinesInv
    <3> QED BY <1>2, <2>1, <3>1, <3>3, <3>4, <3>5, SilentKeeps
  <2>6. CASE ReadFails \/ WriteFails
    <3>1. /\ stage # "refused" /\ stage' = "broken"
          /\ UNCHANGED <<input, written, closed, consumed, lines, output>>
      BY <2>6 DEF ReadFails, WriteFails
    <3>2. ASSUME NEW s PROVE ReadFrom(s)'
      BY <3>1 DEF ReadFrom
    <3>3. closed' => written' = Len(input)
      BY <1>2, <3>1 DEF LinesInv
    <3>4. stage' # "refused"
      BY <3>1
    <3>5. consumed' \in Nat /\ consumed <= consumed'
      BY <2>1, <3>1
    <3> QED BY <1>2, <3>1, <3>2, <3>3, <3>4, <3>5, SilentKeeps
  <2>7. CASE Answer
    BY <1>2, <2>7, AnswerKeeps
  <2>8. CASE Refuse
    BY <1>2, <2>8, RefuseKeeps
  <2>9. CASE Rest \/ UNCHANGED vars
    <3>1. UNCHANGED vars
      BY <2>9 DEF Rest
    <3>2. ASSUME NEW s PROVE AnsweredTo(s)' = AnsweredTo(s) /\ ReadFrom(s)' = ReadFrom(s)
      BY <3>1 DEF AnsweredTo, ReadFrom, vars
    <3> QED BY <1>2, <3>1, <3>2 DEF LinesInv, Kept, vars
  <2> QED
    BY <1>2, <2>2, <2>3, <2>4, <2>5, <2>6, <2>7, <2>8, <2>9 DEF Next, ServerStep
<1> QED BY <1>1, <1>2, LinesAreCapped, PTL DEF Spec

(* Whatever the client writes and however the pipe cuts it into pieces,    *)
(* the responses are those its lines are due, in the order of the lines,   *)
(* and none is left out before another one.                                *)
THEOREM AnsweredInOrder == Spec => []InOrder
<1>1. TypeOK /\ LinesInv => InOrder
  <2>1. SUFFICES ASSUME TypeOK, LinesInv
                 PROVE  InOrder
    OBVIOUS
  <2>2. input \in Seq(Bytes)
    BY <2>1, AvailableBytes
  <2>3. Range(output) \subseteq Responses(input, Ends(input))
    BY <2>1 DEF LinesInv, Kept, Range
  <2>4. ASSUME NEW due \in Responses(input, Ends(input)) \ Range(output), NEW sent \in Range(output)
        PROVE  sent.line < due.line
    <3>1. stage # "refused"
      BY <2>1, <2>4 DEF LinesInv
    <3>2. PICK s : AnsweredTo(s)
      BY <2>1, <3>1 DEF LinesInv
    <3>3. PICK e \in Ends(input) :
            /\ due = Response(input, e) /\ Response(input, e).what # "none"
            /\ \A b \in EndsBefore(input, e) : ~TooLong(input, b)
      BY DEF Responses
    <3>4. e \notin Behind(input, s)
      <4>1. due \notin Responses(input, Behind(input, s))
        BY <2>4, <3>2 DEF AnsweredTo
      <4> QED BY <3>3, <4>1 DEF Responses
    <3>5. s \in Nat /\ e \in Nat /\ e > s
      BY <2>2, <3>2, <3>4 DEF AnsweredTo, Beginning, Behind, Ends
    <3>6. Behind(input, s) \in SUBSET EndsBefore(input, e)
      BY <3>5 DEF Behind, EndsBefore, Ends
    <3>7. IsFiniteSet(EndsBefore(input, e)) /\ Cardinality(EndsBefore(input, e)) \in Nat
      <4>1. EndsBefore(input, e) \in SUBSET Ends(input)
        BY DEF EndsBefore
      <4> QED BY <2>2, <4>1, EndsAreFinite
    <3>8. Cardinality(Behind(input, s)) <= Cardinality(EndsBefore(input, e))
      BY <3>6, <3>7, FS_Subset
    <3>9. due.line = Cardinality(EndsBefore(input, e)) + 1
      BY <3>3 DEF Response, Number
    <3>10. sent.line \in 1..lines /\ lines = Cardinality(Behind(input, s))
      <4>1. output \in Seq(Responses(input, Ends(input)))
        BY <2>1 DEF LinesInv, Kept
      <4>2. PICK i \in 1..Len(output) : sent = output[i]
        BY <4>1 DEF Range
      <4> QED BY <3>2, <4>2 DEF AnsweredTo
    <3>11. lines \in Nat
      BY <2>1 DEF TypeOK
    <3> QED BY <3>7, <3>8, <3>9, <3>10, <3>11
  <2> QED BY <2>1, <2>3, <2>4 DEF InOrder, LinesInv, Kept
<1> QED BY <1>1, LinesAreCapped, LinesAreKept, PTL

(* At the end of the text, or behind the response to a line that is too    *)
(* long, every response that is due has been written.                      *)
THEOREM AnsweredWhole == Spec => []AllAnswered
<1>1. TypeOK /\ LinesInv => AllAnswered
  <2>1. SUFFICES ASSUME TypeOK, LinesInv, stage = "eof"
                 PROVE  Range(output) = Responses(input, Ends(input))
    BY DEF AllAnswered, LinesInv
  <2>2. PICK s : AnsweredTo(s) /\ ReadFrom(s)
    BY <2>1 DEF LinesInv
  <2>3. Behind(input, Len(input)) = Ends(input)
    BY DEF Behind, Ends
  <2> QED BY <2>1, <2>2, <2>3 DEF AnsweredTo, ReadFrom
<1> QED BY <1>1, LinesAreCapped, LinesAreKept, PTL

-----------------------------------------------------------------------------
(***************************************************************************)
(* A server that waits for its client.                                     *)
(***************************************************************************)

(* fill_buf waits for a pipe in which there is nothing.  It is all that is *)
(* left to do when no action of ServerStep is enabled.                     *)
Waits == stage = "reading" /\ ~closed /\ consumed = written

(* As long as the pipe is open, only a newline ends a line. *)
Terminated ==
  ~closed =>
    /\ stage = "line" => consumed > 0 /\ input[consumed] = NL
    /\ stage = "reading" /\ buffer = <<>> /\ consumed > 0 => input[consumed] = NL

LEMMA GreatestIsThere ==
  ASSUME NEW n \in Nat, NEW T \in SUBSET (0..n), 0 \in T
  PROVE  Max(T) \in T
<1> DEFINE U == {n - x : x \in T}
<1>1. U \in SUBSET Nat /\ U # {}
  OBVIOUS
<1>2. Min(U) \in U /\ \A k \in U : Min(U) <= k
  BY <1>1, LeastIsThere
<1>3. PICK m \in T : Min(U) = n - m
  BY <1>2
<1>4. ASSUME NEW k \in T PROVE k <= m
  <2>1. n - k \in U /\ k \in Int /\ m \in Int /\ n \in Int
    BY <1>3
  <2>2. n - m <= n - k
    BY <1>2, <1>3, <2>1
  <2> QED BY <2>1, <2>2
<1>5. T \in SUBSET Nat
  OBVIOUS
<1> QED BY <1>3, <1>4, <1>5, GreatestIs

LEMMA BeginningOf ==
  ASSUME NEW text \in Seq(Bytes), NEW w \in 0..Len(text),
         NEW a \in 1..Len(text) + 1, NEW e \in 1..w
  PROVE  SubSeq(SubSeq(text, 1, w), a, e) = SubSeq(text, a, e)
OBVIOUS

(* The lines that have been written whole are lines of the text. *)
LEMMA SentLines ==
  ASSUME NEW text \in Seq(Bytes), NEW w \in 0..Len(text), NEW e \in 1..w
  PROVE  LET sent == SubSeq(text, 1, w)
         IN /\ EndsBefore(sent, e) = EndsBefore(text, e)
            /\ LineTo(sent, e) = LineTo(text, e)
<1> DEFINE sent == SubSeq(text, 1, w)
<1>1. Len(text) \in Nat /\ sent \in Seq(Bytes) /\ Len(sent) = w /\ \A i \in 1..w : sent[i] = text[i]
  OBVIOUS
<1> HIDE DEF sent
<1>2. EndsBefore(sent, e) = EndsBefore(text, e)
  <2>1. ASSUME NEW i \in 1..w, i < e
        PROVE  i \in Ends(sent) <=> i \in Ends(text)
    BY <1>1, <2>1 DEF Ends
  <2>2. \A i : i \in Ends(text) /\ i < e => i \in 1..w
    BY <1>1 DEF Ends
  <2>3. \A i : i \in Ends(sent) => i \in 1..w
    BY <1>1 DEF Ends
  <2> QED BY <2>1, <2>2, <2>3 DEF EndsBefore
<1>3. Max({0} \cup EndsBefore(text, e)) + 1 \in 1..Len(text) + 1
  <2> DEFINE T == {0} \cup EndsBefore(text, e)
  <2>1. T \in SUBSET (0..Len(text)) /\ 0 \in T
    BY <1>1 DEF EndsBefore, Ends
  <2> HIDE DEF T
  <2>2. Max(T) \in 0..Len(text)
    BY <1>1, <2>1, GreatestIsThere
  <2> QED BY <1>1, <2>2 DEF T
<1>4. LineTo(sent, e) = LineTo(text, e)
  BY <1>2, <1>3, BeginningOf DEF LineTo, sent
<1> QED BY <1>2, <1>4 DEF sent

LEMMA SentResponses ==
  ASSUME NEW text \in Seq(Bytes), NEW w \in 0..Len(text), NEW T \in SUBSET (1..w)
  PROVE  Responses(SubSeq(text, 1, w), T) = Responses(text, T)
<1> DEFINE sent == SubSeq(text, 1, w)
<1>1. ASSUME NEW e \in 1..w
      PROVE  /\ EndsBefore(sent, e) = EndsBefore(text, e)
             /\ TooLong(sent, e) <=> TooLong(text, e)
             /\ Response(sent, e) = Response(text, e)
  BY SentLines DEF TooLong, Response, Number
<1>2. ASSUME NEW e \in T
      PROVE  \A b \in EndsBefore(text, e) : b \in 1..w
  BY DEF EndsBefore, Ends
<1> HIDE DEF sent
<1>3. ASSUME NEW e \in T
      PROVE  /\ Response(sent, e) = Response(text, e)
             /\ (\A b \in EndsBefore(sent, e) : ~TooLong(sent, b))
                  <=> (\A b \in EndsBefore(text, e) : ~TooLong(text, b))
  BY <1>1, <1>2
<1>4. Responses(sent, T) = Responses(text, T)
  BY <1>3 DEF Responses
<1> QED BY <1>4 DEF sent

LEMMA PieceTerminated ==
  ASSUME TypeOK, stage = "reading", NEW n \in 1..Len(Available),
         NEW next \in {"reading", "line"}, Take(n, next),
         next = "line" => Available[n] = NL
  PROVE  Terminated'
<1>1. /\ input \in Seq(Bytes) /\ Available \in Seq(Bytes) /\ Len(Available) = filled - consumed
      /\ consumed \in Nat /\ filled \in Nat /\ filled <= Len(input) /\ n \in Nat \ {0}
  BY AvailableBytes DEF TypeOK
<1>2. consumed' = consumed + n /\ input' = input
  BY DEF Take
<1>3. Available[n] = input[consumed + n]
  <2>1. consumed \in 0..Len(input) /\ filled \in consumed..Len(input)
    BY <1>1 DEF TypeOK
  <2>2. n \in 1..filled - consumed
    BY <1>1
  <2> QED BY <1>1, <2>1, <2>2, PieceIs DEF Available
<1>4. stage' = "too_long" \/ (stage' = next /\ buffer' = buffer \o SubSeq(Available, 1, n))
  BY DEF Take
<1>5. buffer \o SubSeq(Available, 1, n) # <<>>
  <2>1. buffer \in Seq(Bytes)
    BY DEF TypeOK
  <2>2. SubSeq(Available, 1, n) \in Seq(Bytes) /\ Len(SubSeq(Available, 1, n)) = n
    BY <1>1
  <2>3. Len(buffer \o SubSeq(Available, 1, n)) = Len(buffer) + n /\ Len(buffer) \in Nat
    BY <2>1, <2>2
  <2> QED BY <1>1, <2>3
<1> QED BY <1>1, <1>2, <1>3, <1>4, <1>5 DEF Terminated

LEMMA LinesAreTerminated == Spec => []Terminated
<1>1. Init => Terminated
  BY DEF Init, Terminated
<1>2. ASSUME TypeOK, Terminated, [Next]_vars
      PROVE  Terminated'
  <2>1. CASE ClientWrites \/ ClientCloses \/ Fill
    BY <1>2, <2>1 DEF ClientWrites, ClientCloses, Fill, Terminated
  <2>2. CASE TakeLine
    <3>1. /\ Newlines \in SUBSET Nat /\ Newlines # {} /\ Newlines \subseteq 1..Len(Available)
      BY <1>2, <2>2, AvailableBytes DEF TakeLine
    <3>2. Min(Newlines) \in Newlines
      BY <3>1, LeastIsThere
    <3>3. Min(Newlines) \in 1..Len(Available) /\ Available[Min(Newlines)] = NL
      BY <3>1, <3>2 DEF Newlines
    <3> QED BY <1>2, <2>2, <3>3, PieceTerminated DEF TakeLine
  <2>3. CASE TakePart
    <3>1. Len(Available) \in 1..Len(Available)
      BY <1>2, <2>3, AvailableBytes DEF TakePart, TypeOK
    <3> QED BY <1>2, <2>3, <3>1, PieceTerminated DEF TakePart
  <2>4. CASE TakeEnd
    BY <2>4 DEF TakeEnd, Terminated
  <2>5. CASE Answer
    BY <1>2, <2>5 DEF Answer, Terminated
  <2>6. CASE Refuse \/ ReadFails \/ WriteFails
    BY <2>6 DEF Refuse, ReadFails, WriteFails, Terminated
  <2>7. CASE Rest \/ UNCHANGED vars
    BY <1>2, <2>7 DEF Rest, vars, Terminated
  <2> QED
    BY <1>2, <2>1, <2>2, <2>3, <2>4, <2>5, <2>6, <2>7 DEF Next, ServerStep
<1> QED BY <1>1, <1>2, LinesAreCapped, PTL DEF Spec

(* A client that waits for a response before it writes on is not kept      *)
(* waiting: a server that waits for its client has answered every line     *)
(* that has been written whole.                                            *)
THEOREM WaitingIsAnswered ==
  Spec => [](Waits => LET sent == SubSeq(input, 1, written)
                      IN Range(output) = Responses(sent, {i \in 1..written : sent[i] = NL}))
<1> DEFINE Told == LET sent == SubSeq(input, 1, written)
                   IN Range(output) = Responses(sent, {i \in 1..written : sent[i] = NL})
<1>1. TypeOK /\ LinesInv /\ Terminated /\ Waits => Told
  <2> SUFFICES ASSUME TypeOK, LinesInv, Terminated, Waits PROVE Told
    OBVIOUS
  <2>1. stage = "reading" /\ ~closed /\ consumed = written
    BY DEF Waits
  <2>2. PICK s : AnsweredTo(s) /\ ReadFrom(s)
    BY <2>1 DEF LinesInv
  <2>3. /\ input \in Seq(Bytes) /\ Len(input) \in Nat /\ written \in 0..Len(input)
        /\ s \in 0..written /\ (s = 0 \/ s \in Ends(input)) /\ Unbroken(input, s, written)
        /\ buffer = SubSeq(input, s + 1, written)
    BY <2>1, <2>2, AvailableBytes DEF TypeOK, AnsweredTo, Beginning, ReadFrom
  <2>4. ASSUME s > 0 PROVE input[s] = NL
    <3>1. CASE s = written
      <4>1. buffer = <<>>
        BY <2>3, <3>1
      <4> QED BY <2>1, <2>4, <3>1, <4>1 DEF Terminated
    <3>2. CASE s # written
      BY <2>3, <2>4, <3>2 DEF Ends
    <3> QED BY <3>1, <3>2
  <2> DEFINE sent == SubSeq(input, 1, written)
             T == {i \in 1..written : sent[i] = NL}
  <2>5. T = {i \in 1..written : input[i] = NL}
    BY <2>3
  <2>6. Behind(input, s) = {i \in 1..written : input[i] = NL}
    <3>1. ASSUME NEW i \in Ends(input), i <= s PROVE i \in 1..written /\ input[i] = NL
      <4>1. CASE i = s
        BY <2>3, <2>4, <3>1, <4>1 DEF Ends
      <4>2. CASE i # s
        BY <2>3, <3>1, <4>2 DEF Ends
      <4> QED BY <4>1, <4>2
    <3>2. ASSUME NEW i \in 1..written, input[i] = NL PROVE i \in Ends(input) /\ i <= s
      BY <2>3, <3>2 DEF Ends, Unbroken
    <3> QED BY <3>1, <3>2 DEF Behind
  <2>7. Range(output) = Responses(input, T)
    BY <2>2, <2>5, <2>6 DEF AnsweredTo
  <2>8. T \in SUBSET (1..written)
    OBVIOUS
  <2> HIDE DEF T
  <2>9. Responses(sent, T) = Responses(input, T)
    BY <2>3, <2>8, SentResponses
  <2>10. Range(output) = Responses(sent, T)
    BY <2>7, <2>9
  <2> QED BY <2>10 DEF T
<1> QED BY <1>1, LinesAreCapped, LinesAreKept, LinesAreTerminated, PTL
=============================================================================
