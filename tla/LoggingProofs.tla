---------------------------- MODULE LoggingProofs ----------------------------
(***************************************************************************)
(* Proofs about Logging, for any tasks and ports' FIFOs, and any messages  *)
(* that say what they are meant to (FormatsStand).                         *)
(***************************************************************************)
EXTENDS Logging, SequenceTheorems, NaturalsInduction, WellFoundedInduction, TLAPS

\* The provers do not know that a literal is a string.
Characters == STRING \cup {Stamp, Between, TestByte}

Text == Seq(Characters)

(***************************************************************************)
(* Texts.                                                                  *)
(***************************************************************************)

\* The assumptions in the form the proofs cite.
LEMMA LoggingConstants ==
  /\ Main \in Tasks /\ NoTask \notin Tasks /\ MaxCalls \in Nat /\ Tag \in Text
  /\ \A m \in Messages : m.text \in Text /\ "%" \notin ToSet(m.text)
  /\ FifoSize \in Nat /\ FifoSize >= 1
  /\ NoCall.message \in Messages /\ NoCall.level = LOG_TRACE
<1>1. STRING \subseteq Characters
  BY DEF Characters
<1>2. Tag \in Text /\ \A m \in Messages : m.text \in Text
  BY <1>1, LoggingAssumption, SeqMonotonic DEF Text
<1> QED
  BY <1>2, LoggingAssumption, SerialAssumption DEF NoCall

LEMMA HeadAndTail ==
  ASSUME NEW s \in Text, s # <<>>
  PROVE  Head(s) \in Characters /\ Tail(s) \in Text /\ s = <<Head(s)>> \o Tail(s)
<1>1. Len(s) \in Nat /\ Len(s) >= 1 /\ s[1] = Head(s)
  BY EmptySeq DEF Text
<1>2. SubSeq(s, 1, Len(s)) = <<s[1]>> \o SubSeq(s, 1 + 1, Len(s))
  BY <1>1, SubSeqRecursiveFirst DEF Text
<1>3. SubSeq(s, 1, Len(s)) = s /\ Tail(s) = SubSeq(s, 2, Len(s))
  BY SubSeqFull, TailIsSubSeq DEF Text
<1> QED
  BY <1>1, <1>2, <1>3, HeadTailProperties DEF Text

LEMMA OneCharacter ==
  ASSUME NEW s \in Text, s # <<>>, Len(s) <= 1
  PROVE  s = <<Head(s)>> /\ Tail(s) = <<>>
<1>1. Tail(s) \in Seq(Characters) /\ Len(Tail(s)) = Len(s) - 1 /\ Len(s) \in Nat
  BY HeadTailProperties, LenProperties DEF Text
<1>2. Tail(s) = <<>>
  BY <1>1, EmptySeq
<1>3. s = <<Head(s)>> \o <<>> /\ Head(s) \in Characters
  BY <1>2, HeadAndTail
<1> QED
  BY <1>2, <1>3

(***************************************************************************)
(* sprintf.                                                                *)
(***************************************************************************)
Paddings == Nat \cup {Outside}

After(i) == i + 1

\* What sprintf makes of a place, given its text from the next one on.
Put(format, args, text, at) ==
  LET i == at[1]  used == at[2]  padding == at[3]
      inside == padding # Outside
      c == format[i]
  IN  IF i > Len(format) THEN <<>>
      ELSE CASE ~inside /\ c = "%" -> text[<<After(i), used, 0>>]
             [] ~inside /\ c # "%" -> <<c>> \o text[<<After(i), used, Outside>>]
             [] inside /\ c \in Decimal ->
                  text[<<After(i), used, 10 * padding + DigitOf(c)>>]
             [] inside /\ c \in Conversions ->
                  Padded(padding, Converted(c, args[After(used)]))
                    \o text[<<After(i), After(used), Outside>>]
             [] inside /\ c \notin Decimal \cup Conversions ->
                  text[<<After(i), used, Outside>>]

LEMMA NatMin ==
  ASSUME NEW T, T \subseteq Nat, T # {}
  PROVE  \E x \in T : \A y \in T : x <= y
<1>1. PICK x \in T : \A y \in T : ~ (<<y, x>> \in OpToRel(<, Nat))
  BY NatLessThanWellFounded, WFMin, Zenon
<1>2. \A y \in T : ~(y < x)
  BY <1>1 DEF OpToRel
<1> QED
  BY <1>2

LEMMA DigitTypes ==
  ASSUME NEW c \in Decimal
  PROVE  DigitOf(c) \in Nat
<1>1. PICK i \in 1 .. 10 : c = Digits[i]
  BY DEF Decimal
<1>2. i - 1 \in 0 .. 9 /\ (i - 1) + 1 = i
  OBVIOUS
<1>3. \E n \in 0 .. 9 : c = Digits[n + 1]
  <2>1. c = Digits[(i - 1) + 1]
    BY <1>1, <1>2
  <2> WITNESS i - 1 \in 0 .. 9
  <2> QED
    BY <2>1
<1>4. (CHOOSE n \in 0 .. 9 : c = Digits[n + 1]) \in 0 .. 9
  BY <1>3
<1>5. DigitOf(c) \in 0 .. 9
  BY <1>4 DEF DigitOf
<1> QED
  BY <1>5

\* The text from a place on depends on nothing but the text from the next.
LEMMA PutLocal ==
  ASSUME NEW format, NEW args, NEW f, NEW g, NEW i \in Nat, NEW used \in Nat, NEW p \in Paddings,
         \A u \in Nat, q \in Paddings :
           ~(i > Len(format)) => f[<<After(i), u, q>>] = g[<<After(i), u, q>>]
  PROVE  Put(format, args, f, <<i, used, p>>) = Put(format, args, g, <<i, used, p>>)
<1>1. 0 \in Paddings /\ Outside \in Paddings /\ After(used) \in Nat
  BY DEF Paddings, After
<1>2. format[i] \in Decimal /\ p # Outside => 10 * p + DigitOf(format[i]) \in Paddings
  BY DigitTypes DEF Paddings
<1>3. CASE i > Len(format)
  BY <1>3 DEF Put
<1>4. CASE ~(i > Len(format))
  <2>1. /\ f[<<After(i), used, 0>>] = g[<<After(i), used, 0>>]
        /\ f[<<After(i), used, Outside>>] = g[<<After(i), used, Outside>>]
        /\ f[<<After(i), After(used), Outside>>] = g[<<After(i), After(used), Outside>>]
    BY <1>1, <1>4
  <2>2. format[i] \in Decimal /\ p # Outside =>
          f[<<After(i), used, 10 * p + DigitOf(format[i])>>] = g[<<After(i), used, 10 * p + DigitOf(format[i])>>]
    BY <1>2, <1>4
  <2> QED
    BY <1>4, <2>1, <2>2 DEF Put
<1> QED
  BY <1>3, <1>4

From(format, n) == (n .. Len(format) + 1) \X Nat \X Paddings

IsText(format, args, n, f) == f = [at \in From(format, n) |-> Put(format, args, f, at)]

LEMMA TextExists ==
  ASSUME NEW format, Len(format) \in Nat, NEW args
  PROVE  \E f : IsText(format, args, 1, f)
<1> DEFINE L == Len(format) + 1
           Missing == {k \in Nat : k <= Len(format) /\ ~\E f : IsText(format, args, L - k, f)}
<1>1. Missing = {}
  <2> SUFFICES ASSUME Missing # {} PROVE FALSE
    OBVIOUS
  <2>1. PICK k \in Missing : \A j \in Missing : k <= j
    <3>1. Missing \subseteq Nat
      OBVIOUS
    <3> HIDE DEF Missing
    <3> QED
      BY <3>1, NatMin
  <2>2. k \in Nat /\ k <= Len(format) /\ ~\E f : IsText(format, args, L - k, f)
    OBVIOUS
  <2> DEFINE n == L - k
  <2>3. n \in Nat /\ n <= L /\ n >= 1 /\ L \in Nat
    BY <2>2
  <2>4. PICK f : k # 0 => IsText(format, args, n + 1, f)
    <3>1. CASE k = 0
      BY <3>1
    <3>2. CASE k # 0
      <4>1. k - 1 \in Nat /\ ~(k <= k - 1) /\ k - 1 <= Len(format) /\ L - (k - 1) = n + 1
        BY <2>2, <3>2
      <4>2. \E f : IsText(format, args, L - (k - 1), f)
        BY <2>1, <4>1
      <4> QED
        BY <4>1, <4>2
    <3> QED
      BY <3>1, <3>2
  <2> HIDE DEF Missing
  <2> DEFINE g == [at \in From(format, n) |-> IF at[1] = n THEN Put(format, args, f, at) ELSE f[at]]
  <2>5. ASSUME NEW at \in From(format, n) PROVE g[at] = Put(format, args, g, at)
    <3>1. PICK i \in n .. L, u \in Nat, p \in Paddings : at = <<i, u, p>>
      BY DEF From
    <3>2. i \in Nat /\ (~(i > Len(format)) => After(i) \in n .. L /\ After(i) # n)
      BY <2>3 DEF After
    <3>3. \A v \in Nat, q \in Paddings : ~(i > Len(format)) => g[<<After(i), v, q>>] = f[<<After(i), v, q>>]
      BY <3>2 DEF From
    <3>4. Put(format, args, g, <<i, u, p>>) = Put(format, args, f, <<i, u, p>>)
      <4> HIDE DEF g, n, L
      <4>1. i \in Nat
        BY <3>2
      <4> DEFINE Same(j) == \A v \in Nat, q \in Paddings : ~(j > Len(format)) => g[<<After(j), v, q>>] = f[<<After(j), v, q>>]
      <4>2. ASSUME NEW j \in Nat, NEW v \in Nat, NEW q \in Paddings, Same(j)
            PROVE  Put(format, args, g, <<j, v, q>>) = Put(format, args, f, <<j, v, q>>)
        BY <4>2, PutLocal
      <4>3. Same(i)
        BY <3>3
      <4> HIDE DEF Same
      <4> QED
        BY <4>1, <4>2, <4>3
    <3>5. CASE i = n
      BY <3>1, <3>4, <3>5 DEF From
    <3>6. CASE i # n
      <4>1. k # 0
        BY <2>2, <2>3, <3>6
      <4>2. at \in From(format, n + 1)
        BY <2>3, <3>1, <3>6 DEF From
      <4>3. f[at] = Put(format, args, f, at)
        BY <2>4, <4>1, <4>2 DEF IsText
      <4> QED
        BY <3>1, <3>4, <3>6, <4>3
    <3> QED
      BY <3>5, <3>6
  <2>6. g = [at \in From(format, n) |-> g[at]]
    OBVIOUS
  <2> HIDE DEF g
  <2>7. IsText(format, args, n, g)
    BY <2>5, <2>6 DEF IsText
  <2> QED
    BY <2>2, <2>7
<1>2. Len(format) \in Nat /\ Len(format) <= Len(format) /\ L - Len(format) = 1
  OBVIOUS
<1> QED
  BY <1>1, <1>2

\* The defining equation of sprintf.
LEMMA SprintfEquation ==
  ASSUME NEW format, Len(format) \in Nat, NEW args
  PROVE  \E f : /\ sprintf(format, args) = f[<<1, 0, Outside>>]
                /\ \A i \in 1 .. Len(format) + 1, u \in Nat, p \in Paddings :
                     f[<<i, u, p>>] = Put(format, args, f, <<i, u, p>>)
<1> DEFINE f == CHOOSE text : IsText(format, args, 1, text)
<1>1. IsText(format, args, 1, f)
  BY TextExists
<1>2. sprintf(format, args) = f[<<1, 0, Outside>>]
  BY DEF sprintf, IsText, Put, From, Places, Paddings, After
<1>3. ASSUME NEW i \in 1 .. Len(format) + 1, NEW u \in Nat, NEW p \in Paddings
      PROVE  f[<<i, u, p>>] = Put(format, args, f, <<i, u, p>>)
  <2> HIDE DEF f
  <2>1. <<i, u, p>> \in From(format, 1)
    BY DEF From
  <2> QED
    BY <1>1, <2>1 DEF IsText
<1> HIDE DEF f
<1>4. /\ sprintf(format, args) = f[<<1, 0, Outside>>]
      /\ \A i \in 1 .. Len(format) + 1, u \in Nat, p \in Paddings :
           f[<<i, u, p>>] = Put(format, args, f, <<i, u, p>>)
  BY <1>2, <1>3
<1> WITNESS f
<1> QED
  BY <1>4

LEMMA StringFacts ==
  ASSUME NEW s, s \in Text
  PROVE  Len(s) \in Nat /\ s \o <<>> = s
BY LenProperties, ConcatEmptySeq DEF Text

\* "%s" prints its argument.
LEMMA ConvertedString ==
  ASSUME NEW s, Len(s) \in Nat
  PROVE  Padded(0, Converted("s", s)) = s
<1>1. Converted("s", s) = s
  BY DEF Converted
<1>2. Padded(0, s) = s
  BY DEF Padded
<1> QED
  BY <1>1, <1>2

\* A text without a '%' is printed as it stands.
LEMMA PlainText ==
  ASSUME NEW text \in Text, "%" \notin ToSet(text), NEW args
  PROVE  sprintf(text, args) = text
<1> DEFINE L == Len(text)
<1>1. L \in Nat
  BY LenProperties DEF Text
<1>2. PICK f : /\ sprintf(text, args) = f[<<1, 0, Outside>>]
               /\ \A i \in 1 .. Len(text) + 1, u \in Nat, p \in Paddings :
                    f[<<i, u, p>>] = Put(text, args, f, <<i, u, p>>)
  BY <1>1, SprintfEquation
<1>3. Outside \in Paddings /\ 0 \in Nat
  BY DEF Paddings
<1> DEFINE Plain(i) == f[<<i, 0, Outside>>] = SubSeq(text, i, L)
           Wrong == {k \in Nat : k <= L /\ ~Plain((L + 1) - k)}
<1>4. Plain(L + 1)
  <2>1. f[<<L + 1, 0, Outside>>] = Put(text, args, f, <<L + 1, 0, Outside>>)
    BY <1>1, <1>2, <1>3
  <2>2. Put(text, args, f, <<L + 1, 0, Outside>>) = <<>>
    BY <1>1 DEF Put
  <2>3. SubSeq(text, L + 1, L) = <<>>
    BY <1>1, SubSeqEmpty
  <2> QED
    BY <2>1, <2>2, <2>3
<1>5. ASSUME NEW i \in 1 .. L, Plain(i + 1)
      PROVE  Plain(i)
  <2>1. f[<<i, 0, Outside>>] = Put(text, args, f, <<i, 0, Outside>>)
    BY <1>1, <1>2, <1>3
  <2>2. text[i] # "%"
    <3>1. text[i] \in ToSet(text)
      BY <1>1 DEF ToSet, Text
    <3> QED
      BY <3>1
  <2>3. Put(text, args, f, <<i, 0, Outside>>) = <<text[i]>> \o f[<<i + 1, 0, Outside>>]
    BY <1>1, <2>2 DEF Put, After
  <2>4. SubSeq(text, i, L) = <<text[i]>> \o SubSeq(text, i + 1, L)
    BY <1>1, SubSeqRecursiveFirst DEF Text
  <2> QED
    BY <1>5, <2>1, <2>3, <2>4
<1>6. Wrong = {}
  <2> SUFFICES ASSUME Wrong # {} PROVE FALSE
    OBVIOUS
  <2>1. PICK k \in Wrong : \A j \in Wrong : k <= j
    <3>1. Wrong \subseteq Nat
      OBVIOUS
    <3> HIDE DEF Wrong
    <3> QED
      BY <3>1, NatMin
  <2>2. k \in Nat /\ k <= L /\ ~Plain((L + 1) - k)
    OBVIOUS
  <2> HIDE DEF Plain
  <2>3. k # 0
    BY <1>1, <1>4, <2>2
  <2>4. k - 1 \in Nat /\ ~(k <= k - 1) /\ k - 1 <= L /\ (L + 1) - (k - 1) = ((L + 1) - k) + 1
    BY <1>1, <2>2, <2>3
  <2>5. Plain(((L + 1) - k) + 1)
    BY <2>1, <2>4
  <2>6. (L + 1) - k \in 1 .. L
    BY <1>1, <2>2, <2>3
  <2> QED
    BY <1>5, <2>2, <2>5, <2>6
<1>7. L \in Nat /\ L <= L /\ (L + 1) - L = 1
  BY <1>1
<1>8. Plain(1)
  <2> HIDE DEF Plain
  <2> QED
    BY <1>6, <1>7
<1> QED
  BY <1>2, <1>8, SubSeqFull DEF Text

LineStart == <<Stamp>>
LineMiddle == <<Between>>

\* f is the text from each place on.
Unfolds(format, args, f) ==
  \A i \in 1 .. Len(format) + 1, u \in Nat, p \in Paddings :
    f[<<i, u, p>>] = Put(format, args, f, <<i, u, p>>)

LEMMA LineTextOf ==
  ASSUME NEW format, NEW args, NEW message \in Text, NEW f,
         sprintf(format, args) = f[<<1, 0, Outside>>],
         Unfolds(format, args, f), Len(format) = 6,
         /\ format[1] = Stamp /\ format[2] = "%" /\ format[3] = "s"
         /\ format[4] = Between /\ format[5] = "%" /\ format[6] = "s",
         args[1] = Tag /\ args[2] = message
  PROVE  sprintf(format, args) = LineStart \o (Tag \o (LineMiddle \o message))
<1>1. Stamp # "%" /\ Between # "%"
  BY Zenon DEF Stamp, Between
<1>2. args[1] = Tag /\ args[2] = message /\ Len(Tag) \in Nat /\ Len(message) \in Nat
  BY StringFacts, LoggingConstants
<1>3. Len(format) \in Nat
  OBVIOUS
<1>4. ASSUME NEW i \in Nat, i \in 1 .. 7, NEW u \in Nat, NEW p \in Paddings
      PROVE  f[<<i, u, p>>] = Put(format, args, f, <<i, u, p>>)
  BY <1>4 DEF Unfolds
<1>5. Outside \in Paddings /\ 0 \in Paddings /\ 0 # Outside
  BY DEF Paddings, Outside
<1>6. "s" \notin Decimal /\ "s" \in Conversions
  BY DEF Decimal, Digits, Conversions
<1>7. ASSUME NEW i \in Nat, i \in 1 .. 6, NEW u \in Nat, format[i] # "%"
      PROVE  f[<<i, u, Outside>>] = <<format[i]>> \o f[<<After(i), u, Outside>>]
  <2>1. ~(i > Len(format)) /\ i \in 1 .. 7
    BY <1>7
  <2>2. Put(format, args, f, <<i, u, Outside>>) = <<format[i]>> \o f[<<After(i), u, Outside>>]
    BY <1>7, <2>1 DEF Put
  <2>3. f[<<i, u, Outside>>] = Put(format, args, f, <<i, u, Outside>>)
    BY <1>4, <1>5, <2>1
  <2> QED
    BY <2>2, <2>3
<1>8. ASSUME NEW i \in Nat, i \in 1 .. 6, NEW u \in Nat, format[i] = "%"
      PROVE  f[<<i, u, Outside>>] = f[<<After(i), u, 0>>]
  <2>1. ~(i > Len(format)) /\ i \in 1 .. 7
    BY <1>8
  <2>2. Put(format, args, f, <<i, u, Outside>>) = f[<<After(i), u, 0>>]
    BY <1>8, <2>1 DEF Put
  <2>3. f[<<i, u, Outside>>] = Put(format, args, f, <<i, u, Outside>>)
    BY <1>4, <1>5, <2>1
  <2> QED
    BY <2>2, <2>3
<1>9. ASSUME NEW i \in Nat, i \in 1 .. 6, NEW u \in Nat, format[i] = "s", Len(args[After(u)]) \in Nat
       PROVE  f[<<i, u, 0>>] = args[After(u)] \o f[<<After(i), After(u), Outside>>]
  <2>1. ~(i > Len(format)) /\ i \in 1 .. 7
    BY <1>9
  <2>2. Put(format, args, f, <<i, u, 0>>) =
          Padded(0, Converted(format[i], args[After(u)])) \o f[<<After(i), After(u), Outside>>]
    BY <1>5, <1>6, <1>9, <2>1 DEF Put
  <2>3. f[<<i, u, 0>>] = Put(format, args, f, <<i, u, 0>>)
    BY <1>4, <1>5, <2>1
  <2>4. Padded(0, Converted("s", args[After(u)])) = args[After(u)]
    BY <1>9, ConvertedString
  <2> QED
    BY <1>9, <2>2, <2>3, <2>4
<1>10. /\ After(0) = 1 /\ After(1) = 2 /\ After(2) = 3 /\ After(3) = 4 /\ After(4) = 5
       /\ After(5) = 6 /\ After(6) = 7
  BY DEF After
<1>11. f[<<1, 0, Outside>>] = LineStart \o f[<<2, 0, Outside>>]
  <2>1. PICK i \in Nat, u \in Nat : i = 1 /\ u = 0
    OBVIOUS
  <2>2. i \in 1 .. 6 /\ format[i] # "%"
    BY <1>1, <2>1
  <2>3. f[<<i, u, Outside>>] = <<format[i]>> \o f[<<After(i), u, Outside>>]
    BY <1>7, <2>2
  <2> QED
    BY <1>2, <1>10, <2>1, <2>3 DEF LineStart
<1>12. f[<<2, 0, Outside>>] = f[<<3, 0, 0>>]
  <2>1. PICK i \in Nat, u \in Nat : i = 2 /\ u = 0
    OBVIOUS
  <2>2. i \in 1 .. 6 /\ format[i] = "%"
    BY <1>1, <2>1
  <2>3. f[<<i, u, Outside>>] = f[<<After(i), u, 0>>]
    BY <1>8, <2>2
  <2> QED
    BY <1>2, <1>10, <2>1, <2>3
<1>13. f[<<3, 0, 0>>] = Tag \o f[<<4, 1, Outside>>]
  <2>1. PICK i \in Nat, u \in Nat : i = 3 /\ u = 0
    OBVIOUS
  <2>2. i \in 1 .. 6 /\ format[i] = "s" /\ Len(args[After(u)]) \in Nat
    BY <1>2, <1>10, <2>1
  <2>3. f[<<i, u, 0>>] = args[After(u)] \o f[<<After(i), After(u), Outside>>]
    BY <1>9, <2>2
  <2> QED
    BY <1>2, <1>10, <2>1, <2>3
<1>14. f[<<4, 1, Outside>>] = LineMiddle \o f[<<5, 1, Outside>>]
  <2>1. PICK i \in Nat, u \in Nat : i = 4 /\ u = 1
    OBVIOUS
  <2>2. i \in 1 .. 6 /\ format[i] # "%"
    BY <1>1, <2>1
  <2>3. f[<<i, u, Outside>>] = <<format[i]>> \o f[<<After(i), u, Outside>>]
    BY <1>7, <2>2
  <2> QED
    BY <1>2, <1>10, <2>1, <2>3 DEF LineMiddle
<1>15. f[<<5, 1, Outside>>] = f[<<6, 1, 0>>]
  <2>1. PICK i \in Nat, u \in Nat : i = 5 /\ u = 1
    OBVIOUS
  <2>2. i \in 1 .. 6 /\ format[i] = "%"
    BY <1>1, <2>1
  <2>3. f[<<i, u, Outside>>] = f[<<After(i), u, 0>>]
    BY <1>8, <2>2
  <2> QED
    BY <1>2, <1>10, <2>1, <2>3
<1>16. f[<<6, 1, 0>>] = message \o f[<<7, 2, Outside>>]
  <2>1. PICK i \in Nat, u \in Nat : i = 6 /\ u = 1
    OBVIOUS
  <2>2. i \in 1 .. 6 /\ format[i] = "s" /\ Len(args[After(u)]) \in Nat
    BY <1>2, <1>10, <2>1
  <2>3. f[<<i, u, 0>>] = args[After(u)] \o f[<<After(i), After(u), Outside>>]
    BY <1>9, <2>2
  <2> QED
    BY <1>2, <1>10, <2>1, <2>3
<1>17. ASSUME NEW i \in Nat, i = 7, NEW u \in Nat
       PROVE  f[<<i, u, Outside>>] = <<>>
  <2>1. Put(format, args, f, <<i, u, Outside>>) = <<>>
    BY <1>17 DEF Put
  <2>2. f[<<i, u, Outside>>] = Put(format, args, f, <<i, u, Outside>>)
    BY <1>4, <1>5, <1>17
  <2> QED
    BY <2>1, <2>2
<1>18. message \o <<>> = message
  BY StringFacts
<1> QED
  <2>1. f[<<7, 2, Outside>>] = <<>>
    BY <1>17
  <2> QED
    BY <1>11, <1>12, <1>13, <1>14, <1>15, <1>16, <1>18, <2>1

\* A line is the tag and the message between the fixed parts of its format.
LEMMA LineText ==
  ASSUME NEW message \in Text
  PROVE  sprintf(LineFormat, <<Tag, message>>) = LineStart \o (Tag \o (LineMiddle \o message))
<1>1. /\ Len(LineFormat) = 6
      /\ LineFormat[1] = Stamp /\ LineFormat[2] = "%" /\ LineFormat[3] = "s"
      /\ LineFormat[4] = Between /\ LineFormat[5] = "%" /\ LineFormat[6] = "s"
  BY DEF LineFormat
<1>2. <<Tag, message>>[1] = Tag /\ <<Tag, message>>[2] = message
  OBVIOUS
<1>3. PICK format : format = LineFormat
  OBVIOUS
<1>4. PICK args : args = <<Tag, message>>
  OBVIOUS
<1>5. Len(format) \in Nat
  BY <1>1, <1>3
<1>6. PICK f : sprintf(format, args) = f[<<1, 0, Outside>>] /\ Unfolds(format, args, f)
  BY <1>5, SprintfEquation DEF Unfolds
<1>7. sprintf(format, args) = LineStart \o (Tag \o (LineMiddle \o message))
  <2>1. /\ Len(format) = 6
        /\ format[1] = Stamp /\ format[2] = "%" /\ format[3] = "s"
        /\ format[4] = Between /\ format[5] = "%" /\ format[6] = "s"
    BY <1>1, <1>3
  <2>2. args[1] = Tag /\ args[2] = message
    BY <1>2, <1>4
  <2> QED
    BY <1>6, <2>1, <2>2, LineTextOf
<1> QED
  BY <1>3, <1>4, <1>7

(***************************************************************************)
(* The ports.                                                              *)
(***************************************************************************)
Uart == [dlab : BOOLEAN, divisor : Nat \X Nat, format : Nat, loop : BOOLEAN, tx : Text,
         rx : Characters \cup {NoByte}]

\* A port before a step of serial_init_port: the steps until the last reset
\* what firmware left, the last puts a character into a port in loopback mode.
AtStep(u, step) ==
  /\ step \in 1 .. 9 => u.tx = <<>> /\ u.rx = NoByte
  /\ step \in 1 .. 8 => ~u.loop
  /\ step \in 3 .. 5 => u.dlab
  /\ step = 4 => u.divisor[1] = 3
  /\ step = 5 => u.divisor = <<3, 0>>
  /\ step \in 6 .. 10 => ~u.dlab /\ u.divisor = <<3, 0>> /\ u.format = 3
  /\ step \in 9 .. 10 => u.loop
  /\ step = 10 => u.tx = <<>> \/ (u.tx = <<TestByte>> /\ u.rx # TestByte)

\* A port behind serial_init_port.
Ready(u) == ~u.dlab /\ u.divisor = <<3, 0>> /\ u.format = 3 /\ Len(u.tx) <= 1

LEMMA PortNames ==
  /\ Ports[1] = "COM1" /\ Ports[2] = "COM2" /\ Len(Ports) = 2
  /\ ToSet(Ports) = {"COM1", "COM2"} /\ "COM1" # "COM2"
BY DEF Ports, ToSet

LEMMA TextFacts ==
  /\ <<>> \in Text /\ Len(<<>>) = 0
  /\ TestByte \in Characters /\ <<TestByte>> \in Text /\ <<TestByte>> # <<>>
  /\ LineStart \in Text /\ LineMiddle \in Text /\ TestByte # NoByte
<1>1. TestByte \in Characters /\ Stamp \in Characters /\ Between \in Characters
  BY DEF Characters
<1>2. TestByte # NoByte
  BY DEF TestByte, NoByte
<1>3. <<>> \in Text /\ Len(<<>>) = 0
  BY EmptySeq DEF Text
<1>4. <<TestByte>> \in Text /\ <<TestByte>> # <<>> /\ LineStart \in Text /\ LineMiddle \in Text
  BY <1>1 DEF Text, LineStart, LineMiddle
<1> QED
  BY <1>1, <1>2, <1>3, <1>4

\* The bits of the values that the driver writes.
LEMMA WrittenBits ==
  /\ 128 % 128 = 0 /\ 3 % 128 = 3
  /\ (11 \div 16) % 2 = 0 /\ (30 \div 16) % 2 = 1 /\ (15 \div 16) % 2 = 0
<1>1. 11 \div 16 = 0 /\ 30 \div 16 = 1 /\ 15 \div 16 = 0
  OBVIOUS
<1>2. 0 % 2 = 0 /\ 1 % 2 = 1 /\ 128 % 128 = 0 /\ 3 % 128 = 3
  OBVIOUS
<1> QED
  BY <1>1, <1>2

\* What a write to the line control register and the modem control register does.
LEMMA OutLineControl ==
  ASSUME NEW u \in Uart, NEW value \in Nat
  PROVE  Out(u, 3, value) = [u EXCEPT !.dlab = value >= 128, !.format = value % 128]
BY DEF Out, UART_TX, UART_DLM, UART_IER, UART_FCR, UART_LCR, UART_MCR, UART_LCR_DLAB

LEMMA OutModemControl ==
  ASSUME NEW u \in Uart, NEW value \in Nat
  PROVE  Out(u, 4, value) = [u EXCEPT !.loop = (value \div 16) % 2 = 1]
BY DEF Out, UART_TX, UART_DLM, UART_IER, UART_FCR, UART_LCR, UART_MCR, UART_MCR_LOOPBACK_MODE

\* A step of serial_init_port.
LEMMA PortSteps ==
  ASSUME NEW u \in Uart, NEW step \in 1 .. 9, AtStep(u, step)
  PROVE  LET v == Out(u, serial_init_port[step][1], serial_init_port[step][2])
         IN  v \in Uart /\ AtStep(v, step + 1)
<1>1. CASE step = 1
  <2>1. serial_init_port[step][1] = 1 /\ serial_init_port[step][2] = 0
    BY <1>1 DEF serial_init_port, UART_IER
  <2>2. Out(u, 1, 0) = IF u.dlab THEN [u EXCEPT !.divisor[2] = 0] ELSE u
    BY DEF Out, Uart, UART_TX, UART_DLM, UART_IER, UART_FCR, UART_LCR, UART_MCR
  <2> QED
    BY <1>1, <2>1, <2>2 DEF AtStep, Uart
<1>2. CASE step = 2
  <2>1. serial_init_port[step][1] = 3 /\ serial_init_port[step][2] = 128
    BY <1>2 DEF serial_init_port, UART_LCR, UART_LCR_DLAB
  <2>2. Out(u, 3, 128) = [u EXCEPT !.dlab = TRUE, !.format = 0]
    <3>1. Out(u, 3, 128) = [u EXCEPT !.dlab = 128 >= 128, !.format = 128 % 128]
      BY DEF Out, UART_TX, UART_DLM, UART_IER, UART_FCR, UART_LCR, UART_MCR, UART_LCR_DLAB
    <3>2. (128 >= 128) = TRUE /\ 128 % 128 = 0
      BY WrittenBits
    <3> QED
      BY <3>1, <3>2
  <2> QED
    <3> DEFINE v == Out(u, serial_init_port[step][1], serial_init_port[step][2])
    <3>3. v = [u EXCEPT !.dlab = TRUE, !.format = 0]
      BY <2>1, <2>2
    <3> HIDE DEF v
    <3>1. v \in Uart
      BY <3>3, TextFacts DEF Uart
    <3>2. AtStep(v, 3)
      BY <1>2, <3>3 DEF AtStep, Uart
    <3> QED
      BY <1>2, <3>1, <3>2 DEF v
<1>3. CASE step = 3
  <2>1. serial_init_port[step][1] = 0 /\ serial_init_port[step][2] = 3
    BY <1>3 DEF serial_init_port, UART_TX
  <2>2. Out(u, 0, 3) = [u EXCEPT !.divisor[1] = 3]
    BY <1>3 DEF AtStep, Out, Uart, UART_TX, UART_DLM, UART_IER, UART_FCR, UART_LCR, UART_MCR
  <2> QED
    BY <1>3, <2>1, <2>2 DEF AtStep, Uart
<1>4. CASE step = 4
  <2>1. serial_init_port[step][1] = 1 /\ serial_init_port[step][2] = 0
    BY <1>4 DEF serial_init_port, UART_DLM
  <2>2. Out(u, 1, 0) = [u EXCEPT !.divisor[2] = 0]
    BY <1>4 DEF AtStep, Out, Uart, UART_TX, UART_DLM, UART_IER, UART_FCR, UART_LCR, UART_MCR
  <2> QED
    BY <1>4, <2>1, <2>2 DEF AtStep, Uart
<1>5. CASE step = 5
  <2>1. serial_init_port[step][1] = 3 /\ serial_init_port[step][2] = 3
    BY <1>5 DEF serial_init_port, UART_LCR
  <2>2. Out(u, 3, 3) = [u EXCEPT !.dlab = FALSE, !.format = 3]
    <3>1. Out(u, 3, 3) = [u EXCEPT !.dlab = 3 >= 128, !.format = 3 % 128]
      BY OutLineControl
    <3>2. (3 >= 128) = FALSE /\ 3 % 128 = 3
      BY WrittenBits
    <3> QED
      BY <3>1, <3>2
  <2> QED
    <3> DEFINE v == Out(u, serial_init_port[step][1], serial_init_port[step][2])
    <3>3. v = [u EXCEPT !.dlab = FALSE, !.format = 3]
      BY <2>1, <2>2
    <3> HIDE DEF v
    <3>1. v \in Uart
      BY <3>3, TextFacts DEF Uart
    <3>2. AtStep(v, 6)
      BY <1>5, <3>3 DEF AtStep, Uart
    <3> QED
      BY <1>5, <3>1, <3>2 DEF v
<1>6. CASE step = 6
  <2>1. serial_init_port[step][1] = 2 /\ serial_init_port[step][2] = 199
    BY <1>6 DEF serial_init_port, UART_FCR
  <2>2. Out(u, 2, 199) = [u EXCEPT !.tx = <<>>, !.rx = NoByte]
    BY DEF Out, Uart, UART_TX, UART_DLM, UART_IER, UART_FCR, UART_LCR, UART_MCR
  <2> QED
    <3> DEFINE v == Out(u, serial_init_port[step][1], serial_init_port[step][2])
    <3>3. v = [u EXCEPT !.tx = <<>>, !.rx = NoByte]
      BY <2>1, <2>2
    <3> HIDE DEF v
    <3>1. v \in Uart
      BY <3>3, TextFacts DEF Uart
    <3>2. AtStep(v, 7)
      BY <1>6, <3>3 DEF AtStep, Uart
    <3> QED
      BY <1>6, <3>1, <3>2 DEF v
<1>7. CASE step = 7
  <2>1. serial_init_port[step][1] = 4 /\ serial_init_port[step][2] = 11
    BY <1>7 DEF serial_init_port, UART_MCR
  <2>2. Out(u, 4, 11) = [u EXCEPT !.loop = FALSE]
    <3>1. Out(u, 4, 11) = [u EXCEPT !.loop = (11 \div 16) % 2 = 1]
      BY OutModemControl
    <3>2. ((11 \div 16) % 2 = 1) = FALSE
      BY WrittenBits
    <3> QED
      BY <3>1, <3>2
  <2> QED
    <3> DEFINE v == Out(u, serial_init_port[step][1], serial_init_port[step][2])
    <3>3. v = [u EXCEPT !.loop = FALSE]
      BY <2>1, <2>2
    <3> HIDE DEF v
    <3>1. v \in Uart
      BY <3>3, TextFacts DEF Uart
    <3>2. AtStep(v, 8)
      BY <1>7, <3>3 DEF AtStep, Uart
    <3> QED
      BY <1>7, <3>1, <3>2 DEF v
<1>8. CASE step = 8
  <2>1. serial_init_port[step][1] = 4 /\ serial_init_port[step][2] = 30
    BY <1>8 DEF serial_init_port, UART_MCR, UART_MCR_LOOPBACK_MODE
  <2>2. Out(u, 4, 30) = [u EXCEPT !.loop = TRUE]
    <3>1. Out(u, 4, 30) = [u EXCEPT !.loop = (30 \div 16) % 2 = 1]
      BY OutModemControl
    <3>2. ((30 \div 16) % 2 = 1) = TRUE
      BY WrittenBits
    <3> QED
      BY <3>1, <3>2
  <2> QED
    <3> DEFINE v == Out(u, serial_init_port[step][1], serial_init_port[step][2])
    <3>3. v = [u EXCEPT !.loop = TRUE]
      BY <2>1, <2>2
    <3> HIDE DEF v
    <3>1. v \in Uart
      BY <3>3, TextFacts DEF Uart
    <3>2. AtStep(v, 9)
      BY <1>8, <3>3 DEF AtStep, Uart
    <3> QED
      BY <1>8, <3>1, <3>2 DEF v
<1>9. CASE step = 9
  <2>1. serial_init_port[step][1] = 0 /\ serial_init_port[step][2] = TestByte
    BY <1>9 DEF serial_init_port, UART_TX
  <2>2. u.tx = <<>> /\ u.rx = NoByte /\ ~u.dlab /\ u.loop /\ u.divisor = <<3, 0>> /\ u.format = 3
    BY <1>9 DEF AtStep
  <2>3. Len(u.tx) < FifoSize
    BY <2>2, TextFacts, LoggingConstants
  <2>4. Out(u, 0, TestByte) = [u EXCEPT !.tx = Append(u.tx, TestByte)]
    BY <2>2, <2>3 DEF Out, Uart, UART_TX, UART_DLM, UART_IER, UART_FCR, UART_LCR, UART_MCR
  <2>5. Append(u.tx, TestByte) = <<TestByte>>
    BY <2>2
  <2> QED
    BY <1>9, <2>1, <2>2, <2>4, <2>5, TextFacts DEF AtStep, Uart
<1> QED
  BY <1>1, <1>2, <1>3, <1>4, <1>5, <1>6, <1>7, <1>8, <1>9

\* The loopback test, passed or failed.
LEMMA PortDone ==
  ASSUME NEW u \in Uart, AtStep(u, 10)
  PROVE  LET v == LoopbackTest(u) IN v \in Uart /\ Ready(v) /\ (v.loop \/ v.tx = <<>>)
<1>1. ~u.dlab /\ u.divisor = <<3, 0>> /\ u.format = 3 /\ u.loop
  BY DEF AtStep
<1>2. u.tx = <<>> \/ (u.tx = <<TestByte>> /\ u.rx # TestByte)
  BY DEF AtStep
<1>3. Len(u.tx) <= 1
  <2>1. CASE u.tx = <<>>
    <3>1. Len(u.tx) = Len(<<>>)
      BY <2>1
    <3> QED
      BY <3>1, TextFacts
  <2>2. CASE u.tx = <<TestByte>>
    <3>1. Len(<<TestByte>>) = 1
      OBVIOUS
    <3>2. Len(u.tx) = Len(<<TestByte>>)
      BY <2>2
    <3> QED
      BY <3>1, <3>2
  <2> QED
    BY <1>2, <2>1, <2>2
<1>4. CASE u.rx # TestByte
  BY <1>1, <1>3, <1>4 DEF LoopbackTest, Ready
<1>5. CASE u.rx = TestByte
  <2>1. LoopbackTest(u) = [u EXCEPT !.rx = NoByte, !.loop = FALSE]
    <3> DEFINE w == [u EXCEPT !.rx = NoByte]
    <3>1. w \in Uart
      BY DEF Uart
    <3>2. LoopbackTest(u) = Out(w, 4, 15)
      BY <1>5 DEF LoopbackTest, UART_MCR
    <3>3. ASSUME NEW x \in Uart PROVE Out(x, 4, 15) = [x EXCEPT !.loop = (15 \div 16) % 2 = 1]
      BY OutModemControl
    <3>4. Out(w, 4, 15) = [w EXCEPT !.loop = FALSE]
      <4> HIDE DEF w
      <4>1. ((15 \div 16) % 2 = 1) = FALSE
        BY WrittenBits
      <4> QED
        BY <3>1, <3>3, <4>1
    <3> QED
      BY <3>2, <3>4 DEF Uart
  <2> QED
    BY <1>1, <1>2, <1>3, <1>5, <2>1 DEF Ready, Uart
<1> QED
  BY <1>4, <1>5

\* The transmitter of a port that it leaves ready.
LEMMA PortTransmits ==
  ASSUME NEW u \in Uart, u.tx # <<>>, Len(u.tx) <= 1
  PROVE  /\ Shifted(u) \in Uart
         /\ Shifted(u) = [u EXCEPT !.tx = <<>>, !.rx = IF u.loop THEN Head(u.tx) ELSE u.rx]
         /\ Head(u.tx) \in Characters /\ u.tx = <<Head(u.tx)>>
<1>1. Head(u.tx) \in Characters /\ Tail(u.tx) = <<>> /\ u.tx = <<Head(u.tx)>>
  BY HeadAndTail, OneCharacter DEF Uart
<1>2. Shifted(u) = [u EXCEPT !.tx = <<>>, !.rx = IF u.loop THEN Head(u.tx) ELSE u.rx]
  BY <1>1 DEF Shifted
<1> QED
  BY <1>1, <1>2, TextFacts DEF Uart

LEMMA PortSends ==
  ASSUME NEW u \in Uart, Ready(u), u.tx = <<>>, NEW c \in Characters
  PROVE  LET v == Out(u, UART_TX, c)
         IN  v \in Uart /\ Ready(v) /\ v.tx = <<c>> /\ v.loop = u.loop
<1>1. Len(u.tx) < FifoSize
  BY TextFacts, LoggingConstants
<1>2. Append(u.tx, c) = <<c>> /\ <<c>> \in Text /\ Len(<<c>>) <= 1
  BY DEF Text
<1>3. Out(u, UART_TX, c) = [u EXCEPT !.tx = <<c>>]
  BY <1>1, <1>2 DEF Out, Ready, Uart, UART_TX, UART_DLM, UART_IER, UART_FCR, UART_LCR, UART_MCR
<1> QED
  BY <1>2, <1>3 DEF Ready, Uart

(***************************************************************************)
(* The invariant.                                                          *)
(***************************************************************************)
LineOf(text) == LineStart \o (Tag \o (LineMiddle \o text))

\* The states that hold print_lock.
Inside == {"screen", "serial", "unlock"}

Typed ==
  /\ uart \in [ToSet(Ports) -> Uart]
  /\ serial_initialised \in BOOLEAN
  /\ boot \in (1 .. 3) \X (1 .. 10)
  /\ pc \in [Tasks -> {"idle", "lock", "screen", "serial", "unlock"}]
  /\ call \in [Tasks -> [level : Levels, message : Messages]]
  /\ line \in [Tasks -> Text]
  /\ vga_message \in [Tasks -> Text]
  /\ print_lock \in Tasks \cup {NoTask}
  /\ calls \in 0 .. MaxCalls
  /\ due \in [ToSet(Ports) -> Text]

\* Before serial_init is done its place says how far each port is, and only
\* kernel_main logs, which no port sends.
Booting ==
  IF serial_initialised
  THEN boot = <<3, 1>> /\ \A p \in ToSet(Ports) : Ready(uart[p])
  ELSE /\ boot[1] \in {1, 2}
       /\ boot[1] = 1 => AtStep(uart["COM1"], boot[2]) /\ AtStep(uart["COM2"], 1)
       /\ boot[1] = 2 => /\ Ready(uart["COM1"]) /\ (uart["COM1"].loop \/ uart["COM1"].tx = <<>>)
                         /\ AtStep(uart["COM2"], boot[2])
       /\ \A p \in ToSet(Ports) : due[p] = <<>>
       /\ \A t \in Tasks : t # Main => pc[t] = "idle"

\* print_lock is held by the task inside.
Exclusion == \A t \in Tasks : pc[t] \in Inside <=> print_lock = t

\* What a call has formatted.
Formatted ==
  \A t \in Tasks :
    /\ pc[t] # "idle" => vga_message[t] = call[t].message.text
    /\ pc[t] \in {"lock", "screen"} => line[t] = LineOf(call[t].message.text)
    /\ pc[t] = "unlock" /\ serial_initialised => line[t] = <<>>

IInv == Typed /\ Booting /\ Exclusion /\ Formatted /\ LinesArriveWhole

\* Concatenation of texts.
LEMMA TextConcat == \A a, b \in Text : a \o b \in Text
<1>1. \A a, b \in Seq(Characters) : a \o b \in Seq(Characters)
  BY ConcatProperties
<1> QED
  BY <1>1 DEF Text

LEMMA TextAssociative == \A a, b, c \in Text : (a \o b) \o c = a \o (b \o c)
<1>1. \A a, b, c \in Seq(Characters) : (a \o b) \o c = a \o (b \o c)
  BY ConcatAssociative
<1> QED
  BY <1>1 DEF Text

LEMMA LineTyped ==
  ASSUME NEW text \in Text
  PROVE  /\ LineOf(text) \in Text
         /\ \A s \in Text : ((((s \o LineStart) \o Tag) \o LineMiddle) \o text) = s \o LineOf(text)
<1>1. Tag \in Text /\ LineStart \in Text /\ LineMiddle \in Text
  BY LoggingConstants, TextFacts
<1>2. LineMiddle \o text \in Text /\ Tag \o (LineMiddle \o text) \in Text
  BY <1>1, TextConcat
<1>3. ASSUME NEW s \in Text
      PROVE  ((((s \o LineStart) \o Tag) \o LineMiddle) \o text) = s \o LineOf(text)
  <2>1. (s \o LineStart) \in Text /\ ((s \o LineStart) \o Tag) \in Text
    BY <1>1, TextConcat
  <2>2. (((s \o LineStart) \o Tag) \o LineMiddle) \o text = ((s \o LineStart) \o Tag) \o (LineMiddle \o text)
    <3> DEFINE x == (s \o LineStart) \o Tag
    <3>1. x \in Text
      BY <2>1
    <3> HIDE DEF x
    <3>2. (x \o LineMiddle) \o text = x \o (LineMiddle \o text)
      BY <1>1, <3>1, TextAssociative
    <3> QED
      BY <3>2 DEF x
  <2>3. ((s \o LineStart) \o Tag) \o (LineMiddle \o text) = (s \o LineStart) \o (Tag \o (LineMiddle \o text))
    <3> DEFINE x == s \o LineStart
               y == LineMiddle \o text
    <3>1. x \in Text /\ y \in Text
      BY <1>2, <2>1
    <3> HIDE DEF x, y
    <3>2. (x \o Tag) \o y = x \o (Tag \o y)
      <4>1. PICK tag \in Text : tag = Tag
        BY <1>1
      <4>2. (x \o tag) \o y = x \o (tag \o y)
        BY <3>1, TextAssociative
      <4> QED
        BY <4>1, <4>2
    <3> QED
      BY <3>2 DEF x, y
  <2>4. (s \o LineStart) \o (Tag \o (LineMiddle \o text)) = s \o (LineStart \o (Tag \o (LineMiddle \o text)))
    BY <1>1, <1>2, TextAssociative
  <2> QED
    BY <2>2, <2>3, <2>4 DEF LineOf
<1> QED
  BY <1>1, <1>2, <1>3, TextConcat DEF LineOf

LEMMA ResetTyped ==
  ASSUME NEW dlab \in BOOLEAN
  PROVE  Reset(dlab) \in Uart /\ AtStep(Reset(dlab), 1)
<1>1. Reset(dlab) \in Uart
  BY TextFacts DEF Reset, Uart
<1>2. AtStep(Reset(dlab), 1)
  BY DEF Reset, AtStep
<1> QED
  BY <1>1, <1>2

LEMMA InitInvariant == Init => IInv
<1> SUFFICES ASSUME Init PROVE IInv
  OBVIOUS
<1>1. uart \in [ToSet(Ports) -> Uart] /\ \A p \in ToSet(Ports) : AtStep(uart[p], 1)
  <2>1. Reset(FALSE) \in Uart /\ AtStep(Reset(FALSE), 1) /\ Reset(TRUE) \in Uart /\ AtStep(Reset(TRUE), 1)
    BY ResetTyped
  <2> QED
    BY <2>1 DEF Init
<1>2. Typed
  <2>1. NoCall \in [level : Levels, message : Messages]
    BY LoggingConstants DEF NoCall, Levels
  <2>2. boot \in (1 .. 3) \X (1 .. 10) /\ serial_initialised \in BOOLEAN /\ calls \in 0 .. MaxCalls
    <3>1. MaxCalls \in Nat /\ 0 \in 0 .. MaxCalls
      BY LoggingConstants
    <3>2. <<1, 1>> \in (1 .. 3) \X (1 .. 10)
      OBVIOUS
    <3> QED
      BY <3>1, <3>2 DEF Init
  <2>3. line \in [Tasks -> Text] /\ vga_message \in [Tasks -> Text] /\ due \in [ToSet(Ports) -> Text]
    BY TextFacts DEF Init
  <2> QED
    BY <1>1, <2>1, <2>2, <2>3 DEF Init, Typed
<1>3. Booting
  BY <1>1, PortNames DEF Init, Booting
<1>4. Exclusion
  BY LoggingConstants DEF Init, Exclusion, Inside
<1>5. Formatted
  BY DEF Init, Formatted
<1>6. LinesArriveWhole
  BY DEF Init, LinesArriveWhole, ScreenShowsMessage
<1> QED
  BY <1>2, <1>3, <1>4, <1>5, <1>6 DEF IInv

LEMMA InvariantTypes == IInv => TypeOK
<1> SUFFICES ASSUME IInv PROVE TypeOK
  OBVIOUS
<1>1. ASSUME NEW p \in ToSet(Ports)
      PROVE  Len(uart[p].tx) <= 1
  <2>1. ASSUME NEW step \in 1 .. 10, AtStep(uart[p], step)
        PROVE  Len(uart[p].tx) <= 1
    <3>1. uart[p].tx = <<>> \/ uart[p].tx = <<TestByte>>
      BY <2>1 DEF AtStep
    <3>2. Len(<<TestByte>>) = 1 /\ Len(<<>>) = 0
      OBVIOUS
    <3>3. CASE uart[p].tx = <<>>
      <4>1. Len(uart[p].tx) = Len(<<>>)
        BY <3>3
      <4> QED
        BY <4>1, TextFacts
    <3>4. CASE uart[p].tx = <<TestByte>>
      <4>1. Len(uart[p].tx) = Len(<<TestByte>>)
        BY <3>4
      <4> QED
        BY <4>1, <3>2
    <3> QED
      BY <3>1, <3>3, <3>4
  <2>2. CASE serial_initialised
    BY <2>2 DEF IInv, Booting, Ready
  <2>3. CASE ~serial_initialised
    <3>1. Ready(uart[p]) \/ \E step \in 1 .. 10 : AtStep(uart[p], step)
      BY <2>3, PortNames DEF IInv, Booting, Typed
    <3> QED
      BY <2>1, <3>1 DEF Ready
  <2> QED
    BY <2>2, <2>3 DEF IInv, Typed
<1>2. Len(serial_init_port) = 9 /\ Len(Ports) = 2
  BY PortNames DEF serial_init_port
<1>3. boot \in (1 .. Len(Ports)) \X (1 .. Len(serial_init_port) + 1) \cup {<<Len(Ports) + 1, 1>>}
  BY <1>2 DEF IInv, Booting, Typed
<1> QED
  BY <1>1, <1>3 DEF IInv, Typed, TypeOK, Uart

(***************************************************************************)
(* The steps.                                                              *)
(***************************************************************************)

\* Nothing of the messages has changed.
LEMMA LinesKept ==
  ASSUME IInv, UNCHANGED <<pc, call, line, print_lock, screen>>
  PROVE  /\ ScreenShowsMessage' /\ Exclusion'
         /\ \A p \in ToSet(Ports) : Rest(p)' = Rest(p)
<1>1. ScreenShowsMessage'
  BY DEF IInv, LinesArriveWhole, ScreenShowsMessage
<1>2. Exclusion'
  BY DEF IInv, Exclusion
<1>3. \A p \in ToSet(Ports) : Rest(p)' = Rest(p)
  BY DEF Rest, PortOf
<1> QED
  BY <1>1, <1>2, <1>3

LEMMA StutterStep == IInv /\ UNCHANGED vars => IInv'
<1> SUFFICES ASSUME IInv, UNCHANGED vars PROVE IInv'
  OBVIOUS
<1>1. Typed' /\ Formatted'
  BY DEF vars, IInv, Typed, Formatted
<1>2. Booting'
  BY DEF vars, IInv, Booting
<1>3. Exclusion' /\ LinesArriveWhole'
  BY LinesKept DEF vars, IInv, LinesArriveWhole
<1> QED
  BY <1>1, <1>2, <1>3 DEF IInv

LEMMA SerialInitStep == IInv /\ serial_init => IInv'
<1> SUFFICES ASSUME IInv, serial_init PROVE IInv'
  OBVIOUS
<1> DEFINE k == boot[1]
           step == boot[2]
           p == Ports[k]
           done == LoopbackTest(uart[p])
           next == Out(uart[p], serial_init_port[step][1], serial_init_port[step][2])
<1>1. /\ ~serial_initialised /\ pc[Main] = "idle"
      /\ UNCHANGED <<pc, call, line, vga_message, print_lock, screen, calls, due>>
  BY DEF serial_init, texts
<1>2. k \in {1, 2} /\ step \in 1 .. 10 /\ boot = <<k, step>> /\ p \in ToSet(Ports)
  BY <1>1, PortNames DEF IInv, Booting, Typed
<1>3. AtStep(uart[p], step) /\ uart[p] \in Uart
  BY <1>1, <1>2, PortNames DEF IInv, Booting, Typed
<1>4. \A t \in Tasks : pc[t] = "idle"
  BY <1>1 DEF IInv, Booting
<1>5. ScreenShowsMessage' /\ Exclusion'
  BY <1>1, LinesKept
<1>6. Formatted'
  BY <1>1, <1>4 DEF Formatted
<1>7. Len(serial_init_port) = 9
  BY DEF serial_init_port
<1>8. \/ step \in 1 .. 9 /\ uart' = [uart EXCEPT ![p] = next] /\ boot' = <<k, step + 1>> /\ serial_initialised' = FALSE
      \/ /\ step = 10 /\ uart' = [uart EXCEPT ![p] = done] /\ boot' = <<k + 1, 1>>
         /\ serial_initialised' = (k = 2)
  BY <1>1, <1>2, <1>7, PortNames DEF serial_init, IInv, Typed
<1>9. step \in 1 .. 9 => next \in Uart /\ AtStep(next, step + 1)
  BY <1>3, PortSteps
<1>10. step = 10 => done \in Uart /\ Ready(done) /\ (done.loop \/ done.tx = <<>>)
  BY <1>3, PortDone
<1> HIDE DEF next, done
<1>11. Typed'
  <2>1. uart' \in [ToSet(Ports) -> Uart]
    BY <1>2, <1>8, <1>9, <1>10 DEF IInv, Typed
  <2>2. boot' \in (1 .. 3) \X (1 .. 10)
    <3>1. k \in 1 .. 3 /\ k + 1 \in 1 .. 3 /\ 1 \in 1 .. 10 /\ (step \in 1 .. 9 => step + 1 \in 1 .. 10)
      BY <1>2
    <3>2. (boot' = <<k, step + 1>> /\ step \in 1 .. 9) \/ boot' = <<k + 1, 1>>
      BY <1>8
    <3> QED
      BY <3>1, <3>2
  <2>4. serial_initialised' \in BOOLEAN
    BY <1>8
  <2> QED
    BY <1>1, <2>1, <2>2, <2>4 DEF IInv, Typed
<1>12. Booting'
  <2>1. (\A q \in ToSet(Ports) : due'[q] = <<>>) /\ \A t \in Tasks : t # Main => pc'[t] = "idle"
    BY <1>1, <1>4 DEF IInv, Booting
  <2>2. CASE step \in 1 .. 9
    <3>1. /\ uart' = [uart EXCEPT ![p] = next] /\ boot'[1] = k /\ boot'[2] = step + 1
          /\ ~serial_initialised'
      BY <1>8, <2>2
    <3>2. CASE k = 1
      BY <1>1, <1>9, <2>1, <2>2, <3>1, <3>2, PortNames DEF IInv, Booting, Typed
    <3>3. CASE k = 2
      BY <1>1, <1>9, <2>1, <2>2, <3>1, <3>3, PortNames DEF IInv, Booting, Typed
    <3> QED
      BY <1>2, <3>2, <3>3
  <2>3. CASE step = 10
    <3>1. /\ uart' = [uart EXCEPT ![p] = done] /\ boot' = <<k + 1, 1>>
          /\ serial_initialised' = (k = 2)
      BY <1>8, <2>3
    <3>2. CASE k = 1
      BY <1>1, <1>10, <2>1, <2>3, <3>1, <3>2, PortNames DEF IInv, Booting, Typed
    <3>3. CASE k = 2
      <4>1. boot' = <<3, 1>> /\ serial_initialised' = TRUE
        <5>1. k + 1 = 3 /\ (k = 2) = TRUE
          BY <3>3
        <5> HIDE DEF k
        <5> QED
          BY <3>1, <5>1
      <4>2. p = "COM2" /\ Ready(uart["COM1"]) /\ uart \in [ToSet(Ports) -> Uart]
        BY <1>1, <3>3, PortNames DEF IInv, Booting, Typed
      <4>3. Ready(uart'["COM1"]) /\ Ready(uart'["COM2"])
        BY <1>10, <2>3, <3>1, <4>2, PortNames
      <4> QED
        BY <4>1, <4>3, PortNames DEF Booting
    <3> QED
      BY <1>2, <3>2, <3>3
  <2> QED
    BY <1>2, <2>2, <2>3
<1>13. LinesArriveWhole'
  <2> SUFFICES ASSUME NEW q \in ToSet(Ports), serial_initialised', ~uart'[q].loop
               PROVE  due'[q] = uart'[q].tx \o Rest(q)'
    BY <1>5 DEF LinesArriveWhole
  <2>1. due'[q] = <<>>
    BY <1>1 DEF IInv, Booting
  <2>2. print_lock' = NoTask
    BY <1>1, <1>4 DEF IInv, Exclusion, Inside, Typed
  <2>3. Rest(q)' = <<>>
    BY <2>2 DEF Rest
  <2>4. step = 10 /\ k = 2 /\ uart' = [uart EXCEPT ![p] = done]
    BY <1>2, <1>8
  <2>5. uart'[q].tx = <<>>
    <3>1. CASE q = "COM1"
      BY <1>1, <2>4, <3>1, PortNames DEF IInv, Booting, Typed
    <3>2. CASE q = "COM2"
      BY <1>10, <2>4, <3>2, PortNames DEF IInv, Typed
    <3> QED
      BY <3>1, <3>2, PortNames
  <2> QED
    BY <2>1, <2>3, <2>5
<1> QED
  BY <1>5, <1>6, <1>11, <1>12, <1>13 DEF IInv

LEMMA TransmitStep == ASSUME NEW p \in ToSet(Ports), IInv, Transmit(p) PROVE IInv'
<1> DEFINE u == uart[p]
           v == Shifted(u)
<1>1. /\ u \in Uart /\ u.tx # <<>> /\ Len(u.tx) <= 1
      /\ uart' = [uart EXCEPT ![p] = v]
      /\ UNCHANGED <<serial_initialised, boot, pc, call, line, vga_message, print_lock, screen, calls>>
  BY InvariantTypes DEF Transmit, serial, texts, IInv, Typed, TypeOK
<1>2. due' = [due EXCEPT ![p] = IF ~u.loop /\ due[p] # <<>> /\ Head(due[p]) = Seen(u)
                                THEN Tail(due[p]) ELSE due[p]]
  BY DEF Transmit, IInv, Typed
<1>3. /\ v \in Uart /\ v = [u EXCEPT !.tx = <<>>, !.rx = IF u.loop THEN Head(u.tx) ELSE u.rx]
      /\ Head(u.tx) \in Characters /\ u.tx = <<Head(u.tx)>>
  BY <1>1, PortTransmits
<1>4. v.tx = <<>> /\ v.loop = u.loop /\ (Ready(u) => Ready(v))
  BY <1>1, <1>3, TextFacts DEF Ready, Uart
<1>5. ASSUME NEW step \in 1 .. 10, AtStep(u, step)
      PROVE  step = 10 /\ AtStep(v, step)
  <2>1. step = 10
    BY <1>1, <1>5 DEF AtStep
  <2> QED
    BY <1>3, <1>5, <2>1 DEF AtStep, Uart
<1> HIDE DEF v
<1>6. Typed'
  <2>1. uart' \in [ToSet(Ports) -> Uart]
    BY <1>1, <1>3 DEF IInv, Typed
  <2>2. due[p] \in Text /\ (due[p] # <<>> => Tail(due[p]) \in Text)
    BY HeadAndTail DEF IInv, Typed
  <2>3. due' \in [ToSet(Ports) -> Text]
    BY <1>2, <2>2 DEF IInv, Typed
  <2> QED
    BY <1>1, <2>1, <2>3 DEF IInv, Typed
<1>7. ScreenShowsMessage' /\ Exclusion' /\ \A q \in ToSet(Ports) : Rest(q)' = Rest(q)
  BY <1>1, LinesKept
<1>8. Formatted'
  BY <1>1 DEF IInv, Formatted
<1>9. Booting'
  <2>1. CASE serial_initialised
    BY <1>1, <1>4, <2>1 DEF IInv, Booting, Typed
  <2>2. CASE ~serial_initialised
    <3>1. \A q \in ToSet(Ports) : due'[q] = <<>>
      BY <1>2, <2>2 DEF IInv, Booting, Typed
    <3>2. boot[2] \in 1 .. 10 /\ boot' = boot
      BY <1>1 DEF IInv, Typed
    <3>3. CASE p = "COM1"
      BY <1>1, <1>4, <1>5, <2>2, <3>1, <3>2, <3>3, PortNames DEF IInv, Booting, Typed
    <3>4. CASE p = "COM2"
      BY <1>1, <1>4, <1>5, <2>2, <3>1, <3>2, <3>4, PortNames DEF IInv, Booting, Typed
    <3> QED
      BY <3>3, <3>4, PortNames
  <2> QED
    BY <2>1, <2>2
<1>10. LinesArriveWhole'
  <2> SUFFICES ASSUME NEW q \in ToSet(Ports), serial_initialised', ~uart'[q].loop
               PROVE  due'[q] = uart'[q].tx \o Rest(q)'
    BY <1>7 DEF LinesArriveWhole
  <2>1. CASE q # p
    BY <1>1, <1>2, <1>7, <2>1 DEF IInv, LinesArriveWhole, Typed
  <2>2. CASE q = p
    <3>1. ~u.loop /\ serial_initialised /\ Ready(u)
      BY <1>1, <1>4, <2>2 DEF IInv, Booting, Typed
    <3>2. due[p] = <<Head(u.tx)>> \o Rest(p) /\ Rest(p) \in Text
      BY <1>3, <3>1, TextFacts DEF IInv, LinesArriveWhole, Rest, Typed
    <3>3. due[p] # <<>> /\ Head(due[p]) = Head(u.tx) /\ Tail(due[p]) = Rest(p)
      BY <1>3, <3>2 DEF Text
    <3>4. Seen(u) = Head(u.tx)
      BY <3>1 DEF Seen, Ready
    <3>5. due'[p] = Rest(p)
      BY <1>2, <3>1, <3>3, <3>4 DEF IInv, Typed
    <3>6. uart'[p].tx = <<>> /\ <<>> \o Rest(p) = Rest(p)
      BY <1>1, <1>4, <3>2, ConcatEmptySeq DEF IInv, Typed, Text
    <3> QED
      BY <1>7, <2>2, <3>5, <3>6
  <2> QED
    BY <2>1, <2>2
<1> QED
  BY <1>6, <1>7, <1>8, <1>9, <1>10 DEF IInv

LEMMA PrintkStep ==
  ASSUME FormatsStand, NEW t \in Tasks, NEW level \in Levels, NEW m \in Messages, IInv,
         printk(t, level, m)
  PROVE  IInv'
<1>1. /\ pc[t] = "idle" /\ calls < MaxCalls /\ (serial_initialised \/ t = Main)
      /\ line' = [line EXCEPT ![t] = LineOf(m.text)]
      /\ vga_message' = [vga_message EXCEPT ![t] = m.text]
      /\ call' = [call EXCEPT ![t] = [level |-> level, message |-> m]]
      /\ pc' = [pc EXCEPT ![t] = "lock"]
      /\ calls' = calls + 1
      /\ UNCHANGED <<uart, serial_initialised, boot, print_lock, screen, due>>
  <2>1. sprintf(m.format, m.args) = m.text
    BY DEF FormatsStand
  <2>2. sprintf(LineFormat, <<Tag, m.text>>) = LineOf(m.text)
    BY LoggingConstants, LineText DEF LineOf
  <2> QED
    BY <2>1, <2>2 DEF printk, Go, serial
<1>2. m.text \in Text /\ LineOf(m.text) \in Text
  BY LoggingConstants, LineTyped
<1>3. Typed'
  <2>1. calls' \in 0 .. MaxCalls
    BY <1>1, LoggingConstants DEF IInv, Typed
  <2> QED
    BY <1>1, <1>2, <2>1 DEF IInv, Typed
<1>4. Booting'
  BY <1>1 DEF IInv, Booting, Typed
<1>5. Exclusion' /\ print_lock # t
  BY <1>1 DEF IInv, Exclusion, Inside, Typed
<1>6. Formatted'
  BY <1>1 DEF IInv, Formatted, Typed
<1>7. ScreenShowsMessage'
  BY <1>1 DEF IInv, LinesArriveWhole, ScreenShowsMessage, Typed
<1>8. \A p \in ToSet(Ports) : Rest(p)' = Rest(p)
  BY <1>1, <1>5 DEF IInv, Typed, Rest, PortOf
<1> QED
  BY <1>1, <1>3, <1>4, <1>5, <1>6, <1>7, <1>8 DEF IInv, LinesArriveWhole

LEMMA LockStep == ASSUME NEW t \in Tasks, IInv, Lock(t) PROVE IInv'
<1> DEFINE text == call[t].message.text
           to == IF call[t].level >= LOG_INFO THEN "screen" ELSE "serial"
<1>1. /\ pc[t] = "lock" /\ print_lock = NoTask /\ print_lock' = t
      /\ pc' = [pc EXCEPT ![t] = to]
      /\ UNCHANGED <<uart, serial_initialised, boot, call, line, vga_message, screen, calls>>
  BY DEF Lock, TestAndSet, Go, serial, texts
<1>2. text \in Text /\ line[t] = LineOf(text) /\ LineOf(text) \in Text
  BY <1>1, LoggingConstants, LineTyped DEF IInv, Typed, Formatted
<1>3. PortOf(t) \in ToSet(Ports) /\ PortOf(t)' = PortOf(t)
  BY <1>1, PortNames DEF PortOf
<1>4. due' = IF ~serial_initialised THEN due
             ELSE [due EXCEPT ![PortOf(t)] = due[PortOf(t)] \o LineOf(text)]
  <2>1. due' = IF ~serial_initialised THEN due
               ELSE [due EXCEPT ![PortOf(t)] =
                       (((due[PortOf(t)] \o LineStart) \o Tag) \o LineMiddle) \o text]
    BY DEF Lock, LineStart, LineMiddle
  <2>2. due[PortOf(t)] \in Text
    BY <1>3 DEF IInv, Typed
  <2>3. (((due[PortOf(t)] \o LineStart) \o Tag) \o LineMiddle) \o text = due[PortOf(t)] \o LineOf(text)
    BY <1>2, <2>2, LineTyped
  <2> QED
    BY <2>1, <2>3
<1>5. to \in {"screen", "serial"}
  OBVIOUS
<1>6. Typed'
  <2>1. due[PortOf(t)] \o LineOf(text) \in Text
    BY <1>2, <1>3, ConcatProperties DEF IInv, Typed, Text
  <2>2. due' \in [ToSet(Ports) -> Text]
    BY <1>3, <1>4, <2>1 DEF IInv, Typed
  <2> QED
    BY <1>1, <1>5, <2>2 DEF IInv, Typed
<1>7. Booting'
  BY <1>1, <1>4 DEF IInv, Booting, Typed
<1>8. Exclusion'
  BY <1>1, <1>5, LoggingConstants DEF IInv, Exclusion, Inside, Typed
<1>9. Formatted'
  BY <1>1, <1>5 DEF IInv, Formatted, Typed
<1>10. ScreenShowsMessage'
  <2> SUFFICES ASSUME NEW r \in Tasks, pc'[r] \in {"serial", "unlock"}, call'[r].level = LOG_INFO
               PROVE  screen' = call'[r].message.text
    BY DEF ScreenShowsMessage
  <2>1. r # t
    BY <1>1 DEF IInv, Typed, LOG_INFO
  <2>2. pc[r] \in Inside /\ r # NoTask
    BY <1>1, <2>1, LoggingConstants DEF IInv, Typed, Inside
  <2> QED
    BY <1>1, <2>2 DEF IInv, Exclusion
<1>11. LinesArriveWhole'
  <2> SUFFICES ASSUME NEW p \in ToSet(Ports), serial_initialised', ~uart'[p].loop
               PROVE  due'[p] = uart'[p].tx \o Rest(p)'
    BY <1>10 DEF LinesArriveWhole
  <2>1. uart[p].tx \in Text /\ uart'[p].tx = uart[p].tx /\ serial_initialised
    BY <1>1 DEF IInv, Typed, Uart
  <2>2. due[p] = uart[p].tx
    <3>1. Rest(p) = <<>> /\ due[p] = uart[p].tx \o Rest(p)
      BY <1>1, <2>1 DEF IInv, LinesArriveWhole, Rest
    <3> QED
      BY <2>1, <3>1, StringFacts
  <2>3. CASE p = PortOf(t)
    <3>1. Rest(p)' = LineOf(text)
      BY <1>1, <1>2, <1>3, <2>3, LoggingConstants DEF Rest
    <3>2. due'[p] = due[p] \o LineOf(text)
      BY <1>3, <1>4, <2>1, <2>3 DEF IInv, Typed
    <3> QED
      BY <2>1, <2>2, <3>1, <3>2
  <2>4. CASE p # PortOf(t)
    <3>1. Rest(p)' = <<>>
      BY <1>1, <1>3, <2>4 DEF Rest
    <3>2. due'[p] = due[p]
      BY <1>4, <2>1, <2>4 DEF IInv, Typed
    <3> QED
      BY <2>1, <2>2, <3>1, <3>2, StringFacts
  <2> QED
    BY <2>3, <2>4
<1> QED
  BY <1>6, <1>7, <1>8, <1>9, <1>11 DEF IInv

LEMMA ScreenStep == ASSUME NEW t \in Tasks, IInv, Screen(t) PROVE IInv'
<1>1. /\ pc[t] = "screen" /\ pc' = [pc EXCEPT ![t] = "serial"]
      /\ UNCHANGED <<uart, serial_initialised, boot, call, line, vga_message, print_lock, calls, due>>
  BY DEF Screen, Go, serial, texts
<1>2. print_lock = t
  BY <1>1 DEF IInv, Exclusion, Inside
<1>3. screen' = call[t].message.text
  <2>1. vga_message[t] = call[t].message.text /\ vga_message[t] \in Text /\ "%" \notin ToSet(vga_message[t])
    BY <1>1, LoggingConstants DEF IInv, Formatted, Typed
  <2>2. sprintf(vga_message[t], <<>>) = vga_message[t]
    BY <2>1, PlainText
  <2> QED
    BY <2>1, <2>2 DEF Screen
<1>4. Typed'
  BY <1>1 DEF IInv, Typed
<1>5. Booting'
  BY <1>1 DEF IInv, Booting, Typed
<1>6. Exclusion'
  BY <1>1, <1>2 DEF IInv, Exclusion, Inside, Typed
<1>7. Formatted'
  BY <1>1 DEF IInv, Formatted, Typed
<1>8. ScreenShowsMessage'
  BY <1>1, <1>2, <1>3 DEF IInv, Exclusion, Inside, ScreenShowsMessage, Typed
<1>9. \A p \in ToSet(Ports) : Rest(p)' = Rest(p)
  BY <1>1 DEF Rest, PortOf
<1> QED
  BY <1>1, <1>4, <1>5, <1>6, <1>7, <1>8, <1>9 DEF IInv, LinesArriveWhole

LEMMA SerialStep == ASSUME NEW t \in Tasks, IInv, serial_write_line(t) PROVE IInv'
<1> DEFINE p == PortOf(t)
           v == Out(uart[p], UART_TX, Head(line[t]))
<1>1. /\ pc[t] = "serial"
      /\ UNCHANGED <<serial_initialised, boot, call, vga_message, print_lock, screen, calls, due>>
  BY DEF serial_write_line, serial
<1>2. print_lock = t /\ p \in ToSet(Ports) /\ PortOf(t)' = p
  BY <1>1, PortNames DEF IInv, Exclusion, Inside, PortOf
<1>3. CASE ~serial_initialised \/ line[t] = <<>>
  <2>1. pc' = [pc EXCEPT ![t] = "unlock"] /\ UNCHANGED <<uart, line>>
    BY <1>3 DEF serial_write_line, Go
  <2>2. Typed' /\ Formatted'
    BY <1>1, <1>3, <2>1 DEF IInv, Typed, Formatted
  <2>3. Booting'
    BY <1>1, <2>1 DEF IInv, Booting, Typed
  <2>4. Exclusion'
    BY <1>1, <1>2, <2>1 DEF IInv, Exclusion, Inside, Typed
  <2>5. ScreenShowsMessage'
    BY <1>1, <2>1 DEF IInv, LinesArriveWhole, ScreenShowsMessage, Typed
  <2>6. \A q \in ToSet(Ports) : Rest(q)' = Rest(q)
    BY <1>1, <2>1 DEF Rest, PortOf
  <2> QED
    BY <1>1, <2>1, <2>2, <2>3, <2>4, <2>5, <2>6 DEF IInv, LinesArriveWhole
<1>4. CASE ~(~serial_initialised \/ line[t] = <<>>)
  <2>1. /\ uart[p].tx = <<>> /\ uart' = [uart EXCEPT ![p] = v]
        /\ line' = [line EXCEPT ![t] = Tail(line[t])] /\ UNCHANGED pc
    BY <1>4 DEF serial_write_line, serial_is_transmit_empty
  <2>2. /\ Head(line[t]) \in Characters /\ Tail(line[t]) \in Text
        /\ line[t] = <<Head(line[t])>> \o Tail(line[t])
    BY <1>4, HeadAndTail DEF IInv, Typed
  <2>3. uart[p] \in Uart /\ Ready(uart[p])
    BY <1>2, <1>4 DEF IInv, Booting, Typed
  <2>4. v \in Uart /\ Ready(v) /\ v.tx = <<Head(line[t])>> /\ v.loop = uart[p].loop
    BY <2>1, <2>2, <2>3, PortSends
  <2> HIDE DEF v
  <2>5. Typed'
    <3>1. uart' \in [ToSet(Ports) -> Uart]
      BY <1>2, <2>1, <2>4 DEF IInv, Typed
    <3>2. line' \in [Tasks -> Text]
      BY <2>1, <2>2 DEF IInv, Typed
    <3> QED
      BY <1>1, <2>1, <3>1, <3>2 DEF IInv, Typed
  <2>6. Booting'
    BY <1>1, <1>2, <1>4, <2>1, <2>4 DEF IInv, Booting, Typed
  <2>7. Exclusion'
    BY <1>1, <2>1 DEF IInv, Exclusion
  <2>8. Formatted'
    BY <1>1, <2>1 DEF IInv, Formatted, Typed
  <2>9. ScreenShowsMessage'
    BY <1>1, <2>1 DEF IInv, LinesArriveWhole, ScreenShowsMessage
  <2>10. LinesArriveWhole'
    <3> SUFFICES ASSUME NEW q \in ToSet(Ports), serial_initialised', ~uart'[q].loop
                 PROVE  due'[q] = uart'[q].tx \o Rest(q)'
      BY <2>9 DEF LinesArriveWhole
    <3>1. CASE q # p
      <4>1. Rest(q) = <<>> /\ Rest(q)' = <<>>
        BY <1>1, <1>2, <3>1 DEF Rest
      <4>2. uart'[q] = uart[q] /\ due'[q] = due[q]
        BY <1>1, <2>1, <3>1 DEF IInv, Typed
      <4> QED
        BY <1>1, <4>1, <4>2 DEF IInv, LinesArriveWhole
    <3>2. CASE q = p
      <4>1. Rest(q) = line[t] /\ Rest(q)' = Tail(line[t])
        BY <1>1, <1>2, <2>1, <3>2, LoggingConstants DEF Rest, IInv, Typed
      <4>2. uart'[p] = v
        BY <1>2, <2>1 DEF IInv, Typed
      <4>3. due[p] = <<>> \o line[t]
        BY <1>1, <1>2, <2>1, <2>4, <3>2, <4>1, <4>2 DEF IInv, LinesArriveWhole
      <4>4. <<>> \o line[t] = line[t]
        BY ConcatEmptySeq DEF IInv, Typed, Text
      <4>5. due'[p] = <<Head(line[t])>> \o Tail(line[t])
        BY <1>1, <2>2, <4>3, <4>4
      <4>6. uart'[q].tx = <<Head(line[t])>> /\ due'[q] = <<Head(line[t])>> \o Tail(line[t])
        BY <2>4, <3>2, <4>2, <4>5
      <4> QED
        BY <4>1, <4>6
    <3> QED
      BY <3>1, <3>2
  <2> QED
    BY <2>5, <2>6, <2>7, <2>8, <2>10 DEF IInv
<1> QED
  BY <1>3, <1>4

LEMMA UnlockStep == ASSUME NEW t \in Tasks, IInv, Unlock(t) PROVE IInv'
<1>1. /\ pc[t] = "unlock" /\ print_lock' = NoTask /\ pc' = [pc EXCEPT ![t] = "idle"]
      /\ call' = [call EXCEPT ![t] = NoCall] /\ line' = [line EXCEPT ![t] = <<>>]
      /\ vga_message' = [vga_message EXCEPT ![t] = <<>>]
      /\ UNCHANGED <<uart, serial_initialised, boot, calls, due>>
  BY DEF Unlock, Go, serial
<1>2. print_lock = t
  BY <1>1 DEF IInv, Exclusion, Inside
<1>3. \A r \in Tasks : pc'[r] \notin Inside
  BY <1>1, <1>2 DEF IInv, Exclusion, Inside, Typed
<1>4. Typed'
  <2>1. NoCall \in [level : Levels, message : Messages]
    BY LoggingConstants DEF NoCall, Levels
  <2> QED
    BY <1>1, <2>1, TextFacts DEF IInv, Typed
<1>5. Booting'
  BY <1>1 DEF IInv, Booting, Typed
<1>6. Exclusion'
  BY <1>1, <1>3, LoggingConstants DEF Exclusion
<1>7. Formatted'
  BY <1>1 DEF IInv, Formatted, Typed
<1>8. ScreenShowsMessage'
  BY <1>3 DEF ScreenShowsMessage, Inside
<1>9. ASSUME NEW p \in ToSet(Ports), serial_initialised PROVE Rest(p)' = Rest(p)
  <2>1. line[t] = <<>>
    BY <1>1, <1>9 DEF IInv, Formatted
  <2>2. Rest(p) = <<>>
    BY <1>2, <2>1 DEF Rest
  <2>3. Rest(p)' = <<>>
    BY <1>1 DEF Rest
  <2> QED
    BY <2>2, <2>3
<1> QED
  BY <1>1, <1>4, <1>5, <1>6, <1>7, <1>8, <1>9 DEF IInv, LinesArriveWhole

\* Every step keeps the invariant.
LEMMA NextInvariant == ASSUME FormatsStand, IInv, [Next]_vars PROVE IInv'
<1>1. CASE serial_init
  BY <1>1, SerialInitStep
<1>2. CASE \E p \in ToSet(Ports) : Transmit(p)
  BY <1>2, TransmitStep
<1>3. CASE \E t \in Tasks, level \in Levels, m \in Messages : printk(t, level, m)
  BY <1>3, PrintkStep
<1>4. CASE \E t \in Tasks : _printk(t)
  <2>1. PICK t \in Tasks : Lock(t) \/ Screen(t) \/ serial_write_line(t) \/ Unlock(t)
    BY <1>4 DEF _printk
  <2> QED
    BY <2>1, LockStep, ScreenStep, SerialStep, UnlockStep
<1>5. CASE UNCHANGED vars
  BY <1>5, StutterStep
<1> QED
  BY <1>1, <1>2, <1>3, <1>4, <1>5 DEF Next

\* In every reachable state of printk, serial_init and the ports the invariant
\* holds, whatever tasks log which messages in which order, provided that the
\* formats of the messages stand for the texts they are meant to.
THEOREM LoggingInvariant == FormatsStand => (Spec => []IInv)
<1> SUFFICES ASSUME FormatsStand PROVE Spec => []IInv
  OBVIOUS
<1>1. Init => IInv
  BY InitInvariant
<1>2. IInv /\ [Next]_vars => IInv'
  BY NextInvariant
<1> QED
  BY <1>1, <1>2, PTL DEF Spec

\* Every variable keeps its type, and a transmitter of any size never holds
\* more than one character of a line (serial_is_transmit_empty).
THEOREM LoggingTypes == FormatsStand => (Spec => []TypeOK)
<1>1. IInv => TypeOK
  BY InvariantTypes
<1> QED
  BY <1>1, LoggingInvariant, PTL

\* Every line logged reaches the terminal of its port whole and in order, and
\* the screen shows the same message (_printk, print_lock, serial_write_line).
THEOREM LinesAlwaysArriveWhole == FormatsStand => (Spec => []LinesArriveWhole)
<1>1. IInv => LinesArriveWhole
  BY DEF IInv
<1> QED
  BY <1>1, LoggingInvariant, PTL
=============================================================================
