------------------------- MODULE IncidentCommandProofs -------------------------
(***************************************************************************)
(* Proofs about IncidentCommand, for texts of any length over any letters. *)
(*                                                                         *)
(* Induction is carried out on sets: the set of numbers that have the      *)
(* property has no least number outside.                                   *)
(***************************************************************************)
EXTENDS IncidentCommand, SequenceTheorems, FiniteSetTheorems, WellFoundedInduction, TLAPS

-----------------------------------------------------------------------------
(* Induction *)

Below == {p \in Nat \X Nat : p[1] < p[2]}

LEMMA BelowIsWellFounded == IsWellFoundedOn(Below, Nat)
BY NatLessThanWellFounded DEF OpToRel, Below

LEMMA Least ==
    ASSUME NEW T \in SUBSET Nat, T # {}
    PROVE  \E n \in T : \A m \in T : n <= m
<1>1. PICK n \in T : \A m \in T : ~ (<<m, n>> \in Below)
    BY BelowIsWellFounded, WFMin, Zenon
<1>2. \A m \in T : ~ (m < n)
    BY <1>1 DEF Below
<1> QED
    BY <1>2

\* A set of numbers with 0 and with each successor, up to n, has them all.
LEMMA InductionUpTo ==
    ASSUME NEW n \in Nat, NEW S, 0 \in S, \A k \in 0 .. n - 1 : k \in S => k + 1 \in S
    PROVE  0 .. n \subseteq S
<1> SUFFICES ASSUME (0 .. n) \ S # {} PROVE FALSE
    OBVIOUS
<1>1. PICK m \in (0 .. n) \ S : \A k \in (0 .. n) \ S : m <= k
    <2>1. (0 .. n) \ S \in SUBSET Nat
        OBVIOUS
    <2> QED
        BY <2>1, Least
<1>2. m # 0 /\ m - 1 \in 0 .. n - 1 /\ m - 1 \in S
    BY <1>1
<1> QED
    BY <1>1, <1>2

-----------------------------------------------------------------------------
(* The recursive functions *)

\* The defining equation of SplitUpTo(text), for a function on 0 .. n.
SplitStep(f, text, n) ==
    IF n = 0 THEN <<>>
    ELSE IF text[n] = Blank THEN f[n - 1]
    ELSE IF n = 1 \/ text[n - 1] = Blank THEN Append(f[n - 1], <<text[n]>>)
    ELSE [f[n - 1] EXCEPT ![Len(f[n - 1])] = Append(@, text[n])]

LEMMA SplitEquation ==
    ASSUME NEW text, Len(text) \in Nat
    PROVE  SplitUpTo(text) = [n \in 0 .. Len(text) |-> SplitStep(SplitUpTo(text), text, n)]
<1> DEFINE N == Len(text)
           Solves(f, n) == f = [k \in 0 .. n |-> SplitStep(f, text, k)]
           S == {n \in Nat : \E f : Solves(f, n)}
<1>1. 0 \in S
    <2>1. Solves([k \in 0 .. 0 |-> <<>>], 0)
        BY DEF SplitStep
    <2> QED
        BY <2>1
<1>2. ASSUME NEW n \in 0 .. N - 1, n \in S PROVE n + 1 \in S
    <2>1. PICK f : Solves(f, n)
        BY <1>2
    <2> DEFINE g == [k \in 0 .. n + 1 |-> IF k <= n THEN f[k] ELSE SplitStep(f, text, k)]
    <2>2. ASSUME NEW k \in 0 .. n + 1 PROVE g[k] = SplitStep(g, text, k)
        <3>1. k # 0 => g[k - 1] = f[k - 1]
            OBVIOUS
        <3>2. g[k] = IF k <= n THEN f[k] ELSE SplitStep(f, text, k)
            OBVIOUS
        <3>3. k <= n => f[k] = SplitStep(f, text, k)
            BY <2>1
        <3> HIDE DEF g
        <3>4. SplitStep(g, text, k) = SplitStep(f, text, k)
            BY <3>1, Zenon DEF SplitStep
        <3> QED
            BY <3>2, <3>3, <3>4
    <2>3. Solves(g, n + 1)
        BY <2>2
    <2> HIDE DEF Solves
    <2> QED
        BY <2>3
<1>3. N \in S
    <2> HIDE DEF S
    <2>1. 0 .. N \subseteq S
        BY <1>1, <1>2, InductionUpTo
    <2> QED
        BY <2>1
<1>4. \E f : Solves(f, N)
    BY <1>3
<1>5. SplitUpTo(text) = CHOOSE f : Solves(f, N)
    BY DEF SplitUpTo, SplitStep
<1> QED
    BY <1>4, <1>5

\* The same for JoinUpTo(words).
JoinStep(f, words, n) ==
    IF n = 0 THEN <<>>
    ELSE IF n = 1 THEN words[1]
    ELSE f[n - 1] \o <<Blank>> \o words[n]

LEMMA JoinEquation ==
    ASSUME NEW words, Len(words) \in Nat
    PROVE  JoinUpTo(words) = [n \in 0 .. Len(words) |-> JoinStep(JoinUpTo(words), words, n)]
<1> DEFINE N == Len(words)
           Solves(f, n) == f = [k \in 0 .. n |-> JoinStep(f, words, k)]
           S == {n \in Nat : \E f : Solves(f, n)}
<1>1. 0 \in S
    <2>1. Solves([k \in 0 .. 0 |-> <<>>], 0)
        BY DEF JoinStep
    <2> QED
        BY <2>1
<1>2. ASSUME NEW n \in 0 .. N - 1, n \in S PROVE n + 1 \in S
    <2>1. PICK f : Solves(f, n)
        BY <1>2
    <2> DEFINE g == [k \in 0 .. n + 1 |-> IF k <= n THEN f[k] ELSE JoinStep(f, words, k)]
    <2>2. ASSUME NEW k \in 0 .. n + 1 PROVE g[k] = JoinStep(g, words, k)
        <3>1. k # 0 => g[k - 1] = f[k - 1]
            OBVIOUS
        <3>2. g[k] = IF k <= n THEN f[k] ELSE JoinStep(f, words, k)
            OBVIOUS
        <3>3. k <= n => f[k] = JoinStep(f, words, k)
            BY <2>1
        <3> HIDE DEF g
        <3>4. JoinStep(g, words, k) = JoinStep(f, words, k)
            BY <3>1, Zenon DEF JoinStep
        <3> QED
            BY <3>2, <3>3, <3>4
    <2>3. Solves(g, n + 1)
        BY <2>2
    <2> HIDE DEF Solves
    <2> QED
        BY <2>3
<1>3. N \in S
    <2> HIDE DEF S
    <2>1. 0 .. N \subseteq S
        BY <1>1, <1>2, InductionUpTo
    <2> QED
        BY <2>1
<1>4. \E f : Solves(f, N)
    BY <1>3
<1>5. JoinUpTo(words) = CHOOSE f : Solves(f, N)
    BY DEF JoinUpTo, JoinStep
<1> QED
    BY <1>4, <1>5

-----------------------------------------------------------------------------
(* What the functions return *)

Word == Seq(Letters) \ {<<>>}

\* A letter more at the end of the last word.
LastExtended(words, c) == [words EXCEPT ![Len(words)] = Append(@, c)]

LEMMA Splitting ==
    ASSUME NEW text \in Seq(Chars)
    PROVE  /\ Len(text) \in Nat
           /\ SplitUpTo(text)[0] = <<>>
           /\ \A n \in 0 .. Len(text) - 1 :
                 LET f == SplitUpTo(text)
                     c == text[n + 1]
                 IN  /\ c # Blank => c \in Letters
                     /\ c = Blank => f[n + 1] = f[n]
                     /\ c # Blank /\ (n = 0 \/ text[n] = Blank) =>
                           f[n + 1] = Append(f[n], <<c>>)
                     /\ c # Blank /\ n # 0 /\ text[n] # Blank =>
                           f[n + 1] = LastExtended(f[n], c)
<1> DEFINE f == SplitUpTo(text)
<1>1. Len(text) \in Nat /\ \A n \in 1 .. Len(text) : text[n] \in Chars
    BY LenProperties, ElementOfSeq
<1>2. \A n \in 0 .. Len(text) : f[n] = SplitStep(f, text, n)
    BY <1>1, SplitEquation
<1> HIDE DEF f
<1>3. f[0] = <<>>
    <2>1. 0 \in 0 .. Len(text)
        BY <1>1
    <2> QED
        BY <1>2, <2>1, Zenon DEF SplitStep
<1>4. ASSUME NEW n \in 0 .. Len(text) - 1
      PROVE  /\ text[n + 1] # Blank => text[n + 1] \in Letters
             /\ text[n + 1] = Blank => f[n + 1] = f[n]
             /\ text[n + 1] # Blank /\ (n = 0 \/ text[n] = Blank) =>
                   f[n + 1] = Append(f[n], <<text[n + 1]>>)
             /\ text[n + 1] # Blank /\ n # 0 /\ text[n] # Blank =>
                   f[n + 1] = LastExtended(f[n], text[n + 1])
    <2>1. n + 1 \in 1 .. Len(text) /\ n + 1 # 0 /\ (n + 1) - 1 = n /\ (n + 1 = 1 <=> n = 0)
        BY <1>1
    <2>2. f[n + 1] = SplitStep(f, text, n + 1) /\ text[n + 1] \in Chars
        BY <1>1, <1>2, <2>1
    <2>3. f[n + 1] = IF text[n + 1] = Blank THEN f[n]
                     ELSE IF n = 0 \/ text[n] = Blank THEN Append(f[n], <<text[n + 1]>>)
                     ELSE LastExtended(f[n], text[n + 1])
        BY <2>1, <2>2, Zenon DEF SplitStep, LastExtended
    <2> QED
        BY <2>2, <2>3, Zenon DEF Chars
<1> QED
    BY <1>1, <1>3, <1>4, Zenon DEF f

LEMMA Extending ==
    ASSUME NEW words \in Seq(Word), words # <<>>, NEW c \in Letters
    PROVE  /\ LastExtended(words, c) \in Seq(Word)
           /\ Len(words) \in Nat \ {0}
           /\ Len(LastExtended(words, c)) = Len(words)
           /\ LastExtended(words, c)[Len(words)] = Append(words[Len(words)], c)
           /\ \A k \in 1 .. Len(words) - 1 : LastExtended(words, c)[k] = words[k]
<1> DEFINE m == Len(words)
           word == Append(words[m], c)
<1>1. m \in Nat \ {0} /\ words \in [1 .. m -> Word] /\ words[m] \in Word
    BY EmptySeq, LenProperties, ElementOfSeq
<1>2. word \in Word
    <2>1. words[m] \in Seq(Letters)
        BY <1>1 DEF Word
    <2> QED
        BY <2>1, AppendProperties DEF Word
<1>3. LastExtended(words, c) = [words EXCEPT ![m] = word]
    BY Zenon DEF LastExtended
<1> HIDE DEF word
<1>4. m \in 1 .. m
    BY <1>1
<1>5. LastExtended(words, c) \in Seq(Word) /\ Len(LastExtended(words, c)) = m
    BY <1>2, <1>3, <1>4, ExceptSeq
<1>6. LastExtended(words, c)[m] = word /\ \A k \in 1 .. m - 1 : LastExtended(words, c)[k] = words[k]
    <2>1. DOMAIN words = 1 .. m
        BY LenProperties
    <2> HIDE DEF m
    <2>2. \A k \in 1 .. m - 1 : k \in 1 .. m /\ k # m
        BY <1>1
    <2> QED
        BY <1>3, <1>4, <2>1, <2>2, Zenon
<1> QED
    BY <1>1, <1>5, <1>6 DEF word

LEMMA SplitType ==
    ASSUME NEW text \in Seq(Chars), NEW n \in 0 .. Len(text)
    PROVE  /\ SplitUpTo(text)[n] \in Seq(Word)
           /\ n > 0 /\ text[n] # Blank => SplitUpTo(text)[n] # <<>>
<1> DEFINE f == SplitUpTo(text)
           Typed(k) == f[k] \in Seq(Word) /\ (k > 0 /\ text[k] # Blank => f[k] # <<>>)
           S == {k \in 0 .. Len(text) : Typed(k)}
<1>1. 0 \in S
    <2>1. f[0] = <<>> /\ 0 \in 0 .. Len(text)
        BY Splitting
    <2>2. <<>> \in Seq(Word) /\ ~ (0 > 0)
        BY EmptySeq
    <2> QED
        BY <2>1, <2>2, Zenon
<1>2. ASSUME NEW k \in 0 .. Len(text) - 1, k \in S PROVE k + 1 \in S
    <2>1. /\ Len(text) \in Nat /\ k + 1 \in 0 .. Len(text)
          /\ f[k] \in Seq(Word) /\ (k > 0 /\ text[k] # Blank => f[k] # <<>>)
        BY <1>2, Splitting
    <2>2. CASE text[k + 1] = Blank
        BY <2>1, <2>2, Splitting
    <2>3. CASE text[k + 1] # Blank /\ (k = 0 \/ text[k] = Blank)
        <3>1. f[k + 1] = Append(f[k], <<text[k + 1]>>) /\ text[k + 1] \in Letters
            BY <2>3, Splitting
        <3>2. <<text[k + 1]>> \in Word
            BY <3>1 DEF Word
        <3>3. f[k + 1] \in Seq(Word) /\ f[k + 1] # <<>>
            BY <2>1, <3>1, <3>2, AppendProperties
        <3> QED
            BY <2>1, <3>3
    <2>4. CASE text[k + 1] # Blank /\ k # 0 /\ text[k] # Blank
        <3>1. f[k + 1] = LastExtended(f[k], text[k + 1]) /\ text[k + 1] \in Letters
            BY <2>4, Splitting
        <3>2. f[k + 1] \in Seq(Word) /\ Len(f[k + 1]) # 0
            BY <2>1, <2>4, <3>1, Extending
        <3>3. f[k + 1] # <<>>
            BY <3>2, EmptySeq
        <3> QED
            BY <2>1, <3>2, <3>3
    <2> QED
        BY <2>2, <2>3, <2>4
<1> HIDE DEF S
<1>3. Len(text) \in Nat
    BY Splitting
<1>4. n \in S
    <2>1. 0 .. Len(text) \subseteq S
        BY <1>1, <1>2, <1>3, InductionUpTo
    <2> QED
        BY <2>1
<1> QED
    BY <1>4 DEF S

LEMMA Joining ==
    ASSUME NEW words \in Seq(Word)
    PROVE  /\ Len(words) \in Nat
           /\ JoinUpTo(words)[0] = <<>>
           /\ \A n \in 0 .. Len(words) - 1 :
                 /\ words[n + 1] \in Word
                 /\ n = 0 => JoinUpTo(words)[n + 1] = words[n + 1]
                 /\ n # 0 => JoinUpTo(words)[n + 1]
                             = JoinUpTo(words)[n] \o <<Blank>> \o words[n + 1]
<1> DEFINE f == JoinUpTo(words)
<1>1. Len(words) \in Nat /\ \A n \in 1 .. Len(words) : words[n] \in Word
    BY LenProperties, ElementOfSeq
<1>2. \A n \in 0 .. Len(words) : f[n] = JoinStep(f, words, n)
    BY <1>1, JoinEquation
<1> HIDE DEF f
<1>3. f[0] = <<>>
    <2>1. 0 \in 0 .. Len(words)
        BY <1>1
    <2> QED
        BY <1>2, <2>1, Zenon DEF JoinStep
<1>4. ASSUME NEW n \in 0 .. Len(words) - 1
      PROVE  /\ words[n + 1] \in Word
             /\ n = 0 => f[n + 1] = words[n + 1]
             /\ n # 0 => f[n + 1] = f[n] \o <<Blank>> \o words[n + 1]
    <2>1. /\ n + 1 \in 1 .. Len(words) /\ n + 1 \in 0 .. Len(words)
          /\ n + 1 # 0 /\ (n + 1) - 1 = n /\ (n + 1 = 1 <=> n = 0)
        BY <1>1
    <2>2. f[n + 1] = JoinStep(f, words, n + 1) /\ words[n + 1] \in Word
        BY <1>1, <1>2, <2>1
    <2> QED
        BY <2>1, <2>2, Zenon DEF JoinStep
<1> QED
    BY <1>1, <1>3, <1>4, Zenon DEF f

\* No blank at the ends, no two in a row.
Normal(text) ==
    /\ text # <<>> => text[1] # Blank /\ text[Len(text)] # Blank
    /\ \A i \in 1 .. Len(text) - 1 : text[i] # Blank \/ text[i + 1] # Blank

LEMMA WordsAreNormal ==
    ASSUME NEW word \in Word
    PROVE  /\ word \in Seq(Chars) /\ Len(word) \in Nat \ {0} /\ Normal(word)
           /\ \A i \in 1 .. Len(word) : word[i] \in Letters /\ word[i] # Blank
<1>1. word \in Seq(Letters) /\ word # <<>>
    BY DEF Word
<1>2. Len(word) \in Nat \ {0}
    BY <1>1, EmptySeq
<1>3. \A i \in 1 .. Len(word) : word[i] \in Letters /\ word[i] # Blank
    BY <1>1, ElementOfSeq, BlankAssumption
<1>4. word \in Seq(Chars)
    BY <1>1, SeqMonotonic DEF Chars
<1>5. Normal(word)
    BY <1>2, <1>3 DEF Normal
<1> QED
    BY <1>2, <1>3, <1>4, <1>5

\* A word more behind a normal text.
LEMMA WordAdded ==
    ASSUME NEW text \in Seq(Chars), NEW word \in Word
    PROVE  LET longer == text \o <<Blank>> \o word
               n == Len(text)
           IN  /\ longer \in Seq(Chars) /\ n \in Nat
               /\ Len(longer) = n + 1 + Len(word)
               /\ \A i \in 1 .. n : longer[i] = text[i]
               /\ longer[n + 1] = Blank
               /\ \A i \in 1 .. Len(word) : longer[n + 1 + i] = word[i]
<1> DEFINE n == Len(text)
           blanked == text \o <<Blank>>
           longer == blanked \o word
<1>1. word \in Seq(Chars) /\ Len(word) \in Nat
    BY WordsAreNormal
<1>2. <<Blank>> \in Seq(Chars) /\ Len(<<Blank>>) = 1 /\ <<Blank>>[1] = Blank
    BY DEF Chars
<1>3. n \in Nat
    BY LenProperties
<1>4. /\ blanked \in Seq(Chars) /\ Len(blanked) = n + 1
      /\ \A i \in 1 .. n + 1 : blanked[i] = IF i <= n THEN text[i] ELSE <<Blank>>[i - n]
    BY <1>2, ConcatProperties
<1>5. blanked[n + 1] = Blank /\ \A i \in 1 .. n : blanked[i] = text[i]
    BY <1>2, <1>3, <1>4
<1> HIDE DEF blanked
<1>6. /\ longer \in Seq(Chars) /\ Len(longer) = n + 1 + Len(word)
      /\ \A i \in 1 .. n + 1 + Len(word) :
            longer[i] = IF i <= n + 1 THEN blanked[i] ELSE word[i - (n + 1)]
    <2>1. /\ longer \in Seq(Chars) /\ Len(longer) = Len(blanked) + Len(word)
          /\ \A i \in 1 .. Len(blanked) + Len(word) :
                longer[i] = IF i <= Len(blanked) THEN blanked[i] ELSE word[i - Len(blanked)]
        BY <1>1, <1>4, ConcatProperties, Zenon
    <2> QED
        BY <1>4, <2>1, Zenon
<1> HIDE DEF longer, n
<1>7. /\ \A i \in 1 .. n : longer[i] = text[i]
      /\ longer[n + 1] = Blank
      /\ \A i \in 1 .. Len(word) : longer[n + 1 + i] = word[i]
    BY <1>1, <1>3, <1>5, <1>6
<1> QED
    BY <1>3, <1>6, <1>7, Zenon DEF longer, blanked, n

LEMMA NormalAdded ==
    ASSUME NEW text \in Seq(Chars), text # <<>>, Normal(text), NEW word \in Word
    PROVE  Normal(text \o <<Blank>> \o word) /\ text \o <<Blank>> \o word # <<>>
<1> DEFINE n == Len(text)
           longer == text \o <<Blank>> \o word
<1>1. n \in Nat \ {0}
    BY EmptySeq
<1>2. /\ longer \in Seq(Chars) /\ Len(longer) = n + 1 + Len(word)
      /\ \A i \in 1 .. n : longer[i] = text[i]
      /\ longer[n + 1] = Blank
      /\ \A i \in 1 .. Len(word) : longer[n + 1 + i] = word[i]
    BY WordAdded
<1>3. Len(word) \in Nat \ {0} /\ \A i \in 1 .. Len(word) : word[i] # Blank
    BY WordsAreNormal
<1> HIDE DEF longer
<1>4. longer # <<>>
    BY <1>1, <1>2, <1>3
<1>5. \A i \in n + 2 .. n + 1 + Len(word) : longer[i] # Blank
    <2> SUFFICES ASSUME NEW i \in n + 2 .. n + 1 + Len(word) PROVE longer[i] # Blank
        OBVIOUS
    <2>1. i - (n + 1) \in 1 .. Len(word) /\ n + 1 + (i - (n + 1)) = i
        BY <1>1, <1>3
    <2> QED
        BY <1>2, <1>3, <2>1
<1>6. longer[1] # Blank /\ longer[n] # Blank
    BY <1>1, <1>2 DEF Normal
<1>7. longer[Len(longer)] # Blank
    BY <1>1, <1>2, <1>3, <1>5
<1>8. ASSUME NEW i \in 1 .. Len(longer) - 1 PROVE longer[i] # Blank \/ longer[i + 1] # Blank
    <2>1. CASE i < n
        BY <1>1, <1>2, <2>1 DEF Normal
    <2>2. CASE i = n
        BY <1>6, <2>2
    <2>3. CASE i > n
        BY <1>1, <1>2, <1>3, <1>5, <2>3
    <2> QED
        BY <1>1, <2>1, <2>2, <2>3
<1> QED
    BY <1>4, <1>6, <1>7, <1>8 DEF Normal, longer

LEMMA JoinType ==
    ASSUME NEW words \in Seq(Word), NEW n \in 0 .. Len(words)
    PROVE  /\ JoinUpTo(words)[n] \in Seq(Chars)
           /\ Normal(JoinUpTo(words)[n])
           /\ n > 0 => JoinUpTo(words)[n] # <<>>
<1> DEFINE f == JoinUpTo(words)
           Typed(k) == f[k] \in Seq(Chars) /\ Normal(f[k]) /\ (k > 0 => f[k] # <<>>)
           S == {k \in 0 .. Len(words) : Typed(k)}
<1>1. 0 \in S
    <2>1. f[0] = <<>>
        BY Joining, Zenon
    <2>2. 0 \in 0 .. Len(words)
        BY LenProperties
    <2>3. <<>> \in Seq(Chars) /\ Normal(<<>>) /\ ~ (0 > 0)
        BY EmptySeq DEF Normal
    <2> QED
        BY <2>2, <2>1, <2>3, Zenon
<1>2. ASSUME NEW k \in 0 .. Len(words) - 1, k \in S PROVE k + 1 \in S
    <2>1. Len(words) \in Nat /\ k + 1 \in 0 .. Len(words) /\ Typed(k) /\ words[k + 1] \in Word
        BY <1>2, Joining
    <2>2. CASE k = 0
        BY <2>1, <2>2, Joining, WordsAreNormal, EmptySeq
    <2>3. CASE k # 0
        <3>1. f[k + 1] = f[k] \o <<Blank>> \o words[k + 1]
            BY <2>3, Joining
        <3>2. f[k] # <<>>
            BY <2>1, <2>3
        <3>3. f[k + 1] \in Seq(Chars)
            BY <2>1, <3>1, WordAdded
        <3>4. Normal(f[k + 1]) /\ f[k + 1] # <<>>
            BY <2>1, <3>1, <3>2, NormalAdded
        <3> QED
            BY <2>1, <3>3, <3>4, Zenon
    <2> QED
        BY <2>2, <2>3
<1> HIDE DEF S
<1>3. Len(words) \in Nat
    BY Joining
<1>4. n \in S
    <2>1. 0 .. Len(words) \subseteq S
        BY <1>1, <1>2, <1>3, InductionUpTo
    <2> QED
        BY <2>1
<1> QED
    BY <1>4 DEF S

-----------------------------------------------------------------------------
(* Splitting what was joined *)

\* What is split depends on the characters read only.
LEMMA SplitPrefix ==
    ASSUME NEW x \in Seq(Chars), NEW y \in Seq(Chars), NEW m \in Nat,
           m <= Len(x), m <= Len(y), \A i \in 1 .. m : x[i] = y[i]
    PROVE  SplitUpTo(x)[m] = SplitUpTo(y)[m]
<1> DEFINE f == SplitUpTo(x)
           g == SplitUpTo(y)
           S == {k \in 0 .. m : f[k] = g[k]}
<1>1. 0 \in S
    <2>1. f[0] = g[0]
        BY Splitting, Zenon
    <2> QED
        BY <2>1
<1>2. ASSUME NEW k \in 0 .. m - 1, k \in S PROVE k + 1 \in S
    <2>1. /\ k \in 0 .. Len(x) - 1 /\ k \in 0 .. Len(y) - 1 /\ k + 1 \in 0 .. m
          /\ x[k + 1] = y[k + 1] /\ (k # 0 => x[k] = y[k]) /\ f[k] = g[k]
        BY <1>2, LenProperties
    <2>2. f[k + 1] = g[k + 1]
        <3>1. CASE x[k + 1] = Blank
            BY <2>1, <3>1, Splitting, Zenon
        <3>2. CASE x[k + 1] # Blank /\ (k = 0 \/ x[k] = Blank)
            BY <2>1, <3>2, Splitting, Zenon
        <3>3. CASE x[k + 1] # Blank /\ k # 0 /\ x[k] # Blank
            BY <2>1, <3>3, Splitting, Zenon
        <3> QED
            BY <3>1, <3>2, <3>3
    <2> QED
        BY <2>1, <2>2
<1> HIDE DEF S
<1>3. 0 .. m \subseteq S
    BY <1>1, <1>2, InductionUpTo
<1>4. m \in S
    BY <1>3
<1> QED
    BY <1>4 DEF S

LEMMA LastOfAppend ==
    ASSUME NEW words \in Seq(Word), NEW word \in Word, NEW c \in Letters
    PROVE  LastExtended(Append(words, word), c) = Append(words, Append(word, c))
<1> DEFINE a == Append(words, word)
           n == Len(words)
           longer == Append(word, c)
           b == Append(words, longer)
<1>1. longer \in Word
    BY AppendProperties DEF Word
<1>2. n \in Nat
    BY LenProperties
<1>3. /\ a \in Seq(Word) /\ a # <<>> /\ Len(a) = n + 1 /\ a[n + 1] = word
      /\ \A i \in 1 .. n : a[i] = words[i]
    BY AppendProperties
<1>4. /\ b \in Seq(Word) /\ Len(b) = n + 1 /\ b[n + 1] = longer
      /\ \A i \in 1 .. n : b[i] = words[i]
    BY <1>1, AppendProperties
<1> HIDE DEF a, b
<1> DEFINE d == LastExtended(a, c)
<1>5. /\ d \in Seq(Word) /\ Len(d) = n + 1 /\ d[n + 1] = longer
      /\ \A i \in 1 .. (n + 1) - 1 : d[i] = a[i]
    BY <1>3, Extending
<1> HIDE DEF d, longer, n
<1>6. \A i \in 1 .. n + 1 : d[i] = b[i]
    BY <1>2, <1>3, <1>4, <1>5
<1>7. d = b
    BY <1>4, <1>5, <1>6, SeqEqual
<1> QED
    BY <1>7 DEF a, b, d, longer

\* The first elements of a sequence, one by one.
LEMMA Beginnings ==
    ASSUME NEW T, NEW seq \in Seq(T), NEW k \in 1 .. Len(seq)
    PROVE  /\ SubSeq(seq, 1, k) \in Seq(T) /\ SubSeq(seq, 1, k) # <<>>
           /\ Len(SubSeq(seq, 1, k)) = k
           /\ SubSeq(seq, 1, k) = Append(SubSeq(seq, 1, k - 1), seq[k])
           /\ SubSeq(seq, 1, 0) = <<>>
<1>1. Len(seq) \in Nat /\ \A i \in 1 .. Len(seq) : seq[i] \in T
    BY LenProperties, ElementOfSeq
<1>2. /\ SubSeq(seq, 1, k) \in Seq(T)
      /\ Len(SubSeq(seq, 1, k)) = IF 1 <= k THEN k - 1 + 1 ELSE 0
    BY <1>1, SubSeqProperties
<1>3. SubSeq(seq, 1, k) # <<>> /\ Len(SubSeq(seq, 1, k)) = k
    BY <1>1, <1>2, EmptySeq
<1>4. SubSeq(seq, 1, 0) = <<>>
    BY SubSeqEmpty
<1>5. SubSeq(seq, 1, k - 1) \in Seq(T)
    BY <1>1, SubSeqProperties
<1>6. SubSeq(seq, 1, k) = SubSeq(seq, 1, k - 1) \o <<seq[k]>>
    BY <1>1, SubSeqRecursiveSecond
<1>7. SubSeq(seq, 1, k) = Append(SubSeq(seq, 1, k - 1), seq[k])
    BY <1>1, <1>5, <1>6, AppendIsConcat
<1> QED
    BY <1>2, <1>3, <1>4, <1>7

\* A word is read after a blank, or at the start.
LEMMA SplitWord ==
    ASSUME NEW text \in Seq(Chars), NEW word \in Word, NEW n \in Nat,
           n + Len(word) <= Len(text), n = 0 \/ text[n] = Blank,
           \A i \in 1 .. Len(word) : text[n + i] = word[i]
    PROVE  SplitUpTo(text)[n + Len(word)] = Append(SplitUpTo(text)[n], word)
<1> DEFINE f == SplitUpTo(text)
           N == Len(word)
           Read(k) == k # 0 => f[n + k] = Append(f[n], SubSeq(word, 1, k))
           S == {k \in 0 .. N : Read(k)}
<1>1. /\ N \in Nat \ {0} /\ \A i \in 1 .. N : word[i] \in Letters /\ word[i] # Blank
      /\ Len(text) \in Nat
    BY WordsAreNormal, LenProperties
<1>2. 0 \in S
    BY <1>1
<1>3. ASSUME NEW k \in 0 .. N - 1, k \in S PROVE k + 1 \in S
    <2>1. /\ n + k \in 0 .. Len(text) - 1 /\ k + 1 \in 1 .. N /\ n + (k + 1) = (n + k) + 1
          /\ k + 1 \in 0 .. N
        BY <1>1
    <2>2. text[(n + k) + 1] = word[k + 1] /\ word[k + 1] \in Letters /\ word[k + 1] # Blank
        BY <1>1, <2>1
    <2>3. word \in Seq(Letters)
        BY DEF Word
    <2>4. f[n] \in Seq(Word)
        BY <1>1, SplitType
    <2>5. CASE k = 0
        <3>0. n + k = n /\ (k + 1) - 1 = 0
            BY <2>5
        <3>1. f[(n + k) + 1] = Append(f[n], <<word[k + 1]>>)
            BY <2>1, <2>2, <3>0, Splitting, Zenon
        <3>2. SubSeq(word, 1, k + 1) = Append(<<>>, word[k + 1])
            BY <2>1, <2>3, <3>0, Beginnings, Zenon
        <3>4. Append(<<>>, word[k + 1]) = <<word[k + 1]>>
            OBVIOUS
        <3>3. Read(k + 1)
            BY <2>1, <3>1, <3>2, <3>4, Zenon
        <3> QED
            BY <2>1, <3>3
    <2>6. CASE k # 0
        <3>1. k \in 1 .. N
            BY <1>1, <2>6
        <3>2. text[n + k] = word[k] /\ text[n + k] # Blank /\ n + k # 0
            BY <1>1, <3>1
        <3>3. f[(n + k) + 1] = LastExtended(f[n + k], word[k + 1])
            BY <2>1, <2>2, <3>2, Splitting, Zenon
        <3>4. f[n + k] = Append(f[n], SubSeq(word, 1, k))
            BY <1>3, <2>6
        <3>5. SubSeq(word, 1, k) \in Word
            BY <2>3, <3>1, Beginnings, Zenon DEF Word
        <3>6. f[(n + k) + 1] = Append(f[n], Append(SubSeq(word, 1, k), word[k + 1]))
            BY <2>2, <2>4, <3>3, <3>4, <3>5, LastOfAppend
        <3>7. SubSeq(word, 1, k + 1) = Append(SubSeq(word, 1, k), word[k + 1])
            <4>1. (k + 1) - 1 = k
                OBVIOUS
            <4> QED
                BY <2>1, <2>3, <4>1, Beginnings, Zenon
        <3>8. Read(k + 1)
            BY <2>1, <3>6, <3>7, Zenon
        <3> QED
            BY <2>1, <3>8
    <2> QED
        BY <2>5, <2>6
<1> HIDE DEF S
<1>4. 0 .. N \subseteq S
    BY <1>1, <1>2, <1>3, InductionUpTo
<1>5. N \in S
    BY <1>1, <1>4
<1>6. f[n + N] = Append(f[n], SubSeq(word, 1, N))
    BY <1>1, <1>5 DEF S
<1>7. SubSeq(word, 1, N) = word
    BY SubSeqFull DEF Word
<1> QED
    BY <1>6, <1>7

LEMMA SplitJoin ==
    ASSUME NEW words \in Seq(Word)
    PROVE  Join(words) \in Seq(Chars) /\ Split(Join(words)) = words
<1> DEFINE N == Len(words)
           f == JoinUpTo(words)
           S == {k \in 0 .. N : Split(f[k]) = SubSeq(words, 1, k)}
<1>1. N \in Nat /\ \A k \in 0 .. N : f[k] \in Seq(Chars)
    BY LenProperties, JoinType
<1>2. 0 \in S
    <2>1. f[0] = <<>>
        BY Joining, Zenon
    <2>2. Len(<<>>) = 0 /\ <<>> \in Seq(Chars)
        BY EmptySeq
    <2>3. Split(<<>>) = <<>>
        BY <2>2, Splitting, Zenon DEF Split
    <2>4. SubSeq(words, 1, 0) = <<>>
        BY SubSeqEmpty
    <2> QED
        BY <1>1, <2>1, <2>3, <2>4
<1>3. ASSUME NEW k \in 0 .. N - 1, k \in S PROVE k + 1 \in S
    <2> DEFINE word == words[k + 1]
               text == f[k + 1]
    <2>1. /\ k + 1 \in 1 .. N /\ k + 1 \in 0 .. N /\ (k + 1) - 1 = k /\ word \in Word
          /\ k \in Nat /\ k \in 0 .. N
        BY <1>1, Joining
    <2>2. text \in Seq(Chars) /\ f[k] \in Seq(Chars)
        BY <1>1, <2>1
    <2>3. SubSeq(words, 1, k + 1) = Append(SubSeq(words, 1, k), word)
        BY <2>1, Beginnings, Zenon
    <2>4. Len(word) \in Nat \ {0}
        BY <2>1, WordsAreNormal
    <2>5. CASE k = 0
        <3>1. text = word
            BY <2>5, Joining, Zenon
        <3>2. \A i \in 1 .. Len(word) : word[0 + i] = word[i]
            BY <2>4
        <3>3. 0 \in Nat /\ 0 + Len(word) = Len(word) /\ Len(word) <= Len(word)
            BY <2>4
        <3>4. SplitUpTo(word)[0 + Len(word)] = Append(SplitUpTo(word)[0], word)
            BY <2>1, <2>2, <3>1, <3>2, <3>3, SplitWord, Zenon
        <3>5. SplitUpTo(word)[0] = <<>> /\ SubSeq(words, 1, k) = <<>>
            BY <2>1, <2>2, <2>5, <3>1, Splitting, Beginnings, Zenon
        <3>6. Split(text) = SubSeq(words, 1, k + 1)
            BY <2>3, <3>1, <3>3, <3>4, <3>5, Zenon DEF Split
        <3> QED
            BY <2>1, <3>6
    <2>6. CASE k # 0
        <3> DEFINE n == Len(f[k])
        <3>1. text = f[k] \o <<Blank>> \o word
            BY <2>6, Joining, Zenon
        <3>2. /\ n \in Nat /\ Len(text) = n + 1 + Len(word)
              /\ \A i \in 1 .. n : text[i] = f[k][i]
              /\ text[n + 1] = Blank
              /\ \A i \in 1 .. Len(word) : text[n + 1 + i] = word[i]
            <4> DEFINE x == f[k]
            <4>1. text = x \o <<Blank>> \o word /\ x \in Seq(Chars) /\ word \in Word
                BY <2>1, <2>2, <3>1
            <4> HIDE DEF x, text, word
            <4>2. /\ Len(x) \in Nat /\ Len(text) = Len(x) + 1 + Len(word)
                  /\ \A i \in 1 .. Len(x) : text[i] = x[i]
                  /\ text[Len(x) + 1] = Blank
                  /\ \A i \in 1 .. Len(word) : text[Len(x) + 1 + i] = word[i]
                BY <4>1, WordAdded
            <4> QED
                BY <4>2 DEF x
        <3>3. /\ n <= n /\ n <= Len(text) /\ n \in 0 .. Len(text) - 1
              /\ n + 1 \in Nat /\ n + 1 + Len(word) <= Len(text)
            <4> HIDE DEF n, word, text
            <4> QED
                BY <2>4, <3>2
        <3>4. SplitUpTo(text)[n] = SplitUpTo(f[k])[n]
            BY <2>2, <3>2, <3>3, SplitPrefix, Zenon
        <3>5. SplitUpTo(text)[n + 1] = SplitUpTo(text)[n]
            BY <2>2, <3>2, <3>3, Splitting, Zenon
        <3>6. SplitUpTo(text)[n + 1 + Len(word)] = Append(SplitUpTo(text)[n + 1], word)
            BY <2>1, <2>2, <3>2, <3>3, SplitWord, Zenon
        <3>7. SplitUpTo(f[k])[n] = SubSeq(words, 1, k)
            BY <1>3 DEF Split
        <3>8. Split(text) = SubSeq(words, 1, k + 1)
            BY <2>3, <3>2, <3>4, <3>5, <3>6, <3>7, Zenon DEF Split
        <3> QED
            BY <2>1, <3>8
    <2> QED
        BY <2>5, <2>6
<1> HIDE DEF S
<1>4. N \in S
    <2>1. 0 .. N \subseteq S
        BY <1>1, <1>2, <1>3, InductionUpTo
    <2> QED
        BY <1>1, <2>1
<1>5. Split(f[N]) = SubSeq(words, 1, N)
    BY <1>4 DEF S
<1>6. SubSeq(words, 1, N) = words
    BY SubSeqFull
<1>7. f[N] \in Seq(Chars)
    BY <1>1
<1> QED
    BY <1>5, <1>6, <1>7, Zenon DEF Join

\* The words of a text, and its normal form.
LEMMA Normalized ==
    ASSUME NEW text \in Seq(Chars)
    PROVE  /\ Split(text) \in Seq(Word)
           /\ NormalizeReason(text) \in Seq(Chars)
           /\ Normal(NormalizeReason(text))
           /\ Split(NormalizeReason(text)) = Split(text)
           /\ NormalizeReason(NormalizeReason(text)) = NormalizeReason(text)
<1>1. Split(text) \in Seq(Word)
    <2>1. Len(text) \in 0 .. Len(text)
        BY LenProperties
    <2> QED
        BY <2>1, SplitType, Zenon DEF Split
<1>2. Normal(NormalizeReason(text))
    <2>1. Len(Split(text)) \in 0 .. Len(Split(text))
        BY <1>1, LenProperties
    <2> QED
        BY <1>1, <2>1, JoinType, Zenon DEF NormalizeReason, Join
<1>3. NormalizeReason(text) \in Seq(Chars) /\ Split(NormalizeReason(text)) = Split(text)
    BY <1>1, SplitJoin, Zenon DEF NormalizeReason
<1>4. NormalizeReason(NormalizeReason(text)) = NormalizeReason(text)
    BY <1>3, Zenon DEF NormalizeReason
<1> QED
    BY <1>1, <1>2, <1>3, <1>4

-----------------------------------------------------------------------------
(* The normal form is not longer than the text *)

LEMMA JoinPrefix ==
    ASSUME NEW x \in Seq(Word), NEW y \in Seq(Word), NEW m \in Nat,
           m <= Len(x), m <= Len(y), \A i \in 1 .. m : x[i] = y[i]
    PROVE  JoinUpTo(x)[m] = JoinUpTo(y)[m]
<1> DEFINE f == JoinUpTo(x)
           g == JoinUpTo(y)
           S == {k \in 0 .. m : f[k] = g[k]}
<1>1. 0 \in S
    <2>1. f[0] = g[0]
        BY Joining, Zenon
    <2> QED
        BY <2>1
<1>2. ASSUME NEW k \in 0 .. m - 1, k \in S PROVE k + 1 \in S
    <2>1. /\ k \in 0 .. Len(x) - 1 /\ k \in 0 .. Len(y) - 1 /\ k + 1 \in 0 .. m
          /\ x[k + 1] = y[k + 1] /\ f[k] = g[k]
        BY <1>2, LenProperties
    <2>2. f[k + 1] = g[k + 1]
        BY <2>1, Joining, Zenon
    <2> QED
        BY <2>1, <2>2
<1> HIDE DEF S
<1>3. 0 .. m \subseteq S
    BY <1>1, <1>2, InductionUpTo
<1>4. m \in S
    BY <1>3
<1> QED
    BY <1>4 DEF S

\* The length of a text from its words.
LEMMA JoinLength ==
    ASSUME NEW words \in Seq(Word), NEW m \in 0 .. Len(words) - 1
    PROVE  /\ Len(JoinUpTo(words)[m]) \in Nat /\ Len(words[m + 1]) \in Nat
           /\ Len(JoinUpTo(words)[m + 1])
              = IF m = 0 THEN Len(words[m + 1])
                ELSE Len(JoinUpTo(words)[m]) + 1 + Len(words[m + 1])
<1> DEFINE x == JoinUpTo(words)[m]
           y == JoinUpTo(words)[m + 1]
           word == words[m + 1]
<1>1. /\ word \in Word
      /\ m = 0 => y = word
      /\ m # 0 => y = x \o <<Blank>> \o word
    BY Joining, Zenon
<1>2. x \in Seq(Chars)
    <2>1. m \in 0 .. Len(words)
        BY LenProperties
    <2> QED
        BY <2>1, JoinType
<1> HIDE DEF x, y, word
<1>3. m # 0 => Len(y) = Len(x) + 1 + Len(word)
    BY <1>1, <1>2, WordAdded
<1>4. Len(x) \in Nat /\ Len(word) \in Nat
    BY <1>1, <1>2, LenProperties, WordsAreNormal
<1> QED
    BY <1>1, <1>3, <1>4 DEF x, y, word

LEMMA AppendLength ==
    ASSUME NEW words \in Seq(Word), NEW c \in Letters
    PROVE  /\ Len(Join(words)) \in Nat
           /\ Len(Join(Append(words, <<c>>)))
              = IF words = <<>> THEN 1 ELSE Len(Join(words)) + 2
<1> DEFINE m == Len(words)
           more == Append(words, <<c>>)
<1>1. <<c>> \in Word /\ Len(<<c>>) = 1
    BY DEF Word
<1>2. m \in Nat /\ (m = 0 <=> words = <<>>)
    BY LenProperties, EmptySeq
<1>3. /\ more \in Seq(Word) /\ Len(more) = m + 1 /\ more[m + 1] = <<c>>
      /\ \A i \in 1 .. m : more[i] = words[i]
    BY <1>1, AppendProperties, Zenon
<1> HIDE DEF m, more
<1>4. m \in 0 .. Len(more) - 1 /\ m <= m /\ m <= Len(more)
    BY <1>2, <1>3
<1>5. JoinUpTo(more)[m] = JoinUpTo(words)[m]
    BY <1>2, <1>3, <1>4, JoinPrefix, Zenon DEF m
<1>6. /\ Len(JoinUpTo(more)[m]) \in Nat
      /\ Len(JoinUpTo(more)[m + 1])
         = IF m = 0 THEN Len(more[m + 1]) ELSE Len(JoinUpTo(more)[m]) + 1 + Len(more[m + 1])
    BY <1>3, <1>4, JoinLength, Zenon
<1>7. Len(JoinUpTo(more)[m + 1]) = IF m = 0 THEN 1 ELSE Len(JoinUpTo(words)[m]) + 2
    BY <1>1, <1>3, <1>5, <1>6
<1> QED
    BY <1>2, <1>3, <1>5, <1>6, <1>7, Zenon DEF Join, m, more

LEMMA ExtendedLength ==
    ASSUME NEW words \in Seq(Word), words # <<>>, NEW c \in Letters
    PROVE  Len(Join(LastExtended(words, c))) = Len(Join(words)) + 1
<1> DEFINE n == Len(words)
           m == n - 1
           more == LastExtended(words, c)
<1>1. /\ more \in Seq(Word) /\ n \in Nat \ {0} /\ Len(more) = n
      /\ more[n] = Append(words[n], c)
      /\ \A i \in 1 .. n - 1 : more[i] = words[i]
    BY Extending
<1>2. Len(Append(words[n], c)) = Len(words[n]) + 1 /\ Len(words[n]) \in Nat
    <2>1. words[n] \in Seq(Letters)
        BY <1>1, ElementOfSeq DEF Word
    <2> QED
        BY <2>1, AppendProperties, LenProperties
<1> HIDE DEF n, more
<1>3. m \in Nat /\ m <= n /\ m + 1 = n /\ m \in 0 .. n - 1
    BY <1>1
<1>4. JoinUpTo(more)[m] = JoinUpTo(words)[m]
    BY <1>1, <1>3, JoinPrefix DEF n
<1>5. /\ Len(JoinUpTo(more)[m]) \in Nat
      /\ Len(JoinUpTo(more)[n])
         = IF m = 0 THEN Len(more[n]) ELSE Len(JoinUpTo(more)[m]) + 1 + Len(more[n])
    BY <1>1, <1>3, JoinLength
<1>6. /\ Len(JoinUpTo(words)[m]) \in Nat
      /\ Len(JoinUpTo(words)[n])
         = IF m = 0 THEN Len(words[n]) ELSE Len(JoinUpTo(words)[m]) + 1 + Len(words[n])
    <2>1. m \in 0 .. Len(words) - 1
        BY <1>3 DEF n
    <2>2. /\ Len(JoinUpTo(words)[m]) \in Nat
          /\ Len(JoinUpTo(words)[m + 1])
             = IF m = 0 THEN Len(words[m + 1])
               ELSE Len(JoinUpTo(words)[m]) + 1 + Len(words[m + 1])
        BY <2>1, JoinLength, Zenon
    <2> QED
        BY <1>3, <2>2
<1>7. Len(JoinUpTo(more)[n]) = Len(JoinUpTo(words)[n]) + 1
    <2> HIDE DEF m
    <2>1. Len(more[n]) = Len(words[n]) + 1
        BY <1>1, <1>2
    <2>2. CASE m = 0
        BY <1>5, <1>6, <2>1, <2>2
    <2>3. CASE m # 0
        <3> DEFINE x == Len(JoinUpTo(words)[m])
                   y == Len(words[n])
                   a == Len(JoinUpTo(more)[n])
                   b == Len(JoinUpTo(words)[n])
        <3>1. x \in Nat /\ y \in Nat /\ a = x + 1 + (y + 1) /\ b = x + 1 + y
            BY <1>2, <1>4, <1>5, <1>6, <2>1, <2>3, Zenon
        <3> HIDE DEF x, y, a, b
        <3>2. a = b + 1
            BY <3>1
        <3> QED
            BY <3>2, Zenon DEF a, b
    <2> QED
        BY <2>2, <2>3
<1> QED
    BY <1>1, <1>7, Zenon DEF Join, n, more

LEMMA NotLonger ==
    ASSUME NEW text \in Seq(Chars)
    PROVE  Len(NormalizeReason(text)) <= Len(text)
<1> DEFINE N == Len(text)
           f == SplitUpTo(text)
           Fits(k) == IF k > 0 /\ text[k] = Blank THEN Len(Join(f[k])) <= k - 1
                                                  ELSE Len(Join(f[k])) <= k
           S == {k \in 0 .. N : Fits(k)}
<1>1. N \in Nat /\ \A k \in 0 .. N : f[k] \in Seq(Word)
    BY LenProperties, SplitType
<1>2. \A words \in Seq(Word) : Len(Join(words)) \in Nat
    <2> SUFFICES ASSUME NEW words \in Seq(Word) PROVE Len(Join(words)) \in Nat
        OBVIOUS
    <2>1. Join(words) \in Seq(Chars)
        BY SplitJoin
    <2> QED
        BY <2>1, LenProperties
<1>3. 0 \in S
    <2>1. f[0] = <<>>
        BY Splitting, Zenon
    <2>2. Join(<<>>) = <<>> /\ Len(<<>>) = 0
        BY EmptySeq, Joining, Zenon DEF Join
    <2> QED
        BY <1>1, <2>1, <2>2
<1>4. ASSUME NEW k \in 0 .. N - 1, k \in S PROVE k + 1 \in S
    <2> DEFINE a == Len(Join(f[k]))
               b == Len(Join(f[k + 1]))
    <2>1. k + 1 \in 0 .. N /\ k \in 0 .. N /\ f[k] \in Seq(Word) /\ a \in Nat
        BY <1>1, <1>2
    <2>2. IF k > 0 /\ text[k] = Blank THEN a <= k - 1 ELSE a <= k
        BY <1>4
    <2>3. CASE text[k + 1] = Blank
        <3>1. f[k + 1] = f[k]
            BY <2>3, Splitting, Zenon
        <3>2. b = a
            BY <3>1, Zenon
        <3>3. b <= (k + 1) - 1
            <4> HIDE DEF a, b
            <4> QED
                BY <2>1, <2>2, <3>2
        <3> QED
            BY <2>1, <2>3, <3>3
    <2>4. CASE text[k + 1] # Blank /\ (k = 0 \/ text[k] = Blank)
        <3>1. f[k + 1] = Append(f[k], <<text[k + 1]>>) /\ text[k + 1] \in Letters
            BY <2>4, Splitting, Zenon
        <3>2. b = IF f[k] = <<>> THEN 1 ELSE a + 2
            BY <2>1, <3>1, AppendLength, Zenon
        <3>3. k = 0 => f[k] = <<>>
            BY Splitting, Zenon
        <3>4. b <= k + 1
            <4> HIDE DEF a, b, f
            <4> QED
                BY <2>1, <2>2, <2>4, <3>2, <3>3
        <3> QED
            BY <2>1, <2>4, <3>4
    <2>5. CASE text[k + 1] # Blank /\ k # 0 /\ text[k] # Blank
        <3>1. f[k + 1] = LastExtended(f[k], text[k + 1]) /\ text[k + 1] \in Letters
            BY <2>5, Splitting, Zenon
        <3>2. f[k] # <<>>
            BY <2>1, <2>5, SplitType
        <3>3. b = a + 1
            BY <2>1, <3>1, <3>2, ExtendedLength, Zenon
        <3>4. b <= k + 1
            <4> HIDE DEF a, b
            <4> QED
                BY <2>1, <2>2, <2>5, <3>3
        <3> QED
            BY <2>1, <2>5, <3>4
    <2> QED
        BY <2>3, <2>4, <2>5
<1> HIDE DEF S
<1>5. N \in S
    <2>1. 0 .. N \subseteq S
        BY <1>1, <1>3, <1>4, InductionUpTo
    <2> QED
        BY <1>1, <2>1
<1>6. Len(Join(f[N])) <= N
    <2>1. Fits(N) /\ Len(Join(f[N])) \in Nat
        BY <1>1, <1>2, <1>5 DEF S
    <2> QED
        BY <1>1, <2>1
<1> QED
    BY <1>6, Zenon DEF NormalizeReason, Split

-----------------------------------------------------------------------------
(* The words, by their numbers *)

LEMMA Numbering ==
    ASSUME NEW text \in Seq(Chars)
    PROVE  /\ Number(text, 0) = 0
           /\ Number(text, Len(text)) = Cardinality(Starts(text))
           /\ \A n \in 0 .. Len(text) : Number(text, n) \in Nat
           /\ \A n \in 0 .. Len(text) - 1 :
                 Number(text, n + 1)
                 = IF text[n + 1] # Blank /\ (n = 0 \/ text[n] = Blank)
                   THEN Number(text, n) + 1 ELSE Number(text, n)
<1> DEFINE N == Len(text)
           Begun(n) == {j \in Starts(text) : j <= n}
<1>1. N \in Nat /\ DOMAIN text = 1 .. N /\ Starts(text) \subseteq 1 .. N
    BY LenProperties DEF Starts
<1>2. \A n \in 0 .. N : IsFiniteSet(Begun(n))
    <2> SUFFICES ASSUME NEW n \in 0 .. N PROVE IsFiniteSet(Begun(n))
        OBVIOUS
    <2>1. IsFiniteSet(1 .. N) /\ Begun(n) \in SUBSET (1 .. N)
        BY <1>1, FS_Interval
    <2> HIDE DEF Begun
    <2> QED
        BY <2>1, FS_Subset
<1>3. \A n \in 0 .. N : Number(text, n) = Cardinality(Begun(n)) /\ Number(text, n) \in Nat
    <2>1. \A n : Number(text, n) = Cardinality(Begun(n))
        BY DEF Number
    <2> HIDE DEF Begun
    <2> QED
        BY <1>2, <2>1, FS_CardinalityType
<1>4. Begun(0) = {} /\ Begun(N) = Starts(text)
    BY <1>1
<1>5. Number(text, 0) = 0 /\ Number(text, N) = Cardinality(Starts(text))
    <2> HIDE DEF Begun
    <2>1. 0 \in 0 .. N /\ N \in 0 .. N
        BY <1>1
    <2> QED
        BY <1>3, <1>4, <2>1, FS_EmptySet, Zenon
<1>6. ASSUME NEW n \in 0 .. N - 1
      PROVE  Number(text, n + 1)
             = IF text[n + 1] # Blank /\ (n = 0 \/ text[n] = Blank)
               THEN Number(text, n) + 1 ELSE Number(text, n)
    <2>1. n \in 0 .. N /\ n + 1 \in 0 .. N /\ n + 1 \in 1 .. N /\ (n + 1) - 1 = n
          /\ (n + 1 = 1 <=> n = 0)
        BY <1>1
    <2>2. n + 1 \in Starts(text) <=> text[n + 1] # Blank /\ (n = 0 \/ text[n] = Blank)
        BY <1>1, <2>1, Zenon DEF Starts
    <2>3. n + 1 \in Starts(text) => Begun(n + 1) = Begun(n) \union {n + 1}
        BY <1>1, <2>1
    <2>4. n + 1 \notin Starts(text) => Begun(n + 1) = Begun(n)
        BY <1>1, <2>1
    <2>5. n + 1 \notin Begun(n)
        BY <2>1
    <2> HIDE DEF Begun
    <2>6. Cardinality(Begun(n) \union {n + 1}) = Cardinality(Begun(n)) + 1
        BY <1>2, <2>1, <2>5, FS_AddElement
    <2> QED
        BY <1>3, <2>1, <2>2, <2>3, <2>4, <2>6, Zenon
<1> QED
    BY <1>3, <1>5, <1>6

\* Of the first n characters, those from a to b are the ones of word k.
Marks(text, n, k, a, b) ==
    /\ a \in 1 .. n /\ b \in 1 .. n /\ a <= b
    /\ \A i \in 1 .. n : text[i] # Blank /\ Number(text, i) = k <=> a <= i /\ i <= b

\* What the first n characters give is their words, by number.
ReadUpTo(text, n) ==
    LET words == SplitUpTo(text)[n]
    IN  /\ Len(words) = Number(text, n)
        /\ \A i \in 1 .. n : Number(text, i) <= Number(text, n)
        /\ \A k \in 1 .. Number(text, n) :
              \E a, b \in Nat : Marks(text, n, k, a, b) /\ words[k] = SubSeq(text, a, b)

LEMMA BlankRead ==
    ASSUME NEW text \in Seq(Chars), NEW n \in 0 .. Len(text) - 1, ReadUpTo(text, n),
           text[n + 1] = Blank
    PROVE  ReadUpTo(text, n + 1)
<1> DEFINE m == Number(text, n)
           words == SplitUpTo(text)[n]
<1>1. /\ n \in Nat /\ m \in Nat /\ Number(text, n + 1) = m
      /\ SplitUpTo(text)[n + 1] = words
    <2>1. n \in Nat /\ n \in 0 .. Len(text)
        BY LenProperties
    <2> QED
        BY <2>1, Numbering, Splitting, Zenon
<1>2. /\ Len(words) = m
      /\ \A i \in 1 .. n : Number(text, i) <= m
      /\ \A k \in 1 .. m :
            \E a, b \in Nat : Marks(text, n, k, a, b) /\ words[k] = SubSeq(text, a, b)
    BY Zenon DEF ReadUpTo
<1> HIDE DEF m, words
<1>3. \A i \in 1 .. n + 1 : Number(text, i) <= m
    BY <1>1, <1>2
<1>4. ASSUME NEW k \in 1 .. m
      PROVE  \E a, b \in Nat : Marks(text, n + 1, k, a, b) /\ words[k] = SubSeq(text, a, b)
    <2>1. PICK a \in Nat, b \in Nat : Marks(text, n, k, a, b) /\ words[k] = SubSeq(text, a, b)
        BY <1>2
    <2>2. Marks(text, n + 1, k, a, b)
        BY <1>1, <2>1 DEF Marks
    <2> QED
        BY <2>1, <2>2
<1> QED
    BY <1>1, <1>2, <1>3, <1>4, Zenon DEF ReadUpTo

LEMMA StartRead ==
    ASSUME NEW text \in Seq(Chars), NEW n \in 0 .. Len(text) - 1, ReadUpTo(text, n),
           text[n + 1] # Blank, n = 0 \/ text[n] = Blank
    PROVE  ReadUpTo(text, n + 1)
<1> DEFINE m == Number(text, n)
           words == SplitUpTo(text)[n]
           more == SplitUpTo(text)[n + 1]
           word == <<text[n + 1]>>
<1>0. n \in Nat /\ n \in 0 .. Len(text) /\ n + 1 \in 1 .. Len(text) /\ Len(text) \in Nat
    BY LenProperties
<1>1. /\ m \in Nat /\ Number(text, n + 1) = m + 1
      /\ more = Append(words, word) /\ text[n + 1] \in Letters
    BY <1>0, Numbering, Splitting, Zenon
<1>2. /\ Len(words) = m
      /\ \A i \in 1 .. n : Number(text, i) <= m
      /\ \A k \in 1 .. m :
            \E a, b \in Nat : Marks(text, n, k, a, b) /\ words[k] = SubSeq(text, a, b)
    BY Zenon DEF ReadUpTo
<1>3. /\ Len(more) = m + 1 /\ more[m + 1] = word
      /\ \A k \in 1 .. m : more[k] = words[k]
    <2>1. words \in Seq(Word) /\ word \in Word
        BY <1>0, <1>1, SplitType DEF Word
    <2> HIDE DEF words, more, word, m
    <2> QED
        BY <1>1, <1>2, <2>1, AppendProperties
<1>4. word = SubSeq(text, n + 1, n + 1)
    <2>1. /\ SubSeq(text, n + 1, n + 1) = SubSeq(text, n + 1, (n + 1) - 1) \o <<text[n + 1]>>
        BY <1>0, SubSeqRecursiveSecond
    <2>2. SubSeq(text, n + 1, (n + 1) - 1) = <<>>
        BY <1>0, SubSeqEmpty
    <2>3. <<text[n + 1]>> \in Seq(Letters)
        BY <1>1
    <2>4. <<>> \o <<text[n + 1]>> = <<text[n + 1]>>
        BY <2>3, ConcatEmptySeq
    <2> QED
        BY <2>1, <2>2, <2>4
<1> HIDE DEF m, words, more, word
<1>5. \A i \in 1 .. n + 1 : Number(text, i) <= m + 1
    <2> SUFFICES ASSUME NEW i \in 1 .. n + 1 PROVE Number(text, i) <= m + 1
        OBVIOUS
    <2>1. CASE i = n + 1
        BY <1>1, <2>1
    <2>2. CASE i \in 1 .. n
        <3>1. i \in 0 .. Len(text)
            BY <1>0, <2>2
        <3>2. Number(text, i) \in Nat /\ Number(text, i) <= m
            BY <1>2, <2>2, <3>1, Numbering
        <3> QED
            BY <1>1, <3>2
    <2> QED
        BY <1>0, <2>1, <2>2
<1>6. ASSUME NEW k \in 1 .. m + 1
      PROVE  \E a, b \in Nat : Marks(text, n + 1, k, a, b) /\ more[k] = SubSeq(text, a, b)
    <2>1. CASE k \in 1 .. m
        <3>1. PICK a \in Nat, b \in Nat : Marks(text, n, k, a, b) /\ words[k] = SubSeq(text, a, b)
            BY <1>2, <2>1
        <3>2. Marks(text, n + 1, k, a, b)
            BY <1>0, <1>1, <2>1, <3>1 DEF Marks
        <3>3. more[k] = SubSeq(text, a, b)
            BY <1>3, <2>1, <3>1, Zenon
        <3> QED
            BY <3>2, <3>3, Zenon
    <2>2. CASE k = m + 1
        <3>1. \A i \in 1 .. n : Number(text, i) # k
            <4> SUFFICES ASSUME NEW i \in 1 .. n PROVE Number(text, i) # m + 1
                BY <2>2
            <4>1. i \in 0 .. Len(text)
                BY <1>0
            <4>2. Number(text, i) \in Nat /\ Number(text, i) <= m
                BY <1>2, <4>1, Numbering
            <4> QED
                BY <1>1, <4>2
        <3>2. Marks(text, n + 1, k, n + 1, n + 1)
            BY <1>0, <1>1, <2>2, <3>1 DEF Marks
        <3>3. more[k] = SubSeq(text, n + 1, n + 1)
            BY <1>3, <1>4, <2>2, Zenon
        <3>4. n + 1 \in Nat
            BY <1>0
        <3> QED
            BY <3>2, <3>3, <3>4, Zenon
    <2>3. k \in 1 .. m \/ k = m + 1
        BY <1>1
    <2> QED
        BY <2>1, <2>2, <2>3, Zenon
<1> QED
    BY <1>1, <1>3, <1>5, <1>6, Zenon DEF ReadUpTo, more

LEMMA ContinuationRead ==
    ASSUME NEW text \in Seq(Chars), NEW n \in 1 .. Len(text) - 1, ReadUpTo(text, n),
           text[n + 1] # Blank, text[n] # Blank
    PROVE  ReadUpTo(text, n + 1)
<1> DEFINE m == Number(text, n)
           words == SplitUpTo(text)[n]
           more == SplitUpTo(text)[n + 1]
           c == text[n + 1]
<1>0. /\ n \in Nat /\ n # 0 /\ n > 0 /\ n \in 0 .. Len(text) - 1 /\ n \in 0 .. Len(text)
      /\ Len(text) \in Nat
    BY LenProperties
<1>1. /\ m \in Nat /\ Number(text, n + 1) = m
      /\ more = LastExtended(words, c) /\ c \in Letters
    BY <1>0, Numbering, Splitting, Zenon
<1>2. /\ Len(words) = m
      /\ \A i \in 1 .. n : Number(text, i) <= m
      /\ \A k \in 1 .. m :
            \E a, b \in Nat : Marks(text, n, k, a, b) /\ words[k] = SubSeq(text, a, b)
    BY Zenon DEF ReadUpTo
<1>3. /\ m # 0 /\ Len(more) = m /\ more[m] = Append(words[m], c)
      /\ \A k \in 1 .. m - 1 : more[k] = words[k]
    <2>1. words \in Seq(Word) /\ words # <<>>
        BY <1>0, SplitType, Zenon
    <2> HIDE DEF words, more, c, m
    <2>2. /\ Len(words) \in Nat \ {0}
          /\ Len(more) = Len(words)
          /\ more[Len(words)] = Append(words[Len(words)], c)
          /\ \A k \in 1 .. Len(words) - 1 : more[k] = words[k]
        BY <1>1, <2>1, Extending, Zenon
    <2> QED
        BY <1>2, <2>2
<1> HIDE DEF words, more
<1>4. \A i \in 1 .. n + 1 : Number(text, i) <= m
    <2> HIDE DEF m
    <2> QED
        BY <1>0, <1>1, <1>2
<1>5. ASSUME NEW k \in 1 .. m
      PROVE  \E a, b \in Nat : Marks(text, n + 1, k, a, b) /\ more[k] = SubSeq(text, a, b)
    <2>1. PICK a \in Nat, b \in Nat : Marks(text, n, k, a, b) /\ words[k] = SubSeq(text, a, b)
        BY <1>2
    <2>2. CASE k # m
        <3>1. Marks(text, n + 1, k, a, b)
            <4> HIDE DEF m
            <4> QED
                BY <1>0, <1>1, <2>1, <2>2 DEF Marks
        <3>2. more[k] = words[k]
            <4> HIDE DEF m
            <4> QED
                BY <1>1, <1>3, <2>2
        <3> QED
            BY <2>1, <3>1, <3>2, Zenon
    <2>3. CASE k = m
        <3>1. b = n
            BY <1>0, <2>1, <2>3 DEF Marks
        <3>2. Marks(text, n + 1, k, a, n + 1)
            <4> HIDE DEF m
            <4> QED
                BY <1>0, <1>1, <2>1, <2>3, <3>1 DEF Marks
        <3>3. SubSeq(text, a, n + 1) = Append(SubSeq(text, a, n), c)
            <4>1. a \in 1 .. Len(text) /\ n + 1 \in a .. Len(text) /\ (n + 1) - 1 = n
                BY <1>0, <2>1 DEF Marks
            <4>2. SubSeq(text, a, n + 1) = SubSeq(text, a, (n + 1) - 1) \o <<c>>
                BY <4>1, SubSeqRecursiveSecond
            <4>3. SubSeq(text, a, n) \in Seq(Chars) /\ c \in Chars
                <5>1. \A i \in 1 .. Len(text) : text[i] \in Chars
                    BY ElementOfSeq
                <5>2. n + 1 \in 1 .. Len(text) /\ \A i \in a .. n : text[i] \in Chars
                    BY <1>0, <4>1, <5>1
                <5> QED
                    BY <1>0, <5>1, <5>2, SubSeqProperties
            <4> QED
                BY <4>1, <4>2, <4>3, AppendIsConcat
        <3>4. more[k] = SubSeq(text, a, n + 1)
            BY <1>3, <2>1, <2>3, <3>1, <3>3, Zenon
        <3>5. n + 1 \in Nat
            BY <1>0
        <3> QED
            BY <3>2, <3>4, <3>5, Zenon
    <2> QED
        BY <2>2, <2>3
<1> QED
    BY <1>1, <1>3, <1>4, <1>5, Zenon DEF ReadUpTo, more

LEMMA AllRead ==
    ASSUME NEW text \in Seq(Chars)
    PROVE  ReadUpTo(text, Len(text))
<1> DEFINE N == Len(text)
           S == {n \in 0 .. N : ReadUpTo(text, n)}
<1>1. N \in Nat /\ 0 \in 0 .. N /\ N \in 0 .. N
    BY LenProperties
<1>2. 0 \in S
    <2>1. SplitUpTo(text)[0] = <<>> /\ Len(<<>>) = 0 /\ Number(text, 0) = 0
        BY Splitting, Numbering, EmptySeq, Zenon
    <2>2. ReadUpTo(text, 0)
        BY <2>1 DEF ReadUpTo
    <2> QED
        BY <1>1, <2>2
<1>3. ASSUME NEW n \in 0 .. N - 1, n \in S PROVE n + 1 \in S
    <2>1. ReadUpTo(text, n) /\ n + 1 \in 0 .. N /\ (n # 0 => n \in 1 .. N - 1)
        BY <1>1, <1>3
    <2>2. ReadUpTo(text, n + 1)
        BY <2>1, BlankRead, StartRead, ContinuationRead, Zenon
    <2> QED
        BY <2>1, <2>2
<1> HIDE DEF S
<1>4. 0 .. N \subseteq S
    BY <1>1, <1>2, <1>3, InductionUpTo
<1> QED
    BY <1>1, <1>4 DEF S

LEMMA Ends ==
    ASSUME NEW a \in Nat, NEW b \in Nat, a <= b
    PROVE  Min(a .. b) = a /\ Max(a .. b) = b
<1>1. /\ a \in a .. b /\ \A y \in a .. b : a <= y
      /\ b \in a .. b /\ \A y \in a .. b : b >= y
    OBVIOUS
<1>2. \A x \in a .. b : (\A y \in a .. b : x <= y) => x = a
    BY <1>1
<1>3. \A x \in a .. b : (\A y \in a .. b : x >= y) => x = b
    BY <1>1
<1> QED
    BY <1>1, <1>2, <1>3 DEF Min, Max

\* split() gives the words, by number.
LEMMA SplitIsWords ==
    ASSUME NEW text \in Seq(Chars)
    PROVE  Split(text) = Words(text)
<1> DEFINE N == Len(text)
           m == Cardinality(Starts(text))
           words == Split(text)
<1>1. /\ N \in Nat /\ DOMAIN text = 1 .. N /\ Number(text, N) = m
      /\ words \in Seq(Word)
    BY LenProperties, Numbering, Normalized
<1>2. /\ Len(words) = m
      /\ \A k \in 1 .. m :
            \E a, b \in Nat : Marks(text, N, k, a, b) /\ words[k] = SubSeq(text, a, b)
    BY <1>1, AllRead, Zenon DEF ReadUpTo, Split
<1> HIDE DEF m, words
<1>3. ASSUME NEW k \in 1 .. m
      PROVE  words[k] = SubSeq(text, Min(WordAt(text, k)), Max(WordAt(text, k)))
    <2>1. PICK a \in Nat, b \in Nat : Marks(text, N, k, a, b) /\ words[k] = SubSeq(text, a, b)
        BY <1>2
    <2>2. WordAt(text, k) = a .. b
        <3>1. \A i \in a .. b : i \in 1 .. N
            BY <1>1, <2>1 DEF Marks
        <3> QED
            BY <1>1, <2>1, <3>1 DEF Marks, WordAt
    <2>3. a <= b
        BY <2>1 DEF Marks
    <2> QED
        BY <2>1, <2>2, <2>3, Ends, Zenon
<1>4. words = [k \in 1 .. m |-> words[k]]
    BY <1>1, <1>2, LenProperties
<1>5. words = [k \in 1 .. m |-> SubSeq(text, Min(WordAt(text, k)), Max(WordAt(text, k)))]
    BY <1>3, <1>4
<1> QED
    BY <1>5, Zenon DEF Words, words, m

\* The hash separates exactly the texts that say different words.
LEMMA HashIsWords ==
    ASSUME NEW x \in Seq(Chars), NEW y \in Seq(Chars)
    PROVE  RequestHash(x) = RequestHash(y) <=> Words(x) = Words(y)
<1>1. RequestHash(x) = RequestHash(y) => Split(x) = Split(y)
    BY Normalized, Zenon DEF RequestHash
<1>2. Split(x) = Split(y) => RequestHash(x) = RequestHash(y)
    BY Zenon DEF RequestHash, NormalizeReason
<1> QED
    BY <1>1, <1>2, SplitIsWords, Zenon

-----------------------------------------------------------------------------
(* The machine *)

TextsInv == first \in Seq(Chars) /\ second \in Seq(Chars)

LEMMA TextsTyped == TextsSpec => []TextsInv
<1>1. Untyped => TextsInv
    BY EmptySeq DEF Untyped, TextsInv
<1>2. TextsInv /\ [TypeText]_texts => TextsInv'
    <2> SUFFICES ASSUME TextsInv, [TypeText]_texts PROVE TextsInv'
        OBVIOUS
    <2>1. ASSUME NEW c \in Chars, TypeFirst(c) PROVE TextsInv'
        BY <2>1, AppendProperties DEF TextsInv, TypeFirst
    <2>2. ASSUME NEW c \in Chars, TypeSecond(c) PROVE TextsInv'
        BY <2>2, AppendProperties DEF TextsInv, TypeSecond
    <2>3. CASE UNCHANGED texts
        BY <2>3 DEF TextsInv, texts
    <2> QED
        BY <2>1, <2>2, <2>3 DEF TypeText
<1> QED
    BY <1>1, <1>2, PTL DEF TextsSpec

\* Whatever reason is sent, what is stored is in normal form, is not longer, and
\* gives itself when it is sent again (domain/models.py:103-107).
THEOREM StoredReasonsAreNormal == TextsSpec => []StoredReasonIsNormal
<1>1. TextsInv => StoredReasonIsNormal
    <2> SUFFICES ASSUME TextsInv PROVE StoredReasonIsNormal
        OBVIOUS
    <2>1. first \in Seq(Chars)
        BY DEF TextsInv
    <2> QED
        BY <2>1, Normalized, NotLonger, Zenon DEF StoredReasonIsNormal, Normal
<1> QED
    BY <1>1, TextsTyped, PTL

\* Two requests have one hash exactly when their reasons say the same words,
\* whatever the spacing (domain/models.py:103-129).
THEOREM HashesMeanWords == TextsSpec => []HashMeansSameWords
<1>1. TextsInv => HashMeansSameWords
    BY HashIsWords, Zenon DEF TextsInv, HashMeansSameWords
<1> QED
    BY <1>1, TextsTyped, PTL
=============================================================================
