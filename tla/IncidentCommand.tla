--------------------------- MODULE IncidentCommand ---------------------------
(***************************************************************************)
(* CreateIncidentCommand (domain/models.py): which texts are accepted, how *)
(* they are normalized, and when two requests have the same request_hash.  *)
(*                                                                         *)
(* A text is a sequence of Blank and letters.  Two reasons are typed one   *)
(* character at a time, so that TLC visits every pair up to MaxText.       *)
(***************************************************************************)
EXTENDS Sequences, Naturals, FiniteSetsExt

CONSTANTS
    Blank, Letters,
    MinReason, MaxReason,  \* Field(min_length, max_length), scaled down
    MaxText                \* bounds the texts typed

ASSUME BlankAssumption == Blank \notin Letters
ASSUME BoundsAssumption == MinReason \in Nat /\ MaxReason \in Nat /\ MaxText \in Nat

VARIABLES first, second  \* the raw reasons of a request and of its retry

texts == <<first, second>>

Chars == Letters \union {Blank}

-----------------------------------------------------------------------------
(* The code *)

\* What the first n characters give to value.split(): a character that is not
\* blank begins a word or goes on with the last one.
SplitUpTo(text) ==
    LET words[n \in 0 .. Len(text)] ==
          IF n = 0 THEN <<>>
          ELSE IF text[n] = Blank THEN words[n - 1]
          ELSE IF n = 1 \/ text[n - 1] = Blank THEN Append(words[n - 1], <<text[n]>>)
          ELSE [words[n - 1] EXCEPT ![Len(words[n - 1])] = Append(@, text[n])]
    IN  words

Split(text) == SplitUpTo(text)[Len(text)]

\* " ".join of the first n words.
JoinUpTo(words) ==
    LET joined[n \in 0 .. Len(words)] ==
          IF n = 0 THEN <<>>
          ELSE IF n = 1 THEN words[1]
          ELSE joined[n - 1] \o <<Blank>> \o words[n]
    IN  joined

\* Mutant: a blank is left behind the last word as well.
JoinTrailing(words) ==
    IF words = <<>> THEN <<>> ELSE JoinUpTo(words)[Len(words)] \o <<Blank>>

Join(words) == JoinUpTo(words)[Len(words)]

\* Mutant: only the ends are stripped, as strip_identifier does.
StripOnly(text) ==
    LET solid == {i \in DOMAIN text : text[i] # Blank}
    IN  IF solid = {} THEN <<>> ELSE SubSeq(text, Min(solid), Max(solid))

NormalizeReason(text) == Join(Split(text))

\* min_length and max_length are checked before the validator normalizes.
Accepted(text) == MinReason <= Len(text) /\ Len(text) <= MaxReason

\* SHA-256 of the normalized content, taken to be injective.
RequestHash(text) == NormalizeReason(text)

-----------------------------------------------------------------------------

\* The texts are typed.  This machine has names of its own, so that it can run
\* beside another.
Untyped == first = <<>> /\ second = <<>>

TypeFirst(c) == /\ Len(first) < MaxText
                /\ first' = Append(first, c)
                /\ UNCHANGED second

TypeSecond(c) == /\ Len(second) < MaxText
                 /\ second' = Append(second, c)
                 /\ UNCHANGED first

TypeText == \E c \in Chars : TypeFirst(c) \/ TypeSecond(c)

TextsSpec == Untyped /\ [][TypeText]_texts

-----------------------------------------------------------------------------
(* Properties *)

\* Reference: words begin behind blanks, and a character belongs to the word with
\* the number of the words begun so far.
Starts(text) == {i \in DOMAIN text : text[i] # Blank /\ (i = 1 \/ text[i - 1] = Blank)}

Number(text, i) == Cardinality({j \in Starts(text) : j <= i})

WordAt(text, n) == {i \in DOMAIN text : text[i] # Blank /\ Number(text, i) = n}

Words(text) ==
    [n \in 1 .. Cardinality(Starts(text)) |->
        SubSeq(text, Min(WordAt(text, n)), Max(WordAt(text, n)))]

\* What is stored is in normal form: no blank at the ends, no two in a row, a
\* second normalization changes nothing, and it fits the column of the raw text
\* (domain/models.py:103-107; the text a caller repeats from an answer must be
\* recognized as the same request).
StoredReasonIsNormal ==
    LET n == NormalizeReason(first)
    IN  /\ Len(n) <= Len(first)
        /\ n # <<>> => n[1] # Blank /\ n[Len(n)] # Blank
        /\ \A i \in 1 .. Len(n) - 1 : n[i] # Blank \/ n[i + 1] # Blank
        /\ NormalizeReason(n) = n

\* A retry is the same request exactly when it says the same words, whatever
\* the spacing: neither a false conflict nor a merge of two different reasons.
HashMeansSameWords ==
    RequestHash(first) = RequestHash(second) <=> Words(first) = Words(second)

-----------------------------------------------------------------------------
(* Statements of the documentation *)

\* README.md:350: "le motif comporte entre 5 et 500 caracteres".
StoredReasonIsLongEnough ==
    Accepted(first) => Len(NormalizeReason(first)) >= MinReason
=============================================================================
