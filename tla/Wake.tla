-------------------------------- MODULE Wake --------------------------------
(***************************************************************************)
(* igris-voice: the matching of the wake phrase.  Pure: a transcript is a  *)
(* sequence of words, and a word a sequence of letters, in lower case.     *)
(*                                                                         *)
(* A phrase of several words, which `contains` would find and the distance *)
(* of single words would not, is left out: the phrase is one word.         *)
(***************************************************************************)
EXTENDS Integers, Sequences, FiniteSets

MaxDistance == 2

Least(x, y) == IF x < y THEN x ELSE y

\* levenshtein: row i has the distances of the first i letters of a to the
\* beginnings of b, each row from the one before.
Levenshtein(a, b) ==
  LET row[i \in 0..Len(a)] ==
        LET prev == row[i - 1]
            cur[j \in 0..Len(b)] ==
              IF i = 0 THEN j
              ELSE IF j = 0 THEN i
              ELSE Least(prev[j] + 1, Least(cur[j - 1] + 1, prev[j - 1] + (IF a[i] = b[j] THEN 0 ELSE 1)))
        IN  [j \in 0..Len(b) |-> cur[j]]
  IN  row[Len(a)][Len(b)]

Contains(word, phrase) ==
  \E i \in 1..(Len(word) + 1) :
    /\ i + Len(phrase) - 1 <= Len(word)
    /\ SubSeq(word, i, i + Len(phrase) - 1) = phrase

\* WakeMatcher::matches
Matches(phrase, transcript) ==
  \E i \in DOMAIN transcript :
    Contains(transcript[i], phrase) \/ Levenshtein(transcript[i], phrase) <= MaxDistance

(***************************************************************************)
(* What the distance promises, for TLC to compare over short words.        *)
(***************************************************************************)
\* The words one slip away: a letter left out, changed, or put in.
Slips(word, letters) ==
  {SubSeq(word, 1, i - 1) \o SubSeq(word, i + 1, Len(word)) : i \in DOMAIN word}
    \cup {[word EXCEPT ![i] = c] : i \in DOMAIN word, c \in letters}
    \cup {SubSeq(word, 1, i) \o <<c>> \o SubSeq(word, i + 1, Len(word)) :
            i \in 0..Len(word), c \in letters}

\* "a Levenshtein tolerance of 2 per word": a word alone wakes the pipeline if
\* and only if two slips at most make the phrase of it, or it has the phrase
\* in it.
ToleratesTwoSlips(phrase, words, letters) ==
  LET once == Slips(phrase, letters)
      near == {phrase} \cup once \cup UNION {Slips(w, letters) : w \in once}
  IN  \A w \in words : Matches(phrase, <<w>>) <=> w \in near \/ Contains(w, phrase)
=============================================================================
