--------------------------------- MODULE Jury ---------------------------------
(***************************************************************************)
(* The selection of a jury: the shuffle of coordinator-agent/src/vrf/      *)
(* flow-vrf.ts, seeded by a number from Flow's random beacon, and the two  *)
(* routes that select a jury and verify one.                               *)
(*                                                                         *)
(* The generator works on 32-bit words; here words have a smaller width,   *)
(* and the multiplier and the increment are those of the code modulo it.   *)
(* No product of the code exceeds 2^53, so that none is rounded there.     *)
(***************************************************************************)
EXTENDS Integers, Sequences, FiniteSets, SequencesExt

CONSTANTS
  Pool,        \* the candidates, in the order of the request
  LcgWord,     \* 2^32 in the code
  Multiplier,  \* 1664525
  Increment    \* 1013904223

ASSUME JuryAssumption ==
  /\ Pool \in Seq(ToSet(Pool))
  /\ LcgWord \in Nat /\ LcgWord > 1
  /\ {Multiplier, Increment} \subseteq Nat

VARIABLES seed, size, jury

juryVars == <<seed, size, jury>>

\* What "& 0xffffffff" makes of a number: a signed word.
Signed(n) == LET word == n % LcgWord IN IF word >= LcgWord \div 2 THEN word - LcgWord ELSE word

Abs(n) == IF n < 0 THEN -n ELSE n

Lcg(n) == Signed(n * Multiplier + Increment)

Swap(s, i, j) == [s EXCEPT ![i] = s[j], ![j] = s[i]]

\* Mutant: every candidate is moved.
Pick_Below(number, place) == Abs(number) % (place - 1)

\* The place, counted from 0, that a candidate is taken from for a place.
Pick(number, place) == Abs(number) % place

\* A turn of the loop: the next number, and the candidate it draws for the place.
Turn(before, place) ==
  LET number == Lcg(before.number) IN
  [number |-> number, order |-> Swap(before.order, place, Pick(number, place) + 1)]

\* The loop, from the last place down to the second: the number it has come to, and
\* the order of the candidates.
Loop(from) ==
  LET turn[i \in 0 .. Len(Pool) - 1] ==
        IF i = 0 THEN [number |-> from % (LcgWord - 1), order |-> Pool]
        ELSE Turn(turn[i - 1], Len(Pool) + 1 - i) IN
  turn

fisherYatesShuffle(from) == Loop(from)[Len(Pool) - 1].order

\* A size of zero is taken as not given.
JurySize == IF size = 0 THEN 3 ELSE size

JuryInit ==
  /\ seed \in 0 .. LcgWord - 1
  /\ size \in -1 .. Len(Pool) + 1
  /\ jury = << >>

\* Also what verify-jury computes again from the seed, which does not check the size.
selectJury ==
  /\ jury = << >>
  /\ 0 < JurySize /\ JurySize <= Len(Pool)
  /\ jury' = SubSeq(fisherYatesShuffle(seed), 1, JurySize)
  /\ UNCHANGED <<seed, size>>

JuryNext == selectJury

JurySpec == JuryInit /\ [][JuryNext]_juryVars

-----------------------------------------------------------------------------
(* Correctness *)

\* A jury has the size asked for, of candidates of the pool, none of them twice.
JuryOfPool ==
  jury # << >> => /\ Len(jury) = JurySize
                  /\ ToSet(jury) \subseteq ToSet(Pool)
                  /\ Cardinality(ToSet(jury)) = Len(jury)

\* Juries of a size do not shut a candidate out: there are beacon values that draw it.
EachDrawn(n) ==
  \A c \in ToSet(Pool) : \E from \in 0 .. LcgWord - 1 :
    c \in ToSet(SubSeq(fisherYatesShuffle(from), 1, n))

\* "Provably fair": no candidate's place in the pool shuts it out, whatever the size
\* of the jury.
NobodyShutOut == jury # << >> => EachDrawn(Len(jury))

FairJury == JuryOfPool /\ NobodyShutOut
=============================================================================
