---------------------------- MODULE TrialIntegers ----------------------------
(***************************************************************************)
(* What a trial of the constant-time integers should show: its input is a  *)
(* kind of machine and two words.                                          *)
(***************************************************************************)
EXTENDS Integers, FiniteSets, FiniteSetsExt, Sequences, Trial

CONSTANT N   \* the width in bits
INSTANCE CryptoInt

(* cryptoint/crypto_intN.h, crypto_uintN.h: every function, in each of its
   bodies, gives the comparison, minimum, shift or count it is named after,
   also where the difference of its arguments overflows, where a shift's count
   is as large as the word, and for the most negative number. *)
IntegersRight ==
  Of("int") => /\ MasksRight(input[1], input[2], input[3])
               /\ MinMaxRight(input[1], input[2], input[3])
               /\ ShiftsRight(input[1], input[2], input[3])
               /\ CountsRight(input[1], input[2])
==============================================================================
