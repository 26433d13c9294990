----------------------------- MODULE TrialBytes ------------------------------
(***************************************************************************)
(* What a trial of the functions on byte strings should show.              *)
(***************************************************************************)
EXTENDS Bytes, Trial

(* buf.c, packetparser.c, stringparser.c, str.c, numtostr.c, iptostr.c, log.c:
   what is written reads back and nothing is read beyond the end, a shared
   secret is written in its one shortest form, lists, numbers and addresses
   become the text they should, and what is cut fits. *)
BytesRight ==
  /\ Of("packet") => WireRight(input[1], input[2])
  /\ Of("blob") => BlobRight(input[1])
  /\ Of("bytes") => SecretRight(input[1]) /\ Base64Right(input[1])
  /\ Of("text") => ListRight(input[2]) /\ StringRight(input[1], input[2], input[3])
  /\ Of("number") => NumberRight(input[1], input[2], input[3])
  /\ Of("address") => AddressRight(input[1])
  /\ Of("log") => LogRight(input[1])
==============================================================================
