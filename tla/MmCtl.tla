-------------------------------- MODULE MmCtl --------------------------------
(***************************************************************************)
(* How mm_ctl_write of proj2/mastermind2.c reads the bytes written to      *)
(* /dev/mm_ctl.  An input is known by the literal it follows, by its       *)
(* length, and by the value of the last byte that is copied, counted from  *)
(* '0'.  It follows "start" or "quit" (with or without the NUL that ends   *)
(* the literal) when all copied bytes agree, and "colors " when all but    *)
(* the last do; lengths above 9 are as 9.                                  *)
(***************************************************************************)
EXTENDS Integers

Written(word, counts, lasts) ==
  [word : {word}, count : counts, last : lasts]

CtlInputs(lasts) ==
  Written("start", 0..6, {0}) \cup Written("quit", 1..5, {0})
    \cup Written("colors", 1..9, lasts) \cup Written("other", 2..9, {0})

BytesCopied(in) == IF in.count < 8 THEN in.count ELSE 8

(* What the write does.  "garbage" sets NUM_COLORS from user_input[7],     *)
(* a byte that a write shorter than 8 leaves uninitialised.                *)
Command(in, admin) ==
  CASE in.word \in {"start", "quit"} -> in.word
    [] in.word = "colors" /\ ~admin -> "EACCES"
    [] in.word = "colors" /\ admin ->
         IF in.count = BytesCopied(in) /\ in.last >= 2
         THEN IF BytesCopied(in) = 8 THEN "colors" ELSE "garbage"
         ELSE "EINVAL"
    [] in.word = "other" -> "EINVAL"

(* Writes with the same effect are one request. *)
Requests(lasts, admin) ==
  {[command |-> Command(in, admin), last |-> in.last] : in \in CtlInputs(lasts)}
=============================================================================
