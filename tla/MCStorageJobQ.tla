---------------------------- MODULE MCStorageJobQ ----------------------------
(* Constants of the TLC runs of StorageJobQ.                                *)
EXTENDS StorageJobQ, TLC

CallSymmetry == Permutations(Calls)

(* A receipt is only ever compared with the one the service accepts, and    *)
(* one that is refused stays refused: two states that differ in the names   *)
(* of the receipts, but not in which ones are valid, behave alike.          *)
ValidityView ==
  << [m \in Messages |-> <<queue[m].place, queue[m].retries>>],
     call,
     [c \in Calls |-> [env[c] EXCEPT !.rcpt  = env[c].msg # NoMessage /\ HoldsValid(c),
                                     !.reply = env[c].msg # NoMessage /\ Valid(env[c].msg, env[c].reply)]],
     dlq, history >>
==============================================================================
