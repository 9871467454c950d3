------------------------------- MODULE ByteFile -------------------------------
(***************************************************************************)
(* What a file promises: a sequence of bytes, written and truncated in one  *)
(* step, of which a crash may lose the operations that were not yet         *)
(* durable.  Once a truncate was torn, by a crash or a refused batch, the   *)
(* bytes a file gains by growing are no longer known to be zeros.           *)
(***************************************************************************)
EXTENDS Integers, Sequences

CONSTANTS MaxSize, Bytes

VARIABLES bytes, durable, torn

vars == <<bytes, durable, torn>>

Init == bytes = <<>> /\ durable = <<>> /\ torn = FALSE

\* The first `kept` bytes stay, except at the positions `at`.
Becomes(len, at) ==
    /\ Len(bytes') = len
    /\ \A i \in (1 .. len) \ at :
          IF i <= Len(bytes) THEN bytes'[i] = bytes[i] ELSE torn \/ bytes'[i] = 0
    /\ UNCHANGED <<durable, torn>>

Write(off, n, b) ==
    /\ Becomes(IF off + n > Len(bytes) THEN off + n ELSE Len(bytes), off + 1 .. off + n)
    /\ \A i \in off + 1 .. off + n : bytes'[i] = b

Truncate(n) == Becomes(n, {})
Tear == torn' = TRUE /\ UNCHANGED <<bytes, durable>>

Flush == durable' = bytes /\ UNCHANGED <<bytes, torn>>
Crash == bytes' = durable /\ torn' \in {torn, TRUE} /\ UNCHANGED durable

Next ==
  /\ vars' # vars
  /\ \/ \E off \in 0 .. MaxSize - 1 : \E n \in 1 .. MaxSize - off : \E b \in Bytes : Write(off, n, b)
     \/ \E n \in 0 .. MaxSize : Truncate(n)
     \/ Tear \/ Flush \/ Crash

Spec == Init /\ [][Next]_vars
===============================================================================
