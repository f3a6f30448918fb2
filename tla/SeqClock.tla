------------------------------ MODULE SeqClock ------------------------------
(***************************************************************************)
(* The hybrid logical clock that stamps writes with `_seq`, SeqClock of    *)
(* crates/rsearch-ingest/src/pipeline.rs, as operators on its `last`.      *)
(*                                                                         *)
(* A stamp is a slot (microseconds) and a node's salt: slot * Radix + salt *)
(* is the code's (slot << SEQ_SALT_BITS) | salt.  Both `observe` and       *)
(* `next` are one atomic update of `last`, which starts at 0 and only      *)
(* grows, so it is never negative.                                         *)
(***************************************************************************)
EXTENDS Integers

CONSTANTS
    Radix,  \* 2^SEQ_SALT_BITS
    Slots   \* slots of the i64 range: (i64::MAX >> SEQ_SALT_BITS) + 1

ASSUME ClockAssumption == Radix \in Nat \ {0} /\ Slots \in Nat \ {0}

Salts    == 0 .. Radix - 1
MaxStamp == Radix * Slots - 1   \* i64::MAX
Stamps   == 0 .. MaxStamp

Pack(slot, salt) == slot * Radix + salt

Larger(a, b) == IF a >= b THEN a ELSE b

\* observe: last.fetch_max(seen)
Observe(last, seen) == Larger(last, seen)

\* stamp_after: the salt in the slot after the one of `last`.
StampAfter(salt, last) ==
    IF last \div Radix + 1 >= Slots THEN MaxStamp ELSE Pack(last \div Radix + 1, salt)

\* The wall clock's stamp; the clock may read anything.
Now(salt, micros) ==
    Pack(IF micros < 0 THEN 0 ELSE IF micros >= Slots THEN Slots - 1 ELSE micros, salt)

\* next: the stamp, and the new `last`.
NextStamp(salt, last, micros) == Larger(Now(salt, micros), StampAfter(salt, last))
=============================================================================
