----------------------------- MODULE OrderLedger -----------------------------
(***************************************************************************)
(* What order intake promises, without its concurrency: the order book is  *)
(* a ledger.  A row enters it once, whole, under an idempotency key nobody *)
(* has used, carries the next free number of its day, and is never changed *)
(* or removed by intake.                                                   *)
(***************************************************************************)
EXTENDS Naturals, FiniteSets

CONSTANTS Dealers, Keys, Days, PriceLists

VARIABLE ledger

(* The orders of book whose number carries the date day. *)
OfDay(book, day) == {o \in book : o.day = day}

NextNumber(book, day) == Cardinality(OfDay(book, day)) + 1

Place(d, k, day, p) ==
  /\ \A o \in ledger : o.key # k
  /\ ledger' = ledger \cup
       {[dealer |-> d, key |-> k, day |-> day,
         number |-> NextNumber(ledger, day), prices |-> p]}

Init == ledger = {}

Next == \E d \in Dealers, k \in Keys, day \in Days, p \in PriceLists :
          Place(d, k, day, p)

Spec == Init /\ [][Next]_ledger
==============================================================================
