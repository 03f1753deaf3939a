------------------------------ MODULE BatchSink ------------------------------
(***************************************************************************)
(* What a flush queue promises its callers, without locks, tickers or      *)
(* threads: elements are accepted one at a time, and now and then          *)
(* everything that is pending is settled at once, in the order of          *)
(* acceptance, each element exactly once.  A settled element has a fate:   *)
(* the flush function it was handed to, or NoFunc when it was discarded.   *)
(*                                                                         *)
(* A sink that is open (it has a flush function) hands over; only a closed *)
(* sink discards.  Closing is the promise of StopFlushThread: it happens   *)
(* only when nothing is pending.                                           *)
(***************************************************************************)
EXTENDS Naturals, Sequences

CONSTANTS Elem,      \* the values callers add
          FlushFunc, \* the flush functions callers register
          NoFunc     \* the nil function

VARIABLES accepted,  \* every element accepted so far, in order
          settled,   \* every element handed over or discarded, in order
          fate,      \* fate[i]: who received settled[i]
          func       \* the registered flush function, or NoFunc

vars == <<accepted, settled, fate, func>>

Init ==
  /\ accepted = <<>>
  /\ settled = <<>>
  /\ fate = <<>>
  /\ func = NoFunc

\* Everything in s beyond what is settled goes to the registered function.
SettleUpTo(s) ==
  /\ settled' = s
  /\ fate' = fate \o [i \in 1 .. Len(s) - Len(settled) |-> func]

Accept(e) ==
  /\ accepted' = Append(accepted, e)
  /\ UNCHANGED <<settled, fate, func>>

AcceptAndSettle(e) ==
  /\ accepted' = Append(accepted, e)
  /\ SettleUpTo(Append(accepted, e))
  /\ UNCHANGED func

Settle ==
  /\ SettleUpTo(accepted)
  /\ UNCHANGED <<accepted, func>>

Open(g) ==
  /\ func' = g
  /\ UNCHANGED <<accepted, settled, fate>>

Close ==
  /\ settled = accepted
  /\ func' = NoFunc
  /\ UNCHANGED <<accepted, settled, fate>>

Next ==
  \/ \E e \in Elem : Accept(e) \/ AcceptAndSettle(e)
  \/ Settle
  \/ \E g \in FlushFunc : Open(g)
  \/ Close

Spec == Init /\ [][Next]_vars
=============================================================================
