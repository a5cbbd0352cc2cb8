---------------------------- MODULE MCInterrupts ----------------------------
(* Instances of Interrupts for TLC: the configurations give the constants  *)
(* their values.                                                           *)
EXTENDS Interrupts

(* A period and the timer switched off.                                    *)
OnePeriod == {0, 1}

(* Notifications of both levels, or of one.                                *)
BothLevels   == {CALLBACK, NOTIFY}
CallbackOnly == {CALLBACK}
=============================================================================
