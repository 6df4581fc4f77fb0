---------------------------- MODULE MCBackpressure ----------------------------
(* Model values for Backpressure: run() and two resend loops.                *)
EXTENDS Backpressure

CONSTANTS run, resend1, resend2

ThreeLoops == {run, resend1, resend2}
=============================================================================
