---------------------------- MODULE CommissionSplit ----------------------------
(***************************************************************************)
(* The commission arithmetic of aisl-proxy/src/lib/money.ts: integer cents *)
(* and basis points, fees truncated toward zero.  Numbers are exact, as    *)
(* those of the code are while amount * bps is a safe integer.             *)
(***************************************************************************)
EXTENDS Integers

Bps == 0..10000

\* Math.trunc((amount * bps) / 10000): toward zero on either side of it.
applyBps(amount, bps) == IF amount >= 0 THEN (amount * bps) \div 10000
                                        ELSE -((-amount * bps) \div 10000)

\* computeCommissionSplit; a cut above the rate is refused there.
Split(gross, rate, cut) ==
  [gross         |-> gross,
   commission    |-> applyBps(gross, rate),
   aislFee       |-> applyBps(gross, cut),
   agentPayout   |-> applyBps(gross, rate) - applyBps(gross, cut),
   merchantNet   |-> gross - applyBps(gross, rate)]

\* negateSplit: the split of a reversal.
negateSplit(s) == [f \in DOMAIN s |-> -s[f]]

===============================================================================
