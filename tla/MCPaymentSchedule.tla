--------------------------- MODULE MCPaymentSchedule ---------------------------
(* Values for the constants of PaymentSchedule: totals that the payment     *)
(* divides with and without a rest, into like and unlike installments, and  *)
(* one too small for a single installment.                                  *)
EXTENDS PaymentSchedule

CONSTANT m1
MCNoKeys == {}
MCMethods == {m1}
MCNoMethod == {}
MCAmounts == 1..8
MCPlans == {<<5, 2>>, <<4, 2>>, <<7, 4>>, <<1, 4>>}
===============================================================================
