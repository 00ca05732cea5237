------------------------------ MODULE MCPayments ------------------------------
(* Small instances of Payments.                                             *)
EXTENDS Payments, TLC

(* Ids and handlers of each kind are interchangeable.                       *)
MCSymmetry == Permutations(Intent) \cup Permutations(PayRequest)
                \cup Permutations(Hook) \cup Permutations(Call)
                \cup Permutations(Writer)

=============================================================================
