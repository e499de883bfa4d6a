-------------------------- MODULE MCRazorpayWebhook --------------------------
(* Model values for RazorpayWebhook: one user pays 199 paise under one key (one *)
(* credit) and 350 under the other (three): a fraction of a credit is dropped.  *)
EXTENDS RazorpayWebhook

CONSTANTS k1, k2, u1

MCBody == [k \in Key |-> [user |-> u1, amount |-> IF k = k1 THEN 199 ELSE 350]]

\* One event per outcome: applied (paid and failed), amount_mismatch, ignored type.
\* A second capture or a failure after it gives ignored_transition, an undone
\* order unknown_order.
MCPayload ==
  [kind : {"paid"}, order : OrderId, matches : {TRUE}]
    \cup {[kind |-> "paid", order |-> 1, matches |-> FALSE],
         [kind |-> "failed", order |-> 1, matches |-> TRUE],
         [kind |-> "ignored", order |-> 1, matches |-> TRUE]}
=============================================================================
