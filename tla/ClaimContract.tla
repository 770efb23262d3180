---------------------------- MODULE ClaimContract ----------------------------
(***************************************************************************)
(* What claims, proofs and settlement together promise the supplier and    *)
(* the application, with no windows, params epochs, candidate scans,       *)
(* statuses or samples in it.                                              *)
(*                                                                         *)
(* A claim is a contract: from the block it is made in, its deadline and   *)
(* the price of its root are fixed.  Until the deadline it may be replaced *)
(* and proven; in the block of its deadline it is closed, once and for     *)
(* all.  It expires, at the supplier's expense, only if its root was not   *)
(* the last one proven; it is paid at its price, and without that proof    *)
(* only below the threshold.  ClaimLifecycle implements this.              *)
(***************************************************************************)
EXTENDS Naturals, Functions

CONSTANT ProofThreshold    \* the price from which a proof is always required

VARIABLES
    now,      \* the height of the block being made
    open,     \* claim key -> root, price, deadline, and the last root proven if any
    closed    \* claim key -> result, root and price of a closed claim

contractVars == <<now, open, closed>>

CCInit ==
    /\ now \in Nat
    /\ open = [k \in {} |-> 0]
    /\ closed = [k \in {} |-> 0]

(* A claim is made or replaced, at any price, with a deadline not yet      *)
(* past; replacing it moves no deadline and forgets no proof.              *)
Claims(k, was, is) ==
    /\ k \notin DOMAIN closed
    /\ is[k].deadline >= now
    /\ IF k \in DOMAIN was
       THEN /\ is[k].deadline = was[k].deadline
            /\ is[k].proven = was[k].proven
            /\ is[k].root = was[k].root => is[k].price = was[k].price
       ELSE is[k].proven = {}

Proves(k, was, is) ==
    /\ k \in DOMAIN was
    /\ \E root \in is[k].proven : is[k] = [was[k] EXCEPT !.proven = {root}]

(* One claim is made, replaced or proven: was and is are the open claims   *)
(* before and after.                                                       *)
ClaimOrProve ==
    /\ UNCHANGED now
    /\ \E was \in {open}, is \in {open'} :
          /\ DOMAIN was \subseteq DOMAIN is
          /\ \E k \in DOMAIN is :
                /\ \A j \in DOMAIN is \ {k} : j \in DOMAIN was /\ is[j] = was[j]
                /\ Claims(k, was, is) \/ Proves(k, was, is)
    /\ UNCHANGED closed

Verdicts(c) ==
    {"discarded"}
      \cup {v \in {"expired"} : c.root \notin c.proven}
      \cup {v \in {"settled"} : c.price >= ProofThreshold => c.root \in c.proven}

(* The end of a block closes the claims whose deadline it is, and no       *)
(* other.                                                                  *)
Close ==
    /\ now' = now + 1
    /\ \E was \in {open} :
          \E due \in {{k \in DOMAIN was : was[k].deadline = now}} :
             /\ open' = Restrict(was, DOMAIN was \ due)
             /\ DOMAIN closed' = DOMAIN closed \cup due
             /\ Restrict(closed', DOMAIN closed) = closed
             /\ \A k \in due :
                   /\ closed'[k].result \in Verdicts(was[k])
                   /\ closed'[k].root = was[k].root
                   /\ closed'[k].price = was[k].price

CCNext == ClaimOrProve \/ Close

CCSpec == CCInit /\ [][CCNext]_contractVars
=============================================================================
