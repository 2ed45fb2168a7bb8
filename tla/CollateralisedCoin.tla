------------------------- MODULE CollateralisedCoin -------------------------
(***************************************************************************)
(* What x/reward promises of its stable coin, without accounts, stores or  *)
(* messages: coins are issued only against certificates, certificates are  *)
(* handed out only against coins, and the one exception (a certificate     *)
(* released without coins) is counted.                                     *)
(***************************************************************************)
EXTENDS Integers

CONSTANT OneREC  \* coins one certificate backs

VARIABLES
    issued,   \* coins counted as issued
    recs,     \* certificates held as collateral
    released  \* certificates given up without coins in return

absVars == <<issued, recs, released>>

Init == issued = 0 /\ recs = 0 /\ released = 0

(* Certificates are added. *)
Pledge ==
    /\ recs' \in Nat
    /\ recs' > recs
    /\ UNCHANGED <<issued, released>>

(* Coins are issued, up to what the certificates cover. *)
Issue ==
    /\ issued' \in Nat
    /\ issued' > issued
    /\ issued' <= recs * OneREC
    /\ UNCHANGED <<recs, released>>

(* Coins are taken back; certificates leave at most at the rate of OneREC, or
   together with the last coin. *)
Redeem ==
    /\ issued' \in 0 .. issued
    /\ recs' \in 0 .. recs
    /\ issued' = 0 \/ (recs - recs') * OneREC <= issued - issued'
    /\ UNCHANGED released

(* Certificates leave without coins. *)
Release ==
    /\ recs' \in 0 .. recs
    /\ released' = released + (recs - recs')
    /\ UNCHANGED issued

Next == Pledge \/ Issue \/ Redeem \/ Release

Spec == Init /\ [][Next]_absVars

\* No coin without cover, except for what was released.
Covered == issued <= (recs + released) * OneREC
=============================================================================
