------------------------------ MODULE RowOrder ------------------------------
(***************************************************************************)
(* The order in which the control plane's lists come back. The queries     *)
(* select "id::text" and order by "id": in ORDER BY a bare name means the  *)
(* output column if there is one, so the rows come in the order of the     *)
(* decimal texts of their ids, in which 10 is before 9.                    *)
(***************************************************************************)
EXTENDS Naturals

\* The number of decimal digits of a positive number of at most 19, as many as a
\* bigserial has.
Digits(n) == CHOOSE d \in 1..19 : n < 10 ^ d /\ (d = 1 \/ 10 ^ (d - 1) <= n)

\* The text of m is before the text of n, or the same.
TextAtMost(m, n) ==
    IF Digits(m) = Digits(n) THEN m <= n
    ELSE IF Digits(m) < Digits(n) THEN m * 10 ^ (Digits(n) - Digits(m)) <= n
    ELSE m < n * 10 ^ (Digits(m) - Digits(n))

=============================================================================
