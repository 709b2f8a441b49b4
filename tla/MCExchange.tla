------------------------------ MODULE MCExchange -------------------------------
(* A seeder that may change its source, a relay and a peer for Exchange.  The  *)
(* sources A and C have the same file list and other bytes.                    *)
EXTENDS Exchange, TLC

CONSTANTS s, r, p, A, B, C, x, y, z

MCHosts == {s, r, p}
MCListing == (A :> <<x, y>>) @@ (B :> <<z, y>>) @@ (C :> <<x, y>>)
Line(src, dst, count, verify) ==
    [src |-> src, dst |-> dst, major |-> 1, size |-> 2, count |-> count, verify |-> verify]
MCConfigs ==
    (s :> {Line(A, FALSE, 1, FALSE), Line(B, FALSE, 0, FALSE)}) @@
    (r :> {Line(NoTree, TRUE, 1, FALSE), Line(C, TRUE, 1, FALSE)}) @@
    (p :> {Line(NoTree, TRUE, 1, TRUE)})
MCMaxStarts == (s :> 2) @@ (r :> 1) @@ (p :> 1)
================================================================================
