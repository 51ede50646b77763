----------------------------- MODULE MCAiSources -----------------------------
(* Instances of AiSources for TLC: one request for a file, one for a link.   *)
EXTENDS AiSources
CONSTANTS w1, w2, file, link, u1, u2
MCKind == [r \in Requests |-> IF r = file THEN "FILE" ELSE "LINK"]
=============================================================================
