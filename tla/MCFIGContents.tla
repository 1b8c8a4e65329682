---------------------------- MODULE MCFIGContents ----------------------------
(* Lists for FIGContents: entries as small as they come and as large as fit. *)
EXTENDS FIGContents

Elements(p, k, a, n) == [programme : p, packet : k, alt : a, n : n]
B == BOOLEAN
T == {TRUE}
F == {FALSE}

MCKinds(f) ==
    CASE f = "0/1"  -> Elements(T, F, B, {1})
      [] f = "0/2"  -> Elements(B, F, F, {1, 11})
      [] f \in {"0/8", "0/8 programme", "0/8 data"} -> Elements(B, B, F, {1})
      [] f \in {"0/3", "0/14"} -> Elements(T, B, F, {1})
      [] f = "0/9"  -> Elements(T, F, F, {0, 25})
      [] f = "0/13" -> Elements(T, B, F, {1, 5})
      [] f = "0/18" -> Elements(T, F, F, {1, 23})
      [] f = "0/20" -> Elements(B, F, F, {0, 5})
      [] f = "0/21" -> Elements(T, B, B, {1, 8}) \union Elements(F, F, B, {1, 8})
      [] f = "0/24" -> Elements(T, F, F, {1, 12}) \union Elements(F, F, F, {1, 11}) \union Elements(B, F, T, {1})
      [] f \in {"1/4", "1/5"} -> Elements(B, F, F, {1})
      [] f = "2/0"  -> Elements(T, F, F, {1, 2})
      [] f \in {"2/1", "2/4", "2/5"} -> Elements(B, F, B, {1, 2})
      [] OTHER -> Elements(T, F, F, {1})

\* Three entries show every pattern of sent, passed over and cut; the lists with
\* many kinds of entries stop at two.
MCMaxItems(f) == IF f \in {"0/21", "2/1", "2/4", "2/5"} THEN 2 ELSE 3
=============================================================================
