---------------------------- MODULE MCFileTools ----------------------------
(* Two processes, two names here and one there. *)
EXTENDS FileTools

CONSTANTS p1, p2

HereF == <<"here", "f", "">>
HereG == <<"here", "g", "">>
ThereF == <<"there", "f", "">>
Three == {HereF, HereG, ThereF}
SomePairs == {<<HereF, HereF>>, <<HereF, HereG>>, <<HereG, HereF>>,
              <<HereF, ThereF>>, <<ThereF, HereF>>, <<ThereF, ThereF>>}
Tight == [d \in Dir |-> IF d = "here" THEN 6 ELSE 3]
With(tool, choices) == {[tool |-> tool, flags |-> fs] : fs \in choices}
All == With("cp", {{}, {"f"}, {"i", "V"}}) \cup With("mv", {{}, {"n"}, {"b", "i"}}) \cup With("ln", {{}, {"f"}})
       \cup With("org", {{}}) \cup With("rmd", {{}}) \cup With("krypt", {{}, {"s"}})
Symmetric == Permutations(Proc)
=============================================================================
