---- MODULE MCStagingCli ----
(* Three file names for two chunks: "0,0", its other spelling "00,0", and   *)
(* "1,0".                                                                    *)
EXTENDS StagingCli, TLC

MCNames == {"0,0", "00,0", "1,0"}
MCCoordOf == [n \in MCNames |-> IF n = "1,0" THEN <<1, 0>> ELSE <<0, 0>>]
MCCoords == {<<0, 0>>, <<1, 0>>}
Symmetry == Permutations(Inits) \union Permutations(Clis) \union Permutations(Payloads)
====
