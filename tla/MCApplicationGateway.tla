------------------------ MODULE MCApplicationGateway ------------------------
EXTENDS ApplicationGateway, TLC

CONSTANTS r1, r2, lagos, tokyo

MCPlace == r1 :> lagos @@ r2 :> tokyo

(* The first Miner's horizon opens later than the second's.                *)
MCOpens == <<1, 0>>

Symmetry == Permutations(Handlers)
=============================================================================
