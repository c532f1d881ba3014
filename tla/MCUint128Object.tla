-------------------------- MODULE MCUint128Object --------------------------
(* Uint128Object for TLC: operands, and a variable in a build of either kind. *)
EXTENDS Uint128Object

Edges(top) == {0, 1, (top \div 2) - 1, top \div 2, top - 1}

\* Operands whose limbs are at the edges of a limb, where carries start and end.
MCOperands == {make_uint128(h, l) : h, l \in Edges(Base)}

MCSignedInts == (-(Base \div 2))..((Base \div 2) - 1)
=============================================================================
