-------------------------------- MODULE MCSolis --------------------------------
EXTENDS Solis, TLC

CONSTANTS s1, s2

\* The two stars are alike.
StarSymmetry == Permutations({s1, s2})

\* The two stars in either order.
MCMemberLists == {<<s1, s2>>, <<s2, s1>>}

\* A star as the formula gives it, and one whose declared collapse the formula does not give.
MCGiven == {[entropy |-> 1, collapse |-> 1], [entropy |-> 0, collapse |-> 3]}
===============================================================================
