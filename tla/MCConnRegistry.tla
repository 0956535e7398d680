--------------------------- MODULE MCConnRegistry ---------------------------
(***************************************************************************)
(* Small instances of ConnRegistry for TLC.                                *)
(***************************************************************************)
EXTENDS ConnRegistry, TLC

CONSTANTS r1, r2   \* two settings of LimitedReader

Unlimited == {[OneIpMaxConn |-> 0, LimitedReader |-> r1]}
TwoConfs == {[OneIpMaxConn |-> 1, LimitedReader |-> r1],
             [OneIpMaxConn |-> 2, LimitedReader |-> r2]}

(* The fields of a connContext nobody points to are garbage that Insert    *)
(* overwrites: states that differ only there are the same.                 *)
LiveState ==
    <<connVars, lock, ipCount, userCtxMap, confVars, closeVars, victims, stopped,
      [x \in Referenced \ {nil} |-> <<refs[x], cancelled[x], param[x]>>]>>

Symmetry == Permutations(Conns) \cup Permutations(Closers)
=============================================================================
