----------------------------- MODULE MCP2PSwitch ----------------------------
(* Small instances of P2PSwitch for TLC. *)
EXTENDS P2PSwitch, TLC

CONSTANTS a, b, c, x, y, z

TwoHomes   == (a :> x) @@ (b :> y)
ThreeHomes == (a :> x) @@ (b :> y) @@ (c :> z)

(* Hosts change places, and their addresses with them. *)
HostAt(v) == CHOOSE h \in {a, b, c} : ThreeHomes[h] = v
Moving(p) == [v \in {a, b, c, x, y, z} |->
                IF v \in {a, b, c} THEN p[v] ELSE ThreeHomes[p[HostAt(v)]]]

SymmetryAll == {Moving(p) : p \in Permutations({a, b, c})}
SymmetryAB  == {Moving(p) : p \in {q \in Permutations({a, b, c}) : q[c] = c}}

=============================================================================
