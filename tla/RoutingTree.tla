----------------------------- MODULE RoutingTree -----------------------------
(***************************************************************************)
(* The routing table of a node of a stream (mino/router/tree): the first   *)
(* level of branches with their unstructured children, which is built when *)
(* routes are asked for and adapted when a branch fails.                   *)
(*                                                                         *)
(* The maps of the code are iterated in any order, so the operations that  *)
(* pick addresses give the set of their possible outcomes.                 *)
(***************************************************************************)
EXTENDS Integers, FiniteSets, FiniteSetsExt, Functions

CONSTANT MinNumChildren    \* minNumChildren (5 in the code)

ASSUME RoutingAssumption == MinNumChildren \in Nat \ {0}

Parent == "parent"         \* the nil route: towards the orchestrator
Void == "void"             \* no route: the address is unreachable

(* The integer part of the root of order h of n.                           *)
RootOf(n, h) == IF h < 1 THEN 0 ELSE CHOOSE k \in 0..n : k^h =< n /\ (k + 1)^h > n

(* NewTree: an empty tree of maximum depth h that routes addrs.            *)
NewTree(h, addrs) ==
    [height   |-> h,
     m        |-> LET k == RootOf(Cardinality(addrs), h)
                  IN  IF k > MinNumChildren THEN k ELSE MinNumChildren,
     branches |-> [b \in {} |-> {}],
     expected |-> addrs,
     offline  |-> {}]

(* The children of a new branch when e addresses wait for remain branches: *)
(* the quotient is rounded up, and may be negative.                        *)
NumChildren(e, remain) == (e - remain + 1 + remain - 1) \div remain

(* updateTree: to becomes a branch with some of the waiting addresses.     *)
updateTree(t, to) ==
    LET waiting == t.expected \ {to}
        num     == NumChildren(Cardinality(waiting), t.m - Cardinality(DOMAIN t.branches))
        size    == IF num < 0 THEN 0 ELSE IF num > Cardinality(waiting)
                   THEN Cardinality(waiting) ELSE num
    IN  {[t EXCEPT !.expected = waiting \ set,
                   !.branches = [b \in DOMAIN t.branches \cup {to} |->
                                   IF b = to THEN set ELSE t.branches[b]]] :
         set \in kSubset(size, waiting)}

(* Branches.Search: the direct branch that leads to an address.            *)
Gateways(t, to) == {b \in DOMAIN t.branches : b = to \/ to \in t.branches[b]}

(* GetRoute: the gateway of an address, and the tree afterwards.           *)
GetRoute(t, to) ==
    IF to \in t.offline THEN {[gateway |-> Void, tree |-> t]}
    ELSE IF Gateways(t, to) # {} THEN {[gateway |-> b, tree |-> t] : b \in Gateways(t, to)}
    ELSE IF to \in t.expected THEN {[gateway |-> to, tree |-> u] : u \in updateTree(t, to)}
    ELSE {[gateway |-> Parent, tree |-> t]}

(* Variant: the child that takes the place remains a child as well.        *)
PromotedAlso(children, p) == children

(* The children that remain below the one that takes the place.            *)
Promoted(children, p) == children \ {p}

(* Remove of the code: the address is unreachable, and a random child      *)
(* takes its place when it is a branch.                                    *)
RemoveAddr(t, addr) ==
    LET known == addr \in t.expected \/ Gateways(t, addr) # {}
        off   == IF known THEN [t EXCEPT !.offline = @ \cup {addr}] ELSE t
        rest  == DOMAIN t.branches \ {addr}
    IN  IF addr \notin DOMAIN t.branches THEN {off}
        ELSE IF t.branches[addr] = {} THEN {[off EXCEPT !.branches = Restrict(@, rest)]}
        ELSE {[off EXCEPT !.branches = [b \in rest \cup {p} |->
                 IF b = p THEN Promoted(t.branches[addr], p) ELSE t.branches[b]]] :
              p \in t.branches[addr]}

(* PrepareHandshakeFor and GenerateTableFrom: the table of the branch to.  *)
TableFor(t, to) ==
    NewTree(t.height - 1, IF to \in DOMAIN t.branches THEN t.branches[to] ELSE {})

(* OnFailure: at the last level there is no other route, which is an error *)
(* (the empty set), otherwise the tree adapts itself.                      *)
OnFailure(t, to) == IF t.height =< 1 THEN {} ELSE RemoveAddr(t, to)
=============================================================================
