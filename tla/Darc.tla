-------------------------------- MODULE Darc --------------------------------
(***************************************************************************)
(* Access control (core/access/darc): a permission maps a rule to an       *)
(* expression, the list of the groups of identities that may use it, and   *)
(* is stored in the ledger in an encoded form (core/access/darc/json).     *)
(*                                                                         *)
(* A permission is a function from rules to sequences of groups, a group   *)
(* is a sequence of identities without repetition.                         *)
(***************************************************************************)
EXTENDS Integers, Sequences, SequencesExt

(* NewIdentitySet: the group without duplicates, in order.                 *)
NewIdentitySet(idents) ==
    FoldLeft(LAMBDA set, i : IF Contains(set, i) THEN set ELSE Append(set, i), << >>, idents)

(* IsSuperset of the set to the set o.                                     *)
IsSuperset(set, o) == Len(set) >= Len(o) /\ \A i \in DOMAIN o : Contains(set, o[i])

(* Expression.Allow: nothing to do if a group that is there contains it.   *)
AllowExpr(matches, group) ==
    LET iset == NewIdentitySet(group)
    IN  IF iset = << >> \/ \E i \in DOMAIN matches : IsSuperset(matches[i], iset)
        THEN matches
        ELSE Append(matches, iset)

(* Variant: one identity of a group is enough.                             *)
MatchExprAny(matches, group) ==
    \E i \in DOMAIN matches : \E j \in DOMAIN matches[i] : Contains(group, matches[i][j])

(* Expression.Match: the identities cover one of the groups.               *)
MatchExpr(matches, group) ==
    \E i \in DOMAIN matches : IsSuperset(NewIdentitySet(group), matches[i])

NewPermission == [rule \in {} |-> << >>]

(* DisjunctivePermission.Allow.                                            *)
Allow(perm, rule, group) ==
    LET expr == IF rule \in DOMAIN perm THEN perm[rule] ELSE << >>
    IN  [r \in DOMAIN perm \cup {rule} |->
            IF r = rule THEN AllowExpr(expr, group) ELSE perm[r]]

(* DisjunctivePermission.Match.                                            *)
MatchRule(perm, rule, group) ==
    group # << >> /\ rule \in DOMAIN perm /\ MatchExpr(perm[rule], group)
-----------------------------------------------------------------------------
(* encodeExpression: each identity once, in the order they are met, and    *)
(* the groups as indices in that list (from zero).                         *)
encodeExpression(matches) ==
    LET idents == NewIdentitySet(FlattenSeq(matches))
    IN  [identities |-> idents,
         matches |-> [i \in DOMAIN matches |->
                        [j \in DOMAIN matches[i] |->
                            SelectInSeq(idents, LAMBDA x : x = matches[i][j]) - 1]]]

decodeExpr(m) ==
    [i \in DOMAIN m.matches |->
        [j \in DOMAIN m.matches[i] |-> m.identities[m.matches[i][j] + 1]]]

Encode(perm) == [rule \in DOMAIN perm |-> encodeExpression(perm[rule])]
Decode(data) == [rule \in DOMAIN data |-> decodeExpr(data[rule])]
=============================================================================
