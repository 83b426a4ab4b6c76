----------------------------- MODULE Contracts -----------------------------
(***************************************************************************)
(* The execution of transactions: the native service and its contracts     *)
(* (core/execution/native, contracts/value, contracts/access) on a staged  *)
(* prefix tree, under the permissions of core/access/darc and behind the   *)
(* keys of core/store/prefixed, with the validation that counts the        *)
(* transactions of an identity (core/validation/simple).                   *)
(*                                                                         *)
(* A snapshot is a staged tree with the bucket below it. An argument that  *)
(* is missing or malformed is Missing (a group: empty).                    *)
(***************************************************************************)
EXTENDS PrefixTree, Darc

CONSTANTS
    Ident,       \* identities that sign transactions
    Name,        \* keys of the value contract
    NewPrefixedKey    \* the 256 bits of a prefix and a key: <<prefix, key>>

(* Distinct keys: SHA-256 has no collision.                                *)
ASSUME KeyAssumption ==
    \A x, y \in DOMAIN NewPrefixedKey :
        /\ NewPrefixedKey[x] \in [1 .. KeyLen -> {0, 1}]
        /\ x # y => NewPrefixedKey[x] # NewPrefixedKey[y]

NonceKey(ident) == NewPrefixedKey[<<"nonce", ident>>]
PermKey(id) == NewPrefixedKey[<<"DARC", id>>]
ValueKey(name) == NewPrefixedKey[<<"VALU", name>>]

ValueCreds == [id |-> "VALU", rule |-> "Value:all"]
AccessCreds == [id |-> "DARC", rule |-> "Access:all"]

Missing == ""
NoCreds == [id |-> Missing, rule |-> Missing]

(* Search also changes the tree: it keeps what it loads.                   *)
Get(snap, key) ==
    LET s == Search(snap.root, key, snap.disk)
    IN  [snap |-> [snap EXCEPT !.root = s.node], value |-> s.value]
Set(snap, key, value) == [snap EXCEPT !.root = Insert(@, key, value, snap.disk)]
Del(snap, key) == [snap EXCEPT !.root = Delete(@, key, snap.disk)]
-----------------------------------------------------------------------------
(* Service.Match and Grant of darc. A value of the tree is tagged.         *)
PermOf(value) == IF value = Nil THEN NewPermission ELSE Decode(value[2])

Match(value, cred, ident) ==
    /\ value \notin {Nil, FailedValue}
    /\ MatchRule(PermOf(value), cred.rule, <<ident>>)

Granted(value, cred, group) == <<"perm", Encode(Allow(PermOf(value), cred.rule, group))>>

Grant(snap, cred, group) ==
    LET Update(perm) == Set(perm.snap, PermKey(cred.id), Granted(perm.value, cred, group))
    IN  Update(Get(snap, PermKey(cred.id)))
-----------------------------------------------------------------------------
(* What the execution of a transaction leaves: the snapshot, the index of  *)
(* the value contract and whether the transaction is accepted.             *)
Outcome(snap, index, ok) == [snap |-> snap, index |-> index, ok |-> ok]

(* Variant: a key that is not in the index cannot be deleted.              *)
ExecuteValueIndexed(snap, index, tx) ==
    LET key == ValueKey(tx.key)
        Run(perm) ==
            CASE ~ Match(perm.value, ValueCreds, tx.from) -> Outcome(perm.snap, index, FALSE)
              [] tx.cmd = "DELETE" /\ tx.key \in index ->
                    Outcome(Del(perm.snap, key), index \ {tx.key}, TRUE)
              [] tx.cmd = "WRITE" /\ tx.key # Missing /\ tx.value # Missing ->
                    Outcome(Set(perm.snap, key, <<"value", tx.value>>), index \cup {tx.key}, TRUE)
              [] OTHER -> Outcome(perm.snap, index, FALSE)
    IN  Run(Get(snap, PermKey(ValueCreds.id)))

(* Contract.Execute of contracts/value.                                    *)
ExecuteValue(snap, index, tx) ==
    LET key == ValueKey(tx.key)
        Listed(s) == FoldSet(LAMBDA k, acc : Get(acc, ValueKey(k)).snap, s, index)
        Run(perm) ==
            CASE ~ Match(perm.value, ValueCreds, tx.from) -> Outcome(perm.snap, index, FALSE)
              [] tx.cmd = "LIST" -> Outcome(Listed(perm.snap), index, TRUE)
              [] tx.cmd \notin {"WRITE", "READ", "DELETE"} \/ tx.key = Missing ->
                    Outcome(perm.snap, index, FALSE)
              [] tx.cmd = "READ" -> Outcome(Get(perm.snap, key).snap, index, TRUE)
              [] tx.cmd = "DELETE" -> Outcome(Del(perm.snap, key), index \ {tx.key}, TRUE)
              [] tx.value = Missing -> Outcome(perm.snap, index, FALSE)
              [] OTHER -> Outcome(Set(perm.snap, key, <<"value", tx.value>>),
                                  index \cup {tx.key}, TRUE)
    IN  Run(Get(snap, PermKey(ValueCreds.id)))

(* Contract.Execute of contracts/access: the right to grant is read in the *)
(* file of the participant, not in the snapshot.                           *)
ExecuteAccess(snap, index, jstore, tx) ==
    LET ok == /\ Match(jstore, AccessCreds, tx.from)
              /\ tx.cmd = "GRANT" /\ tx.cred # NoCreds /\ tx.group # << >>
    IN  Outcome(IF ok THEN Grant(snap, tx.cred, tx.group) ELSE snap, index, ok)

(* Service.Execute: a contract that does not exist refuses as well.        *)
Execute(snap, index, jstore, tx) ==
    CASE tx.contract = "Value" -> ExecuteValue(snap, index, tx)
      [] tx.contract = "Access" -> ExecuteAccess(snap, index, jstore, tx)
      [] OTHER -> Outcome(snap, index, FALSE)
-----------------------------------------------------------------------------
(* GetNonce: one more than what is stored.                                 *)
NonceOf(value) == IF value = Nil THEN 0 ELSE value[2] + 1

(* validateTx: a transaction out of order does nothing; otherwise its      *)
(* nonce is set, accepted or not.                                          *)
validateTx(acc, tx) ==
    LET After(done) ==
            [acc EXCEPT !.snap = Set(done.snap, NonceKey(tx.from), <<"nonce", tx.nonce>>),
                        !.index = done.index,
                        !.results = Append(@, IF done.ok THEN "accepted" ELSE "refused")]
        Run(nonce) ==
            IF NonceOf(nonce.value) # tx.nonce
            THEN [acc EXCEPT !.snap = nonce.snap, !.results = Append(@, "invalid")]
            ELSE After(Execute(nonce.snap, acc.index, acc.jstore, tx))
    IN  Run(Get(acc.snap, NonceKey(tx.from)))

(* Validate within Stage: a clone of the tree, the transactions one after  *)
(* the other, and the new root.                                            *)
Validate(tree, disk, index, jstore, txs) ==
    LET start == [snap |-> [root |-> Clone(tree), disk |-> disk],
                  index |-> index, jstore |-> jstore, results |-> << >>]
        Staged(end) ==
            [tree |-> CalculateRoot(end.snap.root), index |-> end.index, results |-> end.results]
    IN  Staged(FoldLeft(validateTx, start, txs))
=============================================================================
