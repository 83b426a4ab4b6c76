----------------------------- MODULE Membership -----------------------------
(***************************************************************************)
(* The roster of the chain: the contract that replaces it                  *)
(* (contracts/viewchange), the change sets that the links of the blocks    *)
(* carry (authority/roster.go), and the verification of a chain that only  *)
(* knows the first roster and these change sets (types/chain.go).          *)
(*                                                                         *)
(* Blocks are stored in one order, as BlockLog promises.                   *)
(***************************************************************************)
EXTENDS Integers, FiniteSets, Sequences, SequencesExt, Functions

CONSTANTS
    Addr,        \* addresses
    Key,         \* public keys
    Start,       \* the roster of the genesis block
    Admin,       \* the participants whose operator uses "roster add"
    Others,      \* bound: what is submitted with viewchange.Manager otherwise
    MaxBatch,    \* bound: transactions of a block
    MaxBlocks    \* bound: blocks

Member == [addr : Addr, key : Key]
Addrs(r) == [i \in DOMAIN r |-> r[i].addr]

ASSUME RosterAssumption ==
    /\ Start \in Seq(Member) /\ Start # << >> /\ IsInjective(Addrs(Start))
    /\ MaxBatch \in Nat /\ MaxBlocks \in Nat

VARIABLES
    roster,     \* the roster in the tree of the last block
    links,      \* the change sets of the links
    pending,    \* transactions of the operators that are in no block
    rekeyed     \* history: the members whose key was replaced since they joined

vars == <<roster, links, pending, rekeyed>>

Tx == [by : Admin \cup {"client"}, roster : Seq(Member), granted : BOOLEAN]
ChangeSet == [remove : Seq(Nat), add : Seq(Member)]

TypeOK ==
    /\ roster \in Seq(Member)
    /\ links \in Seq(ChangeSet)
    /\ pending \in SUBSET Tx
    /\ \A p, q \in pending : p.by = q.by => p = q
    /\ rekeyed \subseteq Range(Addrs(roster))

Init ==
    /\ roster = Start
    /\ links = << >>
    /\ pending = {}
    /\ rekeyed = {}
-----------------------------------------------------------------------------
(* Roster.Diff: walks through r, matching it with a prefix of o; what does *)
(* not match is removed, what remains of o is added.  Only addresses are   *)
(* compared.                                                               *)
Diff(r, o) ==
    LET match(acc, i) ==
            IF acc.k < Len(o) /\ r[i].addr = o[acc.k + 1].addr
            THEN [acc EXCEPT !.k = @ + 1]
            ELSE [acc EXCEPT !.remove = Append(@, i - 1)]
        walk == FoldLeft(match, [k |-> 0, remove |-> << >>], [i \in DOMAIN r |-> i])
    IN  [remove |-> walk.remove, add |-> SubSeq(o, walk.k + 1, Len(o))]

(* Roster.Apply: the removals in the order of the list, each on what the   *)
(* earlier ones left, then the additions.                                  *)
Apply(r, c) ==
    LET without(s, i) == IF i < Len(s) THEN RemoveAt(s, i + 1) ELSE s
    IN  FoldLeft(without, r, c.remove) \o c.add

NumChanges(c) == Len(c.remove) + Len(c.add)

(* chain.Verify: the roster after the links, from the one of the genesis.  *)
VerifiedRoster == FoldLeft(Apply, Start, links)

(* Variant: two changes are tolerated.                                     *)
TooManyChangesLax(r, o) == NumChanges(Diff(r, o)) > 2

(* The tests of Contract.Execute on the current roster and the new one.    *)
TooManyChanges(r, o) == NumChanges(Diff(r, o)) > 1
Duplicate(r, o) == \E i \in DOMAIN Diff(r, o).add : Diff(r, o).add[i].addr \in Range(Addrs(r))

(* Variant: several changes of the roster in a block.                      *)
ExecuteAgain(acc, tx) ==
    IF tx.granted /\ ~ TooManyChanges(acc.roster, tx.roster) /\ ~ Duplicate(acc.roster, tx.roster)
    THEN [roster |-> tx.roster, changed |-> TRUE]
    ELSE acc

(* Contract.Execute, in the validation of a batch: acc.changed when a      *)
(* transaction of this contract was accepted before in the block.          *)
Execute(acc, tx) ==
    IF /\ ~ acc.changed
       /\ ~ TooManyChanges(acc.roster, tx.roster)
       /\ ~ Duplicate(acc.roster, tx.roster)
       /\ tx.granted
    THEN [roster |-> tx.roster, changed |-> TRUE]
    ELSE acc

ByzantineThreshold(n) == IF n = 0 THEN 0 ELSE n - (n - 1) \div 3
-----------------------------------------------------------------------------
(* prepareRosterTx, for the new member m: the roster that is read now is   *)
(* part of the transaction.  An operator's second transaction would have   *)
(* the nonce of the first, which the pools drop.                           *)
prepareRosterTx(by, m) ==
    /\ \A p \in pending : p.by # by
    /\ LET new == Apply(roster, [remove |-> << >>, add |-> <<m>>])
       IN  pending' = pending \cup {[by |-> by, roster |-> new, granted |-> TRUE]}
    /\ UNCHANGED <<roster, links, rekeyed>>

(* The members of the roster o who had another key in r.                   *)
Rekeyed(r, o) ==
    {x \in Addr : \E i \in DOMAIN r, j \in DOMAIN o :
                    r[i].addr = x /\ o[j].addr = x /\ r[i].key # o[j].key}

(* A block with these transactions is proposed (verifyPrepare computes the *)
(* change set of its link) and stored.                                     *)
verifyFinalize(txs) ==
    LET new == FoldLeft(Execute, [roster |-> roster, changed |-> FALSE], txs).roster
    IN  /\ Len(links) < MaxBlocks
        /\ roster' = new
        /\ links' = Append(links, Diff(roster, new))
        /\ pending' = pending \ ToSet(txs)
        /\ rekeyed' = (rekeyed \cup Rekeyed(roster, new)) \cap Range(Addrs(new))

Next ==
    \/ \E by \in Admin, m \in Member : prepareRosterTx(by, m)
    \/ \E n \in 1 .. MaxBatch : \E txs \in [1 .. n -> pending \cup Others] :
          verifyFinalize(txs)

Spec == Init /\ [][Next]_vars
-----------------------------------------------------------------------------
(* Properties.                                                             *)

(* Who verifies the chain from the genesis block knows the members of the  *)
(* current roster, in their order: the change sets of Diff, applied by     *)
(* Apply, lead to what the contract wrote, whatever a block contains.      *)
ReplayAddresses == Addrs(VerifiedRoster) = Addrs(roster)

(* They also know the key of every member, except of one whose key was     *)
(* replaced while it stayed in the roster.  The contract writes the new    *)
(* key, but Diff compares addresses only, so that no link carries it: for  *)
(* such a member "the change set that must be applied to the current       *)
(* authority to get the given one" (roster.go:185-186) does not give it.   *)
ReplayKeys ==
    \A i \in DOMAIN roster : \/ VerifiedRoster[i] = roster[i]
                              \/ roster[i].addr \in rekeyed

(* No address is twice in the roster: nobody has two votes.                *)
NoTwice == IsInjective(Addrs(roster))

(* The members are known to all, with the keys they joined with, and each  *)
(* has one vote: the contract, Diff and Apply agree on who they are.       *)
MembersExact == TypeOK /\ ReplayAddresses /\ ReplayKeys /\ NoTwice

(* A block of the old roster and one of the new roster are signed by       *)
(* enough common members to include one that is not faulty.  Members are   *)
(* counted by address: how many keys a transaction replaces is not limited *)
(* by the contract, since Diff reports no change for them.                 *)
ConsecutiveQuorums ==
    [][LET old == Range(Addrs(roster))
           new == Range(Addrs(roster'))
           quorums(s) == {q \in SUBSET s : Cardinality(q) >= ByzantineThreshold(Cardinality(s))}
           f(s) == (Cardinality(s) - 1) \div 3
       IN  new # {} => \A q \in quorums(old), p \in quorums(new) :
                          /\ Cardinality(q \cap p) > f(old)
                          /\ Cardinality(q \cap p) > f(new)]_vars
=============================================================================
