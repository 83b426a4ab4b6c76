----------------------------- MODULE PrefixTree -----------------------------
(***************************************************************************)
(* The binary prefix tree that holds the state of the ledger               *)
(* (core/store/hashtree/binprefix): its nodes in memory (tree.go), the     *)
(* leaves on disk (disk.go, format.go) and the paths that prove a key      *)
(* (path.go). All the operators are pure: a node goes in, a node comes     *)
(* out, with the bucket b of the database next to it.                      *)
(*                                                                         *)
(* A key is a sequence of KeyLen bits, the bit 0 first. A prefix of n bits *)
(* is the sequence of these bits, so that the depth of a node is the       *)
(* length of its prefix. A digest is the term that is hashed. The bucket   *)
(* is a function from the keys of the records to the objects written.      *)
(* memDepth is MaxDepth * 8 in NewTree, the length of the longest key: an  *)
(* interior node never goes to disk.                                       *)
(***************************************************************************)
EXTENDS Integers, Sequences, SequencesExt, FiniteSetsExt

CONSTANTS
    KeyLen,      \* MaxDepth * 8: number of bits of a key
    ByteLen      \* number of bits that a scan of the database compares at once

ASSUME TreeAssumption == KeyLen \in Nat \ {0} /\ ByteLen \in Nat \ {0}

Nil == << >>                      \* no digest, no value

EmptyNode(prefix) == [type |-> "empty", prefix |-> prefix, hash |-> Nil]
LeafNode(depth, key, value) ==
    [type |-> "leaf", depth |-> depth, key |-> key, value |-> value, hash |-> Nil]
DiskNode(depth, hash) == [type |-> "disk", depth |-> depth, hash |-> hash]
InteriorNode(prefix) ==
    [type |-> "interior", prefix |-> prefix, hash |-> Nil,
     left |-> EmptyNode(Append(prefix, 0)), right |-> EmptyNode(Append(prefix, 1))]

(* The node is not in the database, or a child is nil.                     *)
Failed == [type |-> "error", hash |-> Nil]
FailedValue == <<"error">>

NewTree == EmptyNode(<< >>)

Bit(key, i) == key[i + 1]
Prefix(key, depth) == SubSeq(key, 1, depth)
-----------------------------------------------------------------------------
(* prepareKey: the bits of the prefix, a bit set to one, and zeros up to   *)
(* the end of the byte.                                                    *)
prepareKey(index, depth) ==
    LET bits == Append(Prefix(index, depth), 1)
        pad  == ByteLen - 1 - (depth % ByteLen)
    IN  bits \o [i \in 1 .. pad |-> 0]

(* big.Int.Bytes drops the zeros above the highest bit, and SetBytes does  *)
(* not know how many there were: the size comes from elsewhere.            *)
Bytes(bits) ==
    LET ones == {i \in DOMAIN bits : bits[i] = 1}
    IN  IF ones = {} THEN << >> ELSE SubSeq(bits, 1, Max(ones))
SetBytes(bytes, size) == bytes \o [i \in 1 .. size - Len(bytes) |-> 0]

(* nodeFormat.Encode and Decode of a record.                               *)
EncodeNode(n) ==
    IF n.type = "leaf"
    THEN [Leaf |-> [Digest |-> n.hash, Depth |-> n.depth, Prefix |-> Bytes(n.key),
                    Value |-> n.value]]
    ELSE [Empty |-> [Digest |-> n.hash, Depth |-> Len(n.prefix), Prefix |-> Bytes(n.prefix)]]

DecodeNode(m) ==
    IF "Leaf" \in DOMAIN m
    THEN [LeafNode(m.Leaf.Depth, SetBytes(m.Leaf.Prefix, KeyLen), m.Leaf.Value)
            EXCEPT !.hash = m.Leaf.Digest]
    ELSE [EmptyNode(SetBytes(m.Empty.Prefix, m.Empty.Depth)) EXCEPT !.hash = m.Empty.Digest]

(* load: Failed if there is no record.                                     *)
load(depth, index, b) ==
    LET k == prepareKey(index, depth) IN IF k \in DOMAIN b THEN DecodeNode(b[k]) ELSE Failed

store(depth, index, node, b) ==
    LET k == prepareKey(index, depth)
    IN  [r \in DOMAIN b \cup {k} |-> IF r = k THEN EncodeNode(node) ELSE b[r]]

(* cleanSubtree: the scan is over whole bytes, then the bits of the last   *)
(* byte are compared; a bit after the end of a record is zero.             *)
cleanSubtree(depth, index, b) ==
    LET whole == (depth \div ByteLen) * ByteLen
        under(k) == /\ \A i \in 0 .. whole - 1 : Len(k) > i /\ Bit(k, i) = Bit(index, i)
                    /\ \A i \in whole .. depth - 1 :
                          (IF i < Len(k) THEN Bit(k, i) ELSE 0) = Bit(index, i)
    IN  [k \in {r \in DOMAIN b : ~ under(r)} |-> b[k]]
-----------------------------------------------------------------------------
(* The child that a search does not follow, loaded if it is on disk.       *)
Sibling(n, key, b) ==
    LET bit == 1 - Bit(key, Len(n.prefix))
        s   == IF bit = 0 THEN n.left ELSE n.right
    IN  IF s.type # "disk" THEN s
        ELSE load(s.depth, Append(n.prefix, bit), b)

(* Search: the value, the node after the search (it keeps the siblings     *)
(* that it loaded), the digests of the siblings from the root down, and    *)
(* the value that the path gets: the one of the leaf at its end.           *)
RECURSIVE Search(_, _, _)

SearchEmpty(n) == [node |-> n, value |-> Nil, interiors |-> << >>, end |-> Nil]

SearchLeaf(n, key) ==
    [node |-> n, value |-> IF n.key = key THEN n.value ELSE Nil, interiors |-> << >>,
     end |-> n.value]

SearchDisk(n, key, b) == [Search(load(n.depth, key, b), key, b) EXCEPT !.node = n]

SearchInterior(n, key, b) ==
    LET side == Sibling(n, key, b)
        left == Bit(key, Len(n.prefix)) = 0
        sub  == Search(IF left THEN n.left ELSE n.right, key, b)
    IN  [sub EXCEPT
           !.interiors = <<side.hash>> \o @,
           !.node = [n EXCEPT !.left  = IF left THEN sub.node ELSE side,
                              !.right = IF left THEN side ELSE sub.node]]

Search(n, key, b) ==
    CASE n.type = "empty" -> SearchEmpty(n)
      [] n.type = "leaf"  -> SearchLeaf(n, key)
      [] n.type = "disk"  -> SearchDisk(n, key, b)
      [] n.type = "error" -> [SearchEmpty(n) EXCEPT !.value = FailedValue]
      [] OTHER -> SearchInterior(n, key, b)

(* Insert: a leaf in the way is pushed down until the keys part. The       *)
(* digests on the way are reset.                                           *)
RECURSIVE Insert(_, _, _, _)

InsertEmpty(n, key, value) == LeafNode(Len(n.prefix), key, value)

InsertLeaf(n, key, value, b) ==
    IF n.key = key THEN [n EXCEPT !.value = value, !.hash = Nil]
    ELSE Insert(Insert(InteriorNode(Prefix(key, n.depth)), n.key, n.value, b), key, value, b)

InsertDisk(n, key, value, b) == Insert(load(n.depth, key, b), key, value, b)

InsertInterior(n, key, value, b) ==
    LET left == Bit(key, Len(n.prefix)) = 0
        sub  == Insert(IF left THEN n.left ELSE n.right, key, value, b)
    IN  IF sub = Failed THEN Failed
        ELSE IF left THEN [n EXCEPT !.left = sub, !.hash = Nil]
                     ELSE [n EXCEPT !.right = sub, !.hash = Nil]

Insert(n, key, value, b) ==
    CASE n.type = "empty" -> InsertEmpty(n, key, value)
      [] n.type = "leaf"  -> InsertLeaf(n, key, value, b)
      [] n.type = "disk"  -> InsertDisk(n, key, value, b)
      [] n.type = "error" -> Failed
      [] OTHER -> InsertInterior(n, key, value, b)

(* Variant: the child on the other side is not loaded: a leaf on disk is   *)
(* taken for nothing.                                                      *)
CollapsesBlindly(n) == n.left.type # "leaf" /\ n.right.type # "leaf"

(* An interior node without anything below becomes empty.                  *)
Collapses(n) == n.left.type = "empty" /\ n.right.type = "empty"

(* Delete: the sibling is loaded to know if the parent is left empty. The  *)
(* digest of an interior node stays: a clone has none.                     *)
RECURSIVE Delete(_, _, _)

DeleteLeaf(n, key) == IF n.key = key THEN EmptyNode(Prefix(key, n.depth)) ELSE n

DeleteDisk(n, key, b) == Delete(load(n.depth, key, b), key, b)

DeleteInterior(n, key, b) ==
    LET left == Bit(key, Len(n.prefix)) = 0
        sub  == Delete(IF left THEN n.left ELSE n.right, key, b)
        side == Sibling(n, key, b)
        next == [n EXCEPT !.left  = IF left THEN sub ELSE side,
                          !.right = IF left THEN side ELSE sub]
    IN  IF sub = Failed \/ side = Failed THEN Failed
        ELSE IF Collapses(next) THEN EmptyNode(n.prefix) ELSE next

Delete(n, key, b) ==
    CASE n.type \in {"empty", "error"} -> n
      [] n.type = "leaf" -> DeleteLeaf(n, key)
      [] n.type = "disk" -> DeleteDisk(n, key, b)
      [] OTHER -> DeleteInterior(n, key, b)

(* Prepare: what is hashed for each kind of node. The digest is kept.      *)
RECURSIVE Prepare(_, _)

PrepareEmpty(n, prefix) == [n EXCEPT !.hash = <<"empty", prefix>>]

PrepareLeaf(n, prefix) == [n EXCEPT !.hash = <<"leaf", prefix, n.key, n.value>>]

PrepareInterior(n, prefix) ==
    LET l == Prepare(n.left, Append(prefix, 0))
        r == Prepare(n.right, Append(prefix, 1))
    IN  [n EXCEPT !.left = l, !.right = r, !.hash = <<"interior", l.hash, r.hash>>]

Prepare(n, prefix) ==
    CASE n.hash # Nil -> n
      [] n.type = "empty" -> PrepareEmpty(n, prefix)
      [] n.type = "leaf"  -> PrepareLeaf(n, prefix)
      [] OTHER -> PrepareInterior(n, prefix)

CalculateRoot(n) == Prepare(n, << >>)

(* Clone: only a disk node keeps its digest.                               *)
RECURSIVE Clone(_)
Clone(n) ==
    CASE n.type = "disk" -> n
      [] n.type = "interior" -> [n EXCEPT !.left = Clone(@), !.right = Clone(@), !.hash = Nil]
      [] OTHER -> [n EXCEPT !.hash = Nil]
-----------------------------------------------------------------------------
(* Variant: an empty node leaves the records of the leaves it replaces.    *)
toDiskNoClean(depth, index, node, b, shouldStore) ==
    IF shouldStore THEN store(depth, index, node, cleanSubtree(depth, index, b)) ELSE b

(* toDisk and Persist: the children first. A leaf takes the place of the   *)
(* records of its subtree, then its parent drops it from memory; an empty  *)
(* node only cleans (and is stored at the bottom of the tree).             *)
toDisk(depth, index, node, b, shouldStore) ==
    LET cleaned == cleanSubtree(depth, index, b)
    IN  IF shouldStore THEN store(depth, index, node, cleaned) ELSE cleaned

OnDisk(n, depth) == IF n.type = "leaf" THEN DiskNode(depth, n.hash) ELSE n

RECURSIVE Persist(_, _)
Persist(n, b) ==
    CASE n.type = "leaf"  -> [node |-> n, disk |-> toDisk(n.depth, n.key, n, b, TRUE)]
      [] n.type = "empty" ->
            [node |-> n,
             disk |-> toDisk(Len(n.prefix), n.prefix, n, b, Len(n.prefix) >= KeyLen)]
      [] n.type = "interior" ->
            LET l == Persist(n.left, b)
                r == Persist(n.right, l.disk)
                d == Len(n.prefix) + 1
            IN  [node |-> [n EXCEPT !.left = OnDisk(l.node, d), !.right = OnDisk(r.node, d)],
                 disk |-> r.disk]
      [] OTHER -> [node |-> n, disk |-> b]

(* restore: a disk node at the place of the record.                        *)
RECURSIVE restore(_, _, _)
restore(curr, index, node) ==
    IF curr.type = "disk" THEN curr
    ELSE IF curr.type = "empty" /\ Len(curr.prefix) = node.depth THEN node
    ELSE LET n == IF curr.type = "empty" THEN InteriorNode(curr.prefix) ELSE curr
         IN  IF Bit(index, Len(n.prefix)) = 0
             THEN [n EXCEPT !.left = restore(@, index, node)]
             ELSE [n EXCEPT !.right = restore(@, index, node)]

(* FillFromBucket and Load: the tree that a participant starts with, from  *)
(* the records in the order of the scan.                                   *)
FillFromBucket(b) ==
    LET add(k, n) ==
            LET r == DecodeNode(b[k])
            IN  IF r.type = "leaf" THEN restore(n, r.key, DiskNode(r.depth, r.hash))
                ELSE restore(n, r.prefix, DiskNode(Len(r.prefix), r.hash))
    IN  FoldSet(add, InteriorNode(<< >>), DOMAIN b)

Load(b) == CalculateRoot(FillFromBucket(b))
-----------------------------------------------------------------------------
(* GetPath: the path of a key, and computeRoot: the root that it proves.   *)
GetPath(n, key, b) ==
    LET s == Search(n, key, b)
    IN  [key |-> key, value |-> s.end, root |-> n.hash, interiors |-> s.interiors]

(* Variant: the leaf is hashed with its whole key.                         *)
computeRootWhole(path) ==
    LET last == Prepare(IF path.value # Nil
                        THEN LeafNode(Len(path.interiors), path.key, path.value)
                        ELSE EmptyNode(path.key), path.key).hash
        up(i, curr) == IF Bit(path.key, i - 1) = 0
                       THEN <<"interior", curr, path.interiors[i]>>
                       ELSE <<"interior", path.interiors[i], curr>>
    IN  FoldRightDomain(up, path.interiors, last)

computeRoot(path) ==
    LET depth == Len(path.interiors)
        prefix == Prefix(path.key, depth)
        last == Prepare(IF path.value # Nil THEN LeafNode(depth, path.key, path.value)
                                            ELSE EmptyNode(prefix), prefix).hash
        up(i, curr) == IF Bit(path.key, i - 1) = 0
                       THEN <<"interior", curr, path.interiors[i]>>
                       ELSE <<"interior", path.interiors[i], curr>>
    IN  FoldRightDomain(up, path.interiors, last)
=============================================================================
