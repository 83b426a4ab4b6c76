--------------------------- MODULE CosiPbftChains ---------------------------
(* Proofs about the chains that the participants store, under the          *)
(* assumption that no DoneMessage arrives for a block already stored.      *)
EXTENDS CosiPbftAgreement

(* The proposal of a round is the next block or was already overtaken.     *)
NextBlock == \A n \in Node : Len(id[n]) =< Len(chain[n]) \/ Parent(id[n]) = chain[n]

(* A prepare signature kept from an earlier round is for a block that the  *)
(* chain has already passed.                                               *)
SigKept ==
    \A n \in Node :
       \/ Len(prepareSig[n].id) =< Len(chain[n])
       \/ /\ prepareSig[n].id = id[n] /\ id[n] \in Block
          /\ Parent(id[n]) = chain[n] /\ Locked(n)

ChainInv == VoteInv /\ NextBlock /\ SigKept /\ StoredCertified

LEMMA CertifiedGrows == [Next]_vars => Certified \subseteq Certified'
  <1> SUFFICES ASSUME [Next]_vars PROVE Certified \subseteq Certified' OBVIOUS
  <1>1. doneMsgs \subseteq doneMsgs' BY NetSteps DEF doPBFTDone
  <1> QED BY <1>1 DEF Certified

LEMMA CertifiedType == ASSUME TypeInv PROVE \A b \in Certified : b \in Block
  BY DEF TypeInv, TypeOK, NetOK, DoneMessage, PrepareCert, Certified

(* The prefixes of a block are the block and those of its parent.          *)
LEMMA PrefixOfBlock ==
    ASSUME NEW b \in Block, NEW k \in 1 .. Len(b)
    PROVE  /\ k = Len(b) => SubSeq(b, 1, k) = b
           /\ k # Len(b) => /\ k \in 1 .. Len(Parent(b))
                            /\ SubSeq(b, 1, k) = SubSeq(Parent(b), 1, k)
  <1>1. /\ b \in Seq(Val) /\ Len(b) \in Nat \ {0}
        /\ Parent(b) \in Seq(Val) /\ Len(Parent(b)) = Len(b) - 1
    BY BlockFacts
  <1>2. k = Len(b) => SubSeq(b, 1, k) = b BY <1>1, SubSeqFull
  <1>3. ASSUME k # Len(b)
        PROVE  /\ k \in 1 .. Len(Parent(b))
               /\ SubSeq(b, 1, k) = SubSeq(Parent(b), 1, k)
    <2>1. k \in 1 .. Len(Parent(b)) BY <1>1, <1>3
    <2>2. k \in 0 .. Len(b) /\ k \in 0 .. Len(Parent(b)) /\ Len(b) - 1 \in 0 .. Len(b)
      BY <1>1, <2>1
    <2>3. \A i \in 1 .. Len(b) - 1 : Parent(b)[i] = b[i]
      BY <1>1, <2>2, PrefixFacts DEF Parent
    <2>4. \A i \in 1 .. k : SubSeq(b, 1, k)[i] = SubSeq(Parent(b), 1, k)[i]
      BY <1>1, <2>1, <2>2, <2>3, PrefixFacts
    <2>5. /\ SubSeq(b, 1, k) \in Seq(Val) /\ SubSeq(Parent(b), 1, k) \in Seq(Val)
          /\ Len(SubSeq(b, 1, k)) = k /\ Len(SubSeq(Parent(b), 1, k)) = k
      BY <1>1, <2>2, PrefixFacts
    <2> QED BY <2>1, <2>4, <2>5, SeqEqual
  <1> QED BY <1>2, <1>3

LEMMA ChainInit == Init => ChainInv
  <1> SUFFICES ASSUME Init PROVE ChainInv OBVIOUS
  <1>1. VoteInv BY VoteInit
  <1>2. Len(<< >>) = 0 BY EmptySeq
  <1>3. NextBlock BY <1>2 DEF Init, NextBlock, NoDigest
  <1>4. SigKept BY <1>2 DEF Init, SigKept, NoSig, NoDigest
  <1>5. StoredCertified BY <1>2 DEF Init, StoredCertified
  <1> QED BY <1>1, <1>3, <1>4, <1>5 DEF ChainInv

(* What is stored is a confirmed block on top of the chain.                *)
LEMMA StoredBlock ==
    ASSUME ChainInv, ~ LateDone, NEW n \in Node, Stores(n)
    PROVE  /\ chain'[n] \in Block
           /\ Parent(chain'[n]) = chain[n]
           /\ chain'[n] \in Certified
  <1>1. CASE StoresLink(n)
    BY <1>1, CertifiedType DEF StoresLink, ChainInv, VoteInv
  <1>2. ASSUME NEW d \in doneMsgs, StoresDone(n, d)
        PROVE  /\ chain'[n] \in Block
               /\ Parent(chain'[n]) = chain[n]
               /\ chain'[n] \in Certified
    <2>1. Len(chain[n]) \in Nat /\ d.prep.id \in Certified /\ d.prep.id \in Block
      BY TypeFacts, CertifiedType DEF ChainInv, VoteInv, Certified
    <2>2. Len(d.prep.id) \in Nat BY <2>1, BlockFacts
    <2>3. /\ prepareSig[n].id = id[n] /\ id[n] \in Block
          /\ Parent(id[n]) = chain[n]
      BY <1>2, <2>1, <2>2 DEF StoresDone, ChainInv, SigKept
    <2>4. chain'[n] = id[n] BY <1>2, <2>3, BlockFacts DEF StoresDone
    <2> QED BY <1>2, <2>1, <2>3, <2>4 DEF StoresDone
  <1> QED BY <1>1, <1>2 DEF Stores

LEMMA ChainNext == ASSUME ~ LateDone PROVE ChainInv /\ [Next]_vars => ChainInv'
  <1> SUFFICES ASSUME ChainInv, [Next]_vars PROVE ChainInv' OBVIOUS
  <1>1. TypeInv /\ VoteInv BY DEF ChainInv, VoteInv
  <1>2. VoteInv' BY <1>1, VoteNext
  <1>3. ASSUME NEW n \in Node
        PROVE  /\ Len(id[n]) \in Nat /\ Len(chain[n]) \in Nat
               /\ Len(prepareSig[n].id) \in Nat
               /\ Effect(n)
    <2>1. prepareSig[n].id \in Seq(Val)
      <3>1. prepareSig[n] \in PrepareCert \/ prepareSig[n] = NoSig
        BY <1>1 DEF TypeInv, TypeOK, MachineOK
      <3>2. CASE prepareSig[n] \in PrepareCert BY <3>2 DEF PrepareCert, Block
      <3>3. CASE prepareSig[n] = NoSig BY <3>3, EmptySeq DEF NoSig, NoDigest
      <3> QED BY <3>1, <3>2, <3>3
    <2>2. id[n] \in Seq(Val) /\ chain[n] \in Seq(Val)
      BY <1>1 DEF TypeInv, TypeOK, MachineOK, RoundOK
    <2> QED BY <1>1, <2>1, <2>2, LenProperties, Effects
  <1>4. NextBlock'
    <2> SUFFICES ASSUME NEW n \in Node
                 PROVE  Len(id'[n]) =< Len(chain'[n]) \/ Parent(id'[n]) = chain'[n]
      BY DEF NextBlock
    <2>1. Len(id[n]) =< Len(chain[n]) \/ Parent(id[n]) = chain[n]
      BY DEF ChainInv, NextBlock
    <2>2. CASE Quiet(n) \/ Commits(n) BY <2>1, <2>2 DEF Quiet, Commits
    <2>3. CASE Proposes(n) BY <2>3 DEF Proposes
    <2>4. CASE Stores(n)
      <3>1. id[n] # << >> => id[n] \in Block
        BY <1>1 DEF TypeInv, TypeOK, MachineOK, Block, NoDigest
      <3>2. Len(id[n]) =< Len(chain[n]) + 1 BY <1>3, <2>1, <3>1, BlockFacts, EmptySeq
      <3> QED BY <1>3, <2>4, <3>2 DEF Stores
    <2>5. CASE Forgets(n) BY <1>3, <2>5, EmptySeq DEF Forgets, NoDigest
    <2> QED BY <1>3, <2>2, <2>3, <2>4, <2>5 DEF Effect
  <1>5. SigKept'
    <2> SUFFICES ASSUME NEW n \in Node
                 PROVE  \/ Len(prepareSig'[n].id) =< Len(chain'[n])
                        \/ /\ prepareSig'[n].id = id'[n] /\ id'[n] \in Block
                           /\ Parent(id'[n]) = chain'[n] /\ Locked(n)'
      BY DEF SigKept
    <2>1. \/ Len(prepareSig[n].id) =< Len(chain[n])
          \/ /\ prepareSig[n].id = id[n] /\ id[n] \in Block
             /\ Parent(id[n]) = chain[n] /\ Locked(n)
      BY DEF ChainInv, SigKept
    <2>2. CASE Quiet(n) BY <2>1, <2>2 DEF Quiet, Locked
    <2>3. CASE Commits(n) BY <2>3 DEF Commits, Locked, ChainInv, NextBlock
    <2>4. CASE Proposes(n) BY <2>1, <2>4 DEF Proposes
    <2>5. CASE Stores(n)
      <3>1. Len(prepareSig[n].id) =< Len(chain[n]) + 1 BY <1>3, <2>1, BlockFacts
      <3> QED BY <2>5, <3>1 DEF Stores
    <2>6. CASE Forgets(n) BY <1>3, <2>6, EmptySeq DEF Forgets, NoSig, NoDigest
    <2> QED BY <1>3, <2>2, <2>3, <2>4, <2>5, <2>6 DEF Effect
  <1>6. StoredCertified'
    <2> SUFFICES ASSUME NEW n \in Node, NEW k \in 1 .. Len(chain'[n])
                 PROVE  SubSeq(chain'[n], 1, k) \in Certified'
      BY DEF StoredCertified
    <2>1. Certified \subseteq Certified' BY CertifiedGrows
    <2>2. \A j \in 1 .. Len(chain[n]) : SubSeq(chain[n], 1, j) \in Certified
      BY DEF ChainInv, StoredCertified
    <2>3. CASE chain'[n] = chain[n] BY <2>1, <2>2, <2>3
    <2>4. CASE Stores(n)
      <3>1. /\ chain'[n] \in Block /\ chain'[n] \in Certified
            /\ Parent(chain'[n]) = chain[n]
        BY <2>4, StoredBlock
      <3>2. CASE k = Len(chain'[n]) BY <2>1, <3>1, <3>2, PrefixOfBlock
      <3>3. CASE k # Len(chain'[n])
        <4>1. /\ k \in 1 .. Len(chain[n])
              /\ SubSeq(chain'[n], 1, k) = SubSeq(chain[n], 1, k)
          BY <3>1, <3>3, PrefixOfBlock
        <4> QED BY <2>1, <2>2, <4>1
      <3> QED BY <3>2, <3>3
    <2> QED BY <1>3, <2>3, <2>4 DEF Effect, Quiet, Proposes, Commits, Forgets
  <1> QED BY <1>2, <1>4, <1>5, <1>6 DEF ChainInv

(* Two chains whose prefixes are confirmed agree, by CertAgreement.        *)
LEMMA ChainsAgree == ChainInv => ChainAgreement
  <1> SUFFICES ASSUME ChainInv, NEW m \in Node, NEW n \in Node,
                      Len(chain[m]) =< Len(chain[n])
               PROVE  chain[m] = SubSeq(chain[n], 1, Len(chain[m]))
    BY DEF ChainAgreement
  <1>1. /\ chain[m] \in Seq(Val) /\ Len(chain[m]) \in Nat
        /\ chain[n] \in Seq(Val) /\ Len(chain[n]) \in Nat
    BY TypeFacts DEF ChainInv, VoteInv
  <1>2. CASE Len(chain[m]) = 0
    <2>1. chain[m] = << >> BY <1>1, <1>2, EmptySeq
    <2>2. SubSeq(chain[n], 1, 0) = << >> BY SubSeqEmpty
    <2> QED BY <1>2, <2>1, <2>2
  <1>3. CASE Len(chain[m]) # 0
    <2> DEFINE p == SubSeq(chain[n], 1, Len(chain[m]))
    <2>1. SubSeq(chain[m], 1, Len(chain[m])) = chain[m] BY <1>1, SubSeqFull
    <2>2. chain[m] \in Certified /\ p \in Certified
      <3>1. /\ Len(chain[m]) \in 1 .. Len(chain[m])
            /\ Len(chain[m]) \in 1 .. Len(chain[n])
        BY <1>1, <1>3
      <3>2. /\ SubSeq(chain[m], 1, Len(chain[m])) \in Certified
            /\ SubSeq(chain[n], 1, Len(chain[m])) \in Certified
        BY <3>1 DEF ChainInv, StoredCertified
      <3> QED BY <2>1, <3>2
    <2>3. Len(p) = Len(chain[m]) BY <1>1, PrefixFacts
    <2> HIDE DEF p
    <2>4. CertAgreement BY VoteAgreement DEF ChainInv
    <2>5. chain[m] = p BY <2>2, <2>3, <2>4 DEF CertAgreement
    <2> QED BY <2>5 DEF p
  <1> QED BY <1>2, <1>3

(* Every block stored by a participant was confirmed by a quorum.          *)
THEOREM ChainsCertified == ASSUME ~ LateDone PROVE Spec => []StoredCertified
  <1>1. ChainInv => StoredCertified BY DEF ChainInv
  <1>2. ChainInv /\ [Next]_vars => ChainInv' BY ChainNext
  <1> QED BY <1>1, <1>2, ChainInit, PTL DEF Spec

(* The stored chains never diverge.                                        *)
THEOREM ChainsConsistent == ASSUME ~ LateDone PROVE Spec => []ChainAgreement
  <1>1. ChainInv /\ [Next]_vars => ChainInv' BY ChainNext
  <1> QED BY <1>1, ChainInit, ChainsAgree, PTL DEF Spec
=============================================================================
