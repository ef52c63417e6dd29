----------------------- MODULE RecordEncryptionProofs -----------------------
(***************************************************************************)
(* What holds of keys and sealed records for every wallet, path, payload   *)
(* and context.                                                            *)
(***************************************************************************)
EXTENDS RecordEncryption, TLAPS

\* No two places of the tree, in one wallet or in two, have the same key: keys differ as
\* soon as slot, chain, number or purpose do (newpulseHDPath, deriveKeyFromMaster).
THEOREM KeysAreDistinct ==
    ASSUME NEW wallet1, NEW at1, NEW purpose1,
           NEW wallet2, NEW at2, NEW purpose2,
           DeriveKeyFromMaster(wallet1, at1, purpose1)
             = DeriveKeyFromMaster(wallet2, at2, purpose2)
    PROVE  /\ wallet1 = wallet2
           /\ purpose1 = purpose2
           /\ at1.slot = at2.slot /\ at1.chain = at2.chain /\ at1.no = at2.no
  BY DEF DeriveKeyFromMaster, RootKey, NewChildKey, MasterKey

\* The receiver of a slot's extended key derives the very keys that its owner uses, in
\* every slot but the first (derivePublicKeyFromParent, deriveOtherPartyKey).
THEOREM SharedKeysMatch ==
    ASSUME NEW wallet, NEW at, NEW purpose, at.slot # 0
    PROVE  DerivePublicKeyFromParent(DeriveOtherPartyKey(wallet, at.slot), at, purpose)
             = DeriveKeyFromMaster(wallet, at, purpose)
  BY DEF DerivePublicKeyFromParent, DeriveOtherPartyKey, DeriveKeyFromMaster

\* From the extended key of slot 0, which is the root's, it derives none of the keys that
\* the owner uses anywhere: they lie one level higher than any of those.
THEOREM RootKeysNeverMatch ==
    ASSUME NEW wallet, NEW at1, NEW purpose1, NEW at2, NEW purpose2
    PROVE  DerivePublicKeyFromParent(DeriveOtherPartyKey(wallet, 0), at1, purpose1)
             # DeriveKeyFromMaster(wallet, at2, purpose2)
  <1> DEFINE derived == DerivePublicKeyFromParent(
                           DeriveOtherPartyKey(wallet, 0), at1, purpose1)
             own == DeriveKeyFromMaster(wallet, at2, purpose2)
  <1>1. derived.parent.parent.parent.parent = [wallet |-> wallet]
    BY DEF DerivePublicKeyFromParent, DeriveOtherPartyKey, RootKey, NewChildKey, MasterKey
  <1>2. own.parent.parent.parent.parent
          = [parent |-> MasterKey(wallet), index |-> Protocol]
    BY DEF DeriveKeyFromMaster, RootKey, NewChildKey
  <1>3. [wallet |-> wallet] # [parent |-> MasterKey(wallet), index |-> Protocol]
    <2>1. DOMAIN [wallet |-> wallet] # DOMAIN [parent |-> MasterKey(wallet), index |-> Protocol]
      OBVIOUS
    <2> QED
      BY <2>1
  <1> QED
    BY <1>1, <1>2, <1>3

-----------------------------------------------------------------------------

\* Whatever is sealed with ECDH, either of the two keys opens it: the order of the keys
\* in the record does not matter to who can read it (EncryptECDH, DecryptEC).
THEOREM BothPartiesOpen ==
    ASSUME NEW plaintext, NEW key1, NEW key2, NEW purpose, NEW at,
           NEW mine \in {key1, key2}
    PROVE  DecryptEC(EncryptECDH(plaintext, key1, key2, purpose, at), mine, purpose, at)
             = plaintext
  <1> DEFINE result == EncryptECDH(plaintext, key1, key2, purpose, at)
             other == IF key1 = mine THEN key2 ELSE key1
  <1>1. result.k1 = key1 /\ result.k2 = key2
    BY DEF EncryptECDH
  <1>2. {mine, other} = {key1, key2}
    OBVIOUS
  <1> QED
    BY <1>1, <1>2
    DEF EncryptECDH, DecryptEC, PulseSeal, PulseOpen, GenerateAESKey, SharedSecret

\* A key that is neither of the two opens nothing.
THEOREM NobodyElseOpens ==
    ASSUME NEW plaintext, NEW key1, NEW key2, NEW purpose, NEW at,
           NEW mine, mine \notin {key1, key2}
    PROVE  DecryptEC(EncryptECDH(plaintext, key1, key2, purpose, at), mine, purpose, at)
             = Failed
  BY DEF EncryptECDH, DecryptEC

\* A record encapsulated for two parties is opened by both of them, also if they have
\* the same key (EncryptPQ, DecryptPQ).
THEOREM BothRecipientsOpen ==
    ASSUME NEW entropy, NEW plaintext, NEW key1, NEW key2, NEW purpose, NEW at,
           NewKey(entropy) # Failed,
           NEW mine \in {key1, key2}
    PROVE  DecryptPQ(EncryptPQ(entropy, plaintext, <<key1, key2>>, purpose, at),
                     mine, purpose, at) = plaintext
  <1> DEFINE result == EncryptPQ(entropy, plaintext, <<key1, key2>>, purpose, at)
             context == ContextHash(at.chain, at.contract, at.no)
             dataKey == NewKey(entropy)
             first == CHOOSE i \in DOMAIN result.keys :
                         /\ result.keys[i].fp = mine
                         /\ \A j \in DOMAIN result.keys :
                               result.keys[j].fp = mine => i <= j
             k == result.keys[first]
  <1>1. /\ DOMAIN result.keys = {1, 2}
        /\ result.keys[1] = EncapsulateKey(entropy, key1, dataKey, purpose, context)
        /\ result.keys[2] = EncapsulateKey(entropy, key2, dataKey, purpose, context)
        /\ result.sd = PulseSeal(plaintext, dataKey,
                                 AADForData(purpose, {key1, key2}, context, dataKey))
    <2>1. DOMAIN <<key1, key2>> = {1, 2}
      OBVIOUS
    <2>2. {<<key1, key2>>[i] : i \in {1, 2}} = {key1, key2}
      OBVIOUS
    <2> QED
      BY <2>1, <2>2 DEF EncryptPQ, PulseSealWithNewKey
  <1>2. result.keys[1].fp = key1 /\ result.keys[2].fp = key2
    BY <1>1 DEF EncapsulateKey
  <1>3. first \in {1, 2} /\ k.fp = mine
    <2> HIDE DEF result
    <2>1. \E i \in DOMAIN result.keys :
             /\ result.keys[i].fp = mine
             /\ \A j \in DOMAIN result.keys : result.keys[j].fp = mine => i <= j
      BY <1>1, <1>2
    <2>2. first \in DOMAIN result.keys /\ result.keys[first].fp = mine
      BY <2>1
    <2> QED
      BY <2>2, <1>1
  <1>4. k = EncapsulateKey(entropy, mine, dataKey, purpose, context)
    <2> HIDE DEF result, first
    <2> QED
      BY <1>1, <1>2, <1>3
  <1>5. PulseOpen(k.edk, PulseHKDFKyber(KEMSecret(mine, k.ekk), k.ekk, k.fp, context),
                  AADForKey(purpose, k.fp, context, k.ekk)) = dataKey
    <2> HIDE DEF k
    <2> QED
      BY <1>4 DEF EncapsulateKey, PulseOpen, PulseSeal
  <1>6. {result.keys[i].fp : i \in DOMAIN result.keys} = {key1, key2}
    <2> HIDE DEF result
    <2> QED
      BY <1>1, <1>2
  <1>7. PulseOpen(result.sd, dataKey, AADForData(purpose, {key1, key2}, context, dataKey))
          = plaintext
    <2> HIDE DEF result
    <2> QED
      BY <1>1 DEF PulseOpen, PulseSeal
  <1>8. DecryptPQ(result, mine, purpose, at) = plaintext
    <2> HIDE DEF result
    <2> QED
      BY <1>5, <1>6, <1>7 DEF DecryptPQ
  <1> QED
    BY <1>8

=============================================================================
