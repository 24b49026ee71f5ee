------------------------------ MODULE PKDStore ------------------------------
(***************************************************************************)
(* The storage of the public key distribution contract and the checks and *)
(* queries over it (src/vm/contract/abi/abi_public_key_distribution.go):  *)
(* verifier registrations, published keys and oracle attestations.        *)
(*                                                                         *)
(* A storage key is the contract address, a storage-type byte and fixed-  *)
(* width fields; it is modelled as a record of its fields plus the layout  *)
(* (field, width) that the writers use.  The scans read fields back out   *)
(* of an iterated key by byte offsets (the ...IndexS/...IndexE constants): *)
(* Slice returns a field when the offsets select exactly that field, and  *)
(* Garbled otherwise.  A hash (sha256 of a key type and key, of a key and *)
(* a code) is modelled as the tuple it is taken of.  The values are       *)
(* always decodable: they are written by the contract's PackVariable.     *)
(*                                                                         *)
(* The contract methods that write this storage (VerifierRegister,        *)
(* Publish, Oracle, ...) are not part of these sources.  Init is any      *)
(* storage that their checks admit: verifier entries of a valid type (an  *)
(* e-mail one in e-mail format); publish entries under the hash of their  *)
(* own key, with as many code hashes as distinct verifiers and one entry  *)
(* per previous-block hash; oracle entries that passed OracleInfoCheck    *)
(* against their publish entry (which may have been revoked since).       *)
(* Nothing here writes storage, so the state never changes.               *)
(***************************************************************************)
EXTENDS Integers, Sequences, FiniteSets

CONSTANTS
    Accounts,     \* addresses
    OracleTypes,  \* the valid verifier/publish/oracle types: Email, WeChat
    Email,        \* common.OracleTypeEmail
    BadType,      \* a type no switch accepts
    Infos,        \* verifier infos (e-mail address or WeChat id)
    Emails,       \* the infos util.VerifyEmailFormat accepts
    VKeys,        \* verifier keys
    Ids,          \* published ids (hashes)
    KeyTypes,     \* common.PublicKeyTypeED25519, PublicKeyTypeRSA4096, other
    ED25519, RSA4096,
    PubKeys,      \* public keys
    PkLen,        \* PubKeys -> length in bytes
    Hashes,       \* previous-block hashes keying a publication
    Codes,        \* verification codes
    Fees,         \* fees a publication offers
    PublishCost,  \* common.PublishCost
    None, Garbled

VARIABLES verifiers, publishes, oracles

vars == <<verifiers, publishes, oracles>>

-----------------------------------------------------------------------------
(* Keys.                                                                   *)

AddressSize == 32

(* PublicKeyWithTypeHash and Sha256HashData(hex(pk) ++ code).              *)
KeyHash(kt, pk) == <<kt, pk>>
CodeHash(pk, code) == <<pk, code>>

(* contractAddr(32) + pkdType(1) + type(4) + account(32).                   *)
VerifierLayout == <<<<"type", 4>>, <<"account", 32>>>>
(* Mutant: the type offset forgets the storage-type byte.                  *)
VerifierTypeIndexSNoPrefix == AddressSize
VerifierTypeIndexS == 1 + AddressSize
VerifierTypeIndexE == VerifierTypeIndexS + 4
VerifierAccIndexS == VerifierTypeIndexE
VerifierAccIndexE == VerifierAccIndexS + 32

(* contractAddr(32) + pkdType(1) + type(4) + id(32) + pk(32) + hash(32)    *)
(* + account(32).                                                          *)
OracleLayout == <<<<"type", 4>>, <<"id", 32>>, <<"pk", 32>>, <<"hash", 32>>, <<"account", 32>>>>
OracleTypeIndexS == 1 + AddressSize
OracleTypeIndexE == OracleTypeIndexS + 4
OracleIdIndexS == OracleTypeIndexE
OracleIdIndexE == OracleIdIndexS + 32
OraclePkIndexS == OracleIdIndexE
OraclePkIndexE == OraclePkIndexS + 32
OracleHashIndexS == OraclePkIndexE
OracleHashIndexE == OracleHashIndexS + 32
OracleAccIndexS == OracleHashIndexE
OracleAccIndexE == OracleAccIndexS + 32

(* contractAddr(32) + pkdType(1) + type(4) + id(32) + pk(32) + hash(32).   *)
PublishLayout == <<<<"type", 4>>, <<"id", 32>>, <<"pk", 32>>, <<"hash", 32>>>>
PublishTypeIndexS == 1 + AddressSize
PublishTypeIndexE == PublishTypeIndexS + 4
PublishIdIndexS == PublishTypeIndexE
PublishIdIndexE == PublishIdIndexS + 32
PublishPkIndexS == PublishIdIndexE
PublishPkIndexE == PublishPkIndexS + 32
PublishHashIndexS == PublishPkIndexE
PublishHashIndexE == PublishHashIndexS + 32

(* The byte offset of field i of a layout in the iterated key.             *)
RECURSIVE Offset(_, _)
Offset(L, i) == IF i = 1 THEN 1 + AddressSize ELSE Offset(L, i - 1) + L[i - 1][2]

(* The <<first byte, end byte, field>> slots of a layout.                  *)
Slots(L) == {<<Offset(L, i), Offset(L, i) + L[i][2], L[i][1]>> : i \in DOMAIN L}
VerifierSlots == Slots(VerifierLayout)
PublishSlots == Slots(PublishLayout)
OracleSlots == Slots(OracleLayout)

(* key[s:e]: the field those bytes hold, Garbled unless exactly one field. *)
Slice(S, key, s, e) ==
    IF \E x \in S : x[1] = s /\ x[2] = e
    THEN key[(CHOOSE x \in S : x[1] = s /\ x[2] = e)[3]]
    ELSE Garbled

-----------------------------------------------------------------------------
(* Verifiers: type + account -> VerifierStorage{VInfo, VKey, Valid}.       *)

VStored(t, a) ==
    LET k == [type |-> t, account |-> a]
    IN IF k \in DOMAIN verifiers THEN verifiers[k] ELSE None

(* Mutant: the Valid flag of the stored entry is not looked at.            *)
CheckVerifierExistAny(a, t) == VStored(t, a) # None

CheckVerifierExist(a, t) == VStored(t, a) # None /\ VStored(t, a).valid

CheckVerifierInfoExist(a, t, info, key) ==
    /\ CheckVerifierExist(a, t)
    /\ VStored(t, a).vinfo = info
    /\ VStored(t, a).vkey = key

(* An invalid entry yields (nil, nil), a missing one (nil, err).           *)
GetVerifierInfoByAccountAndType(a, t) ==
    IF CheckVerifierExist(a, t) THEN VStored(t, a) ELSE None

VerifierRegInfoCheck(a, t, info, key) ==
    /\ t \in OracleTypes
    /\ t = Email => info \in Emails
    /\ ~CheckVerifierInfoExist(a, t, info, key)

VerifierUnRegInfoCheck(a, t) == t \in OracleTypes /\ CheckVerifierExist(a, t)

ValidVerifierKeys == {k \in DOMAIN verifiers : verifiers[k].valid}

VSlice(k, s, e) == Slice(VerifierSlots, k, s, e)

VerifierOf(k, a, t) == [account |-> a, vtype |-> t, vinfo |-> verifiers[k].vinfo,
                        vkey |-> verifiers[k].vkey]

GetAllVerifiers ==
    {VerifierOf(k, VSlice(k, VerifierAccIndexS, VerifierAccIndexE),
                   VSlice(k, VerifierTypeIndexS, VerifierTypeIndexE)) : k \in ValidVerifierKeys}

GetVerifiersByType(t) ==
    {VerifierOf(k, VSlice(k, VerifierAccIndexS, VerifierAccIndexE),
                   VSlice(k, VerifierTypeIndexS, VerifierTypeIndexE))
        : k \in {k \in ValidVerifierKeys : k.type = t}}

GetVerifiersByAccount(a) ==
    {VerifierOf(k, a, VSlice(k, VerifierTypeIndexS, VerifierTypeIndexE))
        : k \in {k \in ValidVerifierKeys : VSlice(k, VerifierAccIndexS, VerifierAccIndexE) = a}}

-----------------------------------------------------------------------------
(* Publications: type + id + key hash + hash -> PubKeyInfo{Account,       *)
(* Verifiers, Codes, Fee, Valid, KeyType, PubKey}.  The fee is left out.  *)

KeyLenOK(kt, pk) ==
    \/ kt = ED25519 /\ PkLen[pk] = 32
    \/ kt = RSA4096 /\ PkLen[pk] = 512

PublishInfoCheck(a, pt, id, kt, pk, fee) ==
    /\ pt \in OracleTypes
    /\ fee >= PublishCost
    /\ KeyLenOK(kt, pk)

PublishKey(pt, id, kt, pk, h) == [type |-> pt, id |-> id, pk |-> KeyHash(kt, pk), hash |-> h]

ValidPublishKeys == {k \in DOMAIN publishes : publishes[k].valid}

(* GetPublishInfoByKey: the PubKeyInfo, None when missing or revoked.      *)
GetPublishInfoByKey(pt, id, kt, pk, h) ==
    IF PublishKey(pt, id, kt, pk, h) \in ValidPublishKeys
    THEN publishes[PublishKey(pt, id, kt, pk, h)] ELSE None

CheckPublishInfoExist(a, pt, id, kt, pk, h) ==
    GetPublishInfoByKey(pt, id, kt, pk, h) # None /\ GetPublishInfoByKey(pt, id, kt, pk, h).account = a

UnPublishInfoCheck(a, pt, id, kt, pk, h) ==
    /\ pt \in OracleTypes
    /\ KeyLenOK(kt, pk)
    /\ CheckPublishInfoExist(a, pt, id, kt, pk, h)

PSlice(k, s, e) == Slice(PublishSlots, k, s, e)

(* The PublishInfo a query builds from a stored entry.                     *)
PublishOf(k, a, pt, id, h) ==
    [account |-> a, ptype |-> pt, pid |-> id, keyType |-> publishes[k].keyType,
     pubKey |-> publishes[k].pubKey, verifiers |-> publishes[k].verifiers,
     codes |-> publishes[k].codes, hash |-> h]

GetPublishInfo(pt, id, kt, pk, h) ==
    LET k == PublishKey(pt, id, kt, pk, h)
    IN IF k \in ValidPublishKeys THEN PublishOf(k, publishes[k].account, pt, id, h) ELSE None

GetPublishInfoByTypeAndId(pt, id) ==
    {PublishOf(k, publishes[k].account, pt, id, PSlice(k, PublishHashIndexS, PublishHashIndexE))
        : k \in {k \in ValidPublishKeys : k.type = pt /\ k.id = id}}

GetAllPublishInfo ==
    {PublishOf(k, publishes[k].account, PSlice(k, PublishTypeIndexS, PublishTypeIndexE),
               PSlice(k, PublishIdIndexS, PublishIdIndexE), PSlice(k, PublishHashIndexS, PublishHashIndexE))
        : k \in ValidPublishKeys}

GetPublishInfoByType(pt) ==
    {PublishOf(k, publishes[k].account, pt, PSlice(k, PublishIdIndexS, PublishIdIndexE),
               PSlice(k, PublishHashIndexS, PublishHashIndexE))
        : k \in {k \in ValidPublishKeys : k.type = pt}}

GetPublishInfoByAccount(a) ==
    {PublishOf(k, a, PSlice(k, PublishTypeIndexS, PublishTypeIndexE),
               PSlice(k, PublishIdIndexS, PublishIdIndexE), PSlice(k, PublishHashIndexS, PublishHashIndexE))
        : k \in {k \in ValidPublishKeys : publishes[k].account = a}}

GetPublishInfoByAccountAndType(a, pt) ==
    {PublishOf(k, a, pt, PSlice(k, PublishIdIndexS, PublishIdIndexE),
               PSlice(k, PublishHashIndexS, PublishHashIndexE))
        : k \in {k \in ValidPublishKeys : k.type = pt /\ publishes[k].account = a}}

-----------------------------------------------------------------------------
(* Oracles: type + id + key hash + hash + account -> CodeInfo{Code,        *)
(* KeyType, PubKey}.                                                        *)

(* OracleInfoCheck: the account's code is checked against the code hash   *)
(* at the account's first place in the publication's verifier list.       *)
OracleInfoCheck(a, ot, id, kt, pk, code, h) ==
    /\ ot \in OracleTypes
    /\ KeyLenOK(kt, pk)
    /\ LET info == GetPublishInfo(ot, id, kt, pk, h)
       IN /\ info # None
          /\ \E i \in DOMAIN info.verifiers :
                /\ info.verifiers[i] = a
                /\ \A j \in 1..i - 1 : info.verifiers[j] # a
                /\ CodeHash(pk, code) = info.codes[i]

OracleKey(ot, id, kt, pk, h, a) ==
    [type |-> ot, id |-> id, pk |-> KeyHash(kt, pk), hash |-> h, account |-> a]

CheckOracleInfoExist(a, ot, id, kt, pk, h) == OracleKey(ot, id, kt, pk, h, a) \in DOMAIN oracles

OSlice(k, s, e) == Slice(OracleSlots, k, s, e)

(* The OracleInfo a query builds from a stored entry.                      *)
OracleOf(k, a, ot, id, kt, pk, h) ==
    [account |-> a, otype |-> ot, oid |-> id, keyType |-> kt, pubKey |-> pk,
     code |-> oracles[k].code, hash |-> h]

OAcc(k) == OSlice(k, OracleAccIndexS, OracleAccIndexE)

GetAllOracleInfo ==
    {OracleOf(k, OAcc(k), OSlice(k, OracleTypeIndexS, OracleTypeIndexE),
              OSlice(k, OracleIdIndexS, OracleIdIndexE), oracles[k].keyType, oracles[k].pubKey,
              OSlice(k, OracleHashIndexS, OracleHashIndexE))
        : k \in DOMAIN oracles}

GetOracleInfoByType(ot) ==
    {OracleOf(k, OAcc(k), ot, OSlice(k, OracleIdIndexS, OracleIdIndexE), oracles[k].keyType,
              oracles[k].pubKey, OSlice(k, OracleHashIndexS, OracleHashIndexE))
        : k \in {k \in DOMAIN oracles : k.type = ot}}

GetOracleInfoByTypeAndID(ot, id) ==
    {OracleOf(k, OAcc(k), ot, id, oracles[k].keyType, oracles[k].pubKey,
              OSlice(k, OracleHashIndexS, OracleHashIndexE))
        : k \in {k \in DOMAIN oracles : k.type = ot /\ k.id = id}}

GetOracleInfoByTypeAndIDAndPk(ot, id, kt, pk) ==
    {OracleOf(k, OAcc(k), ot, id, kt, pk, OSlice(k, OracleHashIndexS, OracleHashIndexE))
        : k \in {k \in DOMAIN oracles : k.type = ot /\ k.id = id /\ k.pk = KeyHash(kt, pk)}}

GetOracleInfoByAccount(a) ==
    {OracleOf(k, a, OSlice(k, OracleTypeIndexS, OracleTypeIndexE),
              OSlice(k, OracleIdIndexS, OracleIdIndexE), oracles[k].keyType, oracles[k].pubKey,
              OSlice(k, OracleHashIndexS, OracleHashIndexE))
        : k \in {k \in DOMAIN oracles : OAcc(k) = a}}

GetOracleInfoByAccountAndType(a, ot) ==
    {OracleOf(k, a, ot, OSlice(k, OracleIdIndexS, OracleIdIndexE), oracles[k].keyType,
              oracles[k].pubKey, OSlice(k, OracleHashIndexS, OracleHashIndexE))
        : k \in {k \in DOMAIN oracles : k.type = ot /\ OAcc(k) = a}}

(* GetBlockChild(hash) and its publish parameters: the publication keyed   *)
(* by a previous-block hash was made by that block's child.               *)
ChildPublish(h) ==
    IF \E k \in DOMAIN publishes : k.hash = h
    THEN LET k == CHOOSE k \in DOMAIN publishes : k.hash = h
         IN [ptype |-> k.type, pid |-> k.id, keyType |-> publishes[k].keyType,
             pubKey |-> publishes[k].pubKey]
    ELSE None

GetOracleInfoByHash(h) ==
    LET pi == ChildPublish(h)
    IN IF pi = None THEN None
       ELSE {OracleOf(k, OAcc(k), pi.ptype, pi.pid, pi.keyType, pi.pubKey, h)
               : k \in {k \in DOMAIN oracles :
                          k.type = pi.ptype /\ k.id = pi.pid /\ k.hash = h
                          /\ k.pk = KeyHash(pi.keyType, pi.pubKey)}}

-----------------------------------------------------------------------------
(* The storage the contract methods may have written.                      *)

(* The lists holding distinct elements of S, at least one.                 *)
DistinctSeqs(S) ==
    UNION {{f \in [1..n -> S] : \A i, j \in 1..n : f[i] = f[j] => i = j} : n \in 1..Cardinality(S)}

InitVerifiers ==
    \E keys \in SUBSET [type : OracleTypes, account : Accounts] :
        /\ verifiers \in [keys -> [vinfo : Infos, vkey : VKeys, valid : BOOLEAN]]
        /\ \A k \in keys : k.type = Email => verifiers[k].vinfo \in Emails

(* The PubKeyInfo values Publish may store under key k.                    *)
PublishValues(k) ==
    UNION {{[account |-> a, keyType |-> k.pk[1], pubKey |-> k.pk[2], verifiers |-> vs,
             codes |-> cs, valid |-> b]
               : a \in Accounts, cs \in [DOMAIN vs -> {CodeHash(k.pk[2], c) : c \in Codes}],
                 b \in BOOLEAN}
             : vs \in DistinctSeqs(Accounts)}

PublishCandidates ==
    {PublishKey(pt, id, kp[1], kp[2], h)
        : pt \in OracleTypes, id \in Ids, h \in Hashes,
          kp \in {kp \in KeyTypes \X PubKeys : KeyLenOK(kp[1], kp[2])}}

InitPublishes ==
    \E keys \in SUBSET PublishCandidates :
        /\ \A k1, k2 \in keys : k1.hash = k2.hash => k1 = k2
        /\ publishes \in [keys -> UNION {PublishValues(k) : k \in keys}]
        /\ \A k \in keys : publishes[k] \in PublishValues(k)

(* The publication an oracle key refers to.                                *)
PublishOfOracle(k) == [type |-> k.type, id |-> k.id, pk |-> k.pk, hash |-> k.hash]

(* The oracle entry Oracle stores after OracleInfoCheck passed: the code  *)
(* whose hash the publication holds for the account.                       *)
OracleValue(k) ==
    LET p == publishes[PublishOfOracle(k)]
        i == CHOOSE i \in DOMAIN p.verifiers : p.verifiers[i] = k.account
    IN [code |-> CHOOSE c \in Codes : CodeHash(k.pk[2], c) = p.codes[i],
        keyType |-> k.pk[1], pubKey |-> k.pk[2]]

OracleCandidates ==
    {[type |-> k.type, id |-> k.id, pk |-> k.pk, hash |-> k.hash, account |-> a]
        : k \in DOMAIN publishes, a \in Accounts}

InitOracles ==
    \E keys \in SUBSET {k \in OracleCandidates :
                          \E i \in DOMAIN publishes[PublishOfOracle(k)].verifiers :
                             publishes[PublishOfOracle(k)].verifiers[i] = k.account} :
        oracles = [k \in keys |-> OracleValue(k)]

Init == InitVerifiers /\ InitPublishes /\ InitOracles

Next == UNCHANGED vars

Spec == Init /\ [][Next]_vars

-----------------------------------------------------------------------------
(* Properties.                                                             *)

ArgTypes == OracleTypes \cup {BadType}

TypeOK ==
    /\ DOMAIN verifiers \subseteq [type : OracleTypes, account : Accounts]
    /\ DOMAIN publishes \subseteq PublishCandidates
    /\ \A k \in DOMAIN oracles : PublishOfOracle(k) \in DOMAIN publishes /\ k.account \in Accounts

(* The records a scan should return: the valid entries, each field as the *)
(* key was built from it.                                                  *)
RefVerifiers == {VerifierOf(k, k.account, k.type) : k \in ValidVerifierKeys}
RefPublishes == {PublishOf(k, publishes[k].account, k.type, k.id, k.hash) : k \in ValidPublishKeys}
RefOracles == {OracleOf(k, k.account, k.type, k.id, k.pk[1], k.pk[2], k.hash) : k \in DOMAIN oracles}

(* Every scan of the verifier, publish and oracle tables (GetAllVerifiers, *)
(* GetVerifiersByType/ByAccount, GetAllPublishInfo, GetPublishInfoBy...,   *)
(* GetAllOracleInfo, GetOracleInfoBy..., GetOracleInfoByHash through the   *)
(* publishing block) returns exactly the valid entries its filter selects, *)
(* with every field read back out of the iterated key by the byte offsets  *)
(* as the key was built.                                                   *)
PKDScansAgree ==
    /\ GetAllVerifiers = RefVerifiers
    /\ \A t \in ArgTypes : GetVerifiersByType(t) = {v \in RefVerifiers : v.vtype = t}
    /\ \A a \in Accounts : GetVerifiersByAccount(a) = {v \in RefVerifiers : v.account = a}
    /\ GetAllPublishInfo = RefPublishes
    /\ \A pt \in ArgTypes, a \in Accounts, id \in Ids :
          /\ GetPublishInfoByType(pt) = {p \in RefPublishes : p.ptype = pt}
          /\ GetPublishInfoByTypeAndId(pt, id) = {p \in RefPublishes : p.ptype = pt /\ p.pid = id}
          /\ GetPublishInfoByAccount(a) = {p \in RefPublishes : p.account = a}
          /\ GetPublishInfoByAccountAndType(a, pt)
                = {p \in RefPublishes : p.account = a /\ p.ptype = pt}
    /\ GetAllOracleInfo = RefOracles
    /\ \A ot \in ArgTypes, a \in Accounts, id \in Ids :
          /\ GetOracleInfoByType(ot) = {o \in RefOracles : o.otype = ot}
          /\ GetOracleInfoByTypeAndID(ot, id) = {o \in RefOracles : o.otype = ot /\ o.oid = id}
          /\ \A kt \in KeyTypes, pk \in PubKeys :
                GetOracleInfoByTypeAndIDAndPk(ot, id, kt, pk)
                   = {o \in RefOracles : o.otype = ot /\ o.oid = id /\ o.keyType = kt /\ o.pubKey = pk}
          /\ GetOracleInfoByAccount(a) = {o \in RefOracles : o.account = a}
          /\ GetOracleInfoByAccountAndType(a, ot) = {o \in RefOracles : o.account = a /\ o.otype = ot}
    /\ \A h \in Hashes :
          ChildPublish(h) # None => GetOracleInfoByHash(h) = {o \in RefOracles : o.hash = h}

(* The point reads and the checks the contract methods run agree with the *)
(* scans: a verifier exists (CheckVerifierExist, GetVerifierInfoByAccount- *)
(* AndType, VerifierUnRegInfoCheck) exactly when the account's scan lists  *)
(* it, registration is refused exactly for a listed identical entry, a    *)
(* publication is the caller's (CheckPublishInfoExist) exactly when the    *)
(* account's scan lists it, an oracle entry exists exactly when the        *)
(* account's oracle scan lists it, and OracleInfoCheck accepts exactly the *)
(* code whose hash a listed publication holds for the account.            *)
PKDChecksAgree ==
    \A a \in Accounts, t \in ArgTypes :
        LET myVerifiers == GetVerifiersByAccount(a)
            myPublishes == GetPublishInfoByAccount(a)
            myOracles == GetOracleInfoByAccount(a)
        IN
        /\ CheckVerifierExist(a, t) <=> \E v \in myVerifiers : v.vtype = t
        /\ GetVerifierInfoByAccountAndType(a, t) # None <=> CheckVerifierExist(a, t)
        /\ VerifierUnRegInfoCheck(a, t) <=> t \in OracleTypes /\ CheckVerifierExist(a, t)
        /\ \A info \in Infos, key \in VKeys :
              VerifierRegInfoCheck(a, t, info, key)
                 <=> /\ t \in OracleTypes /\ (t = Email => info \in Emails)
                     /\ [account |-> a, vtype |-> t, vinfo |-> info, vkey |-> key] \notin myVerifiers
        /\ \A id \in Ids :
              LET typed == GetPublishInfoByTypeAndId(t, id)
              IN \A kt \in KeyTypes, pk \in PubKeys, h \in Hashes :
                 LET listed == {p \in typed : p.keyType = kt /\ p.pubKey = pk /\ p.hash = h}
                 IN /\ CheckPublishInfoExist(a, t, id, kt, pk, h)
                          <=> \E p \in myPublishes :
                                 p.ptype = t /\ p.pid = id /\ p.keyType = kt /\ p.pubKey = pk /\ p.hash = h
                    /\ CheckOracleInfoExist(a, t, id, kt, pk, h)
                          <=> \E o \in myOracles :
                                 o.otype = t /\ o.oid = id /\ o.keyType = kt /\ o.pubKey = pk /\ o.hash = h
                    /\ \A code \in Codes :
                          OracleInfoCheck(a, t, id, kt, pk, code, h)
                             <=> \E p \in listed : \E i \in DOMAIN p.verifiers :
                                    p.verifiers[i] = a /\ p.codes[i] = CodeHash(pk, code)

====
