------------------------------ MODULE Keystore ------------------------------
(***************************************************************************)
(* How a signer comes to be: load_signer (src/src/main.rs), Signer         *)
(* (src/src/keys.rs) and the readers of JKS and PKCS#12 stores             *)
(* (src/src/jks.rs, src/src/pkcs12.rs).  The PKCS#12 reader verifies the   *)
(* MAC, decrypts every encrypted container and recovers the keys that the  *)
(* request can select on threads of their own, then judges the results in  *)
(* an order of its own.                                                    *)
(*                                                                         *)
(* A file is what its parsing yields; malformed DER is a flag where the    *)
(* parser meets it.  Bags nested in a SafeContents bag follow it in the    *)
(* list of bags, with their depth.  What a wrong password decrypts to is   *)
(* chosen at the start (luck): bytes without valid padding, with padding   *)
(* but no structure ("noise"), or by chance an empty SEQUENCE ("empty").   *)
(* The derivation of keys is that of Sha256 or, on ring, that of the       *)
(* standards (DerivedKey, Hash); a file was written to the standards.      *)
(***************************************************************************)
EXTENDS Sha256, SequencesExt, Picking

CONSTANTS
    Cases,       \* the pairs of a request and the files it finds
    KeyLen,      \* the length of an AES key
    MaxNesting,  \* MAX_NESTING
    Lower        \* to_lowercase on the names of the instance

None == "none"   \* no alias, no friendlyName, no localKeyId

\* What a file may hold.  A character of a password is not NUL.
Password == Seq({"char"} \X Nat)
Lock ==
    [pw : Password, salt : Seq({"salt"} \X Nat), iterations : Nat \ {0}, sha256 : BOOLEAN,
     supported : BOOLEAN]
MacData ==
    [present : BOOLEAN, pw : Password, salt : Seq({"salt"} \X Nat), iterations : Nat \ {0},
     sha256 : BOOLEAN, supported : BOOLEAN]
PrivateKey == [type : {"rsa3072", "rsa4096", "ec", "bareEc", "junk"}, id : Nat]
KeyDer == [shrouded : BOOLEAN, lock : Lock, key : PrivateKey]
CertDer == [issuer : STRING, subject : STRING, pub : Nat, wellFormed : BOOLEAN]
SafeBag ==
    [kind : {"key"}, depth : Nat, name : STRING, localId : STRING, der : KeyDer]
      \cup [kind : {"cert"}, depth : Nat, name : STRING, localId : STRING, der : CertDer]
      \cup [kind : {"crl", "safe", "broken"}, depth : Nat, name : STRING, localId : STRING, der : {<<>>}]
ContentInfo ==
    [kind : {"data", "encrypted", "absent", "enveloped", "malformed"}, lock : Lock, bags : Seq(SafeBag)]
JksEntry == [tag : {"key", "cert", "unknown"}, alias : STRING, der : KeyDer, chain : Seq(CertDer)]
KeyFile ==
    [kind : {"pkcs12", "jks", "jceks", "unknown", "unreadable", "files"}, wellFormed : BOOLEAN,
     mac : MacData, tampered : BOOLEAN, parts : Seq(ContentInfo), jks : Seq(JksEntry),
     keyFile : Seq([label : STRING, key : PrivateKey]), certFile : Seq([label : STRING, der : CertDer])]

\* What is asked for: where the passwords come from, the alias, the lines of
\* stdin.
PasswordSpec == [from : {"absent", "broken", "stdin", "value"}, pw : Password]
KeySource ==
    [source : {"ks", "files"}, ksPass : PasswordSpec, keyPass : PasswordSpec, alias : STRING,
     stdin : Seq(Password)]

\* A JKS store always has its digest, and its keys are always encrypted.
ASSUME CasesAssumption ==
    \A c \in Cases :
        /\ c.ask \in KeySource /\ c.file \in KeyFile
        /\ c.ask.source = "ks" => c.file.kind # "files"
        /\ c.ask.source = "files" => c.file.kind \in {"files", "unreadable"}
        /\ c.file.kind = "jks" =>
              /\ c.file.mac.present /\ c.file.mac.supported
              /\ \A i \in DOMAIN c.file.jks : c.file.jks[i].tag = "key" => c.file.jks[i].der.shrouded
ASSUME KeyLenAssumption == KeyLen \in Nat \ {0}

\* What a decryption or a thread returns.
Ok(value) == [err |-> "ok", value |-> value]
Err(cause) == [err |-> cause, value |-> <<>>]
Running == Err("running")
NotTried == Err("not tried")

NoSigner == [key |-> <<>>, alg |-> "none", certs |-> <<>>]

VARIABLES
    ask,        \* the request: KeySource and the lines on stdin, fixed
    file,       \* the files it names, fixed
    luck,       \* what a wrong password decrypts to, fixed
    ext,        \* ShaExt::detect(), fixed
    stage,      \* where the loading thread is
    storePw,    \* store_pw
    keyPw,      \* key_pw
    out,        \* the threads spawned so far and what they return
    walkErr,    \* the error of safe_contents, or "ok"
    part,       \* how many parts of the AuthenticatedSafe are collected
    bags,       \* the bags collected
    entries,    \* keys: the entries of the store
    chosen,     \* entry: the one selected
    signer,     \* the Signer
    verdict     \* what becomes of the request

fixed == <<ask, file, luck, ext>>
pwds == <<storePw, keyPw>>
collected == <<part, bags>>
result == <<signer, verdict>>
loadVars == <<fixed, stage, pwds, out, walkErr, collected, entries, chosen, result>>

LoadInit ==
    /\ \E c \in Cases : ask = c.ask /\ file = c.file
    /\ luck \in {"pad", "noise", "empty"}
    /\ ext \in BOOLEAN
    /\ stage = "password"
    /\ storePw = <<>> /\ keyPw = <<>>
    /\ out = <<>>
    /\ walkErr = "ok"
    /\ part = 0 /\ bags = <<>>
    /\ entries = <<>> /\ chosen = <<>>
    /\ signer = NoSigner /\ verdict = "none"

Goto(place) == stage' = place /\ UNCHANGED verdict
Conclude(cause) == stage' = "done" /\ verdict' = cause

-----------------------------------------------------------------------------
(* load_signer: the passwords.                                             *)

\* resolve_password: at the end of stdin the line, and the password, is empty.
Resolve(spec, lines) ==
    IF spec.from # "stdin" THEN spec.pw ELSE IF lines = <<>> THEN <<>> ELSE Head(lines)
Rest(spec, lines) ==
    IF spec.from # "stdin" \/ lines = <<>> THEN lines ELSE Tail(lines)

\* The key password is asked for, though the store's is the default.
KeyPasswordFirst(lines) ==
    [store |-> Resolve(ask.ksPass, Rest(ask.keyPass, lines)), key |-> Resolve(ask.keyPass, lines)]

\* load_signer: the store's password, then the key's, by default the same.
Passwords(lines) ==
    LET store == Resolve(ask.ksPass, lines)
    IN [store |-> store,
        key |-> IF ask.keyPass.from = "absent" THEN store
                ELSE Resolve(ask.keyPass, Rest(ask.ksPass, lines))]

GetPasswords ==
    /\ stage = "password"
    /\ IF ask.source = "files" THEN Goto("files") /\ UNCHANGED pwds
       ELSE IF ask.ksPass.from = "absent" \/ "broken" \in {ask.ksPass.from, ask.keyPass.from}
         THEN Conclude("no password") /\ UNCHANGED pwds
         ELSE /\ Goto("read")
              /\ storePw' = Passwords(ask.stdin).store
              /\ keyPw' = Passwords(ask.stdin).key
    /\ UNCHANGED <<fixed, out, walkErr, collected, entries, chosen, signer>>

-----------------------------------------------------------------------------
(* Key derivation and decryption.                                          *)

\* PKCS#12-KDF for a key as long as the digest (fill, the first hash, then
\* iterate): RFC 7292, B.2.
Fill(s) ==
    [i \in 1 .. Block * ((Len(s) + Block - 1) \div Block) |-> s[((i - 1) % Len(s)) + 1]]
BmpPassword(pw) == Append(pw, Zero)
KdfInput(pw, salt) == [i \in 1 .. Block |-> Byte("id", 3)] \o Fill(salt) \o Fill(BmpPassword(pw))

Pkcs12Kdf(pw, salt, iterations, sha256) ==
    LET first == Hash(KdfInput(pw, salt))
    IN IF ext /\ sha256 THEN Iterate(first, iterations - 1) ELSE HashIterated(first, iterations - 1)

\* verify_mac
VerifyMac(pw) ==
    IF ~file.mac.supported THEN Err("unsupported")
    ELSE IF /\ ~file.tampered
            /\ Pkcs12Kdf(pw, file.mac.salt, file.mac.iterations, file.mac.sha256)
                 = HashIterated(KdfInput(file.mac.pw, file.mac.salt), file.mac.iterations)
           THEN Ok(<<>>) ELSE Err("integrity")

\* pbes2_decrypt of what was encrypted as lock says
Pbes2Decrypt(lock, plain, pw) ==
    LET key == IF ext /\ lock.sha256 THEN Pbkdf2(pw, lock.salt, lock.iterations, KeyLen)
               ELSE DerivedKey(pw, lock.salt, lock.iterations, KeyLen)
    IN IF ~lock.supported THEN Err("unsupported")
       ELSE IF key = DerivedKey(lock.pw, lock.salt, lock.iterations, KeyLen) THEN Ok(plain)
       ELSE Err(luck)

\* pkcs12::recover_key.  A chance SEQUENCE passes for a PrivateKeyInfo.
JunkKey == [type |-> "junk", id |-> 0]
RecoverKey(der, pw) ==
    LET r == Pbes2Decrypt(der.lock, der.key, pw)
    IN CASE ~der.shrouded -> Ok(der.key)
         [] der.shrouded /\ r.err \in {"pad", "noise"} -> Err("key password")
         [] der.shrouded /\ r.err = "empty" -> Ok(JunkKey)
         [] der.shrouded /\ r.err \in {"ok", "unsupported"} -> r

-----------------------------------------------------------------------------
(* PKCS#12.                                                                *)

\* parse_safe_contents
WellFormed(bs) ==
    \A i \in DOMAIN bs : bs[i].kind # "broken" /\ (bs[i].kind = "safe" => bs[i].depth < MaxNesting)
KeyBags(bs) == Picked(bs, {i \in DOMAIN bs : bs[i].kind = "key"})
CertBags(bs) == Picked(bs, {i \in DOMAIN bs : bs[i].kind = "cert"})

\* safe_contents: the containers that are kept as parts, and its error.  A
\* container without content is passed over.
Containers == Picked(file.parts, {i \in DOMAIN file.parts : file.parts[i].kind # "absent"})
WalkError ==
    LET bad(p) == p.kind = "enveloped" \/ p.kind = "malformed" \/ (p.kind = "data" /\ ~WellFormed(p.bags))
        n == SelectInSeq(file.parts, bad)
    IN IF n = 0 THEN "ok" ELSE IF file.parts[n].kind = "enveloped" THEN "unsupported" ELSE "malformed"

\* The keys in the clear, and those of them that the request can select.
PlainKeys ==
    KeyBags(Flattened([i \in DOMAIN Containers |->
                       IF Containers[i].kind = "data" THEN Containers[i].bags ELSE <<>>]))
Wanted(b) == ask.alias = None \/ (b.name # None /\ Lower[b.name] = Lower[ask.alias])

Mac == <<"mac", 0>>
MacThread == IF file.mac.present THEN {Mac} ELSE {}
DeriveThreads ==
    {<<"part", i>> : i \in {i \in DOMAIN Containers : Containers[i].kind = "encrypted"}}
      \cup {<<"key", j>> : j \in {j \in DOMAIN PlainKeys : Wanted(PlainKeys[j])}}

\* What is needed of the file before the first thread: readable, and a PFX.
\* A file that is not PKCS#12 goes to the JKS reader.
ReadStore ==
    /\ stage = "read"
    /\ CASE file.kind = "unreadable" -> Conclude("io") /\ UNCHANGED out
         [] file.kind = "pkcs12" /\ ~file.wellFormed -> Conclude("malformed") /\ UNCHANGED out
         [] file.kind = "pkcs12" /\ file.wellFormed ->
              Goto("walk") /\ out' = [t \in MacThread |-> Running]
         [] file.kind \in {"jks", "jceks", "unknown"} -> Goto("jks") /\ UNCHANGED out
    /\ UNCHANGED <<fixed, pwds, walkErr, collected, entries, chosen, signer>>

\* A thread ends.
Derive(t) ==
    /\ t \in DOMAIN out /\ out[t].err = "running"
    /\ out' = [out EXCEPT ![t] =
                  CASE t[1] = "mac" -> VerifyMac(storePw)
                    [] t[1] = "part" -> Pbes2Decrypt(Containers[t[2]].lock, Containers[t[2]].bags, storePw)
                    [] t[1] = "key" -> RecoverKey(PlainKeys[t[2]].der, keyPw)]
    /\ UNCHANGED <<fixed, stage, pwds, walkErr, collected, entries, chosen, result>>

\* The AuthenticatedSafe is walked while the MAC is verified; then all other
\* threads are spawned.
Walk ==
    /\ stage = "walk"
    /\ walkErr' = WalkError
    /\ IF WalkError = "ok"
         THEN /\ out' = [t \in DOMAIN out \cup DeriveThreads |->
                            IF t \in DOMAIN out THEN out[t] ELSE Running]
              /\ Goto("join")
         ELSE UNCHANGED out /\ Goto("mac")
    /\ UNCHANGED <<fixed, pwds, collected, entries, chosen, signer>>

Ended(ts) == \A t \in ts : out[t].err # "running"

\* The threads of the inner scope are joined.
JoinThreads ==
    /\ stage = "join" /\ Ended(DeriveThreads)
    /\ Goto("mac")
    /\ UNCHANGED <<fixed, pwds, out, walkErr, collected, entries, chosen, signer>>

\* The error of the walk is returned before the MAC is looked at.
JoinMacLate ==
    /\ stage = "mac" /\ Ended(MacThread)
    /\ IF walkErr # "ok" THEN Conclude(walkErr)
       ELSE IF file.mac.present /\ out[Mac].err # "ok" THEN Conclude(out[Mac].err)
       ELSE Goto("collect")
    /\ UNCHANGED <<fixed, pwds, out, walkErr, collected, entries, chosen, signer>>

\* mac_ok: its verdict comes before every other.
JoinMac ==
    /\ stage = "mac" /\ Ended(MacThread)
    /\ IF file.mac.present /\ out[Mac].err # "ok" THEN Conclude(out[Mac].err)
       ELSE IF walkErr # "ok" THEN Conclude(walkErr)
       ELSE Goto("collect")
    /\ UNCHANGED <<fixed, pwds, out, walkErr, collected, entries, chosen, signer>>

\* The text of a part: its own, or what its thread decrypted.
Text(i) ==
    IF Containers[i].kind = "data" THEN Ok(Containers[i].bags)
    ELSE LET r == out[<<"part", i>>] IN
         CASE r.err = "pad" -> Err("store password")
           [] r.err = "noise" -> Err("malformed")
           [] r.err = "empty" -> Ok(<<>>)
           [] r.err \in {"ok", "unsupported"} -> r

\* Bags in document order.
Collect ==
    /\ stage = "collect" /\ part < Len(Containers)
    /\ LET r == Text(part + 1) IN
         IF r.err # "ok" THEN Conclude(r.err) /\ UNCHANGED collected
         ELSE IF ~WellFormed(r.value) THEN Conclude("malformed") /\ UNCHANGED collected
         ELSE /\ part' = part + 1
              /\ bags' = bags \o r.value
              /\ Goto("collect")
    /\ UNCHANGED <<fixed, pwds, out, walkErr, entries, chosen, signer>>

Keys == KeyBags(bags)
Certs == CertBags(bags)

\* Certificates that were used are used again.
BuildChainAgain(certs, leaf) ==
    LET used[n \in 1 .. Len(certs)] ==
            IF n = 1 THEN <<leaf>>
            ELSE LET u == used[n - 1]
                     cur == certs[Last(u)].der
                     issuers == {i \in DOMAIN certs : certs[i].der.subject = cur.issuer}
                 IN IF cur.issuer = cur.subject \/ issuers = {} THEN u ELSE Append(u, Min(issuers))
    IN [n \in DOMAIN used[Len(certs)] |-> certs[used[Len(certs)][n]].der]

\* build_chain: from the leaf on, the first certificate not used yet whose
\* subject is the issuer, until one is its own issuer or there is none.
BuildChain(certs, leaf) ==
    LET used[n \in 1 .. Len(certs)] ==
            IF n = 1 THEN <<leaf>>
            ELSE LET u == used[n - 1]
                     cur == certs[Last(u)].der
                     issuers == {i \in DOMAIN certs : /\ \A j \in DOMAIN u : u[j] # i
                                                      /\ certs[i].der.subject = cur.issuer}
                 IN IF cur.issuer = cur.subject \/ issuers = {} THEN u ELSE Append(u, Min(issuers))
    IN [n \in DOMAIN used[Len(certs)] |-> certs[used[Len(certs)][n]].der]

\* The certificate of a key: the one with its localKeyId or, for the only
\* key, the one that issued no other; 0 if there is none.  The second index
\* counts only certificates that can be parsed.
LeafOf(k, lone, certs) ==
    LET byId == IF k.localId = None THEN 0
                ELSE SelectInSeq(certs, LAMBDA c : c.localId = k.localId)
        ders == Picked([i \in DOMAIN certs |-> certs[i].der], {i \in DOMAIN certs : certs[i].der.wellFormed})
        leaves == {i \in DOMAIN ders :
                      ~\E j \in DOMAIN ders : /\ j # i
                                              /\ ders[j].issuer = ders[i].subject
                                              /\ ders[j].issuer # ders[j].subject}
    IN IF byId # 0 THEN byId
       ELSE IF lone /\ Cardinality(leaves) = 1 THEN Min(leaves) ELSE 0

\* The recovered key of an entry is found by its bytes.
RecoveredOf(der) ==
    LET js == {j \in DOMAIN PlainKeys : <<"key", j>> \in DOMAIN out /\ PlainKeys[j].der = der}
    IN IF js = {} THEN NotTried ELSE out[<<"key", Min(js)>>]

\* The name of key k: friendlyName in lower case, or a number.
AliasOf(keys, k) ==
    IF keys[k].name # None THEN Lower[keys[k].name]
    ELSE ToString(Cardinality({i \in 1 .. k : keys[i].name = None}))

\* The next key becomes an entry.  Every certificate must have its names as
\* soon as one key has a leaf.
Pair ==
    /\ stage = "collect" /\ part = Len(Containers) /\ Len(entries) < Len(Keys)
    /\ LET k == Len(entries) + 1
           leaf == LeafOf(Keys[k], Len(Keys) = 1, Certs)
       IN IF leaf # 0 /\ \E i \in DOMAIN Certs : ~Certs[i].der.wellFormed
            THEN Conclude("malformed") /\ UNCHANGED entries
            ELSE /\ entries' = Append(entries,
                        [alias |-> AliasOf(Keys, k),
                         der |-> Keys[k].der,
                         chain |-> IF leaf = 0 THEN <<>> ELSE BuildChain(Certs, leaf),
                         recovered |-> RecoveredOf(Keys[k].der)])
                 /\ Goto("collect")
    /\ UNCHANGED <<fixed, pwds, out, walkErr, collected, chosen, signer>>

Parsed ==
    /\ stage = "collect" /\ part = Len(Containers) /\ Len(entries) = Len(Keys)
    /\ Goto("select")
    /\ UNCHANGED <<fixed, pwds, out, walkErr, collected, entries, chosen, signer>>

-----------------------------------------------------------------------------
(* JKS.                                                                    *)

\* Entries for trusted certificates are passed over.
JksKeys == Picked(file.jks, {i \in DOMAIN file.jks : file.jks[i].tag = "key"})

\* jks::parse walks the whole store before it looks at the password.
Jks ==
    /\ stage = "jks"
    /\ IF file.kind # "jks" THEN Conclude("unsupported") /\ UNCHANGED entries
       ELSE IF ~file.wellFormed \/ \E i \in DOMAIN file.jks : file.jks[i].tag = "unknown"
         THEN Conclude("malformed") /\ UNCHANGED entries
       ELSE IF storePw # file.mac.pw \/ file.tampered THEN Conclude("integrity") /\ UNCHANGED entries
       ELSE /\ entries' = [i \in DOMAIN JksKeys |->
                              [alias |-> JksKeys[i].alias, der |-> JksKeys[i].der,
                               chain |-> JksKeys[i].chain, recovered |-> NotTried]]
            /\ Goto("select")
    /\ UNCHANGED <<fixed, pwds, out, walkErr, collected, chosen, signer>>

\* jks::recover_key ends with a digest of the password and the plaintext.
JksRecoverKey(der, pw) ==
    IF ~der.lock.supported THEN Err("unsupported")
    ELSE IF pw = der.lock.pw THEN Ok(der.key) ELSE Err("key password")

-----------------------------------------------------------------------------
(* Signer.                                                                 *)

\* load_keystore: the entry of that name, or the only one.
Select ==
    /\ stage = "select"
    /\ LET n == IF ask.alias = None THEN IF Len(entries) = 1 THEN 1 ELSE 0
                ELSE SelectInSeq(entries, LAMBDA e : e.alias = Lower[ask.alias])
       IN IF n = 0 THEN Conclude("no such key") /\ UNCHANGED chosen
          ELSE chosen' = entries[n] /\ Goto("recover")
    /\ UNCHANGED <<fixed, pwds, out, walkErr, collected, entries, signer>>

\* parse_key: a bare EC key takes its public half from the certificate and
\* must match it; any other brings its own.
Parses(key, cert) ==
    key.type \in {"rsa3072", "rsa4096", "ec"} \/ (key.type = "bareEc" /\ key.id = cert.pub)
Algorithm(key) ==
    CASE key.type = "rsa3072" -> "RSA with SHA-256"
      [] key.type = "rsa4096" -> "RSA with SHA-512"
      [] key.type \in {"ec", "bareEc"} -> "ECDSA with SHA-256"

\* from_material: the first candidate that parses.
FromMaterial(keys, certs) ==
    LET n == SelectInSeq(keys, LAMBDA k : Parses(k, certs[1]))
    IN IF ~certs[1].wellFormed THEN Conclude("certificate") /\ UNCHANGED signer
       ELSE IF n = 0 THEN Conclude("key") /\ UNCHANGED signer
       ELSE /\ signer' = [key |-> keys[n], alg |-> Algorithm(keys[n]), certs |-> certs]
            /\ Goto("sign")

\* The key of the entry, recovered before or now, and its certificates.
Recover ==
    /\ stage = "recover"
    /\ LET r == IF chosen.recovered.err # "not tried" THEN chosen.recovered
                ELSE IF file.kind = "jks" THEN JksRecoverKey(chosen.der, keyPw)
                ELSE RecoverKey(chosen.der, keyPw)
       IN IF r.err # "ok" THEN Conclude(r.err) /\ UNCHANGED signer
          ELSE IF chosen.chain = <<>> THEN Conclude("no chain") /\ UNCHANGED signer
          ELSE FromMaterial(<<r.value>>, chosen.chain)
    /\ UNCHANGED <<fixed, pwds, out, walkErr, collected, entries, chosen>>

\* load_files: the private keys of the key file (decode_key_file) and the
\* certificates of the other (decode_cert_file).
LoadFiles ==
    /\ stage = "files"
    /\ LET keys == Picked(file.keyFile, {i \in DOMAIN file.keyFile : file.keyFile[i].label = "PRIVATE KEY"})
           certs == Picked(file.certFile, {i \in DOMAIN file.certFile : file.certFile[i].label = "CERTIFICATE"})
       IN IF file.kind = "unreadable" THEN Conclude("io") /\ UNCHANGED signer
          ELSE IF ~file.wellFormed THEN Conclude("malformed") /\ UNCHANGED signer
          ELSE IF keys = <<>> \/ certs = <<>> THEN Conclude("no such key") /\ UNCHANGED signer
          ELSE FromMaterial([i \in DOMAIN keys |-> keys[i].key], [i \in DOMAIN certs |-> certs[i].der])
    /\ UNCHANGED <<fixed, pwds, out, walkErr, collected, entries, chosen>>

\* The signature is returned unverified.
SignUnverified ==
    /\ stage = "sign"
    /\ Conclude("signed")
    /\ UNCHANGED <<fixed, pwds, out, walkErr, collected, entries, chosen, signer>>

\* Signer::sign verifies what it signed with the certificate's public key.
Sign ==
    /\ stage = "sign"
    /\ IF signer.key.id = signer.certs[1].pub THEN Conclude("signed") ELSE Conclude("mismatch")
    /\ UNCHANGED <<fixed, pwds, out, walkErr, collected, entries, chosen, signer>>

Loader ==
    \/ GetPasswords \/ ReadStore \/ Walk \/ JoinThreads \/ JoinMac \/ Collect \/ Pair \/ Parsed
    \/ Jks \/ Select \/ Recover \/ LoadFiles \/ Sign

Reported == stage = "done" /\ UNCHANGED loadVars

LoadNext == Loader \/ (\E t \in DOMAIN out : Derive(t)) \/ Reported

Loading == LoadInit /\ [][LoadNext]_loadVars
-----------------------------------------------------------------------------
(* Properties.                                                             *)

\* The passwords that the request gives: stdin holds the store's, then the
\* key's.
Given == /\ ask.ksPass.from # "absent"
         /\ "broken" \notin {ask.ksPass.from, ask.keyPass.from}
Line(n) == IF n <= Len(ask.stdin) THEN ask.stdin[n] ELSE <<>>
GivenStore == IF ask.ksPass.from = "stdin" THEN Line(1) ELSE ask.ksPass.pw
GivenKey ==
    CASE ask.keyPass.from = "absent" -> GivenStore
      [] ask.keyPass.from = "value" -> ask.keyPass.pw
      [] ask.keyPass.from = "stdin" -> Line(IF ask.ksPass.from = "stdin" THEN 2 ELSE 1)

\* The keys and certificates of the store as they were written, and which of
\* the keys is asked for.
Written == Flattened([i \in DOMAIN Containers |-> Containers[i].bags])
StoreKeys ==
    IF file.kind = "jks" THEN JksKeys ELSE KeyBags(Written)
NameOf(n) == IF file.kind = "jks" THEN StoreKeys[n].alias ELSE AliasOf(StoreKeys, n)
Asked(n) ==
    IF ask.alias = None THEN n = 1 /\ Len(StoreKeys) = 1
    ELSE NameOf(n) = Lower[ask.alias] /\ \A m \in 1 .. n - 1 : NameOf(m) # Lower[ask.alias]

Intact ==
    /\ file.kind \in {"jks", "pkcs12"} /\ file.wellFormed
    /\ \A i \in DOMAIN file.jks : file.jks[i].tag # "unknown"
    /\ \A i \in DOMAIN file.parts : /\ file.parts[i].kind \in {"data", "encrypted", "absent"}
                                    /\ WellFormed(file.parts[i].bags)
\* The store password passes what protects the store as a whole.
Passes ==
    file.mac.present => file.mac.supported /\ file.mac.pw = GivenStore /\ ~file.tampered
Opens ==
    \A i \in DOMAIN Containers : Containers[i].kind = "encrypted" =>
        Containers[i].lock.supported /\ Containers[i].lock.pw = GivenStore
KeyOpens(der) == der.shrouded => der.lock.supported /\ der.lock.pw = GivenKey

\* A key whose own certificate, in a PKCS#12 store the first with its
\* localKeyId, can be found.
HasOwn(n) ==
    LET certs == CertBags(Written)
        key == StoreKeys[n]
    IN /\ key.der.key.type # "junk"
       /\ IF file.kind = "jks"
            THEN key.chain # <<>> /\ key.chain[1].wellFormed /\ key.chain[1].pub = key.der.key.id
            ELSE /\ key.localId # None
                 /\ \A i \in DOMAIN certs : certs[i].der.wellFormed
                 /\ \E i \in DOMAIN certs :
                       /\ certs[i].localId = key.localId
                       /\ \A j \in 1 .. i - 1 : certs[j].localId # key.localId
                       /\ certs[i].der.pub = key.der.key.id

Keyed == ask.source = "ks" /\ Given

\* "a wrong store password or a tampered file is an integrity failure,
\* whatever else it breaks" (pkcs12.rs, parse): neither an error in the
\* walk, a container that cannot be decrypted nor a wrong key password is
\* reported instead, whichever thread ends first.
IntegrityFirst ==
    /\ stage = "done" /\ Keyed
    /\ file.kind = "pkcs12" /\ file.wellFormed /\ file.mac.present /\ file.mac.supported
    /\ ~Passes
    => verdict = "integrity"

\* The right passwords for an intact store give a signer with the key that was
\* asked for, whatever is wrong with the other keys of the store, whether it
\* was recovered beside the rest or on demand, and with the SHA instructions
\* as without.
RightPasswordsSign ==
    /\ stage = "done" /\ Keyed /\ Intact /\ Passes /\ Opens
    => \A n \in DOMAIN StoreKeys :
          Asked(n) /\ KeyOpens(StoreKeys[n].der) /\ HasOwn(n)
          => verdict = "signed" /\ signer.key = StoreKeys[n].der.key

\* The containers have the password of the store.
OnePassword ==
    /\ file.mac.present
    /\ \A i \in DOMAIN Containers : Containers[i].kind = "encrypted" => Containers[i].lock.pw = file.mac.pw

\* A signature is made only with the key that was asked for, by the right
\* passwords, out of a store that passed its check, and only if the first
\* certificate is the key's.
SignerIsTheKeys ==
    verdict = "signed" =>
        /\ signer.key.id = signer.certs[1].pub
        /\ ask.source = "ks" =>
              /\ Given /\ Passes
              /\ OnePassword \/ Opens =>
                    \E n \in DOMAIN StoreKeys : /\ Asked(n) /\ KeyOpens(StoreKeys[n].der)
                                                /\ signer.key = StoreKeys[n].der.key

\* What is reported is the cause: a password is blamed only if it is wrong,
\* a key is missed only if it is not there, and a wrong password for the key
\* that was asked for, and for no other, ends as such or as a key that does
\* not parse.
BlameIsTrue ==
    stage = "done" /\ Keyed =>
        /\ verdict = "store password" => ~Opens
        /\ verdict = "integrity" => ~Passes
        /\ verdict = "no such key" /\ Opens => ~\E n \in DOMAIN StoreKeys : Asked(n)
        /\ Intact /\ Passes /\ Opens =>
              \A n \in DOMAIN StoreKeys : Asked(n) =>
                  /\ verdict = "key password" => ~KeyOpens(StoreKeys[n].der)
                  /\ KeyOpens(StoreKeys[n].der) \/ verdict \in {"key password", "unsupported", "malformed"}
                       \/ (luck = "empty" /\ verdict \in {"key", "no chain", "certificate"})

\* The chain of a PKCS#12 key begins with its own certificate, every one is
\* followed by one of its issuer, none comes twice that is in the store once,
\* also where certificates are signed across, and it ends only at a root or
\* where the store has no issuer left.
ChainIsLinked ==
    signer # NoSigner /\ file.kind = "pkcs12" =>
        LET chain == signer.certs
            inChain(c) == \E i \in DOMAIN chain : chain[i] = c
            last == chain[Len(chain)]
            certs == Certs
        IN /\ \E k \in DOMAIN Keys : \E c \in DOMAIN certs :
                 /\ Keys[k].der = chosen.der /\ certs[c].der = chain[1]
                 /\ IF Keys[k].localId # None
                          /\ \E d \in DOMAIN certs : certs[d].localId = Keys[k].localId
                      THEN certs[c].localId = Keys[k].localId
                      ELSE /\ Len(Keys) = 1
                           /\ \A d \in DOMAIN certs \ {c} : certs[d].der.issuer = chain[1].subject
                                 => certs[d].der.issuer = certs[d].der.subject
           /\ \A i \in 1 .. Len(chain) - 1 : /\ chain[i].issuer = chain[i + 1].subject
                                              /\ chain[i].issuer # chain[i].subject
           /\ (\A c, d \in DOMAIN certs : certs[c].der = certs[d].der => c = d) =>
                 \A i, j \in DOMAIN chain : chain[i] = chain[j] => i = j
           /\ last.issuer = last.subject
                \/ \A d \in DOMAIN certs : certs[d].der.subject = last.issuer => inChain(certs[d].der)
=============================================================================
