----------------------------- MODULE MCKeystore -----------------------------
(***************************************************************************)
(* Stores as keytool and OpenSSL write them, and stores that are broken in *)
(* one place; requests with right and wrong passwords from every source.   *)
(***************************************************************************)
EXTENDS Keystore

Names == {"a", "A", "b", "1", "2"}
MCLower == [n \in Names |-> IF n = "A" THEN "a" ELSE n]

\* A short password and one that is longer than a block.
P == <<Byte("char", 1)>>
Q == [i \in 1 .. Block + 1 |-> Byte("char", i + 1)]

LockOf(pw) ==
    [pw |-> pw, salt |-> <<Byte("salt", 1)>>, iterations |-> 2, sha256 |-> TRUE, supported |-> TRUE]
SlowLock(pw) == [LockOf(pw) EXCEPT !.sha256 = FALSE, !.iterations = 1]
Legacy(pw) == [LockOf(pw) EXCEPT !.supported = FALSE]

Secret(type, id) == [type |-> type, id |-> id]
Shrouded(lock, key) == [shrouded |-> TRUE, lock |-> lock, key |-> key]
Bare(key) == [shrouded |-> FALSE, lock |-> LockOf(P), key |-> key]
Cert(issuer, subject, pub) ==
    [issuer |-> issuer, subject |-> subject, pub |-> pub, wellFormed |-> TRUE]

Bag(kind, depth, name, localId, der) ==
    [kind |-> kind, depth |-> depth, name |-> name, localId |-> localId, der |-> der]
KeyBag(name, localId, der) == Bag("key", 0, name, localId, der)
CertBag(localId, der) == Bag("cert", 0, None, localId, der)
Other(kind, depth) == Bag(kind, depth, None, None, <<>>)

Data(bs) == [kind |-> "data", lock |-> LockOf(P), bags |-> bs]
Encrypted(lock, bs) == [kind |-> "encrypted", lock |-> lock, bags |-> bs]
Odd(kind) == [kind |-> kind, lock |-> LockOf(P), bags |-> <<>>]

K1 == Secret("rsa3072", 1)
K2 == Secret("ec", 2)
Leaf1 == CertBag("id1", Cert("ca", "leaf", 1))
Leaf2 == CertBag("id2", Cert("leaf2", "leaf2", 2))
Ca == CertBag(None, Cert("root", "ca", 8))
Root == CertBag(None, Cert("root", "root", 9))
\* Two authorities that signed each other.
CrossA == CertBag(None, Cert("cb", "ca", 8))
CrossB == CertBag(None, Cert("ca", "cb", 7))
Garbled == CertBag(None, [Cert("ca", "leaf", 1) EXCEPT !.wellFormed = FALSE])

NoMac == [present |-> FALSE, pw |-> P, salt |-> <<>>, iterations |-> 1, sha256 |-> TRUE, supported |-> TRUE]
WithMac == [NoMac EXCEPT !.present = TRUE, !.salt = <<Byte("salt", 2), Byte("salt", 3)>>, !.iterations = 3]

Store(mac, parts) ==
    [kind |-> "pkcs12", wellFormed |-> TRUE, mac |-> mac, tampered |-> FALSE, parts |-> parts,
     jks |-> <<>>, keyFile |-> <<>>, certFile |-> <<>>]

\* keytool: the shrouded keys in the clear, the certificates encrypted.
Keytool(mac) ==
    Store(mac, <<Data(<<KeyBag("A", "id1", Shrouded(LockOf(P), K1))>>),
                 Encrypted(LockOf(P), <<Root, Leaf1, Ca>>)>>)
\* Two keys with passwords of their own, and one that nothing can read.
Several ==
    Store(WithMac, <<Data(<<KeyBag("b", "id2", Shrouded(SlowLock(Q), K2)),
                            KeyBag("a", "id1", Shrouded(LockOf(P), K1)),
                            KeyBag(None, None, Shrouded(Legacy(P), K1))>>),
                     Encrypted(SlowLock(P), <<Leaf1, Leaf2>>), Encrypted(LockOf(P), <<CrossA, CrossB>>)>>)
\* A key of no name and no id within an encrypted container, and its
\* certificates, in nested bags, in another.
Hidden ==
    Store(WithMac, <<Encrypted(LockOf(P), <<KeyBag(None, None, Shrouded(LockOf(Q), K1))>>), Odd("absent"),
                     Encrypted(LockOf(P), <<Other("crl", 0), Other("safe", 0), CrossB,
                                          Other("safe", 1), CrossA, Leaf1>>)>>)
\* One key under two names, and without encryption.
Twice ==
    Store(WithMac, <<Data(<<KeyBag("a", "id1", Shrouded(LockOf(P), K1)), Leaf1>>),
                     Data(<<KeyBag("b", "id1", Shrouded(LockOf(P), K1)),
                            KeyBag("1", "id2", Bare(K2)), KeyBag(None, None, Bare(K2)), Leaf2>>)>>)
\* Certificates that the key does not match, or that cannot be parsed.
Single(key, id, certs) == Store(WithMac, <<Data(<<KeyBag("a", id, Shrouded(LockOf(P), key))>> \o certs)>>)
Odds ==
    {Single(K1, "id2", <<Leaf2>>), Single(Secret("bareEc", 2), "id2", <<Leaf2>>),
     Single(Secret("bareEc", 1), "id2", <<Leaf2>>), Single(Secret("rsa4096", 1), None, <<Garbled, Leaf1, Ca>>),
     Single(K1, None, <<>>), Single(K1, None, <<Ca, Leaf1>>), Single(K1, "id9", <<Leaf1, Leaf2>>)}
\* Stores that the walk refuses, beside a container that would be encrypted.
Refused ==
    {Store(WithMac, <<Encrypted(LockOf(P), <<Leaf1>>), p>>) :
        p \in {Odd("enveloped"), Odd("malformed"), Data(<<Other("broken", 0)>>),
               Data(<<Other("safe", MaxNesting)>>)}}
      \cup {Store(WithMac, <<Encrypted(LockOf(P), <<Other("broken", 0)>>)>>),
            Store(WithMac, <<Encrypted(Legacy(P), <<Leaf1>>)>>)}
      \cup {[Keytool(WithMac) EXCEPT !.mac.supported = FALSE], [Keytool(WithMac) EXCEPT !.wellFormed = FALSE]}

JksKey(alias, pw, key) ==
    [tag |-> "key", alias |-> alias, der |-> Shrouded(LockOf(pw), key), chain |-> <<Leaf1.der, Ca.der>>]
JksStore(es) == [Store([WithMac EXCEPT !.pw = P], <<>>) EXCEPT !.kind = "jks", !.jks = es]
Trusted == [tag |-> "cert", alias |-> "1", der |-> Bare(K1), chain |-> <<>>]
Jkss ==
    {JksStore(<<Trusted, JksKey("a", Q, K1), JksKey("b", P, K2)>>), JksStore(<<JksKey("a", P, K1)>>),
     JksStore(<<Trusted>>), JksStore(<<[JksKey("a", P, K1) EXCEPT !.der.lock.supported = FALSE]>>),
     JksStore(<<[JksKey("a", P, K1) EXCEPT !.chain = <<Garbled.der>>]>>),
     JksStore(<<[Trusted EXCEPT !.tag = "unknown"]>>), [JksStore(<<>>) EXCEPT !.wellFormed = FALSE],
     [JksStore(<<>>) EXCEPT !.kind = "jceks"], [JksStore(<<>>) EXCEPT !.kind = "unreadable"]}

Tampered(stores) == stores \cup {[s EXCEPT !.tampered = TRUE] : s \in stores}

-----------------------------------------------------------------------------
Value(pw) == [from |-> "value", pw |-> pw]
Source(from) == [from |-> from, pw |-> <<>>]
Ask(ks, key, alias, lines) ==
    [source |-> "ks", ksPass |-> ks, keyPass |-> key, alias |-> alias, stdin |-> lines]

\* Passwords on the command line, for every store.
Plain ==
    {Ask(Value(pw), key, alias, <<>>) :
        pw \in {P, Q}, key \in {Source("absent"), Value(Q)}, alias \in {None, "A", "b", "1"}}
\* Passwords from every source, for one store with a key password of its own.
Sourced ==
    {Ask(ks, key, "A", lines) :
        ks \in {Source(f) : f \in {"absent", "broken", "stdin"}} \cup {Value(P)},
        key \in {Source(f) : f \in {"absent", "broken", "stdin"}} \cup {Value(Q)},
        lines \in {<<>>, <<P, Q>>, <<Q>>}}

\* Key and certificate files.
Block64(label, key) == [label |-> label, key |-> key]
Files(keys, certs) == [Store(NoMac, <<>>) EXCEPT !.kind = "files", !.keyFile = keys, !.certFile = certs]
FileCases ==
    LET ask0 == [Ask(Source("absent"), Source("absent"), None, <<>>) EXCEPT !.source = "files"]
        one == [label |-> "CERTIFICATE", der |-> Leaf1.der]
        key == Block64("PRIVATE KEY", K1)
        other == Block64("PRIVATE KEY", Secret("bareEc", 2))
        files == {Files(<<Block64("CERTIFICATE", JunkKey), key>>, <<one>>), Files(<<other, key>>, <<one>>),
                  Files(<<Block64("PRIVATE KEY", K2), key>>, <<one>>), Files(<<other>>, <<one>>),
                  Files(<<>>, <<one>>), Files(<<key>>, <<>>),
                  Files(<<key>>, <<[one EXCEPT !.der = Garbled.der]>>),
                  [Files(<<key>>, <<one>>) EXCEPT !.wellFormed = FALSE],
                  [Files(<<key>>, <<one>>) EXCEPT !.kind = "unreadable"]}
    IN {[ask |-> ask0, file |-> f] : f \in files}

MCCases ==
    {[ask |-> a, file |-> f] :
        a \in Plain,
        f \in Tampered({Keytool(WithMac), Several, Hidden, Twice} \cup Refused \cup Jkss)
                \cup {Keytool(NoMac)} \cup Odds}
      \cup {[ask |-> a, file |-> f] : a \in Sourced, f \in {JksStore(<<JksKey("a", Q, K1)>>), Keytool(WithMac)}}
      \cup FileCases
=============================================================================
