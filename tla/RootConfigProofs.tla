-------------------------- MODULE RootConfigProofs --------------------------
(***************************************************************************)
(* Proofs about the configuration of a root: acknowledged password and     *)
(* hint changes are never lost, the content key never changes, and the     *)
(* file is a register that changes in one step, for any number of          *)
(* processes, passwords, operations, kills and power failures, as long as  *)
(* nothing else runs while a root is created (Overlap = FALSE).            *)
(***************************************************************************)
EXTENDS RootConfig, SequenceTheorems, TLAPS

-----------------------------------------------------------------------------
(* Configurations and what is stored in them *)

Files == Configs \cup {Absent, Torn}

LEMMA Literals ==
    /\ <<>> \in Numbers
    /\ \A n \in Nat : <<n>> \in Numbers /\ <<n>> # <<>>
    /\ \A a, b, c \in Nat : <<a, b, c>> \in Numbers /\ <<a, b, c>> # <<>>
<1>1. <<>> \in Numbers
  BY EmptySeq DEF Numbers
<1>2. ASSUME NEW n \in Nat PROVE <<n>> \in Numbers /\ <<n>> # <<>>
  BY DEF Numbers
<1>3. ASSUME NEW a \in Nat, NEW b \in Nat, NEW c \in Nat
      PROVE  <<a, b, c>> \in Numbers /\ <<a, b, c>> # <<>>
  BY DEF Numbers
<1> QED  BY <1>1, <1>2, <1>3

LEMMA NewConfigType ==
    /\ NewConfig \in Configs
    /\ \A k \in Keys : NewConfig[k] = <<>>
BY Literals DEF NewConfig, Configs, Keys

LEMMA ConfigDomain ==
    ASSUME NEW c \in Configs
    PROVE  DOMAIN c = Keys /\ c = [k \in Keys |-> c[k]]
BY DEF Configs, Keys

LEMMA ConfigTypes ==
    ASSUME NEW c \in Configs
    PROVE  /\ c["factories"] \in {<<>>} \cup Derivers \X Nat
           /\ c["salt"] \in Numbers /\ c["cost"] \in Numbers /\ c["length"] \in Numbers
           /\ c["challenge"] \in Numbers
           /\ c["hint"] \in {<<>>} \cup {<<h>> : h \in Hints}
           /\ c["ciphertext"] \in {<<>>} \cup DerivedKeys \X Numbers \X ContentKeys
BY DEF Configs

\* Storing the parameters of a derivation.
LEMMA StoreDerivation ==
    ASSUME NEW c \in Configs, NEW salt \in Numbers, NEW cost \in Numbers, NEW length \in Numbers,
           NEW m, m = Store(Derivation(salt, cost, length), c)
    PROVE  /\ m \in Configs
           /\ m["salt"] = salt /\ m["cost"] = cost /\ m["length"] = length
           /\ \A k \in Keys \ {"salt", "cost", "length"} : m[k] = c[k]
<1>d. PICK d : d = Derivation(salt, cost, length)
  OBVIOUS
<1>1. DOMAIN d = {"salt", "cost", "length"} /\ d["salt"] = salt /\ d["cost"] = cost /\ d["length"] = length
  BY <1>d DEF Derivation
<1>2. m = [k \in Keys |-> IF k \in {"salt", "cost", "length"} THEN d[k] ELSE c[k]]
  BY <1>d, <1>1, ConfigDomain DEF Store
<1>3. m["salt"] = salt /\ m["cost"] = cost /\ m["length"] = length
  BY <1>1, <1>2 DEF Keys
<1>4. \A k \in Keys \ {"salt", "cost", "length"} : m[k] = c[k]
  BY <1>2
<1> QED  BY <1>2, <1>3, <1>4 DEF Keys, Configs

\* Storing the verifier of a key.
LEMMA StoreVerifier ==
    ASSUME NEW c \in Configs, NEW key \in DerivedKeys, NEW n \in Nat,
           NEW m, m = Store(Verifier(key, n), c)
    PROVE  /\ m \in Configs
           /\ m["challenge"] = <<n>> /\ m["tag"] = <<key, <<n>>>> /\ m["verifier"] = <<1>>
           /\ \A k \in Keys \ {"challenge", "tag", "verifier"} : m[k] = c[k]
<1>d. PICK d : d = Verifier(key, n)
  OBVIOUS
<1>1. /\ DOMAIN d = {"challenge", "tag", "verifier"}
      /\ d["challenge"] = <<n>> /\ d["tag"] = <<key, <<n>>>> /\ d["verifier"] = <<1>>
  BY <1>d DEF Verifier, VerifierTag
<1>2. m = [k \in Keys |-> IF k \in {"challenge", "tag", "verifier"} THEN d[k] ELSE c[k]]
  BY <1>d, <1>1, ConfigDomain DEF Store
<1>3. m["challenge"] = <<n>> /\ m["tag"] = <<key, <<n>>>> /\ m["verifier"] = <<1>>
  BY <1>1, <1>2 DEF Keys
<1>4. \A k \in Keys \ {"challenge", "tag", "verifier"} : m[k] = c[k]
  BY <1>2
<1>5. m["challenge"] \in Numbers /\ m["verifier"] \in Numbers
  BY <1>3, Literals
<1>6. m["tag"] \in {<<>>} \cup DerivedKeys \X Numbers
  BY <1>3, Literals
<1>7. m \in Configs
  BY <1>2, <1>4, <1>5, <1>6 DEF Keys, Configs
<1> QED  BY <1>3, <1>4, <1>7

\* Storing the envelope of a content key.
LEMMA StoreEnvelope ==
    ASSUME NEW c \in Configs, NEW key \in DerivedKeys, NEW content \in ContentKeys, NEW n \in Nat,
           NEW m, m = Store(Envelope(key, content, n), c)
    PROVE  /\ m \in Configs
           /\ m["nonce"] = <<n>> /\ m["ciphertext"] = <<key, <<n>>, content>> /\ m["envelope"] = <<1>>
           /\ \A k \in Keys \ {"nonce", "ciphertext", "envelope"} : m[k] = c[k]
<1>d. PICK d : d = Envelope(key, content, n)
  OBVIOUS
<1>1. /\ DOMAIN d = {"nonce", "ciphertext", "envelope"}
      /\ d["nonce"] = <<n>> /\ d["ciphertext"] = <<key, <<n>>, content>> /\ d["envelope"] = <<1>>
  BY <1>d DEF Envelope
<1>2. m = [k \in Keys |-> IF k \in {"nonce", "ciphertext", "envelope"} THEN d[k] ELSE c[k]]
  BY <1>d, <1>1, ConfigDomain DEF Store
<1>3. m["nonce"] = <<n>> /\ m["ciphertext"] = <<key, <<n>>, content>> /\ m["envelope"] = <<1>>
  BY <1>1, <1>2 DEF Keys
<1>4. \A k \in Keys \ {"nonce", "ciphertext", "envelope"} : m[k] = c[k]
  BY <1>2
<1>5. m["nonce"] \in Numbers /\ m["envelope"] \in Numbers
  BY <1>3, Literals
<1>6. m["ciphertext"] \in {<<>>} \cup DerivedKeys \X Numbers \X ContentKeys
  BY <1>3, Literals
<1>7. m \in Configs
  BY <1>2, <1>4, <1>5, <1>6 DEF Keys, Configs
<1> QED  BY <1>3, <1>4, <1>7

\* A configuration with the given parameters, and verifier and envelope made from
\* the given key; the rest is that of c.
SealedWith(m, c, salt, cost, length, key, content, n) ==
    /\ m \in Configs
    /\ m["factories"] = c["factories"] /\ m["hint"] = c["hint"]
    /\ m["salt"] = salt /\ m["cost"] = cost /\ m["length"] = length
    /\ m["challenge"] = <<n>> /\ m["tag"] = <<key, <<n>>>> /\ m["verifier"] = <<1>>
    /\ m["nonce"] = <<n>> /\ m["ciphertext"] = <<key, <<n>>, content>> /\ m["envelope"] = <<1>>

\* Storing all of them.
LEMMA StoreAll ==
    ASSUME NEW c \in Configs, NEW salt \in Numbers, NEW cost \in Numbers, NEW length \in Numbers,
           NEW key \in DerivedKeys, NEW content \in ContentKeys, NEW n \in Nat
    PROVE  SealedWith(Store(Derivation(salt, cost, length),
                            Store(Verifier(key, n), Store(Envelope(key, content, n), c))),
                      c, salt, cost, length, key, content, n)
<1>e. PICK e \in Configs : e = Store(Envelope(key, content, n), c)
  BY StoreEnvelope
<1>1. /\ e["nonce"] = <<n>> /\ e["ciphertext"] = <<key, <<n>>, content>> /\ e["envelope"] = <<1>>
      /\ \A k \in Keys \ {"nonce", "ciphertext", "envelope"} : e[k] = c[k]
  BY <1>e, StoreEnvelope
<1>v. PICK v \in Configs : v = Store(Verifier(key, n), e)
  BY StoreVerifier
<1>2. /\ v["challenge"] = <<n>> /\ v["tag"] = <<key, <<n>>>> /\ v["verifier"] = <<1>>
      /\ \A k \in Keys \ {"challenge", "tag", "verifier"} : v[k] = e[k]
  BY <1>v, StoreVerifier
<1>3. PICK w \in Configs :
        /\ w = Store(Derivation(salt, cost, length), v)
        /\ w["salt"] = salt /\ w["cost"] = cost /\ w["length"] = length
        /\ \A k \in Keys \ {"salt", "cost", "length"} : w[k] = v[k]
  BY StoreDerivation
<1>4. /\ w["factories"] = c["factories"] /\ w["hint"] = c["hint"]
      /\ w["challenge"] = <<n>> /\ w["tag"] = <<key, <<n>>>> /\ w["verifier"] = <<1>>
      /\ w["nonce"] = <<n>> /\ w["ciphertext"] = <<key, <<n>>, content>> /\ w["envelope"] = <<1>>
  BY <1>1, <1>2, <1>3 DEF Keys
<1>5. w["salt"] = salt /\ w["cost"] = cost /\ w["length"] = length
  BY <1>3
<1>6. SealedWith(w, c, salt, cost, length, key, content, n)
  BY <1>4, <1>5 DEF SealedWith
<1> QED  BY <1>e, <1>v, <1>3, <1>6

-----------------------------------------------------------------------------
(* Derived keys *)

\* The cost LoadKey assumes when none is stored.
DefaultCost(alg) == IF alg = "Argon2id" THEN <<3, 65536, 4>>
                    ELSE IF alg = "scrypt" THEN <<32768, 8, 1>>
                    ELSE IF alg = "PBKDF2" THEN <<100000>> ELSE <<>>

LEMMA DefaultCostType == \A alg \in Derivers : DefaultCost(alg) \in Numbers
<1>1. <<3, 65536, 4>> \in Numbers /\ <<32768, 8, 1>> \in Numbers /\ <<100000>> \in Numbers /\ <<>> \in Numbers
  BY Literals
<1> QED  BY <1>1 DEF DefaultCost

\* LoadKey of every deriver, from what is stored.
LEMMA LoadKeyIs ==
    ASSUME NEW alg \in Derivers, NEW c, NEW pw
    PROVE  /\ c["salt"] = <<>> => LoadKey(alg, c, pw) = NoKey
           /\ c["salt"] # <<>> =>
                 LoadKey(alg, c, pw) = <<alg, pw, c["salt"], Or(c["cost"], DefaultCost(alg)),
                                         Or(c["length"], <<32>>)>>
<1>1. LoadKey(alg, c, pw) = Loaded(alg, pw, c, DefaultCost(alg))
  BY DEF LoadKey, Derivers, Argon2LoadKey, ScryptLoadKey, Pbkdf2LoadKey, HkdfLoadKey, DefaultCost
<1> QED  BY <1>1 DEF Loaded, Key, Derivation

LEMMA LoadKeyType ==
    ASSUME NEW alg \in Derivers, NEW c \in Configs, NEW pw \in Passwords, LoadKey(alg, c, pw) # NoKey
    PROVE  /\ c["salt"] # <<>> /\ LoadKey(alg, c, pw) \in DerivedKeys
           /\ LoadKey(alg, c, pw)[2] = pw
<1>1. c["salt"] # <<>>
  BY LoadKeyIs
<1>2. c["salt"] \in Numbers /\ c["cost"] \in Numbers /\ c["length"] \in Numbers
  BY ConfigTypes
<1>3. Or(c["cost"], DefaultCost(alg)) \in Numbers /\ Or(c["length"], <<32>>) \in Numbers
  BY <1>2, DefaultCostType, Literals DEF Or
<1>4. LoadKey(alg, c, pw) = <<alg, pw, c["salt"], Or(c["cost"], DefaultCost(alg)), Or(c["length"], <<32>>)>>
  BY <1>1, LoadKeyIs, SMTT(30)
<1> QED  BY <1>1, <1>2, <1>3, <1>4 DEF DerivedKeys

\* A key is not NoKey.
LEMMA KeysAreSome ==
    /\ \A k \in ContentKeys : k # NoKey
    /\ DerivedKeys \subseteq ContentKeys
BY SMTT(30) DEF ContentKeys, DerivedKeys, NoKey

-----------------------------------------------------------------------------
(* What opens a configuration *)

\* A password that opens a file: the file is a configuration that names its
\* deriver, and its tag was made with the key of this password.
LEMMA OpenKeyIs ==
    ASSUME NEW f \in Files, NEW pw \in Passwords, OpenKey(f, pw) # NoKey
    PROVE  /\ f \in Configs /\ OpenFactories(f) /\ f["factories"][1] \in Derivers
           /\ WrappingKey(f, pw) \in DerivedKeys /\ VerifyPassword(f, WrappingKey(f, pw))
           /\ OpenKey(f, pw) = IF Enveloped(f) THEN Unwrap(f, WrappingKey(f, pw)) ELSE WrappingKey(f, pw)
           /\ OpenKey(f, pw) \in ContentKeys
<1>1. f # Torn /\ OpenFactories(Load(f)) /\ OpenKey(f, pw) = RootKeyForOpen(Load(f), pw)
  BY DEF OpenKey, Readable
<1>2. f # Absent
  <2>1. ~OpenFactories(NewConfig)
    BY NewConfigType DEF OpenFactories, Keys
  <2> QED  BY <1>1, <2>1 DEF Load
<1>3. f \in Configs /\ Load(f) = f
  BY <1>1, <1>2 DEF Files, Load
<1>4. f["factories"][1] \in Derivers
  <2>1. f["factories"] \in Derivers \X Nat
    BY <1>1, <1>3, ConfigTypes DEF OpenFactories
  <2> QED  BY <2>1
<1>5. /\ WrappingKey(f, pw) # NoKey /\ VerifyPassword(f, WrappingKey(f, pw))
      /\ OpenKey(f, pw) = IF Enveloped(f) THEN Unwrap(f, WrappingKey(f, pw)) ELSE WrappingKey(f, pw)
  BY <1>1, <1>3 DEF RootKeyForOpen
<1>6. WrappingKey(f, pw) \in DerivedKeys
  BY <1>3, <1>4, <1>5, LoadKeyType DEF WrappingKey
<1>7. OpenKey(f, pw) \in ContentKeys
  <2>1. CASE ~Enveloped(f)
    BY <1>5, <1>6, <2>1, KeysAreSome
  <2>2. CASE Enveloped(f)
    <3>1. f["ciphertext"] # <<>> /\ OpenKey(f, pw) = f["ciphertext"][3]
      BY <1>5, <2>2 DEF Unwrap, NoKey
    <3>2. f["ciphertext"] \in DerivedKeys \X Numbers \X ContentKeys
      BY <1>3, <3>1, ConfigTypes
    <3> QED  BY <3>1, <3>2
  <2> QED  BY <2>1, <2>2
<1> QED  BY <1>1, <1>3, <1>4, <1>5, <1>6, <1>7

\* At most one password opens a file.
LEMMA OnePassword ==
    ASSUME NEW f \in Files, NEW pw1 \in Passwords, NEW pw2 \in Passwords,
           OpenKey(f, pw1) # NoKey, OpenKey(f, pw2) # NoKey
    PROVE  pw1 = pw2
<1>1. f \in Configs /\ f["factories"][1] \in Derivers
  BY OpenKeyIs
<1>2. /\ f["tag"] = <<WrappingKey(f, pw1), f["challenge"]>>
      /\ f["tag"] = <<WrappingKey(f, pw2), f["challenge"]>>
  BY OpenKeyIs DEF VerifyPassword, VerifierTag
<1>3. WrappingKey(f, pw1) = WrappingKey(f, pw2)
  BY <1>2
<1>4. WrappingKey(f, pw1) # NoKey /\ WrappingKey(f, pw2) # NoKey
  BY OpenKeyIs, KeysAreSome
<1>5. WrappingKey(f, pw1)[2] = pw1 /\ WrappingKey(f, pw2)[2] = pw2
  BY <1>1, <1>4, LoadKeyType DEF WrappingKey
<1> QED  BY <1>3, <1>5

HintOf(f) == IF f["hint"] = <<>> THEN NoHint ELSE f["hint"][1]

LEMMA HintOfType ==
    ASSUME NEW c \in Configs
    PROVE  HintOf(c) \in Hints
<1>1. CASE c["hint"] = <<>>
  BY <1>1, RootConfigAssumption DEF HintOf
<1>2. CASE c["hint"] # <<>>
  <2>1. PICK h \in Hints : c["hint"] = <<h>>
    BY <1>2, ConfigTypes
  <2> QED  BY <1>2, <2>1 DEF HintOf
<1> QED  BY <1>1, <1>2

\* A file that a password opens is read as that password, its key and the hint.
LEMMA ReadingSome ==
    ASSUME NEW f \in Files, NEW pw \in Passwords, OpenKey(f, pw) # NoKey
    PROVE  /\ Reading(f) = [pw |-> pw, key |-> OpenKey(f, pw), hint |-> HintOf(f)]
           /\ Reading(f) # Absent
<1> DEFINE all == {[pw |-> w, key |-> OpenKey(f, w)] : w \in Passwords}
           opens == {k \in all : k.key # NoKey}
           own == [pw |-> pw, key |-> OpenKey(f, pw)]
<1>1. own \in opens
  OBVIOUS
<1>2. ASSUME NEW k \in opens PROVE k = own
  <2>1. PICK w \in Passwords : k = [pw |-> w, key |-> OpenKey(f, w)]
    BY <1>2
  <2>2. OpenKey(f, w) # NoKey
    BY <1>2, <2>1
  <2>3. w = pw
    BY <2>2, OnePassword
  <2> QED  BY <2>1, <2>3
<1>3. PICK k : k = CHOOSE x \in opens : TRUE
  OBVIOUS
<1>4. Reading(f) = [pw |-> k.pw, key |-> k.key, hint |-> HintOf(f)]
  BY <1>1, <1>3 DEF Reading, HintOf
<1>5. Reading(f) = [pw |-> pw, key |-> OpenKey(f, pw), hint |-> HintOf(f)]
  <2>1. k \in opens
    BY <1>1, <1>3
  <2>2. k = own
    BY <1>2, <2>1
  <2>3. k.pw = pw /\ k.key = OpenKey(f, pw)
    BY <2>2
  <2> QED  BY <1>4, <2>3
<1>6. f \in Configs /\ OpenKey(f, pw) \in ContentKeys
  BY OpenKeyIs
<1>7. Reading(f) \in [pw : Passwords, key : ContentKeys, hint : Hints]
  BY <1>5, <1>6, HintOfType
<1> QED  BY <1>5, <1>7, RootConfigValues

\* A file that no password opens is read as absent.
LEMMA ReadingNone ==
    ASSUME NEW f, \A pw \in Passwords : OpenKey(f, pw) = NoKey
    PROVE  Reading(f) = Absent
BY DEF Reading

\* A file that is not read as absent is opened by the password it is read as.
LEMMA ReadingOpens ==
    ASSUME NEW f \in Files, Reading(f) # Absent
    PROVE  /\ f \in Configs
           /\ Reading(f).pw \in Passwords /\ OpenKey(f, Reading(f).pw) # NoKey
           /\ Reading(f).key = OpenKey(f, Reading(f).pw) /\ Reading(f).hint = HintOf(f)
<1>1. PICK pw \in Passwords : OpenKey(f, pw) # NoKey
  BY ReadingNone
<1>2. Reading(f) = [pw |-> pw, key |-> OpenKey(f, pw), hint |-> HintOf(f)]
  BY <1>1, ReadingSome
<1> QED  BY <1>1, <1>2, OpenKeyIs

\* An absent, empty or torn file opens with nothing.
LEMMA ReadingEmpty ==
    /\ Reading(Absent) = Absent /\ Reading(Torn) = Absent /\ Reading(NewConfig) = Absent
<1>1. ~OpenFactories(NewConfig)
  BY NewConfigType DEF OpenFactories, Keys
<1>2. NewConfig # Torn /\ NewConfig # Absent /\ Absent # Torn
  BY NewConfigType, RootConfigValues
<1>3. \A f \in {Absent, Torn, NewConfig} : \A pw \in Passwords : OpenKey(f, pw) = NoKey
  BY <1>1, <1>2 DEF OpenKey, Readable, Load
<1> QED  BY <1>3, ReadingNone

-----------------------------------------------------------------------------
(* What a change does to a configuration *)

\* A change that goes ahead has the key of the password it was given; a password
\* change has the content key that password opens.
LEMMA AuthorisedIs ==
    ASSUME NEW f \in Files, NEW j, j.pw \in Passwords, Authorised(f, j) # NoKey
    PROVE  /\ f \in Configs /\ OpenFactories(f) /\ f["factories"][1] \in Derivers
           /\ j.kind # "hint" => Enveloped(f) /\ Authorised(f, j) = OpenKey(f, j.pw)
<1>1. /\ Readable(f) /\ OpenFactories(Load(f))
      /\ WrappingKey(Load(f), j.pw) # NoKey /\ VerifyPassword(Load(f), WrappingKey(Load(f), j.pw))
      /\ j.kind # "hint" => /\ Enveloped(Load(f))
                            /\ Authorised(f, j) = Unwrap(Load(f), WrappingKey(Load(f), j.pw))
  BY DEF Authorised
<1>2. f # Absent
  <2>1. ~OpenFactories(NewConfig)
    BY NewConfigType DEF OpenFactories, Keys
  <2> QED  BY <1>1, <2>1 DEF Load
<1>3. f \in Configs /\ Load(f) = f
  BY <1>1, <1>2 DEF Files, Load, Readable
<1>4. f["factories"] \in Derivers \X Nat
  BY <1>1, <1>3, ConfigTypes DEF OpenFactories
<1>5. f["factories"][1] \in Derivers
  BY <1>4
<1>6. j.kind # "hint" => Authorised(f, j) = OpenKey(f, j.pw)
  BY <1>1, <1>3 DEF OpenKey, RootKeyForOpen
<1> QED  BY <1>1, <1>3, <1>5, <1>6

\* The parameters a password change stores: LoadKey takes them as they are.
LEMMA NewDerivationIs ==
    ASSUME NEW c \in Configs, NEW alg \in Derivers, c["factories"][1] = alg, NEW j, j.n \in Nat,
           NewDerivation(c, j) # NoDerivation
    PROVE  \E cost, length \in Numbers :
              /\ NewDerivation(c, j) = Derivation(<<j.n>>, cost, length)
              /\ Or(cost, DefaultCost(alg)) = cost /\ Or(length, <<32>>) = length
<1>0. PICK n \in Nat : n = j.n
  OBVIOUS
<1>p. PICK p : p = [salt |-> <<n>>, ms |-> 0, reuse |-> TRUE, length |-> <<32>>]
  OBVIOUS
<1>1. NewDerivation(c, j) = NewKey(alg, c, p)
  BY <1>0, <1>p DEF NewDerivation
<1>2. p.salt = <<n>> /\ p.reuse = TRUE /\ p.length = <<32>>
  BY <1>p
<1>3. c["cost"] \in Numbers /\ c["length"] \in Numbers /\ <<>> \in Numbers /\ <<32>> \in Numbers
  BY ConfigTypes, Literals
<1>4. CASE alg = "HKDF-SHA-256"
  <2>1. NewKey(alg, c, p) = Derivation(<<n>>, <<>>, <<32>>)
    BY <1>2, <1>4 DEF NewKey, HkdfNewKey
  <2>2. Or(<<>>, DefaultCost(alg)) = <<>> /\ Or(<<32>>, <<32>>) = <<32>>
    BY <1>4 DEF Or, DefaultCost
  <2> QED  BY <1>0, <1>1, <1>3, <2>1, <2>2
<1>5. CASE alg # "HKDF-SHA-256"
  <2>1. NewKey(alg, c, p) = Reused(c, p)
    BY <1>2, <1>5 DEF NewKey, Derivers, Argon2NewKey, ScryptNewKey, Pbkdf2NewKey
  <2>2. /\ NewKey(alg, c, p) = Derivation(<<n>>, c["cost"], c["length"])
        /\ c["cost"] # <<>> /\ c["length"] # <<>>
    BY <1>1, <1>2, <2>1 DEF Reused
  <2>3. Or(c["cost"], DefaultCost(alg)) = c["cost"] /\ Or(c["length"], <<32>>) = c["length"]
    BY <2>2 DEF Or
  <2> QED  BY <1>0, <1>1, <1>3, <2>2, <2>3
<1> QED  BY <1>4, <1>5

\* A password change: the new password opens the same content key, the hint and
\* the names of the factories stay.
LEMMA RewrapEffect ==
    ASSUME NEW c \in Configs, NEW j, j.kind = "passwd", j.pw \in Passwords, j.new \in Passwords, j.n \in Nat,
           Authorised(c, j) = j.content, j.content # NoKey, NewDerivation(c, j) # NoDerivation,
           NEW m, m = Rewrapped(c, j)
    PROVE  /\ m \in Configs /\ m["factories"] = c["factories"]
           /\ Reading(c) # Absent /\ Reading(m) # Absent
           /\ Reading(m).pw = j.new /\ Reading(m).key = Reading(c).key /\ Reading(m).hint = Reading(c).hint
<1>1. c \in Files
  BY DEF Files
<1>2. /\ OpenFactories(c) /\ c["factories"][1] \in Derivers /\ Enveloped(c)
      /\ j.content = OpenKey(c, j.pw)
  BY <1>1, AuthorisedIs
<1>3. Reading(c) = [pw |-> j.pw, key |-> j.content, hint |-> HintOf(c)] /\ Reading(c) # Absent
  BY <1>1, <1>2, ReadingSome
<1>4. j.content \in ContentKeys
  BY <1>1, <1>2, OpenKeyIs
<1>a. PICK alg \in Derivers : alg = c["factories"][1]
  BY <1>2
<1>n. PICK n \in Nat : n = j.n
  OBVIOUS
<1>5. PICK cost \in Numbers, length \in Numbers :
          /\ NewDerivation(c, j) = Derivation(<<n>>, cost, length)
          /\ Or(cost, DefaultCost(alg)) = cost /\ Or(length, <<32>>) = length
  BY <1>a, <1>n, NewDerivationIs
<1>6. <<n>> \in Numbers /\ <<n>> # <<>> /\ <<1>> # <<>>
  BY Literals
<1>k. PICK key \in DerivedKeys : key = <<alg, j.new, <<n>>, cost, length>>
  BY <1>6 DEF DerivedKeys
<1>8. m = Store(Derivation(<<n>>, cost, length), Store(Verifier(key, n), Store(Envelope(key, j.content, n), c)))
  BY <1>a, <1>n, <1>k, <1>5 DEF Rewrapped, Key, Derivation
<1>s. PICK salt \in Numbers, content \in ContentKeys : salt = <<n>> /\ content = j.content
  BY <1>4, <1>6
<1>w. PICK w : w = Store(Derivation(salt, cost, length), Store(Verifier(key, n), Store(Envelope(key, content, n), c)))
  OBVIOUS
<1>9. SealedWith(w, c, salt, cost, length, key, content, n)
  BY <1>w, StoreAll
<1>10. m = w
  BY <1>8, <1>w, <1>s
<1>11. w \in Configs /\ w["salt"] = <<n>> /\ w["cost"] = cost /\ w["length"] = length
  BY <1>9, <1>s DEF SealedWith
<1>12. /\ w["factories"] = c["factories"] /\ w["hint"] = c["hint"]
       /\ w["challenge"] = <<n>> /\ w["tag"] = <<key, <<n>>>> /\ w["verifier"] = <<1>>
       /\ w["nonce"] = <<n>> /\ w["ciphertext"] = <<key, <<n>>, j.content>> /\ w["envelope"] = <<1>>
  BY <1>9, <1>s DEF SealedWith
<1>13. WrappingKey(w, j.new) = key
  BY <1>a, <1>k, <1>5, <1>6, <1>11, <1>12, LoadKeyIs DEF WrappingKey
<1>14. VerifyPassword(w, key) /\ Enveloped(w) /\ OpenFactories(w)
  BY <1>2, <1>6, <1>12 DEF VerifyPassword, VerifierTag, Enveloped, OpenFactories
<1>15. Unwrap(w, key) = j.content
  <2>1. w["ciphertext"] # <<>> /\ w["ciphertext"][1] = key /\ w["ciphertext"][2] = <<n>> /\ w["ciphertext"][3] = j.content
    BY <1>12
  <2> QED  BY <1>6, <1>12, <2>1 DEF Unwrap
<1>16. w \in Files /\ w # Torn /\ Load(w) = w
  BY <1>11, RootConfigValues DEF Files, Load
<1>17. OpenKey(w, j.new) = j.content
  <2>1. key # NoKey
    BY KeysAreSome
  <2> QED  BY <1>13, <1>14, <1>15, <1>16, <2>1 DEF OpenKey, RootKeyForOpen, Readable
<1>18. Reading(w) = [pw |-> j.new, key |-> j.content, hint |-> HintOf(w)] /\ Reading(w) # Absent
  BY <1>16, <1>17, ReadingSome
<1>19. HintOf(w) = HintOf(c)
  BY <1>12 DEF HintOf
<1> QED  BY <1>3, <1>10, <1>11, <1>12, <1>18, <1>19

\* A hint update changes the hint and nothing else.
LEMMA HintEffect ==
    ASSUME NEW c \in Configs, NEW h \in Hints, NEW m, m = [c EXCEPT !["hint"] = <<h>>]
    PROVE  /\ m \in Configs /\ m["factories"] = c["factories"]
           /\ Reading(m) = Absent <=> Reading(c) = Absent
           /\ Reading(c) # Absent => /\ Reading(m).pw = Reading(c).pw
                                     /\ Reading(m).key = Reading(c).key /\ Reading(m).hint = h
<1>0. PICK w \in Configs : w = m /\ w["hint"] = <<h>> /\ \A k \in Keys \ {"hint"} : w[k] = c[k]
  BY DEF Configs, Keys
<1>1. w \in Configs /\ w["hint"] = <<h>> /\ \A k \in Keys \ {"hint"} : w[k] = c[k]
  BY <1>0
<1>2. w \in Files /\ c \in Files /\ Load(w) = w /\ Load(c) = c /\ w # Torn /\ c # Torn
  BY <1>1, RootConfigValues DEF Files, Load
<1>3. /\ w["factories"] = c["factories"] /\ w["salt"] = c["salt"] /\ w["cost"] = c["cost"] /\ w["length"] = c["length"]
      /\ w["challenge"] = c["challenge"] /\ w["tag"] = c["tag"] /\ w["verifier"] = c["verifier"]
      /\ w["nonce"] = c["nonce"] /\ w["ciphertext"] = c["ciphertext"] /\ w["envelope"] = c["envelope"]
  BY <1>1 DEF Keys
<1>4. ASSUME NEW pw \in Passwords PROVE OpenKey(w, pw) = OpenKey(c, pw)
  <2>1. CASE c["factories"] = <<>>
    BY <1>2, <1>3, <2>1 DEF OpenKey, OpenFactories
  <2>2. CASE c["factories"] # <<>>
    <3>1. c["factories"] \in Derivers \X Nat
      BY <2>2, ConfigTypes
    <3>2. c["factories"][1] \in Derivers
      BY <3>1
    <3>a. PICK alg \in Derivers : alg = c["factories"][1]
      BY <3>2
    <3>3. LoadKey(alg, w, pw) = LoadKey(alg, c, pw)
      <4>1. CASE c["salt"] = <<>>
        BY <1>3, <4>1, LoadKeyIs
      <4>2. CASE c["salt"] # <<>>
        <5>1. LoadKey(alg, c, pw) = <<alg, pw, c["salt"], Or(c["cost"], DefaultCost(alg)), Or(c["length"], <<32>>)>>
          BY <4>2, LoadKeyIs
        <5>2. LoadKey(alg, w, pw) = <<alg, pw, w["salt"], Or(w["cost"], DefaultCost(alg)), Or(w["length"], <<32>>)>>
          BY <1>3, <4>2, LoadKeyIs
        <5> QED  BY <1>3, <5>1, <5>2
      <4> QED  BY <4>1, <4>2
    <3>4. WrappingKey(w, pw) = WrappingKey(c, pw)
      BY <1>3, <3>a, <3>3 DEF WrappingKey
    <3>5. \A k : (VerifyPassword(w, k) <=> VerifyPassword(c, k)) /\ Unwrap(w, k) = Unwrap(c, k)
      BY <1>3 DEF VerifyPassword, Unwrap
    <3>6. (Enveloped(w) <=> Enveloped(c)) /\ (OpenFactories(w) <=> OpenFactories(c))
      BY <1>3 DEF Enveloped, OpenFactories
    <3>7. RootKeyForOpen(w, pw) = RootKeyForOpen(c, pw)
      BY <3>4, <3>5, <3>6 DEF RootKeyForOpen
    <3> QED  BY <1>2, <3>6, <3>7 DEF OpenKey, Readable
  <2> QED  BY <2>1, <2>2
<1>5. HintOf(w) = h
  BY <1>1 DEF HintOf
<1>6. CASE Reading(c) # Absent
  <2>1. PICK pw \in Passwords : OpenKey(c, pw) # NoKey
    BY <1>2, <1>6, ReadingOpens
  <2>2. Reading(c) = [pw |-> pw, key |-> OpenKey(c, pw), hint |-> HintOf(c)]
    BY <1>2, <2>1, ReadingSome
  <2>3. Reading(w) = [pw |-> pw, key |-> OpenKey(w, pw), hint |-> HintOf(w)] /\ Reading(w) # Absent
    BY <1>2, <1>4, <2>1, ReadingSome
  <2>4. Reading(w).pw = Reading(c).pw /\ Reading(w).key = Reading(c).key /\ Reading(w).hint = h
    <3>1. OpenKey(w, pw) = OpenKey(c, pw)
      BY <1>4
    <3>2. Reading(c).pw = pw /\ Reading(c).key = OpenKey(c, pw)
      BY <2>2
    <3>3. Reading(w).pw = pw /\ Reading(w).key = OpenKey(w, pw) /\ Reading(w).hint = HintOf(w)
      BY <2>3
    <3> QED  BY <1>5, <3>1, <3>2, <3>3
  <2> QED  BY <1>0, <1>3, <1>6, <2>3, <2>4
<1>7. CASE Reading(c) = Absent
  <2>1. \A pw \in Passwords : OpenKey(c, pw) = NoKey
    BY <1>2, <1>7, ReadingSome
  <2>2. Reading(w) = Absent
    BY <1>4, <2>1, ReadingNone
  <2> QED  BY <1>0, <1>3, <1>7, <2>2
<1> QED  BY <1>6, <1>7

-----------------------------------------------------------------------------
(* What a creation writes *)

\* The greater and the smaller of two numbers.
LEMMA MaxOfTwo ==
    ASSUME NEW a \in Nat, NEW b \in Nat
    PROVE  Max({a, b}) \in Nat /\ Max({a, b}) >= a /\ Max({a, b}) >= b
<1>1. \E x \in {a, b} : \A y \in {a, b} : x >= y
  <2>1. CASE a >= b
    BY <2>1
  <2>2. CASE ~(a >= b)
    BY <2>2
  <2> QED  BY <2>1, <2>2
<1>2. Max({a, b}) \in {a, b} /\ \A y \in {a, b} : Max({a, b}) >= y
  BY <1>1 DEF Max
<1> QED  BY <1>2

LEMMA MinOfTwo ==
    ASSUME NEW a \in Nat, NEW b \in Nat
    PROVE  Min({a, b}) \in Nat
<1>1. \E x \in {a, b} : \A y \in {a, b} : x =< y
  <2>1. CASE a =< b
    BY <2>1
  <2>2. CASE ~(a =< b)
    BY <2>2
  <2> QED  BY <2>1, <2>2
<1>2. Min({a, b}) \in {a, b}
  BY <1>1 DEF Min
<1> QED  BY <1>2

\* The options and the draws of a creation.
CreateJob(j) ==
    /\ j.kind = "create" /\ j.pw \in Passwords /\ j.n \in Nat
    /\ j.opts.alg \in Derivers /\ j.opts.ms \in Nat /\ j.opts.need \in 1..64
    /\ j.opts.changeable \in BOOLEAN /\ j.opts.hint \in Hints

\* The cost NewKey chooses is stored and is the cost LoadKey takes.
LEMMA CreationDerivation ==
    ASSUME NEW alg \in Derivers, NEW p, p.ms \in Nat, p.reuse = FALSE
    PROVE  \E cost \in Numbers : /\ NewKey(alg, NewConfig, p) = Derivation(p.salt, cost, p.length)
                                 /\ Or(cost, DefaultCost(alg)) = cost
                                 /\ alg = "HKDF-SHA-256" => cost = <<>>
<1>m. PICK ms \in Nat : ms = p.ms
  OBVIOUS
<1>1. CASE alg = "Argon2id"
  <2>1. Argon2Cost(ms) \in Numbers /\ Argon2Cost(ms) # <<>>
    <3>1. ms \div 100 \in Nat
      OBVIOUS
    <3>2. Min({Max({ms \div 100, 1}), 10}) \in Nat
      BY <3>1, MaxOfTwo, MinOfTwo
    <3>3. Min({65536 + 64 * ms, 262144}) \in Nat
      BY MinOfTwo
    <3> QED  BY <3>2, <3>3, Literals DEF Argon2Cost
  <2>2. NewKey(alg, NewConfig, p) = Derivation(p.salt, Argon2Cost(ms), p.length)
    BY <1>m, <1>1 DEF NewKey, Argon2NewKey
  <2> QED  BY <1>1, <2>1, <2>2 DEF Or
<1>2. CASE alg = "scrypt"
  <2>1. ScryptCost(ms) \in Numbers /\ ScryptCost(ms) # <<>>
    <3>1. \A n \in Nat : <<n, 8, 1>> \in Numbers /\ <<n, 8, 1>> # <<>>
      BY Literals
    <3>2. \E n \in Nat : ScryptCost(ms) = <<n, 8, 1>>
      BY DEF ScryptCost
    <3> QED  BY <3>1, <3>2
  <2>2. NewKey(alg, NewConfig, p) = Derivation(p.salt, ScryptCost(ms), p.length)
    BY <1>m, <1>2 DEF NewKey, ScryptNewKey
  <2> QED  BY <1>2, <2>1, <2>2 DEF Or
<1>3. CASE alg = "PBKDF2"
  <2>1. Pbkdf2Cost(ms) \in Numbers /\ Pbkdf2Cost(ms) # <<>>
    BY Literals DEF Pbkdf2Cost
  <2>2. NewKey(alg, NewConfig, p) = Derivation(p.salt, Pbkdf2Cost(ms), p.length)
    BY <1>m, <1>3 DEF NewKey, Pbkdf2NewKey
  <2> QED  BY <1>3, <2>1, <2>2 DEF Or
<1>4. CASE alg = "HKDF-SHA-256"
  <2>1. NewKey(alg, NewConfig, p) = Derivation(p.salt, <<>>, p.length)
    BY <1>4 DEF NewKey, HkdfNewKey
  <2>2. Or(<<>>, DefaultCost(alg)) = <<>> /\ <<>> \in Numbers
    BY <1>4, Literals DEF Or, DefaultCost
  <2> QED  BY <2>1, <2>2
<1> QED  BY <1>1, <1>2, <1>3, <1>4 DEF Derivers

\* The record of a creation: sealed with the key of its password, of a length the
\* ciphers can use.
LEMMA CreatedIs ==
    ASSUME NEW j, CreateJob(j)
    PROVE  \E cost \in Numbers, length \in Nat, key \in DerivedKeys, content \in ContentKeys, b \in Configs :
              /\ SealedWith(CreatedRecord(j), b, <<j.n>>, cost, <<length>>, key, content, j.n)
              /\ b["factories"] = <<j.opts.alg, j.opts.need>> /\ b["hint"] = <<j.opts.hint>>
              /\ key = <<j.opts.alg, j.pw, <<j.n>>, cost, <<length>>>>
              /\ Or(cost, DefaultCost(j.opts.alg)) = cost
              /\ j.opts.alg = "HKDF-SHA-256" => cost = <<>>
              /\ ~j.opts.changeable => length >= j.opts.need
              /\ KeyLength(content) >= j.opts.need
<1>o. PICK alg \in Derivers, ms \in Nat, need \in 1..64, h \in Hints, n \in Nat, pw \in Passwords :
          alg = j.opts.alg /\ ms = j.opts.ms /\ need = j.opts.need /\ h = j.opts.hint /\ n = j.n /\ pw = j.pw
  BY DEF CreateJob
<1>1. PICK len \in Nat : len = ContentLength(j.opts) /\ len >= need
  <2>1. ContentLength(j.opts) = Max({need, 32})
    BY <1>o DEF ContentLength
  <2> QED  BY <2>1, MaxOfTwo
<1>2. PICK length \in Nat : length = DerivationLength(j.opts) /\ (~j.opts.changeable => length >= need)
  BY <1>1 DEF DerivationLength
<1>p. PICK p : p = [salt |-> <<n>>, ms |-> ms, reuse |-> FALSE, length |-> <<length>>]
  OBVIOUS
<1>3. p.ms = ms /\ p.reuse = FALSE /\ p.salt = <<n>> /\ p.length = <<length>>
  BY <1>p
<1>4. PICK cost \in Numbers : /\ NewKey(alg, NewConfig, p) = Derivation(<<n>>, cost, <<length>>)
                              /\ Or(cost, DefaultCost(alg)) = cost
                              /\ alg = "HKDF-SHA-256" => cost = <<>>
  BY <1>3, CreationDerivation
<1>5. PICK salt \in Numbers, lengths \in Numbers, lens \in Numbers :
          salt = <<n>> /\ lengths = <<length>> /\ lens = <<len>>
  BY Literals
<1>6. PICK key \in DerivedKeys : key = <<alg, pw, salt, cost, lengths>>
  BY DEF DerivedKeys
<1>7. PICK content \in ContentKeys : content = <<"random", n, lens>>
  BY DEF ContentKeys
<1>8. PICK b \in Configs : /\ b = [NewConfig EXCEPT !["factories"] = <<alg, need>>, !["hint"] = <<h>>]
                           /\ b["factories"] = <<alg, need>> /\ b["hint"] = <<h>>
  <2>1. NewConfig \in Configs /\ <<alg, need>> \in Derivers \X Nat
    BY NewConfigType
  <2>b. PICK b : b = [NewConfig EXCEPT !["factories"] = <<alg, need>>, !["hint"] = <<h>>]
    OBVIOUS
  <2>2. /\ b = [k \in Keys |-> b[k]] /\ b["factories"] = <<alg, need>> /\ b["hint"] = <<h>>
        /\ \A k \in Keys \ {"factories", "hint"} : b[k] = NewConfig[k]
    BY <2>1, <2>b, ConfigDomain DEF Keys
  <2>3. b["factories"] \in {<<>>} \cup Derivers \X Nat /\ b["hint"] \in {<<>>} \cup {<<x>> : x \in Hints}
    BY <2>1, <2>2
  <2>4. b \in Configs
    BY <2>1, <2>2, <2>3 DEF Keys, Configs
  <2> QED  BY <2>b, <2>2, <2>4
<1>9. CreatedRecord(j) = Store(Derivation(salt, cost, lengths),
                               Store(Verifier(key, n), Store(Envelope(key, content, n), b)))
  <2>1. Key(alg, pw, Derivation(<<n>>, cost, <<length>>)) = key
    BY <1>5, <1>6 DEF Key, Derivation
  <2> QED  BY <1>o, <1>1, <1>2, <1>p, <1>4, <1>5, <1>7, <1>8, <2>1 DEF CreatedRecord
<1>10. SealedWith(CreatedRecord(j), b, salt, cost, lengths, key, content, n)
  BY <1>9, StoreAll
<1>11. KeyLength(content) = len
  BY <1>5, <1>7 DEF KeyLength
<1> QED  BY <1>o, <1>1, <1>2, <1>4, <1>5, <1>6, <1>8, <1>10, <1>11, ZenonT(30)

\* What is in a sequence.
Elems(s) == {s[i] : i \in 1..Len(s)}

LEMMA ElemsOfConcat ==
    ASSUME NEW S, NEW s \in Seq(S), NEW t \in Seq(S)
    PROVE  s \o t \in Seq(S) /\ Elems(s \o t) = Elems(s) \cup Elems(t)
<1>u. PICK u : u = s \o t
  OBVIOUS
<1>1. /\ u \in Seq(S) /\ Len(u) = Len(s) + Len(t)
      /\ \A i \in 1..(Len(s) + Len(t)) : u[i] = IF i <= Len(s) THEN s[i] ELSE t[i - Len(s)]
  BY <1>u, ConcatProperties
<1>2. Len(s) \in Nat /\ Len(t) \in Nat
  BY LenProperties
<1>3. ASSUME NEW x \in Elems(u) PROVE x \in Elems(s) \cup Elems(t)
  <2>1. PICK i \in 1..Len(u) : x = u[i]
    BY DEF Elems
  <2>2. CASE i <= Len(s)
    <3>1. i \in 1..Len(s) /\ x = s[i]
      BY <1>1, <1>2, <2>1, <2>2
    <3> QED  BY <3>1 DEF Elems
  <2>3. CASE ~(i <= Len(s))
    <3>1. i - Len(s) \in 1..Len(t) /\ x = t[i - Len(s)]
      BY <1>1, <1>2, <2>1, <2>3
    <3> QED  BY <3>1 DEF Elems
  <2> QED  BY <2>2, <2>3
<1>4. ASSUME NEW x \in Elems(s) PROVE x \in Elems(u)
  <2>1. PICK i \in 1..Len(s) : x = s[i]
    BY DEF Elems
  <2>2. i \in 1..Len(u) /\ u[i] = x
    BY <1>1, <1>2, <2>1
  <2> QED  BY <2>2 DEF Elems
<1>5. ASSUME NEW x \in Elems(t) PROVE x \in Elems(u)
  <2>1. PICK i \in 1..Len(t) : x = t[i]
    BY DEF Elems
  <2>2. i + Len(s) \in 1..Len(u) /\ ~(i + Len(s) <= Len(s)) /\ (i + Len(s)) - Len(s) = i
    BY <1>1, <1>2
  <2>3. u[i + Len(s)] = x
    BY <1>1, <2>1, <2>2
  <2> QED  BY <2>2, <2>3 DEF Elems
<1> QED  BY <1>u, <1>1, <1>3, <1>4, <1>5

LEMMA ElemsOfFive ==
    ASSUME NEW S, NEW a \in Seq(S), NEW b \in Seq(S), NEW c \in Seq(S), NEW d \in Seq(S), NEW e \in Seq(S)
    PROVE  /\ a \o b \o c \o d \o e \in Seq(S)
           /\ Elems(a \o b \o c \o d \o e) = Elems(a) \cup Elems(b) \cup Elems(c) \cup Elems(d) \cup Elems(e)
<1>1. a \o b \in Seq(S) /\ Elems(a \o b) = Elems(a) \cup Elems(b)
  BY ElemsOfConcat
<1>2. PICK ab \in Seq(S) : ab = a \o b
  BY <1>1
<1>3. ab \o c \in Seq(S) /\ Elems(ab \o c) = Elems(ab) \cup Elems(c)
  BY ElemsOfConcat
<1>4. PICK abc \in Seq(S) : abc = ab \o c
  BY <1>3
<1>5. abc \o d \in Seq(S) /\ Elems(abc \o d) = Elems(abc) \cup Elems(d)
  BY ElemsOfConcat
<1>6. PICK abcd \in Seq(S) : abcd = abc \o d
  BY <1>5
<1>7. abcd \o e \in Seq(S) /\ Elems(abcd \o e) = Elems(abcd) \cup Elems(e)
  BY ElemsOfConcat
<1> HIDE DEF Elems
<1> QED  BY <1>1, <1>2, <1>3, <1>4, <1>5, <1>6, <1>7

LEMMA ElemsOfNone ==
    ASSUME NEW S
    PROVE  <<>> \in Seq(S) /\ Elems(<<>>) = {}
<1>1. <<>> \in Seq(S) /\ 1..Len(<<>>) = {}
  BY EmptySeq
<1> QED  BY <1>1 DEF Elems

LEMMA ElemsOfOne ==
    ASSUME NEW S, NEW a \in S
    PROVE  <<a>> \in Seq(S) /\ Elems(<<a>>) = {a}
<1>1. <<a>> \in Seq(S) /\ 1..Len(<<a>>) = {1} /\ <<a>>[1] = a
  OBVIOUS
<1> QED  BY <1>1 DEF Elems

LEMMA ElemsOfPair ==
    ASSUME NEW S, NEW a \in S, NEW b \in S
    PROVE  <<a, b>> \in Seq(S) /\ Elems(<<a, b>>) = {a, b}
<1>1. <<a, b>> \in Seq(S) /\ 1..Len(<<a, b>>) = {1, 2} /\ <<a, b>>[1] = a /\ <<a, b>>[2] = b
  OBVIOUS
<1> QED  BY <1>1 DEF Elems

LEMMA ElemsOfTriple ==
    ASSUME NEW S, NEW a \in S, NEW b \in S, NEW c \in S
    PROVE  <<a, b, c>> \in Seq(S) /\ Elems(<<a, b, c>>) = {a, b, c}
<1>t. PICK t : t = <<a, b, c>>
  OBVIOUS
<1>1. t \in Seq(S) /\ 1..Len(t) = {1, 2, 3} /\ t[1] = a /\ t[2] = b /\ t[3] = c
  BY <1>t
<1>2. Elems(t) = {a, b, c}
  BY <1>1 DEF Elems
<1> QED  BY <1>t, <1>1, <1>2

LEMMA ElemsOfFour ==
    ASSUME NEW S, NEW a \in S, NEW b \in S, NEW c \in S, NEW d \in S
    PROVE  <<a, b, c, d>> \in Seq(S) /\ Elems(<<a, b, c, d>>) = {a, b, c, d}
<1>t. PICK t : t = <<a, b, c, d>>
  OBVIOUS
<1>1. t \in Seq(S) /\ 1..Len(t) = {1, 2, 3, 4} /\ t[1] = a /\ t[2] = b /\ t[3] = c /\ t[4] = d
  BY <1>t
<1>2. Elems(t) = {a, b, c, d}
  BY <1>1 DEF Elems
<1> QED  BY <1>t, <1>1, <1>2

\* The keys a creation stores.
OrderKeys(j) ==
    {"factories", "salt", "length", "challenge", "tag", "verifier"}
      \cup (IF j.opts.alg = "HKDF-SHA-256" THEN {} ELSE {"cost"})
      \cup (IF j.opts.hint = NoHint THEN {} ELSE {"hint"})
      \cup (IF j.opts.changeable THEN {"nonce", "ciphertext", "envelope"} ELSE {})

LEMMA OrderElems ==
    ASSUME NEW j
    PROVE  CreateOrder(j) \in Seq(Keys) /\ Elems(CreateOrder(j)) = OrderKeys(j)
<1>k. PICK S : S = Keys
  OBVIOUS
<1>0. /\ "factories" \in S /\ "salt" \in S /\ "cost" \in S /\ "length" \in S /\ "challenge" \in S
      /\ "tag" \in S /\ "verifier" \in S /\ "hint" \in S /\ "nonce" \in S /\ "ciphertext" \in S
      /\ "envelope" \in S
  BY <1>k DEF Keys
<1>n. <<>> \in Seq(S) /\ Elems(<<>>) = {}
  BY ElemsOfNone
<1>1. PICK a \in Seq(S) : a = <<"factories", "salt">> /\ Elems(a) = {"factories", "salt"}
  BY <1>0, ElemsOfPair
<1>2. PICK b \in Seq(S) : /\ b = (IF j.opts.alg = "HKDF-SHA-256" THEN <<>> ELSE <<"cost">>)
                          /\ Elems(b) = (IF j.opts.alg = "HKDF-SHA-256" THEN {} ELSE {"cost"})
  <2>1. <<"cost">> \in Seq(S) /\ Elems(<<"cost">>) = {"cost"}
    BY <1>0, ElemsOfOne
  <2> QED  BY <1>n, <2>1
<1>3. PICK c \in Seq(S) : /\ c = <<"length", "challenge", "tag", "verifier">>
                          /\ Elems(c) = {"length", "challenge", "tag", "verifier"}
  <2>1. PICK w \in S, x \in S, y \in S, z \in S :
            w = "length" /\ x = "challenge" /\ y = "tag" /\ z = "verifier"
    BY <1>0
  <2>2. <<w, x, y, z>> \in Seq(S) /\ Elems(<<w, x, y, z>>) = {w, x, y, z}
    BY ElemsOfFour
  <2> QED  BY <2>1, <2>2
<1>4. PICK d \in Seq(S) : /\ d = (IF j.opts.hint = NoHint THEN <<>> ELSE <<"hint">>)
                          /\ Elems(d) = (IF j.opts.hint = NoHint THEN {} ELSE {"hint"})
  <2>1. <<"hint">> \in Seq(S) /\ Elems(<<"hint">>) = {"hint"}
    BY <1>0, ElemsOfOne
  <2> QED  BY <1>n, <2>1
<1>5. PICK e \in Seq(S) :
          /\ e = (IF j.opts.changeable THEN <<"nonce", "ciphertext", "envelope">> ELSE <<>>)
          /\ Elems(e) = (IF j.opts.changeable THEN {"nonce", "ciphertext", "envelope"} ELSE {})
  <2>1. /\ <<"nonce", "ciphertext", "envelope">> \in Seq(S)
        /\ Elems(<<"nonce", "ciphertext", "envelope">>) = {"nonce", "ciphertext", "envelope"}
    BY <1>0, ElemsOfTriple
  <2> QED  BY <1>n, <2>1
<1>6. /\ a \o b \o c \o d \o e \in Seq(S)
      /\ Elems(a \o b \o c \o d \o e) = Elems(a) \cup Elems(b) \cup Elems(c) \cup Elems(d) \cup Elems(e)
  BY ElemsOfFive
<1>7. CreateOrder(j) = a \o b \o c \o d \o e
  BY <1>1, <1>2, <1>3, <1>4, <1>5 DEF CreateOrder
<1>8. Elems(a) \cup Elems(c) = {"factories", "salt", "length", "challenge", "tag", "verifier"}
  BY <1>1, <1>3
<1>9. Elems(CreateOrder(j)) = (Elems(a) \cup Elems(c)) \cup Elems(b) \cup Elems(d) \cup Elems(e)
  BY <1>6, <1>7
<1>10. Elems(CreateOrder(j)) = OrderKeys(j)
  BY <1>2, <1>4, <1>5, <1>8, <1>9 DEF OrderKeys
<1> QED  BY <1>k, <1>6, <1>7, <1>10

\* What a creation has stored once it stored the given keys.
Partial(j, S) == [k \in Keys |-> IF k \in S THEN CreatedRecord(j)[k] ELSE <<>>]

Stored(j, n) == {CreateOrder(j)[i] : i \in 1..n}

LEMMA PartialType ==
    ASSUME NEW j, CreateJob(j), NEW S
    PROVE  Partial(j, S) \in Configs
<1>1. PICK c \in Configs : c = CreatedRecord(j)
  BY CreatedIs DEF SealedWith
<1>2. PICK m : m = Partial(j, S)
  OBVIOUS
<1>3. m = [k \in Keys |-> m[k]] /\ \A k \in Keys : m[k] = c[k] \/ m[k] = <<>>
  BY <1>1, <1>2 DEF Partial
<1>4. <<>> \in Numbers
  BY Literals
<1>5. m \in Configs
  BY <1>1, <1>3, <1>4 DEF Keys, Configs
<1> QED  BY <1>2, <1>5

\* One more key is stored.
LEMMA PartialSet ==
    ASSUME NEW j, CreateJob(j), NEW n \in Nat, n # 0, NEW k, k = CreateOrder(j)[n]
    PROVE  [Partial(j, Stored(j, n - 1)) EXCEPT ![k] = CreatedRecord(j)[k]] = Partial(j, Stored(j, n))
<1>1. Stored(j, n) = Stored(j, n - 1) \cup {k}
  <2>1. 1..n = (1..(n - 1)) \cup {n}
    OBVIOUS
  <2> QED  BY <2>1 DEF Stored
<1> QED  BY <1>1 DEF Partial

LEMMA PartialNone ==
    ASSUME NEW j
    PROVE  Partial(j, Stored(j, 0)) = NewConfig
<1>1. Stored(j, 0) = {}
  BY DEF Stored
<1> QED  BY <1>1 DEF Partial, NewConfig

\* Once all keys are stored, the password of the creation opens the root with a
\* key that is long enough for its ciphers, and shows the hint.
LEMMA CreatedEffect ==
    ASSUME NEW j, CreateJob(j), NEW m, m = Partial(j, Stored(j, Len(CreateOrder(j))))
    PROVE  /\ m \in Configs /\ Reading(m) # Absent
           /\ Reading(m).pw = j.pw /\ Reading(m).hint = j.opts.hint
           /\ KeyLength(Reading(m).key) >= m["factories"][2]
<1>1. PICK cost \in Numbers, length \in Nat, key \in DerivedKeys, content \in ContentKeys, b \in Configs :
          /\ SealedWith(CreatedRecord(j), b, <<j.n>>, cost, <<length>>, key, content, j.n)
          /\ b["factories"] = <<j.opts.alg, j.opts.need>> /\ b["hint"] = <<j.opts.hint>>
          /\ key = <<j.opts.alg, j.pw, <<j.n>>, cost, <<length>>>>
          /\ Or(cost, DefaultCost(j.opts.alg)) = cost
          /\ j.opts.alg = "HKDF-SHA-256" => cost = <<>>
          /\ ~j.opts.changeable => length >= j.opts.need
          /\ KeyLength(content) >= j.opts.need
  BY CreatedIs
<1>o. PICK alg \in Derivers, need \in 1..64, h \in Hints, n \in Nat, pw \in Passwords :
          alg = j.opts.alg /\ need = j.opts.need /\ h = j.opts.hint /\ n = j.n /\ pw = j.pw
  BY DEF CreateJob
<1>2. PICK w \in Configs : w = m
  BY PartialType
<1>3. \A k \in Keys : w[k] = IF k \in OrderKeys(j) THEN CreatedRecord(j)[k] ELSE <<>>
  <2>1. Stored(j, Len(CreateOrder(j))) = OrderKeys(j)
    BY OrderElems DEF Stored, Elems
  <2> QED  BY <1>2, <2>1 DEF Partial
<1>4. PICK r : r = CreatedRecord(j)
  OBVIOUS
<1>5. /\ r["factories"] = <<alg, need>> /\ r["hint"] = <<h>> /\ r["salt"] = <<n>> /\ r["cost"] = cost
      /\ r["length"] = <<length>> /\ r["challenge"] = <<n>> /\ r["tag"] = <<key, <<n>>>>
      /\ r["verifier"] = <<1>> /\ r["nonce"] = <<n>> /\ r["ciphertext"] = <<key, <<n>>, content>>
      /\ r["envelope"] = <<1>>
  BY <1>1, <1>o, <1>4 DEF SealedWith
<1>6. /\ w["factories"] = <<alg, need>> /\ w["salt"] = <<n>> /\ w["length"] = <<length>>
      /\ w["challenge"] = <<n>> /\ w["tag"] = <<key, <<n>>>> /\ w["verifier"] = <<1>>
  BY <1>3, <1>4, <1>5 DEF OrderKeys, Keys
<1>7. w["cost"] = cost
  BY <1>1, <1>3, <1>4, <1>5 DEF OrderKeys, Keys
<1>8. HintOf(w) = h
  <2>1. w["hint"] = IF h = NoHint THEN <<>> ELSE <<h>>
    BY <1>o, <1>3, <1>4, <1>5 DEF OrderKeys, Keys
  <2> QED  BY <2>1 DEF HintOf
<1>9. <<n>> # <<>> /\ <<length>> # <<>> /\ <<1>> # <<>>
  BY Literals
<1>10. WrappingKey(w, pw) = key
  <2>1. Or(w["cost"], DefaultCost(alg)) = cost /\ Or(w["length"], <<32>>) = <<length>>
    BY <1>1, <1>o, <1>6, <1>7, <1>9 DEF Or
  <2>2. w["factories"][1] = alg /\ w["salt"] # <<>>
    BY <1>6, <1>9
  <2>3. LoadKey(alg, w, pw) = <<alg, pw, w["salt"], Or(w["cost"], DefaultCost(alg)), Or(w["length"], <<32>>)>>
    BY <2>2, LoadKeyIs
  <2> QED  BY <1>1, <1>o, <1>6, <2>1, <2>2, <2>3 DEF WrappingKey
<1>11. VerifyPassword(w, key) /\ OpenFactories(w) /\ key # NoKey
  BY <1>6, <1>9, KeysAreSome DEF VerifyPassword, VerifierTag, OpenFactories
<1>12. w \in Files /\ w # Torn /\ Load(w) = w
  BY RootConfigValues DEF Files, Load
<1>13. OpenKey(w, pw) = IF Enveloped(w) THEN Unwrap(w, key) ELSE key
  BY <1>10, <1>11, <1>12 DEF OpenKey, RootKeyForOpen, Readable
<1>14. OpenKey(w, pw) # NoKey /\ KeyLength(OpenKey(w, pw)) >= need
  <2>1. CASE j.opts.changeable
    <3>1. w["nonce"] = <<n>> /\ w["ciphertext"] = <<key, <<n>>, content>> /\ w["envelope"] = <<1>>
      BY <1>3, <1>4, <1>5, <2>1 DEF OrderKeys, Keys
    <3>2. Enveloped(w) /\ Unwrap(w, key) = content
      BY <1>9, <3>1 DEF Enveloped, Unwrap
    <3> QED  BY <1>1, <1>o, <1>13, <3>2, KeysAreSome
  <2>2. CASE ~j.opts.changeable
    <3>1. w["envelope"] = <<>>
      BY <1>3, <2>2 DEF OrderKeys, Keys
    <3>2. ~Enveloped(w)
      BY <1>9, <3>1 DEF Enveloped
    <3>3. KeyLength(key) = length
      BY <1>1 DEF KeyLength
    <3> QED  BY <1>1, <1>o, <1>11, <1>13, <2>2, <3>2, <3>3
  <2> QED  BY <2>1, <2>2
<1>15. Reading(w) = [pw |-> pw, key |-> OpenKey(w, pw), hint |-> HintOf(w)] /\ Reading(w) # Absent
  BY <1>12, <1>14, ReadingSome
<1>16. Reading(w).pw = pw /\ Reading(w).key = OpenKey(w, pw) /\ Reading(w).hint = h
  BY <1>8, <1>15
<1>17. w["factories"][2] = need
  BY <1>6
<1> QED  BY <1>o, <1>2, <1>14, <1>15, <1>16, <1>17

-----------------------------------------------------------------------------
(* The inductive invariant *)

CreatePlaces == {"load", "set", "save"}
LockedPlaces == {"verify", "stage", "update", "commit", "sync"}
Places       == {"idle", "lock"} \cup CreatePlaces \cup LockedPlaces

CreateJobs == [kind : {"create"}, pw : Passwords, n : Nat, at : Nat \ {0},
               opts : [alg : Derivers, ms : Nat, need : 1..64, changeable : BOOLEAN, hint : Hints]]
PasswdJobs == [kind : {"passwd"}, pw : Passwords, new : Passwords, n : Nat, content : {NoKey} \cup ContentKeys]
HintJobs   == [kind : {"hint"}, pw : Passwords, hint : Hints, n : Nat, content : {NoKey} \cup ContentKeys]

\* What an authorised change makes of the configuration f.
Changed(f, j) == IF j.kind = "hint" THEN WithHint(f, j) ELSE Rewrapped(f, j)

\* The configuration f shows the change.
Shows(f, j) == IF j.kind = "hint" THEN Reading(f) # Absent => Reading(f).hint = j.hint
               ELSE Reading(f) # Absent /\ Reading(f).pw = j.new

\* A process at place l with job j, configuration object m and staged copy s, when
\* the file is f: its object holds what it stored so far, and what it derived from
\* the file is still derived from the file.
Local(l, j, m, s, f) ==
    /\ l \in Places /\ m \in Configs /\ s \in Configs \cup {Absent}
    /\ l = "idle" => j = Idle
    /\ l \in CreatePlaces => j \in CreateJobs
    /\ l \in {"lock"} \cup LockedPlaces => j \in PasswdJobs \cup HintJobs
    /\ l = "load" => f = Absent /\ j.at = 1
    /\ l = "set" => m = Partial(j, Stored(j, j.at - 1))
    /\ l = "save" => m = Partial(j, Stored(j, j.at))
    /\ l \in {"stage", "update", "commit"} => j.content = Authorised(f, j) /\ j.content # NoKey
    /\ l = "update" => m = f
    /\ l = "commit" => s = Changed(f, j) /\ (j.kind = "hint" \/ NewDerivation(f, j) # NoDerivation)
    /\ l = "sync" => Shows(f, j)

\* The configuration f is one of those the claim cl allows.
Fits(f, cl) ==
    cl.pw # {} => /\ Reading(f) # Absent /\ Reading(f).pw \in cl.pw /\ Reading(f).hint \in cl.hint
                  /\ KeyLength(Reading(f).key) >= f["factories"][2]

\* It yields the key files were written under.
KeyFits(f, dk) == dk # {} => Reading(f) # Absent /\ dk = {Reading(f).key}

SameKey(d, f) == /\ Reading(d) = Absent <=> Reading(f) = Absent
                 /\ Reading(d) # Absent => Reading(d).key = Reading(f).key

\* Either nothing is claimed, or a password and a hint.
ClaimOK(cl) == /\ DOMAIN cl = {"pw", "hint"}
               /\ cl.pw = {} <=> cl.hint = {}
               /\ cl.pw = {} => cl = NoClaim

\* Promised, for the claims cl and se when l is lost.
Held(cl, se, l) == IF "update" \in l THEN se ELSE cl

\* The file, and whatever a power failure may leave of it: while the creation is not
\* on disk, perhaps nothing.
Kept(f, D, cl, se, l, dk) ==
    /\ f \in Files /\ D \subseteq Files /\ f \in D
    /\ f = Absent => D = {Absent}
    /\ ClaimOK(cl) /\ ClaimOK(se)
    /\ Fits(f, Held(cl, se, l))
    /\ "root" \notin l => KeyFits(f, dk)
    /\ \A d \in D : Fits(d, se) /\ (SameKey(d, f) \/ (Absent \in D /\ Reading(d) = Absent))

\* While a root is created, nothing was promised, and all may be lost.
Young(f, D, cl, se, l, dk) ==
    /\ ClaimOK(cl) /\ Held(cl, se, l) = NoClaim /\ se = NoClaim
    /\ dk = {} \/ "root" \in l
    /\ Absent \in D /\ D \subseteq {Absent, NewConfig, Torn, f}

TypeInv == /\ DOMAIN pc = Procs /\ DOMAIN job = Procs /\ DOMAIN mem = Procs /\ DOMAIN staged = Procs
           /\ lock \in Procs \cup {NoProc} /\ serial \in Nat

LocalInv == \A p \in Procs : Local(pc[p], job[p], mem[p], staged[p], file)

LockInv == \A p \in Procs : lock = p <=> pc[p] \in LockedPlaces

AloneInv == \A p, q \in Procs : pc[p] \in CreatePlaces /\ q # p => pc[q] = "idle"

CreateInv == \A p \in Procs : pc[p] \in CreatePlaces => Young(file, durable, claim, secured, lost, dataKeys)

IInv == /\ Overlap = FALSE
        /\ TypeInv /\ LocalInv /\ LockInv /\ AloneInv /\ CreateInv
        /\ Kept(file, durable, claim, secured, lost, dataKeys)

-----------------------------------------------------------------------------
(* Where a process is *)

LEMMA LocalIdle ==
    ASSUME NEW f
    PROVE  Local("idle", Idle, NewConfig, Absent, f)
BY NewConfigType DEF Local, Places, CreatePlaces, LockedPlaces

\* A process that has not locked the file does not depend on it.
LEMMA LocalElsewhere ==
    ASSUME NEW l \in {"idle", "lock"}, NEW j, NEW m, NEW s, NEW f, Local(l, j, m, s, f), NEW g
    PROVE  Local(l, j, m, s, g)
BY DEF Local, CreatePlaces, LockedPlaces

LEMMA CreateJobsAre ==
    ASSUME NEW j \in CreateJobs
    PROVE  CreateJob(j)
BY DEF CreateJobs, CreateJob

LEMMA ChangeJobsAre ==
    ASSUME NEW j \in PasswdJobs \cup HintJobs
    PROVE  /\ j.pw \in Passwords /\ j.n \in Nat
           /\ j.kind \in {"passwd", "hint"}
           /\ j.kind = "passwd" => j.new \in Passwords
           /\ j.kind = "hint" => j.hint \in Hints
BY DEF PasswdJobs, HintJobs

LEMMA AuthorisedType ==
    ASSUME NEW f \in Files, NEW j \in PasswdJobs \cup HintJobs
    PROVE  Authorised(f, j) \in {NoKey} \cup ContentKeys
<1> SUFFICES ASSUME Authorised(f, j) # NoKey
             PROVE  Authorised(f, j) \in ContentKeys
  OBVIOUS
<1>1. j.pw \in Passwords
  BY ChangeJobsAre
<1>2. f \in Configs /\ OpenFactories(f) /\ f["factories"][1] \in Derivers
  BY <1>1, AuthorisedIs
<1>3. CASE j.kind = "hint"
  <2>1. f # Torn /\ Load(f) = f
    BY <1>2, RootConfigValues DEF Load
  <2>2. Authorised(f, j) = WrappingKey(f, j.pw) /\ WrappingKey(f, j.pw) # NoKey
    BY <1>2, <1>3, <2>1 DEF Authorised, Readable
  <2> QED  BY <1>1, <1>2, <2>2, LoadKeyType, KeysAreSome DEF WrappingKey
<1>4. CASE j.kind # "hint"
  BY <1>1, <1>4, AuthorisedIs, OpenKeyIs
<1> QED  BY <1>3, <1>4

\* What a change reads depends on its kind and its password only.
LEMMA AuthorisedSame ==
    ASSUME NEW f, NEW j, NEW i, i.pw = j.pw, i.kind = j.kind
    PROVE  Authorised(f, i) = Authorised(f, j)
BY DEF Authorised

-----------------------------------------------------------------------------
(* What the steps do to the file and to the claims *)

\* An authorised change keeps the content key, and the half of the secret it is not
\* about.
Replaced(f, s) ==
    /\ SameKey(s, f)
    /\ Reading(f) # Absent => Reading(s).hint = Reading(f).hint \/ Reading(s).pw = Reading(f).pw

LEMMA ChangedEffect ==
    ASSUME NEW f \in Files, NEW j \in PasswdJobs \cup HintJobs, j.content = Authorised(f, j), j.content # NoKey,
           j.kind = "hint" \/ NewDerivation(f, j) # NoDerivation,
           NEW s, s = Changed(f, j)
    PROVE  /\ f \in Configs /\ s \in Configs /\ s["factories"] = f["factories"]
           /\ Replaced(f, s) /\ Shows(s, j)
           /\ j.kind = "hint" /\ Reading(f) # Absent => Reading(s).pw = Reading(f).pw
           /\ j.kind # "hint" => Reading(f) # Absent /\ Reading(s).hint = Reading(f).hint
<1>1. f \in Configs /\ j.pw \in Passwords /\ j.n \in Nat
  BY ChangeJobsAre, AuthorisedIs
<1>2. CASE j.kind = "hint"
  <2>1. j.hint \in Hints
    BY <1>2, ChangeJobsAre
  <2>2. s = [f EXCEPT !["hint"] = <<j.hint>>]
    BY <1>2 DEF Changed, WithHint
  <2>3. /\ s \in Configs /\ s["factories"] = f["factories"]
        /\ Reading(s) = Absent <=> Reading(f) = Absent
        /\ Reading(f) # Absent => /\ Reading(s).pw = Reading(f).pw
                                  /\ Reading(s).key = Reading(f).key /\ Reading(s).hint = j.hint
    BY <1>1, <2>1, <2>2, HintEffect
  <2> QED  BY <1>1, <1>2, <2>3 DEF Replaced, SameKey, Shows
<1>3. CASE j.kind # "hint"
  <2>1. j.kind = "passwd" /\ j.new \in Passwords
    BY <1>3, ChangeJobsAre
  <2>2. s = Rewrapped(f, j)
    BY <1>3 DEF Changed
  <2>3. /\ s \in Configs /\ s["factories"] = f["factories"]
        /\ Reading(f) # Absent /\ Reading(s) # Absent
        /\ Reading(s).pw = j.new /\ Reading(s).key = Reading(f).key /\ Reading(s).hint = Reading(f).hint
    BY <1>1, <1>3, <2>1, <2>2, RewrapEffect
  <2> QED  BY <1>1, <1>3, <2>3 DEF Replaced, SameKey, Shows
<1> QED  BY <1>2, <1>3

LEMMA NoClaimIs == NoClaim.pw = {} /\ NoClaim.hint = {} /\ ClaimOK(NoClaim)
BY DEF NoClaim, ClaimOK

Widened(cl, w, j) ==
    /\ ClaimOK(w)
    /\ w.pw = {} <=> cl.pw = {}
    /\ cl.pw \subseteq w.pw /\ cl.hint \subseteq w.hint
    /\ cl.pw # {} /\ j.kind = "hint" => j.hint \in w.hint /\ w.pw = cl.pw
    /\ cl.pw # {} /\ j.kind # "hint" => j.new \in w.pw /\ w.hint = cl.hint

Settled(cl, w, j) ==
    /\ ClaimOK(w)
    /\ w.pw = {} <=> cl.pw = {}
    /\ cl.pw # {} /\ j.kind = "hint" => w.hint = {j.hint} /\ w.pw = cl.pw
    /\ cl.pw # {} /\ j.kind # "hint" => w.pw = {j.new} /\ w.hint = cl.hint

\* What a change does to the claims, once it replaced the file and once it is done.
LEMMA PerhapsEffect ==
    ASSUME NEW cl, ClaimOK(cl), NEW j
    PROVE  Widened(cl, Perhaps(cl, j), j)
<1>w. PICK w : w = Perhaps(cl, j)
  OBVIOUS
<1>0. DOMAIN cl = {"pw", "hint"} /\ (cl.pw = {} <=> cl.hint = {}) /\ (cl.pw = {} => cl = NoClaim)
  BY DEF ClaimOK
<1>1. CASE cl = NoClaim
  BY <1>w, <1>1, NoClaimIs DEF Perhaps, Widened
<1>2. CASE cl # NoClaim /\ j.kind = "hint"
  <2>1. w = [cl EXCEPT !.hint = @ \cup {j.hint}]
    BY <1>w, <1>2 DEF Perhaps
  <2>2. DOMAIN w = {"pw", "hint"} /\ w.pw = cl.pw /\ w.hint = cl.hint \cup {j.hint}
    BY <1>0, <2>1
  <2>3. Widened(cl, w, j)
    BY <1>0, <1>2, <2>2 DEF Widened, ClaimOK
  <2> QED  BY <1>w, <2>3
<1>3. CASE cl # NoClaim /\ j.kind # "hint"
  <2>1. w = [cl EXCEPT !.pw = @ \cup {j.new}]
    BY <1>w, <1>3 DEF Perhaps
  <2>2. DOMAIN w = {"pw", "hint"} /\ w.hint = cl.hint /\ w.pw = cl.pw \cup {j.new}
    BY <1>0, <2>1
  <2>3. Widened(cl, w, j)
    BY <1>0, <1>3, <2>2 DEF Widened, ClaimOK
  <2> QED  BY <1>w, <2>3
<1> QED  BY <1>1, <1>2, <1>3

LEMMA CertainEffect ==
    ASSUME NEW cl, ClaimOK(cl), NEW j
    PROVE  Settled(cl, Certain(cl, j), j)
<1>w. PICK w : w = Certain(cl, j)
  OBVIOUS
<1>0. DOMAIN cl = {"pw", "hint"} /\ (cl.pw = {} <=> cl.hint = {}) /\ (cl.pw = {} => cl = NoClaim)
  BY DEF ClaimOK
<1>1. CASE cl = NoClaim
  BY <1>w, <1>1, NoClaimIs DEF Certain, Settled
<1>2. CASE cl # NoClaim /\ j.kind = "hint"
  <2>1. w = [cl EXCEPT !.hint = {j.hint}]
    BY <1>w, <1>2 DEF Certain
  <2>2. DOMAIN w = {"pw", "hint"} /\ w.pw = cl.pw /\ w.hint = {j.hint}
    BY <1>0, <2>1
  <2>3. Settled(cl, w, j)
    BY <1>0, <1>2, <2>2 DEF Settled, ClaimOK
  <2> QED  BY <1>w, <2>3
<1>3. CASE cl # NoClaim /\ j.kind # "hint"
  <2>1. w = [cl EXCEPT !.pw = {j.new}]
    BY <1>w, <1>3 DEF Certain
  <2>2. DOMAIN w = {"pw", "hint"} /\ w.hint = cl.hint /\ w.pw = {j.new}
    BY <1>0, <2>1
  <2>3. Settled(cl, w, j)
    BY <1>0, <1>3, <2>2 DEF Settled, ClaimOK
  <2> QED  BY <1>w, <2>3
<1> QED  BY <1>1, <1>2, <1>3

\* An authorised change of a configuration that fits a claim.
LEMMA FitsCommit ==
    ASSUME NEW f \in Files, NEW cl, ClaimOK(cl), Fits(f, cl),
           NEW j \in PasswdJobs \cup HintJobs, j.content = Authorised(f, j), j.content # NoKey,
           j.kind = "hint" \/ NewDerivation(f, j) # NoDerivation,
           NEW s, s = Changed(f, j)
    PROVE  Fits(s, Perhaps(cl, j))
<1>2. /\ s \in Configs /\ s["factories"] = f["factories"]
      /\ Replaced(f, s) /\ Shows(s, j)
      /\ j.kind = "hint" /\ Reading(f) # Absent => Reading(s).pw = Reading(f).pw
      /\ j.kind # "hint" => Reading(f) # Absent /\ Reading(s).hint = Reading(f).hint
  BY ChangedEffect
<1>w. PICK w : w = Perhaps(cl, j)
  OBVIOUS
<1>3. Widened(cl, w, j)
  BY <1>w, PerhapsEffect
<1>4. /\ w.pw = {} <=> cl.pw = {}
      /\ cl.pw \subseteq w.pw /\ cl.hint \subseteq w.hint
      /\ cl.pw # {} /\ j.kind = "hint" => j.hint \in w.hint /\ w.pw = cl.pw
      /\ cl.pw # {} /\ j.kind # "hint" => j.new \in w.pw /\ w.hint = cl.hint
  BY <1>3 DEF Widened
<1>5. ASSUME w.pw # {}
      PROVE  /\ Reading(s) # Absent /\ Reading(s).pw \in w.pw /\ Reading(s).hint \in w.hint
             /\ KeyLength(Reading(s).key) >= s["factories"][2]
  <2>1. /\ Reading(f) # Absent /\ Reading(f).pw \in cl.pw /\ Reading(f).hint \in cl.hint
        /\ KeyLength(Reading(f).key) >= f["factories"][2]
    BY <1>4, <1>5 DEF Fits
  <2>2. Reading(s) # Absent /\ Reading(s).key = Reading(f).key
    BY <1>2, <2>1 DEF Replaced, SameKey
  <2>3. CASE j.kind = "hint"
    <3>1. Reading(s).hint = j.hint /\ Reading(s).pw = Reading(f).pw
      BY <1>2, <2>1, <2>2, <2>3 DEF Shows
    <3> QED  BY <1>2, <1>4, <1>5, <2>1, <2>2, <2>3, <3>1
  <2>4. CASE j.kind # "hint"
    <3>1. Reading(s).pw = j.new /\ Reading(s).hint = Reading(f).hint
      BY <1>2, <2>4 DEF Shows
    <3> QED  BY <1>2, <1>4, <1>5, <2>1, <2>2, <2>4, <3>1
  <2> QED  BY <2>3, <2>4
<1> QED  BY <1>w, <1>5 DEF Fits

\* What fits a claim fits a wider one.
LEMMA FitsPerhaps ==
    ASSUME NEW cl, ClaimOK(cl), NEW j, NEW d, Fits(d, cl)
    PROVE  Fits(d, Perhaps(cl, j))
<1>w. PICK w : w = Perhaps(cl, j)
  OBVIOUS
<1>1. Widened(cl, w, j)
  BY <1>w, PerhapsEffect
<1>2. Fits(d, w)
  BY <1>1 DEF Widened, Fits
<1> QED  BY <1>w, <1>2

\* The copy is renamed over the file.
LEMMA KeptCommit ==
    ASSUME NEW f, NEW D, NEW cl, NEW se, NEW l, NEW dk, Kept(f, D, cl, se, l, dk),
           NEW j \in PasswdJobs \cup HintJobs, j.content = Authorised(f, j), j.content # NoKey,
           j.kind = "hint" \/ NewDerivation(f, j) # NoDerivation,
           NEW s, s = Changed(f, j)
    PROVE  Kept(s, D \cup {s}, Perhaps(cl, j), Perhaps(se, j), l, dk)
<1>1. f \in Files /\ f \in D /\ D \subseteq Files /\ ClaimOK(cl) /\ ClaimOK(se)
  BY DEF Kept
<1>2. s \in Configs /\ Replaced(f, s)
  BY <1>1, ChangedEffect
<1>3. ClaimOK(Perhaps(cl, j)) /\ ClaimOK(Perhaps(se, j))
  BY <1>1, PerhapsEffect DEF Widened
<1>4. s # Absent /\ s \in Files
  BY <1>2, RootConfigValues DEF Files
<1>5. Fits(s, Held(Perhaps(cl, j), Perhaps(se, j), l))
  <2>1. Fits(f, Held(cl, se, l)) /\ ClaimOK(Held(cl, se, l))
    BY <1>1 DEF Kept, Held
  <2>2. Fits(s, Perhaps(Held(cl, se, l), j))
    BY <1>1, <2>1, FitsCommit
  <2> QED  BY <2>2 DEF Held
<1>6. "root" \notin l => KeyFits(s, dk)
  BY <1>2 DEF Kept, KeyFits, Replaced, SameKey
<1>7. ASSUME NEW d \in D \cup {s}
      PROVE  Fits(d, Perhaps(se, j)) /\ (SameKey(d, s) \/ (Absent \in D \cup {s} /\ Reading(d) = Absent))
  <2>1. CASE d = s
    <3>1. Fits(f, se)
      BY <1>1 DEF Kept
    <3>2. Fits(s, Perhaps(se, j))
      BY <1>1, <3>1, FitsCommit
    <3> QED  BY <2>1, <3>2 DEF SameKey
  <2>2. CASE d \in D
    <3>1. Fits(d, se) /\ (SameKey(d, f) \/ (Absent \in D /\ Reading(d) = Absent))
      BY <2>2 DEF Kept
    <3>2. Fits(d, Perhaps(se, j))
      BY <1>1, <3>1, FitsPerhaps
    <3>3. SameKey(d, f) => SameKey(d, s)
      BY <1>2 DEF Replaced, SameKey
    <3> QED  BY <3>1, <3>2, <3>3
  <2> QED  BY <2>1, <2>2
<1> QED  BY <1>1, <1>3, <1>4, <1>5, <1>6, <1>7 DEF Kept

\* The change is acknowledged, the directory synced or not.
LEMMA KeptFinish ==
    ASSUME NEW f, NEW D, NEW cl, NEW se, NEW l, NEW dk, Kept(f, D, cl, se, l, dk),
           NEW j \in PasswdJobs \cup HintJobs, Shows(f, j),
           NEW w, w = Certain(Held(cl, se, l), j), NEW m, m = l \ {"update"}
    PROVE  Kept(f, {f}, w, w, m, dk) /\ Kept(f, D, w, se, m, dk)
<1>0. ClaimOK(Held(cl, se, l))
  BY DEF Kept, Held
<1>p. PICK h : h = Held(cl, se, l)
  OBVIOUS
<1>1. ClaimOK(w) /\ Settled(h, w, j)
  BY <1>0, <1>p, CertainEffect DEF Settled
<1>2. /\ w.pw = {} <=> h.pw = {}
      /\ h.pw # {} /\ j.kind = "hint" => w.hint = {j.hint} /\ w.pw = h.pw
      /\ h.pw # {} /\ j.kind # "hint" => w.pw = {j.new} /\ w.hint = h.hint
  BY <1>1 DEF Settled
<1>3. Fits(f, w)
  <2>1. Fits(f, h)
    BY <1>p DEF Kept
  <2>2. CASE j.kind = "hint"
    BY <1>2, <2>1, <2>2 DEF Fits, Shows
  <2>3. CASE j.kind # "hint"
    BY <1>2, <2>1, <2>3 DEF Fits, Shows
  <2> QED  BY <2>2, <2>3
<1>4. Held(w, w, m) = w /\ Held(w, se, m) = w
  BY DEF Held
<1>5. "root" \notin m => KeyFits(f, dk)
  BY DEF Kept
<1>6. SameKey(f, f)
  BY DEF SameKey
<1>7. Kept(f, {f}, w, w, m, dk)
  BY <1>1, <1>3, <1>4, <1>5, <1>6 DEF Kept
<1>8. Kept(f, D, w, se, m, dk)
  BY <1>1, <1>3, <1>4, <1>5 DEF Kept
<1> QED  BY <1>7, <1>8

\* A file is written under the key the configuration yields.
LEMMA KeptOpen ==
    ASSUME NEW f, NEW D, NEW cl, NEW se, NEW l, NEW dk, Kept(f, D, cl, se, l, dk),
           NEW pw \in Passwords, OpenKey(f, pw) # NoKey
    PROVE  Kept(f, D, cl, se, l, dk \cup {OpenKey(f, pw)})
<1>1. f \in Files
  BY DEF Kept
<1>2. Reading(f) # Absent /\ Reading(f).key = OpenKey(f, pw)
  BY <1>1, ReadingSome
<1>w. PICK w : w = dk \cup {OpenKey(f, pw)}
  OBVIOUS
<1>3. "root" \notin l => KeyFits(f, w)
  BY <1>2, <1>w DEF Kept, KeyFits
<1>4. Kept(f, D, cl, se, l, w)
  BY <1>3 DEF Kept
<1> QED  BY <1>w, <1>4

\* A power failure leaves one of the contents that may be there.
LEMMA KeptPower ==
    ASSUME NEW f, NEW D, NEW cl, NEW se, NEW l, NEW dk, Kept(f, D, cl, se, l, dk), NEW g \in D,
           NEW m, l \subseteq m, "update" \in m <=> "update" \in l \/ g # f,
           Absent \in D /\ dk # {} /\ Reading(g) = Absent => "root" \in m
    PROVE  Kept(g, {g}, cl, IF g = f THEN Held(cl, se, l) ELSE se, m, dk)
<1>1. /\ g \in Files /\ ClaimOK(cl) /\ ClaimOK(se) /\ Fits(g, se) /\ Fits(f, Held(cl, se, l))
      /\ SameKey(g, f) \/ (Absent \in D /\ Reading(g) = Absent)
      /\ "root" \notin l => KeyFits(f, dk)
  BY DEF Kept
<1>2. "root" \notin m => KeyFits(g, dk)
  BY <1>1 DEF KeyFits, SameKey
<1>3. SameKey(g, g)
  BY DEF SameKey
<1>4. CASE g = f
  <2>p. PICK h : h = Held(cl, se, l)
    OBVIOUS
  <2>1. ClaimOK(h) /\ Fits(g, h)
    BY <1>1, <1>4, <2>p DEF Held
  <2>2. Held(cl, h, m) = h
    BY <1>4, <2>p DEF Held
  <2>3. Kept(g, {g}, cl, h, m, dk)
    BY <1>1, <1>2, <1>3, <2>1, <2>2 DEF Kept
  <2> QED  BY <1>4, <2>p, <2>3
<1>5. CASE g # f
  <2>1. Held(cl, se, m) = se
    BY <1>5 DEF Held
  <2>2. Kept(g, {g}, cl, se, m, dk)
    BY <1>1, <1>2, <1>3, <2>1 DEF Kept
  <2> QED  BY <1>5, <2>2
<1> QED  BY <1>4, <1>5

\* A creation starts where there is no file.
LEMMA YoungStart ==
    ASSUME NEW D, NEW cl, NEW se, NEW l, NEW dk, Kept(Absent, D, cl, se, l, dk)
    PROVE  Young(Absent, D, cl, se, l, dk)
<1>1. /\ D = {Absent} /\ ClaimOK(cl) /\ ClaimOK(se)
      /\ Fits(Absent, Held(cl, se, l)) /\ Fits(Absent, se)
      /\ "root" \notin l => KeyFits(Absent, dk)
  BY DEF Kept
<1>2. dk = {} \/ "root" \in l
  BY <1>1, ReadingEmpty DEF KeyFits
<1>3. Held(cl, se, l) = NoClaim /\ se = NoClaim
  BY <1>1, ReadingEmpty DEF Fits, ClaimOK, Held
<1> QED  BY <1>1, <1>2, <1>3 DEF Young

\* It truncates the file, and writes it.
LEMMA YoungWrite ==
    ASSUME NEW f, NEW D, NEW cl, NEW se, NEW l, NEW dk, Young(f, D, cl, se, l, dk),
           NEW E, E = (D \cap {Absent}) \cup Truncated, NEW g \in Configs \cup {Torn}
    PROVE  /\ g \in Truncated => Young(g, E, cl, se, l, dk) /\ Kept(g, E, cl, se, l, dk)
           /\ Young(g, E \cup {g}, cl, se, l, dk) /\ Kept(g, E \cup {g}, cl, se, l, dk)
<1>1. ASSUME NEW d PROVE Fits(d, NoClaim)
  BY NoClaimIs DEF Fits
<1>2. g \in Files /\ E \subseteq Files /\ Absent \in E /\ E \subseteq {Absent, NewConfig, Torn}
  BY NewConfigType DEF Files, Young, Truncated
<1>3. g # Absent
  BY RootConfigValues
<1>4. "root" \notin l => KeyFits(g, dk)
  BY DEF Young, KeyFits
<1>5. ClaimOK(cl) /\ Held(cl, se, l) = NoClaim /\ se = NoClaim /\ ClaimOK(se)
  BY NoClaimIs DEF Young
<1>6. SameKey(g, g)
  BY DEF SameKey
<1>7. \A d \in E : Reading(d) = Absent
  BY <1>2, ReadingEmpty
<1>8. Kept(g, E \cup {g}, cl, se, l, dk)
  BY <1>1, <1>2, <1>3, <1>4, <1>5, <1>6, <1>7 DEF Kept
<1>9. Young(g, E \cup {g}, cl, se, l, dk)
  BY <1>2, <1>5 DEF Young
<1>10. ASSUME g \in Truncated PROVE E \cup {g} = E
  BY <1>10
<1> QED  BY <1>8, <1>9, <1>10

\* It ends with all keys stored.
LEMMA YoungDone ==
    ASSUME NEW f, NEW D, NEW cl, NEW se, NEW l, NEW dk, Young(f, D, cl, se, l, dk), NEW j \in CreateJobs,
           NEW m, m = Partial(j, Stored(j, Len(CreateOrder(j))))
    PROVE  Kept(m, (D \cap {Absent}) \cup Truncated \cup {m}, [pw |-> {j.pw}, hint |-> {j.opts.hint}],
                NoClaim, l \ {"update"}, dk)
<1>1. CreateJob(j)
  BY CreateJobsAre
<1>2. /\ m \in Configs /\ Reading(m) # Absent
      /\ Reading(m).pw = j.pw /\ Reading(m).hint = j.opts.hint
      /\ KeyLength(Reading(m).key) >= m["factories"][2]
  BY <1>1, CreatedEffect
<1>w. PICK w : w = [pw |-> {j.pw}, hint |-> {j.opts.hint}]
  OBVIOUS
<1>3. ClaimOK(w) /\ w.pw = {j.pw} /\ w.hint = {j.opts.hint}
  BY <1>w DEF ClaimOK
<1>m. PICK u : u = l \ {"update"}
  OBVIOUS
<1>4. Fits(m, Held(w, NoClaim, u))
  BY <1>2, <1>3, <1>m DEF Fits, Held
<1>e. PICK E : E = (D \cap {Absent}) \cup Truncated \cup {m}
  OBVIOUS
<1>5. m \in Files /\ E \subseteq Files /\ Absent \in E /\ m \in E /\ E \subseteq {Absent, NewConfig, Torn, m}
  BY <1>2, <1>e, NewConfigType DEF Files, Young, Truncated
<1>6. m # Absent
  BY <1>2, RootConfigValues
<1>7. \A d \in E : Fits(d, NoClaim) /\ (SameKey(d, m) \/ (Absent \in E /\ Reading(d) = Absent))
  BY <1>5, NoClaimIs, ReadingEmpty DEF Fits, SameKey
<1>8. "root" \notin u => KeyFits(m, dk)
  BY <1>m DEF Young, KeyFits
<1>9. Kept(m, E, w, NoClaim, u, dk)
  BY <1>3, <1>4, <1>5, <1>6, <1>7, <1>8, NoClaimIs DEF Kept
<1> QED  BY <1>w, <1>e, <1>m, <1>9

-----------------------------------------------------------------------------
(* Steps of one process *)

\* Nothing changes for the processes other than p.
Only(p) ==
    /\ DOMAIN pc' = Procs /\ DOMAIN job' = Procs /\ DOMAIN mem' = Procs /\ DOMAIN staged' = Procs
    /\ \A q \in Procs \ {p} : /\ pc'[q] = pc[q] /\ job'[q] = job[q]
                              /\ mem'[q] = mem[q] /\ staged'[q] = staged[q]

\* A process that is neither idle nor alone is no creator; a creator is alone.
LEMMA NoOtherCreates ==
    ASSUME IInv, NEW p \in Procs, pc[p] # "idle", NEW q \in Procs \ {p}
    PROVE  pc[q] \notin CreatePlaces
BY DEF IInv, AloneInv

LEMMA Moved ==
    ASSUME IInv, NEW p \in Procs, Only(p),
           pc[p] # "idle" \/ \A q \in Procs : pc[q] \notin CreatePlaces,
           Local(pc'[p], job'[p], mem'[p], staged'[p], file'),
           \A q \in Procs \ {p} : file' = file \/ pc[q] \in {"idle", "lock"},
           pc'[p] \in CreatePlaces => /\ \A q \in Procs \ {p} : pc[q] = "idle"
                                      /\ Young(file', durable', claim', secured', lost', dataKeys'),
           Kept(file', durable', claim', secured', lost', dataKeys'),
           lock' \in Procs \cup {NoProc}, serial' \in Nat, LockInv'
    PROVE  IInv'
<1>1. \A q \in Procs \ {p} : pc'[q] = pc[q] /\ pc'[q] \notin CreatePlaces
  BY NoOtherCreates DEF Only
<1>2. TypeInv'
  BY DEF TypeInv, Only
<1>3. ASSUME NEW q \in Procs PROVE Local(pc'[q], job'[q], mem'[q], staged'[q], file')
  <2>1. CASE q = p
    BY <2>1
  <2>2. CASE q # p
    <3>1. Local(pc[q], job[q], mem[q], staged[q], file)
      BY DEF IInv, LocalInv
    <3>2. pc'[q] = pc[q] /\ job'[q] = job[q] /\ mem'[q] = mem[q] /\ staged'[q] = staged[q]
      BY <2>2 DEF Only
    <3>3. Local(pc[q], job[q], mem[q], staged[q], file')
      BY <2>2, <3>1, LocalElsewhere
    <3> QED  BY <3>2, <3>3
  <2> QED  BY <2>1, <2>2
<1>4. AloneInv'
  <2> SUFFICES ASSUME NEW a \in Procs, NEW b \in Procs, pc'[a] \in CreatePlaces, b # a
               PROVE  pc'[b] = "idle"
    BY DEF AloneInv
  <2>1. a = p
    BY <1>1
  <2> QED  BY <1>1, <2>1
<1>5. CreateInv'
  BY <1>1 DEF CreateInv
<1>6. Overlap = FALSE
  BY DEF IInv
<1> QED  BY <1>2, <1>3, <1>4, <1>5, <1>6 DEF IInv, LocalInv

\* The lock is where it was.
LEMMA LockStays ==
    ASSUME IInv, NEW p \in Procs, Only(p), lock' = lock, pc'[p] \in LockedPlaces <=> pc[p] \in LockedPlaces
    PROVE  LockInv' /\ lock' \in Procs \cup {NoProc}
BY DEF IInv, LockInv, TypeInv, Only

\* An operation returns.
LEMMA Returned ==
    ASSUME IInv, NEW p \in Procs, pc[p] # "idle", Return(p),
           \A q \in Procs \ {p} : file' = file \/ pc[q] \in {"idle", "lock"},
           Kept(file', durable', claim', secured', lost', dataKeys'), serial' = serial
    PROVE  IInv'
<1>1. TypeInv /\ LockInv
  BY DEF IInv
<1>2. Only(p)
  BY <1>1 DEF Only, Return, TypeInv
<1>3. pc'[p] = "idle" /\ job'[p] = Idle /\ mem'[p] = NewConfig /\ staged'[p] = Absent
  BY <1>1 DEF Return, TypeInv
<1>4. Local(pc'[p], job'[p], mem'[p], staged'[p], file')
  BY <1>3, LocalIdle
<1>5. pc'[p] \notin CreatePlaces /\ pc'[p] \notin LockedPlaces
  BY <1>3 DEF CreatePlaces, LockedPlaces
<1>6. lock' \in Procs \cup {NoProc}
  BY <1>1 DEF Return, TypeInv
<1>7. ASSUME NEW q \in Procs PROVE lock' = q <=> pc'[q] \in LockedPlaces
  <2>1. lock' = IF lock = p THEN NoProc ELSE lock
    BY DEF Return
  <2>2. CASE q = p
    BY <1>5, <2>1, <2>2, RootConfigValues
  <2>3. CASE q # p
    <3>1. pc'[q] = pc[q] /\ (lock = q <=> pc[q] \in LockedPlaces)
      BY <1>1, <1>2, <2>3 DEF Only, LockInv
    <3> QED  BY <2>1, <2>3, <3>1, RootConfigValues
  <2> QED  BY <2>2, <2>3
<1>8. serial' \in Nat
  BY <1>1 DEF TypeInv
<1> QED  BY <1>2, <1>4, <1>5, <1>6, <1>7, <1>8, Moved DEF LockInv

\* An operation returns and leaves the file alone.
LEMMA GivesUp ==
    ASSUME IInv, NEW p \in Procs, pc[p] # "idle", Return(p),
           UNCHANGED <<file, durable, promises, dataKeys, serial>>
    PROVE  IInv'
<1>1. Kept(file', durable', claim', secured', lost', dataKeys')
  BY DEF IInv, promises
<1> QED  BY <1>1, Returned

\* A process that runs and leaves the file alone.
LEMMA Goes ==
    ASSUME IInv, NEW p \in Procs, Only(p), pc[p] # "idle",
           Local(pc'[p], job'[p], mem'[p], staged'[p], file),
           pc'[p] \in CreatePlaces <=> pc[p] \in CreatePlaces,
           pc'[p] \in LockedPlaces <=> pc[p] \in LockedPlaces,
           UNCHANGED <<file, durable, lock, serial, promises, dataKeys>>
    PROVE  IInv'
<1>1. LockInv' /\ lock' \in Procs \cup {NoProc}
  BY LockStays
<1>2. Kept(file', durable', claim', secured', lost', dataKeys')
  BY DEF IInv, promises
<1>3. pc'[p] \in CreatePlaces => /\ \A q \in Procs \ {p} : pc[q] = "idle"
                                 /\ Young(file', durable', claim', secured', lost', dataKeys')
  BY DEF IInv, AloneInv, CreateInv, promises
<1>4. serial' \in Nat
  BY DEF IInv, TypeInv
<1> QED  BY <1>1, <1>2, <1>3, <1>4, Moved

LEMMA CreatorsAre ==
    ASSUME IInv
    PROVE  Creators = {p \in Procs : pc[p] \in CreatePlaces}
<1>1. ASSUME NEW p \in Procs PROVE job[p].kind = "create" <=> pc[p] \in CreatePlaces
  <2>1. Local(pc[p], job[p], mem[p], staged[p], file)
    BY DEF IInv, LocalInv
  <2>2. CASE pc[p] = "idle"
    BY <2>1, <2>2 DEF Local, Idle, CreatePlaces
  <2>3. CASE pc[p] \in CreatePlaces
    BY <2>1, <2>3 DEF Local, CreateJobs
  <2>4. CASE pc[p] \in {"lock"} \cup LockedPlaces
    <3>1. job[p] \in PasswdJobs \cup HintJobs
      BY <2>1, <2>4 DEF Local
    <3>2. job[p].kind # "create"
      BY <3>1, ChangeJobsAre
    <3> QED  BY <2>4, <3>2 DEF CreatePlaces, LockedPlaces
  <2> QED  BY <2>1, <2>2, <2>3, <2>4 DEF Local, Places
<1> QED  BY <1>1 DEF Creators

\* An operation starts.
LEMMA Started ==
    ASSUME IInv, NEW p \in Procs, NEW j, Start(p, j), NEW l, Goto(p, l),
           \/ l = "load" /\ j \in CreateJobs /\ j.at = 1 /\ file = Absent
           \/ l = "lock" /\ j \in PasswdJobs \cup HintJobs
    PROVE  IInv'
<1>1. TypeInv /\ Overlap = FALSE /\ Local(pc[p], job[p], mem[p], staged[p], file) /\ pc[p] = "idle"
  BY DEF IInv, LocalInv, Start
<1>2. Only(p) /\ pc'[p] = l /\ job'[p] = j /\ mem'[p] = mem[p] /\ staged'[p] = staged[p]
  BY <1>1 DEF Only, Start, Goto, TypeInv
<1>3. UNCHANGED <<file, durable, lock, promises, dataKeys>> /\ serial' \in Nat
  BY <1>1 DEF Start, TypeInv
<1>4. \A q \in Procs : pc[q] \notin CreatePlaces
  BY <1>1, CreatorsAre DEF Start
<1>5. Local(l, j, mem[p], staged[p], file)
  BY <1>1 DEF Local, Places, CreatePlaces, LockedPlaces
<1>6. LockInv' /\ lock' \in Procs \cup {NoProc}
  BY <1>1, <1>2, <1>3, LockStays DEF LockedPlaces
<1>7. Kept(file', durable', claim', secured', lost', dataKeys')
  BY <1>3 DEF IInv, promises
<1>8. l \in CreatePlaces => /\ \A q \in Procs \ {p} : pc[q] = "idle"
                            /\ Young(file', durable', claim', secured', lost', dataKeys')
  <2> SUFFICES ASSUME l = "load" /\ j \in CreateJobs /\ file = Absent
               PROVE  /\ \A q \in Procs \ {p} : pc[q] = "idle"
                      /\ Young(file', durable', claim', secured', lost', dataKeys')
    BY DEF CreatePlaces
  <2>1. j.kind = "create"
    BY DEF CreateJobs
  <2>2. \A q \in Procs \ {p} : pc[q] = "idle"
    BY <1>1, <2>1 DEF Start
  <2>3. Young(file, durable, claim, secured, lost, dataKeys)
    BY YoungStart DEF IInv
  <2> QED  BY <1>3, <2>2, <2>3 DEF promises
<1> QED  BY <1>2, <1>3, <1>4, <1>5, <1>6, <1>7, <1>8, Moved

LEMMA CreateCheckKeeps ==
    ASSUME IInv, NEW p \in Procs, CreateCheck(p)
    PROVE  IInv'
<1>1. PICK pw \in Passwords, o \in CreateOptions :
          Start(p, [kind |-> "create", pw |-> pw, opts |-> CreateFactories(Applied(o)),
                    n |-> serial + 1, at |-> 1])
  BY DEF CreateCheck
<1>j. PICK j : j = [kind |-> "create", pw |-> pw, opts |-> CreateFactories(Applied(o)),
                    n |-> serial + 1, at |-> 1]
  OBVIOUS
<1>o. PICK opts : opts = CreateFactories(Applied(o))
  OBVIOUS
<1>2. opts \in [alg : Derivers, ms : Nat, need : 1..64, changeable : BOOLEAN, hint : Hints]
  <2>1. o \in [alg : {""} \cup Derivers, ms : Nat, need : 1..64, changeable : BOOLEAN, hint : Hints]
    BY RootConfigAssumption
  <2>2. PICK a : a = Applied(o)
    OBVIOUS
  <2>3. a \in [alg : {""} \cup Derivers, ms : Nat, need : 1..64, changeable : BOOLEAN, hint : Hints]
    BY <2>1, <2>2 DEF Applied
  <2>4. opts = [a EXCEPT !.alg = IF @ = "" THEN "Argon2id" ELSE @]
    BY <1>o, <2>2 DEF CreateFactories
  <2> QED  BY <2>3, <2>4 DEF Derivers
<1>3. serial + 1 \in Nat
  BY DEF IInv, TypeInv
<1>4. j \in CreateJobs /\ j.at = 1
  BY <1>j, <1>o, <1>2, <1>3 DEF CreateJobs
<1>5. Start(p, j) /\ Goto(p, "load") /\ file = Absent
  BY <1>1, <1>j DEF CreateCheck
<1> QED  BY <1>4, <1>5, Started

LEMMA ChangeStartKeeps ==
    ASSUME IInv, NEW p \in Procs, ChangeStart(p)
    PROVE  IInv'
<1>1. PICK pw \in Passwords, new \in Passwords :
          Start(p, [kind |-> "passwd", pw |-> pw, new |-> new, n |-> serial + 1, content |-> NoKey])
  BY DEF ChangeStart
<1>j. PICK j : j = [kind |-> "passwd", pw |-> pw, new |-> new, n |-> serial + 1, content |-> NoKey]
  OBVIOUS
<1>2. serial + 1 \in Nat
  BY DEF IInv, TypeInv
<1>3. j \in PasswdJobs
  BY <1>j, <1>2 DEF PasswdJobs
<1>4. Start(p, j) /\ Goto(p, "lock")
  BY <1>1, <1>j DEF ChangeStart
<1> QED  BY <1>3, <1>4, Started

LEMMA HintStartKeeps ==
    ASSUME IInv, NEW p \in Procs, HintStart(p)
    PROVE  IInv'
<1>1. PICK pw \in Passwords, h \in Hints :
          Start(p, [kind |-> "hint", pw |-> pw, hint |-> h, n |-> serial + 1, content |-> NoKey])
  BY DEF HintStart
<1>j. PICK j : j = [kind |-> "hint", pw |-> pw, hint |-> h, n |-> serial + 1, content |-> NoKey]
  OBVIOUS
<1>2. serial + 1 \in Nat
  BY DEF IInv, TypeInv
<1>3. j \in HintJobs
  BY <1>j, <1>2 DEF HintJobs
<1>4. Start(p, j) /\ Goto(p, "lock")
  BY <1>1, <1>j DEF HintStart
<1> QED  BY <1>3, <1>4, Started

LEMMA CreateLoadKeeps ==
    ASSUME IInv, NEW p \in Procs, CreateLoad(p)
    PROVE  IInv'
<1>0. TypeInv /\ Local(pc[p], job[p], mem[p], staged[p], file) /\ pc[p] = "load"
  BY DEF IInv, LocalInv, CreateLoad
<1>1. CASE Return(p)
  BY <1>0, <1>1, GivesUp DEF CreateLoad
<1>2. CASE mem' = [mem EXCEPT ![p] = Load(file)] /\ Goto(p, "set") /\ UNCHANGED <<job, staged, lock>>
  <2>1. Only(p) /\ pc'[p] = "set" /\ job'[p] = job[p] /\ mem'[p] = Load(file) /\ staged'[p] = staged[p]
    BY <1>0, <1>2 DEF Only, TypeInv, Goto
  <2>2. file = Absent /\ job[p] \in CreateJobs /\ job[p].at = 1
    BY <1>0 DEF Local, CreatePlaces
  <2>3. Load(file) = NewConfig
    BY <2>2 DEF Load
  <2>4. NewConfig = Partial(job[p], Stored(job[p], job[p].at - 1))
    BY <2>2, PartialNone
  <2>5. Local("set", job[p], NewConfig, staged[p], file)
    BY <1>0, <2>2, <2>4, NewConfigType DEF Local, Places, CreatePlaces, LockedPlaces
  <2> QED  BY <1>0, <1>2, <2>1, <2>3, <2>5, Goes DEF CreateLoad, CreatePlaces, LockedPlaces
<1> QED  BY <1>1, <1>2 DEF CreateLoad

\* A step of a creation that truncates or writes the file.
LEMMA Writes ==
    ASSUME IInv, NEW p \in Procs, Only(p), pc[p] \in CreatePlaces, pc'[p] \in CreatePlaces,
           Local(pc'[p], job'[p], mem'[p], staged'[p], file'),
           Young(file', durable', claim', secured', lost', dataKeys'),
           Kept(file', durable', claim', secured', lost', dataKeys'),
           UNCHANGED <<lock, serial>>
    PROVE  IInv'
<1>1. pc[p] # "idle" /\ pc[p] \notin LockedPlaces /\ pc'[p] \notin LockedPlaces
  BY DEF CreatePlaces, LockedPlaces
<1>2. \A q \in Procs \ {p} : pc[q] = "idle"
  BY DEF IInv, AloneInv
<1>3. LockInv' /\ lock' \in Procs \cup {NoProc}
  BY <1>1, LockStays
<1>4. serial' \in Nat
  BY DEF IInv, TypeInv
<1> QED  BY <1>1, <1>2, <1>3, <1>4, Moved

LEMMA CreateSetKeeps ==
    ASSUME IInv, NEW p \in Procs, CreateSet(p)
    PROVE  IInv'
<1>0. TypeInv /\ Local(pc[p], job[p], mem[p], staged[p], file) /\ pc[p] = "set"
  BY DEF IInv, LocalInv, CreateSet
<1>j. PICK j \in CreateJobs : j = job[p]
  BY <1>0 DEF Local, CreatePlaces
<1>k. PICK k : k = CreateOrder(j)[j.at]
  OBVIOUS
<1>m. PICK m : m = Partial(j, Stored(j, j.at))
  OBVIOUS
<1>1. CreateJob(j) /\ j.at \in Nat /\ j.at # 0
  BY CreateJobsAre DEF CreateJobs
<1>2. mem[p] = Partial(j, Stored(j, j.at - 1))
  BY <1>0, <1>j DEF Local
<1>3. [mem[p] EXCEPT ![k] = CreatedRecord(j)[k]] = m
  BY <1>1, <1>2, <1>k, <1>m, PartialSet
<1>4. mem' = [mem EXCEPT ![p] = [mem[p] EXCEPT ![k] = CreatedRecord(j)[k]]]
  BY <1>j, <1>k DEF CreateSet
<1>5. Only(p) /\ pc'[p] = "save" /\ job'[p] = j /\ mem'[p] = m /\ staged'[p] = staged[p]
  BY <1>0, <1>j, <1>3, <1>4 DEF Only, TypeInv, Goto, CreateSet
<1>6. m \in Configs
  BY <1>1, <1>m, PartialType
<1>7. Local("save", j, m, staged[p], file')
  BY <1>0, <1>m, <1>6 DEF Local, Places, CreatePlaces, LockedPlaces
<1>8. pc[p] \in CreatePlaces /\ pc'[p] \in CreatePlaces
  BY <1>0, <1>5 DEF CreatePlaces
<1>9. Young(file, durable, claim, secured, lost, dataKeys)
  BY <1>8 DEF IInv, CreateInv
<1>10. /\ file' \in Truncated /\ durable' = (durable \cap {Absent}) \cup Truncated
       /\ UNCHANGED <<promises, dataKeys, lock, serial>>
  BY DEF CreateSet
<1>11. file' \in Configs \cup {Torn}
  BY <1>10, NewConfigType DEF Truncated
<1>12. /\ Young(file', durable', claim', secured', lost', dataKeys')
       /\ Kept(file', durable', claim', secured', lost', dataKeys')
  BY <1>9, <1>10, <1>11, YoungWrite DEF promises
<1> QED  BY <1>5, <1>7, <1>8, <1>10, <1>12, Writes

LEMMA CreateSaveKeeps ==
    ASSUME IInv, NEW p \in Procs, CreateSave(p)
    PROVE  IInv'
<1>0. TypeInv /\ Local(pc[p], job[p], mem[p], staged[p], file) /\ pc[p] = "save"
  BY DEF IInv, LocalInv, CreateSave
<1>j. PICK j \in CreateJobs : j = job[p]
  BY <1>0 DEF Local, CreatePlaces
<1>1. mem[p] = Partial(j, Stored(j, j.at)) /\ mem[p] \in Configs
  BY <1>0, <1>j DEF Local
<1>2. pc[p] \in CreatePlaces /\ pc[p] # "idle"
  BY <1>0 DEF CreatePlaces
<1>3. Young(file, durable, claim, secured, lost, dataKeys) /\ \A q \in Procs \ {p} : pc[q] = "idle"
  BY <1>2 DEF IInv, CreateInv, AloneInv
<1>4. UNCHANGED <<serial, dataKeys>>
  BY DEF CreateSave
<1> DEFINE next == /\ job' = [job EXCEPT ![p].at = j.at + 1]
                   /\ Goto(p, "set")
                   /\ UNCHANGED <<staged, lock, mem, promises>>
           writes == /\ file' = mem[p]
                     /\ durable' = (durable \cap {Absent}) \cup Truncated \cup {mem[p]}
<1>5. ASSUME next PROVE /\ Only(p) /\ pc'[p] \in CreatePlaces /\ UNCHANGED <<lock, promises>>
                        /\ Local(pc'[p], job'[p], mem'[p], staged'[p], file')
  <2>i. PICK i : i = [j EXCEPT !.at = j.at + 1]
    OBVIOUS
  <2>1. i \in CreateJobs /\ i.at - 1 = j.at
    BY <2>i DEF CreateJobs
  <2>2. Only(p) /\ pc'[p] = "set" /\ job'[p] = i /\ mem'[p] = mem[p] /\ staged'[p] = staged[p]
    BY <1>0, <1>j, <1>5, <2>i DEF Only, TypeInv, Goto
  <2>3. Partial(i, Stored(i, j.at)) = Partial(j, Stored(j, j.at))
    <3>1. i.opts = j.opts /\ i.pw = j.pw /\ i.n = j.n
      BY <2>i DEF CreateJobs
    <3>2. CreateOrder(i) = CreateOrder(j) /\ CreatedRecord(i) = CreatedRecord(j)
      BY <3>1 DEF CreateOrder, CreatedRecord
    <3> QED  BY <3>2 DEF Partial, Stored
  <2>4. Local("set", i, mem[p], staged[p], file')
    BY <1>0, <1>1, <2>1, <2>3 DEF Local, Places, CreatePlaces, LockedPlaces
  <2> QED  BY <1>5, <2>2, <2>4 DEF CreatePlaces
<1>6. CASE writes /\ next
  <2>1. claim' = claim /\ secured' = secured /\ lost' = lost
    BY <1>6 DEF promises
  <2>2. /\ Young(file', durable', claim', secured', lost', dataKeys')
        /\ Kept(file', durable', claim', secured', lost', dataKeys')
    <3>e. PICK E : E = (durable \cap {Absent}) \cup Truncated
      OBVIOUS
    <3>g. PICK g \in Configs : g = mem[p]
      BY <1>1
    <3>1. /\ Young(g, E \cup {g}, claim, secured, lost, dataKeys)
          /\ Kept(g, E \cup {g}, claim, secured, lost, dataKeys)
      BY <1>3, <3>e, YoungWrite
    <3>2. file' = g /\ durable' = E \cup {g}
      BY <1>6, <3>e, <3>g
    <3> QED  BY <1>4, <2>1, <3>1, <3>2
  <2> HIDE DEF next
  <2> QED  BY <1>2, <1>4, <1>5, <1>6, <2>2, Writes
<1>7. CASE /\ writes /\ Return(p) /\ j.at = Len(CreateOrder(j))
           /\ claim' = [pw |-> {j.pw}, hint |-> {j.opts.hint}]
           /\ secured' = NoClaim /\ lost' = lost \ {"update"}
  <2>1. Kept(file', durable', claim', secured', lost', dataKeys')
    BY <1>1, <1>3, <1>4, <1>7, YoungDone
  <2> QED  BY <1>2, <1>3, <1>4, <1>7, <2>1, Returned
<1>8. CASE next /\ UNCHANGED <<file, durable>>
  <2>1. /\ Young(file', durable', claim', secured', lost', dataKeys')
        /\ Kept(file', durable', claim', secured', lost', dataKeys')
    BY <1>3, <1>4, <1>8 DEF IInv, promises
  <2> HIDE DEF next
  <2> QED  BY <1>2, <1>4, <1>5, <1>8, <2>1, Writes
<1>9. CASE Return(p) /\ UNCHANGED <<file, durable, promises>>
  BY <1>2, <1>4, <1>9, GivesUp
<1> QED  BY <1>j, <1>6, <1>7, <1>8, <1>9 DEF CreateSave

LEMMA LockKeeps ==
    ASSUME IInv, NEW p \in Procs, Lock(p)
    PROVE  IInv'
<1>0. TypeInv /\ LockInv /\ Local(pc[p], job[p], mem[p], staged[p], file) /\ pc[p] = "lock"
  BY DEF IInv, LocalInv, Lock
<1>1. Only(p) /\ pc'[p] = "verify" /\ job'[p] = job[p] /\ mem'[p] = mem[p] /\ staged'[p] = staged[p]
  BY <1>0 DEF Only, TypeInv, Goto, Lock
<1>2. Local("verify", job[p], mem[p], staged[p], file)
  BY <1>0 DEF Local, Places, CreatePlaces, LockedPlaces
<1>3. lock = NoProc /\ lock' = p /\ UNCHANGED <<file, durable, promises, dataKeys, serial>>
  BY DEF Lock
<1>4. ASSUME NEW q \in Procs PROVE lock' = q <=> pc'[q] \in LockedPlaces
  <2>1. CASE q = p
    BY <1>1, <1>3, <2>1 DEF LockedPlaces
  <2>2. CASE q # p
    <3>1. pc'[q] = pc[q] /\ pc[q] \notin LockedPlaces
      BY <1>0, <1>1, <1>3, <2>2, RootConfigValues DEF Only, LockInv
    <3> QED  BY <1>3, <2>2, <3>1
  <2> QED  BY <2>1, <2>2
<1>5. Kept(file', durable', claim', secured', lost', dataKeys') /\ serial' \in Nat
  BY <1>3 DEF IInv, TypeInv, promises
<1>6. pc[p] # "idle" /\ pc'[p] \notin CreatePlaces
  BY <1>0, <1>1 DEF CreatePlaces
<1>7. Local(pc'[p], job'[p], mem'[p], staged'[p], file')
  BY <1>1, <1>2, <1>3
<1>8. LockInv'
  BY <1>4 DEF LockInv
<1> QED  BY <1>1, <1>3, <1>5, <1>6, <1>7, <1>8, Moved

LEMMA VerifyKeeps ==
    ASSUME IInv, NEW p \in Procs, Verify(p)
    PROVE  IInv'
<1>0. TypeInv /\ Local(pc[p], job[p], mem[p], staged[p], file) /\ pc[p] = "verify" /\ file \in Files
  BY DEF IInv, LocalInv, Verify, Kept
<1>1. UNCHANGED <<file, durable, serial, promises, dataKeys>>
  BY DEF Verify
<1>2. CASE Return(p)
  BY <1>0, <1>1, <1>2, GivesUp
<1>3. CASE /\ Authorised(file, job[p]) # NoKey
           /\ job' = [job EXCEPT ![p].content = Authorised(file, job[p])]
           /\ Goto(p, "stage")
           /\ UNCHANGED <<staged, lock, mem>>
  <2>j. PICK j \in PasswdJobs \cup HintJobs : j = job[p]
    BY <1>0 DEF Local, LockedPlaces
  <2>k. PICK k \in ContentKeys : k = Authorised(file, j) /\ k # NoKey
    BY <1>0, <1>3, <2>j, AuthorisedType
  <2>i. PICK i : i = [j EXCEPT !.content = k]
    OBVIOUS
  <2>1. i \in PasswdJobs \cup HintJobs /\ i.content = k /\ i.pw = j.pw /\ i.kind = j.kind
    BY <2>i DEF PasswdJobs, HintJobs
  <2>2. Authorised(file, i) = k
    BY <2>1, <2>k, AuthorisedSame
  <2>3. Only(p) /\ pc'[p] = "stage" /\ job'[p] = i /\ mem'[p] = mem[p] /\ staged'[p] = staged[p]
    BY <1>0, <1>3, <2>j, <2>k, <2>i DEF Only, TypeInv, Goto
  <2>4. Local("stage", i, mem[p], staged[p], file)
    BY <1>0, <2>1, <2>2, <2>k DEF Local, Places, CreatePlaces, LockedPlaces
  <2> QED  BY <1>0, <1>1, <1>3, <2>3, <2>4, Goes DEF CreatePlaces, LockedPlaces
<1> QED  BY <1>2, <1>3 DEF Verify

LEMMA StageKeeps ==
    ASSUME IInv, NEW p \in Procs, Stage(p)
    PROVE  IInv'
<1>0. TypeInv /\ Local(pc[p], job[p], mem[p], staged[p], file) /\ pc[p] = "stage" /\ file \in Files
  BY DEF IInv, LocalInv, Stage, Kept
<1>1. UNCHANGED <<file, durable, serial, promises, dataKeys>>
  BY DEF Stage
<1>2. CASE Return(p)
  BY <1>0, <1>1, <1>2, GivesUp
<1>3. CASE /\ file \notin {Absent, Torn}
           /\ staged' = [staged EXCEPT ![p] = file]
           /\ mem' = [mem EXCEPT ![p] = file]
           /\ Goto(p, "update")
           /\ UNCHANGED <<job, lock>>
  <2>1. file \in Configs
    BY <1>0, <1>3 DEF Files
  <2>2. Only(p) /\ pc'[p] = "update" /\ job'[p] = job[p] /\ mem'[p] = file /\ staged'[p] = file
    BY <1>0, <1>3 DEF Only, TypeInv, Goto
  <2>3. Local("update", job[p], file, file, file)
    BY <1>0, <2>1 DEF Local, Places, CreatePlaces, LockedPlaces
  <2> QED  BY <1>0, <1>1, <1>3, <2>2, <2>3, Goes DEF CreatePlaces, LockedPlaces
<1> QED  BY <1>2, <1>3 DEF Stage

LEMMA UpdateKeeps ==
    ASSUME IInv, NEW p \in Procs, Update(p)
    PROVE  IInv'
<1>0. TypeInv /\ Local(pc[p], job[p], mem[p], staged[p], file) /\ pc[p] = "update" /\ file \in Files
  BY DEF IInv, LocalInv, Update, Kept
<1>1. UNCHANGED <<file, durable, serial, promises, dataKeys>>
  BY DEF Update
<1>2. CASE Return(p)
  BY <1>0, <1>1, <1>2, GivesUp
<1>3. CASE /\ job[p].kind = "hint" \/ NewDerivation(mem[p], job[p]) # NoDerivation
           /\ mem' = [mem EXCEPT ![p] = Changed(mem[p], job[p])]
           /\ staged' = [staged EXCEPT ![p] = Changed(mem[p], job[p])]
           /\ Goto(p, "commit")
           /\ UNCHANGED <<job, lock>>
  <2>j. PICK j \in PasswdJobs \cup HintJobs : j = job[p] /\ j.content = Authorised(file, j) /\ j.content # NoKey
    BY <1>0 DEF Local, LockedPlaces
  <2>1. mem[p] = file
    BY <1>0 DEF Local
  <2>s. PICK s : s = Changed(file, j)
    OBVIOUS
  <2>2. s \in Configs
    BY <1>0, <1>3, <2>j, <2>1, <2>s, ChangedEffect
  <2>3. Only(p) /\ pc'[p] = "commit" /\ job'[p] = j /\ mem'[p] = s /\ staged'[p] = s
    BY <1>0, <1>3, <2>j, <2>1, <2>s DEF Only, TypeInv, Goto
  <2>4. Local("commit", j, s, s, file)
    BY <1>0, <1>3, <2>j, <2>1, <2>s, <2>2 DEF Local, Places, CreatePlaces, LockedPlaces
  <2> QED  BY <1>0, <1>1, <1>3, <2>3, <2>4, Goes DEF CreatePlaces, LockedPlaces
<1> QED  BY <1>2, <1>3 DEF Update, Changed

\* While a process holds the lock, nobody else is past it.
LEMMA LockExcludes ==
    ASSUME IInv, NEW p \in Procs, pc[p] \in LockedPlaces, NEW q \in Procs \ {p}
    PROVE  pc[q] \in {"idle", "lock"}
<1>1. pc[p] # "idle" /\ lock = p
  BY DEF IInv, LockInv, LockedPlaces
<1>2. pc[q] \notin CreatePlaces
  BY <1>1, NoOtherCreates
<1>3. pc[q] \notin LockedPlaces
  BY <1>1 DEF IInv, LockInv
<1>4. pc[q] \in Places
  BY DEF IInv, LocalInv, Local
<1> QED  BY <1>2, <1>3, <1>4 DEF Places

LEMMA CommitKeeps ==
    ASSUME IInv, NEW p \in Procs, Commit(p)
    PROVE  IInv'
<1>0. TypeInv /\ Local(pc[p], job[p], mem[p], staged[p], file) /\ pc[p] = "commit" /\ file \in Files
  BY DEF IInv, LocalInv, Commit, Kept
<1>1. UNCHANGED <<serial, dataKeys>>
  BY DEF Commit
<1>2. CASE Return(p) /\ UNCHANGED <<file, durable, promises>>
  BY <1>0, <1>1, <1>2, GivesUp
<1>3. CASE /\ file' = staged[p]
           /\ durable' = durable \cup {staged[p]}
           /\ staged' = [staged EXCEPT ![p] = Absent]
           /\ claim' = Perhaps(claim, job[p]) /\ secured' = Perhaps(secured, job[p])
           /\ Goto(p, "sync")
           /\ UNCHANGED <<lock, job, mem, lost>>
  <2>j. PICK j \in PasswdJobs \cup HintJobs :
            /\ j = job[p] /\ j.content = Authorised(file, j) /\ j.content # NoKey
            /\ j.kind = "hint" \/ NewDerivation(file, j) # NoDerivation
    BY <1>0 DEF Local, LockedPlaces
  <2>1. staged[p] = Changed(file, j)
    BY <1>0, <2>j DEF Local
  <2>2. Shows(staged[p], j)
    BY <1>0, <2>j, <2>1, ChangedEffect
  <2>3. Only(p) /\ pc'[p] = "sync" /\ job'[p] = j /\ mem'[p] = mem[p] /\ staged'[p] = Absent
    BY <1>0, <1>3, <2>j DEF Only, TypeInv, Goto
  <2>4. Local("sync", j, mem[p], Absent, file')
    BY <1>0, <1>3, <2>2 DEF Local, Places, CreatePlaces, LockedPlaces
  <2>5. claim' = Perhaps(claim, j) /\ secured' = Perhaps(secured, j) /\ lost' = lost
    BY <1>3, <2>j
  <2>6. Kept(file', durable', claim', secured', lost', dataKeys')
    <3>1. Kept(file, durable, claim, secured, lost, dataKeys)
      BY DEF IInv
    <3>2. Kept(staged[p], durable \cup {staged[p]}, Perhaps(claim, j), Perhaps(secured, j), lost, dataKeys)
      BY <2>j, <2>1, <3>1, KeptCommit
    <3> QED  BY <1>1, <1>3, <2>5, <3>2
  <2>7. LockInv' /\ lock' \in Procs \cup {NoProc}
    BY <1>0, <1>3, <2>3, LockStays DEF LockedPlaces
  <2>8. \A q \in Procs \ {p} : pc[q] \in {"idle", "lock"}
    BY <1>0, LockExcludes DEF LockedPlaces
  <2>9. pc[p] # "idle" /\ pc'[p] \notin CreatePlaces /\ serial' \in Nat
    BY <1>0, <1>1, <2>3 DEF CreatePlaces, TypeInv
  <2>10. Local(pc'[p], job'[p], mem'[p], staged'[p], file')
    BY <2>3, <2>4
  <2> QED  BY <2>3, <2>6, <2>7, <2>8, <2>9, <2>10, Moved
<1> QED  BY <1>2, <1>3 DEF Commit

LEMMA FinishKeeps ==
    ASSUME IInv, NEW p \in Procs, Finish(p)
    PROVE  IInv'
<1>0. Local(pc[p], job[p], mem[p], staged[p], file) /\ pc[p] = "sync"
  BY DEF IInv, LocalInv, Finish
<1>j. PICK j \in PasswdJobs \cup HintJobs : j = job[p] /\ Shows(file, j)
  BY <1>0 DEF Local, LockedPlaces
<1>1. /\ claim' = Certain(Held(claim, secured, lost), j) /\ lost' = lost \ {"update"}
      /\ file' = file /\ dataKeys' = dataKeys
  BY <1>j DEF Finish, Promised, Held
<1>2. /\ Kept(file, {file}, claim', claim', lost', dataKeys)
      /\ Kept(file, durable, claim', secured, lost', dataKeys)
  <2>1. Kept(file, durable, claim, secured, lost, dataKeys)
    BY DEF IInv
  <2> QED  BY <1>j, <1>1, <2>1, KeptFinish
<1>3. Kept(file', durable', claim', secured', lost', dataKeys')
  BY <1>1, <1>2 DEF Finish
<1> QED  BY <1>0, <1>3, Returned DEF Finish

LEMMA OpenKeeps ==
    ASSUME IInv, NEW pw \in Passwords, Open(pw)
    PROVE  IInv'
<1>1. UNCHANGED <<file, durable, staged, lock, pc, job, mem, serial, promises>>
  BY DEF Open
<1>2. Kept(file', durable', claim', secured', lost', dataKeys')
  BY <1>1, KeptOpen DEF IInv, Open, promises
<1>3. \A p \in Procs : pc[p] \notin CreatePlaces
  BY CreatorsAre DEF Open
<1>4. CreateInv'
  BY <1>1, <1>3 DEF CreateInv
<1>5. TypeInv' /\ LocalInv' /\ LockInv' /\ AloneInv'
  BY <1>1 DEF IInv, TypeInv, LocalInv, LockInv, AloneInv
<1> QED  BY <1>2, <1>4, <1>5 DEF IInv

LEMMA PowerFailureKeeps ==
    ASSUME IInv, PowerFailure
    PROVE  IInv'
<1>1. /\ pc' = [p \in Procs |-> "idle"] /\ job' = [p \in Procs |-> Idle]
      /\ mem' = [p \in Procs |-> NewConfig] /\ staged' = [p \in Procs |-> Absent]
      /\ lock' = NoProc /\ serial' = serial
  BY DEF PowerFailure
<1>2. Kept(file', durable', claim', secured', lost', dataKeys')
  <2>1. PICK g \in durable : g = file'
    BY DEF PowerFailure
  <2>m. PICK m : m = lost'
    OBVIOUS
  <2>2. m = lost \cup (IF g # file THEN {"update"} ELSE {})
                 \cup (IF Absent \in durable /\ dataKeys # {} /\ Reading(g) = Absent THEN {"root"} ELSE {})
    BY <2>1, <2>m, SMTT(90) DEF PowerFailure, Unsynced, Reading, OpenKey, Readable, OpenFactories, Load,
       RootKeyForOpen, WrappingKey
  <2>3. /\ lost \subseteq m /\ ("update" \in m <=> "update" \in lost \/ g # file)
        /\ Absent \in durable /\ dataKeys # {} /\ Reading(g) = Absent => "root" \in m
    BY <2>2
  <2>4. Kept(g, {g}, claim, IF g = file THEN Held(claim, secured, lost) ELSE secured, m, dataKeys)
    BY <2>3, KeptPower DEF IInv
  <2>5. /\ durable' = {g} /\ claim' = claim /\ dataKeys' = dataKeys
        /\ secured' = IF g = file THEN Held(claim, secured, lost) ELSE secured
    BY <2>1 DEF PowerFailure, Promised, Held
  <2> QED  BY <2>1, <2>m, <2>4, <2>5
<1>3. TypeInv'
  BY <1>1 DEF IInv, TypeInv
<1>4. LocalInv'
  BY <1>1, LocalIdle DEF LocalInv
<1>5. LockInv' /\ AloneInv' /\ CreateInv'
  BY <1>1, RootConfigValues DEF LockInv, AloneInv, CreateInv, LockedPlaces, CreatePlaces
<1> QED  BY <1>2, <1>3, <1>4, <1>5 DEF IInv

-----------------------------------------------------------------------------
(* Theorems *)

LEMMA InitIInv == Init /\ Overlap = FALSE => IInv
<1> SUFFICES ASSUME Init, Overlap = FALSE PROVE IInv
  OBVIOUS
<1>1. TypeInv /\ LockInv /\ AloneInv /\ CreateInv
  BY RootConfigValues DEF Init, TypeInv, LockInv, AloneInv, CreateInv, LockedPlaces, CreatePlaces
<1>2. LocalInv
  BY LocalIdle DEF Init, LocalInv
<1>3. Kept(file, durable, claim, secured, lost, dataKeys)
  BY NoClaimIs DEF Init, Kept, Fits, KeyFits, SameKey, Held, Files
<1> QED  BY <1>1, <1>2, <1>3 DEF IInv

LEMMA NextIInv == IInv /\ [Next]_vars => IInv'
<1> SUFFICES ASSUME IInv, [Next]_vars PROVE IInv'
  OBVIOUS
<1>1. CASE UNCHANGED vars
  BY <1>1 DEF vars, promises, IInv, TypeInv, LocalInv, LockInv, AloneInv, CreateInv
<1>2. ASSUME NEW p \in Procs, Kill(p) PROVE IInv'
  BY <1>2, GivesUp DEF Kill
<1>3. ASSUME NEW p \in Procs, LockTimeout(p) PROVE IInv'
  BY <1>3, GivesUp DEF LockTimeout
<1>4. ASSUME NEW p \in Procs, Step(p) PROVE IInv'
  BY <1>3, <1>4, CreateLoadKeeps, CreateSetKeeps, CreateSaveKeeps, LockKeeps, VerifyKeeps, StageKeeps,
     UpdateKeeps, CommitKeeps, FinishKeeps DEF Step
<1> QED  BY <1>1, <1>2, <1>4, CreateCheckKeeps, ChangeStartKeeps, HintStartKeeps, OpenKeeps,
            PowerFailureKeeps DEF Next

LEMMA InvariantHolds == Overlap = FALSE => (Spec => []IInv)
BY InitIInv, NextIInv, PTL DEF Spec

\* However password changes, hint updates, creations, kills and power failures
\* interleave, an acknowledged password or hint is the one in the file until a
\* later change replaces it, and the password yields a key that is long enough for
\* the ciphers (ChangeRootPasswordContext, UpdateRootPasswordHintContext).  A power
\* failure takes back no more than what was acknowledged since the last time the
\* directory was synced: a creation (save in file_config.go never syncs), and the
\* changes for which commitStagedRootConfig ignored that the sync failed.
THEOREM AckedChanges == Overlap = FALSE => (Spec => []AckedChangesHold)
<1>1. IInv => AckedChangesHold
  <2> SUFFICES ASSUME IInv PROVE InForce(file, Promised)
    BY DEF AckedChangesHold
  <2>1. Promised = Held(claim, secured, lost)
    BY DEF Promised, Held
  <2>2. ClaimOK(Promised) /\ Fits(file, Promised)
    BY <2>1 DEF IInv, Kept, Held
  <2> QED  BY <2>2 DEF Fits, ClaimOK, InForce
<1> QED  BY <1>1, InvariantHolds, PTL

\* Encrypted files never lose their key: everything was written under one content
\* key, and the configuration still yields it (rewrapping in ChangeRootPasswordContext),
\* except in a root a power failure took back whole, its creation never synced.
THEOREM KeyStable == Overlap = FALSE => (Spec => []ContentKeyStable)
<1>1. IInv => ContentKeyStable
  BY DEF IInv, Kept, KeyFits, ContentKeyStable
<1> QED  BY <1>1, InvariantHolds, PTL

-----------------------------------------------------------------------------
(* The refinement of RootSecret *)

Visible == IF Creators = {} THEN Reading(file) ELSE Absent
Lasting == IF Creators = {} THEN {Reading(f) : f \in durable} ELSE {Absent}

LEMMA SecretStutters ==
    ASSUME Visible' = Visible, Lasting' = Lasting
    PROVE  [Secret!Next]_(Secret!vars)
BY DEF Visible, Lasting, Secret!vars

LEMMA CreatorsNext == IInv' => (Creators = {p \in Procs : pc[p] \in CreatePlaces})'
<1>1. IInv => Creators = {p \in Procs : pc[p] \in CreatePlaces}
  BY CreatorsAre
<1> QED  BY <1>1, PTL

\* A creation ends, by its last step or otherwise.
LEMMA SecretCreated ==
    ASSUME IInv', Creators # {}, Creators' = {}, durable' \subseteq {Absent, NewConfig, Torn, file'}
    PROVE  [Secret!Next]_(Secret!vars)
<1>1. Visible = Absent /\ Lasting = {Absent}
  BY DEF Visible, Lasting
<1>2. file' \in durable'
  BY DEF IInv, Kept
<1>3. Visible' = Reading(file') /\ Lasting' = {Reading(f) : f \in durable'}
  BY DEF Visible, Lasting, Reading, OpenKey, Readable, OpenFactories, Load, RootKeyForOpen, WrappingKey
<1>4. Reading(file') \in Lasting' /\ Lasting' \subseteq {Absent, Reading(file')}
  BY <1>2, <1>3, ReadingEmpty
<1>5. CASE Reading(file') = Absent
  <2>1. Lasting' = {Absent}
    BY <1>4, <1>5
  <2> QED  BY <1>1, <1>3, <1>5, <2>1, SecretStutters
<1>6. CASE Reading(file') # Absent
  <2>1. Secret!Create
    BY <1>1, <1>3, <1>4, <1>6 DEF Secret!Create, Visible, Lasting
  <2> QED  BY <2>1 DEF Secret!Next
<1> QED  BY <1>5, <1>6

\* Steps that leave the file alone.
LEMMA SecretQuiet ==
    ASSUME IInv, IInv', UNCHANGED <<file, durable>>,
           \A p \in Procs : pc'[p] \in CreatePlaces => pc[p] \in CreatePlaces \/ file = Absent
    PROVE  [Secret!Next]_(Secret!vars)
<1>1. /\ Creators = {p \in Procs : pc[p] \in CreatePlaces}
      /\ Creators' = {p \in Procs : pc'[p] \in CreatePlaces}
  BY CreatorsAre, CreatorsNext
<1>2. CASE Creators # {} /\ Creators' = {}
  <2>1. PICK p \in Procs : pc[p] \in CreatePlaces
    BY <1>1, <1>2
  <2>2. durable \subseteq {Absent, NewConfig, Torn, file}
    BY <2>1 DEF IInv, CreateInv, Young
  <2> QED  BY <1>2, <2>2, SecretCreated
<1>3. CASE Creators = {} /\ Creators' # {}
  <2>1. file = Absent
    BY <1>1, <1>3
  <2>2. durable = {Absent}
    BY <2>1 DEF IInv, Kept
  <2>3. Visible = Absent /\ Lasting = {Absent}
    BY <1>3, <2>1, <2>2, ReadingEmpty DEF Visible, Lasting
  <2>4. Visible' = Absent /\ Lasting' = {Absent}
    BY <1>3 DEF Visible, Lasting
  <2> QED  BY <2>3, <2>4, SecretStutters
<1>4. CASE Creators = {} /\ Creators' = {}
  BY <1>4, SecretStutters DEF Visible, Lasting
<1>5. CASE Creators # {} /\ Creators' # {}
  BY <1>5, SecretStutters DEF Visible, Lasting
<1> QED  BY <1>2, <1>3, <1>4, <1>5

\* Steps within a creation.
LEMMA SecretHidden ==
    ASSUME IInv, IInv', NEW p \in Procs, pc[p] \in CreatePlaces, pc'[p] \in CreatePlaces
    PROVE  [Secret!Next]_(Secret!vars)
<1>1. Creators # {} /\ Creators' # {}
  BY CreatorsAre, CreatorsNext
<1> QED  BY <1>1, SecretStutters DEF Visible, Lasting

LEMMA SecretReplaced ==
    ASSUME IInv, IInv', NEW p \in Procs, Commit(p)
    PROVE  [Secret!Next]_(Secret!vars)
<1>0. TypeInv /\ Local(pc[p], job[p], mem[p], staged[p], file) /\ pc[p] = "commit" /\ file \in Files /\ file \in durable
  BY DEF IInv, LocalInv, Commit, Kept
<1>1. \A q \in Procs : pc[q] \notin CreatePlaces
  BY <1>0, LockExcludes DEF CreatePlaces, LockedPlaces
<1>2. \A q \in Procs : pc'[q] \notin CreatePlaces
  BY <1>0, <1>1 DEF Commit, Return, Goto, TypeInv, CreatePlaces
<1>3. Creators = {} /\ Creators' = {}
  BY <1>1, <1>2, CreatorsAre, CreatorsNext
<1>4. CASE UNCHANGED <<file, durable>>
  BY <1>2, <1>4, SecretQuiet
<1>5. CASE file' = staged[p] /\ durable' = durable \cup {staged[p]}
  <2>j. PICK j \in PasswdJobs \cup HintJobs :
            /\ j = job[p] /\ j.content = Authorised(file, j) /\ j.content # NoKey
            /\ j.kind = "hint" \/ NewDerivation(file, j) # NoDerivation
    BY <1>0 DEF Local, LockedPlaces
  <2>s. PICK t : t = staged[p]
    OBVIOUS
  <2>1. t = Changed(file, j)
    BY <1>0, <2>j, <2>s DEF Local
  <2>2. Replaced(file, t)
    BY <1>0, <2>j, <2>1, ChangedEffect
  <2>3. Visible = Reading(file) /\ Visible' = Reading(t)
    BY <1>3, <1>5, <2>s DEF Visible
  <2>4. Lasting = {Reading(f) : f \in durable} /\ Lasting' = {Reading(f) : f \in durable \cup {t}}
    BY <1>3, <1>5, <2>s DEF Lasting
  <2>5. Lasting' = Lasting \cup {Reading(t)} /\ Reading(file) \in Lasting
    BY <1>0, <2>4
  <2>6. CASE Reading(file) = Absent
    <3>1. Reading(t) = Absent
      BY <2>2, <2>6 DEF Replaced, SameKey
    <3> QED  BY <2>3, <2>5, <2>6, <3>1, SecretStutters
  <2>7. CASE Reading(file) # Absent
    <3>1. /\ Visible # Absent /\ Visible' # Absent /\ Visible'.key = Visible.key
          /\ Visible'.hint = Visible.hint \/ Visible'.pw = Visible.pw
          /\ Lasting' = Lasting \cup {Visible'}
      BY <2>2, <2>3, <2>5, <2>7 DEF Replaced, SameKey
    <3>2. Secret!ChangePassword \/ Secret!UpdateHint
      BY <3>1 DEF Secret!ChangePassword, Secret!UpdateHint, Secret!Replaces, Visible, Lasting
    <3> QED  BY <3>2 DEF Secret!Next
  <2> QED  BY <2>6, <2>7
<1> QED  BY <1>4, <1>5 DEF Commit

LEMMA SecretSynced ==
    ASSUME IInv, IInv', NEW p \in Procs, Finish(p)
    PROVE  [Secret!Next]_(Secret!vars)
<1>0. TypeInv /\ pc[p] = "sync"
  BY DEF IInv, Finish
<1>1. \A q \in Procs : pc[q] \notin CreatePlaces
  BY <1>0, LockExcludes DEF CreatePlaces, LockedPlaces
<1>2. \A q \in Procs : pc'[q] \notin CreatePlaces
  BY <1>0, <1>1 DEF Finish, Return, TypeInv, CreatePlaces
<1>3. Creators = {} /\ Creators' = {}
  BY <1>1, <1>2, CreatorsAre, CreatorsNext
<1>4. CASE file' = file /\ durable' = {file}
  <2>1. Visible' = Visible /\ Lasting' = {Visible}
    BY <1>3, <1>4 DEF Visible, Lasting
  <2>2. Secret!Sync
    BY <2>1 DEF Secret!Sync, Visible, Lasting
  <2> QED  BY <2>2 DEF Secret!Next
<1>5. CASE UNCHANGED <<file, durable>>
  BY <1>2, <1>5, SecretQuiet
<1> QED  BY <1>4, <1>5 DEF Finish

LEMMA SecretPower ==
    ASSUME IInv, IInv', PowerFailure
    PROVE  [Secret!Next]_(Secret!vars)
<1>1. pc' = [p \in Procs |-> "idle"] /\ file' \in durable /\ durable' = {file'}
  BY DEF PowerFailure
<1>2. Creators' = {}
  BY <1>1, CreatorsNext DEF CreatePlaces
<1>3. CASE Creators # {}
  BY <1>1, <1>2, <1>3, SecretCreated
<1>4. CASE Creators = {}
  <2>g. PICK g \in durable : g = file'
    BY <1>1
  <2>1. Visible' = Reading(g) /\ Lasting' = {Reading(g)}
    BY <1>1, <1>2, <2>g DEF Visible, Lasting
  <2>2. Reading(g) \in Lasting
    BY <1>4 DEF Lasting
  <2>3. Secret!PowerFailure
    BY <2>1, <2>2 DEF Secret!PowerFailure, Visible, Lasting
  <2> QED  BY <2>3 DEF Secret!Next
<1> QED  BY <1>3, <1>4

LEMMA SecretSaved ==
    ASSUME IInv, IInv', NEW p \in Procs, CreateSave(p)
    PROVE  [Secret!Next]_(Secret!vars)
<1>0. TypeInv /\ pc[p] = "save" /\ pc[p] \in CreatePlaces
  BY DEF IInv, CreateSave, CreatePlaces
<1>1. CASE Goto(p, "set")
  <2>1. pc'[p] \in CreatePlaces
    BY <1>0, <1>1 DEF Goto, TypeInv, CreatePlaces
  <2> QED  BY <1>0, <2>1, SecretHidden
<1>2. CASE Return(p)
  <2>1. \A q \in Procs \ {p} : pc[q] = "idle"
    BY <1>0 DEF IInv, AloneInv
  <2>2. \A q \in Procs : pc'[q] \notin CreatePlaces
    BY <1>0, <1>2, <2>1 DEF Return, TypeInv, CreatePlaces
  <2>3. Creators # {} /\ Creators' = {}
    BY <1>0, <2>2, CreatorsAre, CreatorsNext
  <2>4. Young(file, durable, claim, secured, lost, dataKeys)
    BY <1>0 DEF IInv, CreateInv
  <2>5. durable' \subseteq {Absent, NewConfig, Torn, file'}
    <3>1. CASE UNCHANGED <<file, durable>>
      BY <2>4, <3>1 DEF Young
    <3>2. CASE file' = mem[p] /\ durable' = (durable \cap {Absent}) \cup Truncated \cup {mem[p]}
      BY <3>2 DEF Truncated
    <3> QED  BY <3>1, <3>2 DEF CreateSave
  <2> QED  BY <2>3, <2>5, SecretCreated
<1> QED  BY <1>1, <1>2 DEF CreateSave

LEMMA SecretStep ==
    ASSUME IInv, IInv', [Next]_vars
    PROVE  [Secret!Next]_(Secret!vars)
<1>0. TypeInv
  BY DEF IInv
<1>1. CASE UNCHANGED vars
  BY <1>1, SecretQuiet DEF vars
<1>2. ASSUME NEW p \in Procs, CreateCheck(p) PROVE [Secret!Next]_(Secret!vars)
  <2>1. file = Absent /\ UNCHANGED <<file, durable>>
    BY <1>2 DEF CreateCheck, Start
  <2> QED  BY <2>1, SecretQuiet
<1>3. ASSUME NEW p \in Procs, ChangeStart(p) \/ HintStart(p) PROVE [Secret!Next]_(Secret!vars)
  <2>1. Goto(p, "lock") /\ UNCHANGED <<file, durable>>
    BY <1>3 DEF ChangeStart, HintStart, Start
  <2>2. \A q \in Procs : pc'[q] \in CreatePlaces => pc[q] \in CreatePlaces
    BY <1>0, <2>1 DEF Goto, TypeInv, CreatePlaces
  <2> QED  BY <2>1, <2>2, SecretQuiet
<1>4. ASSUME NEW p \in Procs, Return(p), UNCHANGED <<file, durable>> PROVE [Secret!Next]_(Secret!vars)
  <2>1. \A q \in Procs : pc'[q] \in CreatePlaces => pc[q] \in CreatePlaces
    BY <1>0, <1>4 DEF Return, TypeInv, CreatePlaces
  <2> QED  BY <1>4, <2>1, SecretQuiet
<1>5. ASSUME NEW p \in Procs, Kill(p) \/ LockTimeout(p) PROVE [Secret!Next]_(Secret!vars)
  BY <1>4, <1>5 DEF Kill, LockTimeout
<1>6. ASSUME NEW p \in Procs, CreateLoad(p) PROVE [Secret!Next]_(Secret!vars)
  <2>1. UNCHANGED <<file, durable>> /\ pc[p] \in CreatePlaces
    BY <1>6 DEF CreateLoad, CreatePlaces
  <2>2. CASE Goto(p, "set")
    <3>1. \A q \in Procs : pc'[q] \in CreatePlaces => pc[q] \in CreatePlaces
      BY <1>0, <2>1, <2>2 DEF Goto, TypeInv
    <3> QED  BY <2>1, <3>1, SecretQuiet
  <2>3. CASE Return(p)
    BY <1>4, <2>1, <2>3
  <2> QED  BY <1>6, <2>2, <2>3 DEF CreateLoad
<1>7. ASSUME NEW p \in Procs, CreateSet(p) PROVE [Secret!Next]_(Secret!vars)
  <2>1. pc[p] \in CreatePlaces /\ pc'[p] \in CreatePlaces
    BY <1>0, <1>7 DEF CreateSet, Goto, TypeInv, CreatePlaces
  <2> QED  BY <2>1, SecretHidden
<1>8. ASSUME NEW p \in Procs, Lock(p) \/ Verify(p) \/ Stage(p) \/ Update(p) PROVE [Secret!Next]_(Secret!vars)
  <2>1. UNCHANGED <<file, durable>>
    BY <1>8 DEF Lock, Verify, Stage, Update
  <2>2. CASE Return(p)
    BY <1>4, <2>1, <2>2
  <2>3. CASE Goto(p, "verify") \/ Goto(p, "stage") \/ Goto(p, "update") \/ Goto(p, "commit")
    <3>1. \A q \in Procs : pc'[q] \in CreatePlaces => pc[q] \in CreatePlaces
      BY <1>0, <2>3 DEF Goto, TypeInv, CreatePlaces
    <3> QED  BY <2>1, <3>1, SecretQuiet
  <2> QED  BY <1>8, <2>2, <2>3 DEF Lock, Verify, Stage, Update
<1>9. ASSUME NEW pw \in Passwords, Open(pw) PROVE [Secret!Next]_(Secret!vars)
  BY <1>9, SecretQuiet DEF Open
<1>10. ASSUME NEW p \in Procs, Step(p) PROVE [Secret!Next]_(Secret!vars)
  BY <1>5, <1>6, <1>7, <1>8, <1>10, SecretSaved, SecretReplaced, SecretSynced DEF Step
<1> QED  BY <1>1, <1>2, <1>3, <1>5, <1>9, <1>10, SecretPower DEF Next

\* To whoever reads it, the configuration file is a register that changes in one
\* step, a password change keeping the hint, a hint update the password and both
\* the content key, with power failures bringing back only what was current since
\* the last sync (stageRootConfig and commitStagedRootConfig).
THEOREM SecretImplemented == Overlap = FALSE => (Spec => ImplementsSecret)
<1>1. Init /\ Overlap = FALSE => Secret!Init
  <2> SUFFICES ASSUME Init, Overlap = FALSE PROVE Secret!Init
    OBVIOUS
  <2>1. Visible = Absent /\ Lasting = {Absent}
    BY ReadingEmpty DEF Init, Visible, Lasting
  <2> QED  BY <2>1 DEF Secret!Init, Visible, Lasting
<1>2. IInv /\ IInv' /\ [Next]_vars => [Secret!Next]_(Secret!vars)
  BY SecretStep
<1> QED  BY <1>1, <1>2, InvariantHolds, PTL DEF Spec, ImplementsSecret, Secret!Spec

=============================================================================
