--------------------------- MODULE KeyDerivation ---------------------------
(***************************************************************************)
(* The four key derivers a root may be created with (Argon2id, scrypt,     *)
(* PBKDF2, HKDF-SHA-256): the cost parameters NewKey chooses for a target  *)
(* time and stores beside the salt, and the key LoadKey derives from what  *)
(* is stored.  A configuration c maps "salt", "cost" and "length" to what  *)
(* is stored there, or to <<>>.  A derived key is the tuple of everything  *)
(* that goes into it: equal exactly when the inputs are.                   *)
(*                                                                         *)
(* Target times are small numbers of milliseconds: the conversion of       *)
(* Argon2id's memory to 32 bits, which wraps from 2^26 ms on, is not       *)
(* modelled.                                                               *)
(***************************************************************************)
EXTENDS Naturals, Sequences, FiniteSetsExt

Derivers == {"Argon2id", "scrypt", "PBKDF2", "HKDF-SHA-256"}

NoKey == <<>>

\* What NewKey stores, or NoDerivation when it fails.
Derivation(salt, cost, length) == [salt |-> salt, cost |-> cost, length |-> length]

NoDerivation == Derivation(<<>>, <<>>, <<>>)

Key(alg, pw, d) == <<alg, pw, d.salt, d.cost, d.length>>

KeyLength(key) == key[Len(key)][1]

Or(stored, default) == IF stored = <<>> THEN default ELSE stored

\* LoadKey: needs the salt; a parameter that is not stored has a default.
Loaded(alg, pw, c, default) ==
    IF c["salt"] = <<>> THEN NoKey
    ELSE Key(alg, pw, Derivation(c["salt"], Or(c["cost"], default), Or(c["length"], <<32>>)))

\* ReuseStoredParameters: a new salt, and the rest has to be stored.
Reused(c, p) ==
    IF c["cost"] = <<>> \/ c["length"] = <<>> THEN NoDerivation
    ELSE Derivation(p.salt, c["cost"], c["length"])

-----------------------------------------------------------------------------
(* Argon2id: passes, memory in KiB, threads *)

Argon2Cost(ms) ==
    IF ms = 0 THEN <<3, 65536, 4>>
    ELSE <<Min({Max({ms \div 100, 1}), 10}), Min({65536 + 64 * ms, 262144}), 4>>

Argon2NewKey(c, p) ==
    IF p.reuse THEN Reused(c, p) ELSE Derivation(p.salt, Argon2Cost(p.ms), p.length)

Argon2LoadKey(c, pw) == Loaded("Argon2id", pw, c, <<3, 65536, 4>>)

-----------------------------------------------------------------------------
(* scrypt: N, r, p.  A stored N that is no power of two is refused; none is   *)
(* ever stored.                                                               *)

ScryptCost(ms) ==
    <<CASE ms = 0 \/ ms \in 101..500 -> 32768
        [] ms \in 1..100             -> 16384
        [] ms \in 501..1000          -> 65536
        [] OTHER                     -> 131072, 8, 1>>

ScryptNewKey(c, p) ==
    IF p.reuse THEN Reused(c, p) ELSE Derivation(p.salt, ScryptCost(p.ms), p.length)

ScryptLoadKey(c, pw) == Loaded("scrypt", pw, c, <<32768, 8, 1>>)

-----------------------------------------------------------------------------
(* PBKDF2: iterations *)

Pbkdf2Cost(ms) == IF ms = 0 THEN <<100000>> ELSE <<200000>>

Pbkdf2NewKey(c, p) ==
    IF p.reuse THEN Reused(c, p) ELSE Derivation(p.salt, Pbkdf2Cost(p.ms), p.length)

Pbkdf2LoadKey(c, pw) == Loaded("PBKDF2", pw, c, <<100000>>)

-----------------------------------------------------------------------------
(* HKDF: no cost, and nothing to reuse *)

HkdfNewKey(p) == Derivation(p.salt, <<>>, p.length)

HkdfLoadKey(c, pw) == Loaded("HKDF-SHA-256", pw, c, <<>>)

-----------------------------------------------------------------------------
(* The registered derivers by name *)

NewKey(alg, c, p) ==
    CASE alg = "Argon2id"     -> Argon2NewKey(c, p)
      [] alg = "scrypt"       -> ScryptNewKey(c, p)
      [] alg = "PBKDF2"       -> Pbkdf2NewKey(c, p)
      [] alg = "HKDF-SHA-256" -> HkdfNewKey(p)

LoadKey(alg, c, pw) ==
    CASE alg = "Argon2id"     -> Argon2LoadKey(c, pw)
      [] alg = "scrypt"       -> ScryptLoadKey(c, pw)
      [] alg = "PBKDF2"       -> Pbkdf2LoadKey(c, pw)
      [] alg = "HKDF-SHA-256" -> HkdfLoadKey(c, pw)
=============================================================================
