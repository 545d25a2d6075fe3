---------------------------- MODULE KeyExchange ----------------------------
(***************************************************************************)
(* The blinded (oblivious RSA) key exchange of one segment:               *)
(* KeyEx::keyExchange with decoration and elimination                     *)
(* (src/client/keyClient/exchange.cc) and the key manager's signing in    *)
(* Server::SocketHandlerKeyManager (src/server/comm/server.cc).  The      *)
(* client blinds the hash h with a fresh random r, h * r^e mod n; the KM  *)
(* returns its d-th power; the client multiplies by r^-1 and hashes the   *)
(* 128-byte result into the segment key.  The RSA key is a small one     *)
(* (RSA_N, RSA_E, RSA_D) so that TLC's integers hold every product, and   *)
(* h is the fingerprint read as a big-endian number below RSA_N.          *)
(***************************************************************************)
EXTENDS Integers

CONSTANTS
  RSA_N, RSA_E, RSA_D,  \* the KM's key pair: keys/private.pem
  BlindFactors          \* values BN_pseudo_rand may draw for r

ASSUME RSA_N * RSA_N < 2147483647 /\ BlindFactors \subseteq 1 .. RSA_N - 1

\* Bind(v, F) is F(v) with v computed once.
Bind(v, F(_)) == CHOOSE res \in {F(x) : x \in {v}} : TRUE

\* BN_mod_exp, left-to-right square and multiply over the bits of x.
RECURSIVE BN_mod_exp(_, _, _)
BN_mod_exp(b, x, m) ==
  IF x = 0 THEN 1 % m
  ELSE Bind(BN_mod_exp(b, x \div 2, m), LAMBDA h :
         IF x % 2 = 0 THEN (h * h) % m ELSE (((h * h) % m) * (b % m)) % m)

\* The extended Euclidean steps of BN_mod_inverse on <<r0, r1, t0, t1>>.
RECURSIVE InverseSteps(_)
InverseSteps(s) ==
  IF s[2] = 0 THEN s
  ELSE InverseSteps(Bind(<<s[2], s[1] % s[2], s[4], s[3] - (s[1] \div s[2]) * s[4]>>,
                         LAMBDA t : t))

\* BN_mod_inverse(a, m): a^-1 mod m, or "NULL" when gcd(a, m) # 1.
BN_mod_inverse(a, m) ==
  Bind(InverseSteps(<<m, a % m, 0, 1>>), LAMBDA s :
    IF s[1] = 1 THEN s[3] % m ELSE "NULL")

\* decoration: h * r^e mod n, the blinded value sent to the KM.
decoration(h, r) == (BN_mod_exp(r, RSA_E, RSA_N) * h) % RSA_N

\* SocketHandlerKeyManager: BN_mod_exp(ret, ret, d, n) on each value.
KeyManagerSign(x) == BN_mod_exp(x, RSA_D, RSA_N)

\* Fault variant: the returned value is multiplied by r, not by r^-1.
eliminationNoInverse(y, r) == (y * r) % RSA_N

\* elimination: the returned value times r^-1 mod n.
elimination(y, r) == (y * BN_mod_inverse(r, RSA_N)) % RSA_N

\* CryptoPrimitive::generateHash of the 128-byte unblinded value.
generateHash(v) == [sha256 |-> v]

\* keyExchange for one hash (num = 1) blinded with r.
keyExchange(h, r) ==
  generateHash(Bind(KeyManagerSign(decoration(h, r)), LAMBDA y : elimination(y, r)))

\* The key of hash h blinded with r, as the segmenter asks for it.
SegmentKeyOf(h, r) == keyExchange(h, r)

-----------------------------------------------------------------------------
\* h^d mod n computed right to left, the convergent key the spec defines
\* (spec 4.2: the KM's signature of the segment hash, unblinded).
RECURSIVE RefPow(_, _)
RefPow(b, k) ==
  IF k = 0 THEN 1
  ELSE IF k % 2 = 1 THEN (b * RefPow(b, k - 1)) % RSA_N
  ELSE RefPow((b * b) % RSA_N, k \div 2)

ConvergentKey(h) == generateHash(RefPow(h, RSA_D))
====
