--------------------------- MODULE StealthProofs ---------------------------
(***************************************************************************)
(* The order in which keys are used, and the agreement of profile and      *)
(* ClientHello, for any threads, profiles and rotation.                    *)
(***************************************************************************)
EXTENDS Stealth, TLAPS

KeyTypes ==
  /\ pc \in [Threads -> {"idle", "locked", "applied", "store"}]
  /\ key \in Keys /\ used \in Seq(Keys) /\ holder \in Threads \cup {None}

(* The mutex belongs to the thread that is between lock and unlock.        *)
Mutex == \A t \in Threads : pc[t] \in {"locked", "applied"} <=> holder = t

(* The present key is newer than every one that was used, but for the one  *)
(* just applied, which is the present key itself.                          *)
KeyNext ==
  IF \E t \in Threads : pc[t] = "applied"
  THEN /\ used # <<>> /\ key = used[Len(used)]
       /\ \A i \in 1 .. Len(used) - 1 : Newer(key, used[i])
  ELSE \A i \in 1 .. Len(used) : Newer(key, used[i])

KeyInv == KeyTypes /\ Mutex /\ KeyNext /\ KeysNeverRepeat

(* The digest of the present key, and a new draw, are newer. *)
LEMMA NewerKeys ==
  ASSUME NEW k \in Keys, NEW next \in {[k EXCEPT !.hashed = @ + 1], generate_session_key(k.draw + 1)}
  PROVE  /\ next \in Keys /\ Newer(next, k)
         /\ \A l \in Keys : Newer(k, l) => Newer(next, l)
BY DEF Keys, Newer, generate_session_key

(* Steps that neither touch the key nor a thread inside obfuscate. *)
LEMMA KeyIdle ==
  ASSUME KeyInv, UNCHANGED xor,
         pc' \in [Threads -> {"idle", "locked", "applied", "store"}],
         \A t \in Threads : pc'[t] = pc[t] \/ {pc[t], pc'[t]} \subseteq {"idle", "store"}
  PROVE  KeyInv'
<1>1. \A t \in Threads : /\ pc'[t] = "applied" <=> pc[t] = "applied"
                         /\ pc'[t] = "locked" <=> pc[t] = "locked"
  OBVIOUS
<1>2. KeyTypes'
  BY DEF KeyInv, KeyTypes, xor
<1>3. Mutex'
  BY <1>1 DEF KeyInv, Mutex, xor
<1>4. KeyNext'
  BY <1>1 DEF KeyInv, KeyNext, xor
<1>5. KeysNeverRepeat'
  BY DEF KeyInv, KeysNeverRepeat, xor
<1> QED BY <1>2, <1>3, <1>4, <1>5 DEF KeyInv

(* The key is read under the mutex, so nobody else is between reading and  *)
(* rolling it, and what is appended follows what was used last.            *)
LEMMA KeyApply ==
  ASSUME KeyInv, NEW t \in Threads, XorApply(t)
  PROVE  KeyInv'
<1>1. pc[t] = "locked" /\ used' = Append(used, key) /\ pc' = [pc EXCEPT ![t] = "applied"]
      /\ UNCHANGED <<key, holder>> /\ key \in Keys /\ used \in Seq(Keys)
  BY DEF XorApply, Go, KeyInv, KeyTypes
<1>2. ~ \E u \in Threads : pc[u] = "applied"
  BY <1>1 DEF KeyInv, Mutex
<1>3. KeyTypes'
  BY <1>1 DEF KeyInv, KeyTypes
<1>4. Mutex'
  BY <1>1 DEF KeyInv, Mutex, KeyTypes
<1>5. Len(used') = Len(used) + 1 /\ used'[Len(used')] = key
      /\ \A i \in 1 .. Len(used) : used'[i] = used[i]
  BY <1>1
<1>6. \A i \in 1 .. Len(used) : Newer(key, used[i])
  BY <1>2 DEF KeyInv, KeyNext
<1>7. KeyNext'
  <2>1. pc'[t] = "applied"
    BY <1>1 DEF KeyInv, KeyTypes
  <2>2. used' # <<>> /\ key' = used'[Len(used')]
    BY <1>1, <1>5
  <2>3. \A i \in 1 .. Len(used') - 1 : Newer(key', used'[i])
    BY <1>1, <1>5, <1>6
  <2> QED BY <2>1, <2>2, <2>3 DEF KeyNext
<1>8. KeysNeverRepeat'
  <2>1. SUFFICES ASSUME NEW i \in 1 .. Len(used'), NEW j \in 1 .. Len(used'), i < j
                 PROVE  Newer(used'[j], used'[i])
    BY DEF KeysNeverRepeat
  <2>2. Len(used) \in Nat /\ i \in 1 .. Len(used) /\ used'[i] = used[i]
    BY <1>1, <1>5, <2>1
  <2>3. CASE j = Len(used')
    BY <1>5, <1>6, <2>2, <2>3
  <2>4. CASE j # Len(used')
    <3>1. j \in 1 .. Len(used) /\ used'[j] = used[j]
      BY <1>5, <2>2, <2>4
    <3> QED BY <2>1, <2>2, <3>1 DEF KeyInv, KeysNeverRepeat
  <2> QED BY <2>3, <2>4
<1> QED BY <1>3, <1>4, <1>7, <1>8 DEF KeyInv

(* Rolling the key and drawing a new one both give a key newer than every  *)
(* one used.                                                               *)
LEMMA KeyRolls ==
  ASSUME KeyInv, NEW t \in Threads, XorRoll(t) \/ rekey(t)
  PROVE  KeyInv'
<1>1. key \in Keys /\ used \in Seq(Keys) /\ used' = used
  BY DEF KeyInv, KeyTypes, XorRoll, rekey
<1>2. KeysNeverRepeat'
  BY <1>1 DEF KeyInv, KeysNeverRepeat
<1>3. CASE XorRoll(t)
  <2>1. pc[t] = "applied" /\ holder' = None /\ pc' = [pc EXCEPT ![t] = "idle"]
        /\ key' = [key EXCEPT !.hashed = @ + 1]
    BY <1>3 DEF XorRoll, Go
  <2>2. holder = t /\ \A u \in Threads \ {t} : pc[u] \notin {"locked", "applied"}
    BY <2>1 DEF KeyInv, Mutex
  <2>3. KeyTypes'
    BY <1>1, <2>1, NewerKeys DEF KeyInv, KeyTypes
  <2>4. \A u \in Threads : pc'[u] \notin {"locked", "applied"} /\ holder' # u
    BY <2>1, <2>2, DumpedAssumption DEF KeyInv, KeyTypes
  <2>5. Mutex'
    BY <2>4 DEF Mutex
  <2>6. KeyNext'
    <3>1. /\ used # <<>> /\ key = used[Len(used)]
          /\ \A i \in 1 .. Len(used) - 1 : Newer(key, used[i])
      BY <2>1 DEF KeyInv, KeyNext
    <3>2. Newer(key', key) /\ \A l \in Keys : Newer(key, l) => Newer(key', l)
      BY <1>1, <2>1, NewerKeys
    <3>3. ASSUME NEW i \in 1 .. Len(used) PROVE Newer(key', used[i])
      <4>1. used[i] \in Keys /\ (i = Len(used) \/ i \in 1 .. Len(used) - 1)
        BY <1>1
      <4> QED BY <3>1, <3>2, <4>1
    <3> QED BY <1>1, <2>4, <3>3 DEF KeyNext
  <2> QED BY <1>2, <2>3, <2>5, <2>6 DEF KeyInv
<1>4. CASE rekey(t)
  <2>1. holder = None /\ key' = generate_session_key(key.draw + 1) /\ UNCHANGED <<pc, holder>>
    BY <1>4 DEF rekey
  <2>2. KeyTypes'
    BY <1>1, <2>1, NewerKeys DEF KeyInv, KeyTypes
  <2>3. Mutex'
    BY <2>1 DEF KeyInv, Mutex
  <2>4. ~ \E u \in Threads : pc[u] = "applied"
    BY <2>1, DumpedAssumption DEF KeyInv, Mutex
  <2>5. KeyNext'
    <3>1. \A l \in Keys : Newer(key, l) => Newer(key', l)
      BY <1>1, <2>1, NewerKeys
    <3>2. \A i \in 1 .. Len(used) : used[i] \in Keys /\ Newer(key, used[i])
      BY <1>1, <2>4 DEF KeyInv, KeyNext
    <3> QED BY <1>1, <2>1, <2>4, <3>1, <3>2 DEF KeyNext
  <2> QED BY <1>2, <2>2, <2>3, <2>5 DEF KeyInv
<1> QED BY <1>3, <1>4

(* Every step keeps the order of the keys. *)
LEMMA KeyInductive ==
  ASSUME KeyInv, [Next]_vars
  PROVE  KeyInv'
<1> USE DEF KeyInv, KeyTypes
<1>1. CASE UNCHANGED vars
  BY <1>1, KeyIdle DEF vars, xor
<1>2. CASE RotateWake \/ RotateStore
  BY <1>2, KeyIdle DEF RotateWake, RotateStore, xor
<1>3. ASSUME NEW t \in Threads, XorLock(t)
      PROVE  KeyInv'
  <2>1. holder = None /\ holder' = t /\ pc' = [pc EXCEPT ![t] = "locked"]
        /\ pc[t] = "idle" /\ UNCHANGED <<key, used>>
    BY <1>3 DEF XorLock, Go
  <2>2. KeyTypes'
    BY <2>1
  <2>3. Mutex'
    BY <2>1, DumpedAssumption DEF Mutex
  <2>4. \A u \in Threads : pc'[u] = "applied" <=> pc[u] = "applied"
    BY <2>1
  <2>5. KeyNext' /\ KeysNeverRepeat'
    BY <2>1, <2>4 DEF KeyNext, KeysNeverRepeat
  <2> QED BY <2>2, <2>3, <2>5
<1>4. ASSUME NEW t \in Threads, XorApply(t) PROVE KeyInv'
  BY <1>4, KeyApply
<1>5. ASSUME NEW t \in Threads, XorRoll(t) \/ rekey(t) PROVE KeyInv'
  BY <1>5, KeyRolls
<1>6. ASSUME NEW t \in Threads,
             \/ SetStore(t) \/ apply_utls_profile(t) \/ get_fronted_domain(t)
             \/ \E p \in Profiles, given \in BOOLEAN : SetInject(t, p, given)
      PROVE  KeyInv'
  <2>1. UNCHANGED xor /\ pc' \in [Threads -> {"idle", "locked", "applied", "store"}]
    BY <1>6 DEF SetStore, apply_utls_profile, get_fronted_domain, SetInject, Go
  <2>2. \A u \in Threads : pc'[u] = pc[u] \/ {pc[u], pc'[u]} \subseteq {"idle", "store"}
    BY <1>6 DEF SetStore, apply_utls_profile, get_fronted_domain, SetInject, Go
  <2> QED BY <2>1, <2>2, KeyIdle
<1> QED
  BY <1>1, <1>2, <1>3, <1>4, <1>5, <1>6 DEF Next, Continue, process_packet

(* No key is applied twice, whatever threads share the XorObfuscator: each *)
(* call of obfuscate or deobfuscate finds a newer key than every call      *)
(* before it, so that none of them undoes another.                         *)
THEOREM KeySafe == Spec => []KeysNeverRepeat
<1>1. Init => KeyInv
  BY DumpedAssumption
     DEF Init, KeyInv, KeyTypes, Mutex, KeyNext, KeysNeverRepeat, generate_session_key, Keys
<1>2. KeyInv => KeysNeverRepeat
  BY DEF KeyInv
<1> QED BY <1>1, <1>2, KeyInductive, PTL DEF Spec

-----------------------------------------------------------------------------
BrowserInv ==
  /\ OneBrowser
  /\ fingerprint \in [profile : Profiles, hello : Hellos]
  /\ setting \in [Threads -> Hellos]
  /\ \A t \in Threads : pc[t] = "store" => setting[t] \in Profiles
  /\ pc \in [Threads -> {"idle", "locked", "applied", "store"}]
  /\ idx \in 0 .. Len(Rotation) - 1
  /\ tls \in [hello : Hellos, params : Hellos, whole : BOOLEAN]

(* The profile that is put to use for a browser has its own ClientHello,   *)
(* also if the browser is not in the table: then it has no ClientHello on  *)
(* disk either, and gets the one of the fallback.                          *)
LEMMA FreshProfile ==
  ASSUME NEW p \in Profiles
  PROVE  /\ WithHello(FingerprintProfile(p)) \in [profile : Profiles, hello : Hellos]
         /\ WithHello(FingerprintProfile(p)).hello
              = load_client_hello(WithHello(FingerprintProfile(p)).profile)
<1> DEFINE new == FingerprintProfile(p)
<1>1. /\ new = [profile |-> Parameters(p), hello |-> load_client_hello(p)]
      /\ Parameters(p) \in Profiles /\ load_client_hello(p) \in Hellos
      /\ load_client_hello(Parameters(p)) \in Hellos
  BY DumpedAssumption DEF FingerprintProfile, Parameters, load_client_hello, Hellos
<1>2. load_client_hello(p) # None => Parameters(p) = p
  BY DumpedAssumption DEF Parameters, load_client_hello
<1> HIDE DEF new
<1>3. CASE new.hello = None
  <2>1. WithHello(new) = [profile |-> Parameters(p), hello |-> load_client_hello(Parameters(p))]
    BY <1>1, <1>3 DEF WithHello
  <2> QED BY <1>1, <2>1 DEF new
<1>4. CASE new.hello # None
  <2>1. WithHello(new) = [profile |-> p, hello |-> load_client_hello(p)]
    BY <1>1, <1>2, <1>4 DEF WithHello
  <2> QED BY <1>1, <2>1 DEF new
<1> QED BY <1>3, <1>4

(* A complete profile stays as it is. *)
LEMMA SameProfile ==
  ASSUME NEW fp \in [profile : Profiles, hello : Hellos],
         fp.hello = load_client_hello(fp.profile)
  PROVE  WithHello(fp) = fp
BY DEF WithHello

(* Every step keeps profile and ClientHello together. *)
LEMMA BrowserInductive ==
  ASSUME BrowserInv, [Next]_vars
  PROVE  BrowserInv'
<1> USE DEF BrowserInv
<1>0. Rotation \in Seq(Profiles) /\ Len(Rotation) \in Nat \ {0} /\ None \notin Profiles
      /\ Dumped \subseteq Profiles
  BY RotationAssumption, DumpedAssumption
<1>1. CASE UNCHANGED vars
  BY <1>1 DEF vars, finger, rotate, OneBrowser
<1>2. CASE RotateWake
  BY <1>0, <1>2 DEF RotateWake, NextIndex, finger, OneBrowser
<1>3. CASE RotateStore
  <2>1. Rotation[idx + 1] \in Profiles
    BY <1>0
  <2> QED BY <1>3, <2>1, FreshProfile DEF RotateStore, OneBrowser
<1>4. ASSUME NEW t \in Threads, XorLock(t) \/ XorApply(t) \/ XorRoll(t) \/ rekey(t)
      PROVE  BrowserInv'
  BY <1>4 DEF XorLock, XorApply, XorRoll, rekey, Go, finger, rotate, OneBrowser
<1>5. ASSUME NEW t \in Threads, SetStore(t) PROVE BrowserInv'
  <2>1. setting[t] \in Profiles /\ pc' = [pc EXCEPT ![t] = "idle"]
        /\ setting' = [setting EXCEPT ![t] = None]
        /\ fingerprint' = WithHello(FingerprintProfile(setting[t]))
        /\ UNCHANGED <<tls, rotate>>
    BY <1>5 DEF SetStore, Go
  <2>2. OneBrowser' /\ fingerprint' \in [profile : Profiles, hello : Hellos]
    BY <2>1, FreshProfile DEF OneBrowser
  <2>3. setting' \in [Threads -> Hellos]
    BY <2>1 DEF Hellos
  <2>4. \A u \in Threads : pc'[u] = "store" => setting'[u] \in Profiles
    BY <2>1
  <2> QED BY <2>1, <2>2, <2>3, <2>4 DEF rotate
<1>6. ASSUME NEW t \in Threads, apply_utls_profile(t) PROVE BrowserInv'
  <2> DEFINE fp == WithHello(fingerprint)
  <2>0. fp = fingerprint
    BY SameProfile DEF OneBrowser
  <2>1. /\ fp.hello = load_client_hello(fp.profile)
        /\ fp.profile \in Profiles /\ fp.hello \in Hellos
        /\ fp.profile \in Dumped => fp.hello = fp.profile
    BY <2>0 DEF OneBrowser, load_client_hello
  <2>2. /\ fingerprint' = fp /\ UNCHANGED <<pc, setting, rotate>>
        /\ tls' = [hello |-> IF fp.hello # None THEN fp.hello ELSE tls.hello,
                   params |-> fp.profile, whole |-> TRUE]
    BY <1>6 DEF apply_utls_profile, inject_bytes
  <2> HIDE DEF fp
  <2>3. tls' \in [hello : Hellos, params : Hellos, whole : BOOLEAN]
    BY <2>1, <2>2 DEF Hellos
  <2>4. tls'.params \in Dumped => tls'.hello = tls'.params
    BY <1>0, <2>1, <2>2
  <2> QED BY <2>0, <2>1, <2>2, <2>3, <2>4 DEF OneBrowser, rotate
<1>7. ASSUME NEW t \in Threads, NEW p \in Profiles, NEW given \in BOOLEAN, SetInject(t, p, given)
      PROVE  BrowserInv'
  <2>1. /\ setting' = [setting EXCEPT ![t] = p] /\ pc' = [pc EXCEPT ![t] = "store"]
        /\ UNCHANGED <<fingerprint, rotate>>
        /\ \/ tls' = tls
           \/ tls' = [tls EXCEPT !.hello = WithHello(FingerprintProfile(p)).hello, !.whole = FALSE]
    BY <1>7 DEF SetInject, inject_bytes, Go
  <2>2. setting' \in [Threads -> Hellos]
        /\ \A u \in Threads : pc'[u] = "store" => setting'[u] \in Profiles
    BY <2>1 DEF Hellos
  <2>3. tls' \in [hello : Hellos, params : Hellos, whole : BOOLEAN]
        /\ (tls' = tls \/ ~tls'.whole)
    BY <2>1, FreshProfile
  <2> QED BY <2>1, <2>2, <2>3 DEF OneBrowser, rotate
<1>8. ASSUME NEW t \in Threads, get_fronted_domain(t) PROVE BrowserInv'
  BY <1>8 DEF get_fronted_domain, finger, rotate, OneBrowser
<1> QED
  BY <1>1, <1>2, <1>3, <1>4, <1>5, <1>6, <1>7, <1>8 DEF Next, Continue, process_packet

(* The active profile has its own ClientHello, and an untouched            *)
(* configuration describes one browser, however callers and the rotation   *)
(* task interleave.                                                        *)
THEOREM BrowserSafe == Spec => []OneBrowser
<1>1. Init => BrowserInv
  <2>1. SUFFICES ASSUME Init PROVE BrowserInv
    OBVIOUS
  <2>2. PICK p \in Profiles : fingerprint = WithHello(FingerprintProfile(p))
    BY <2>1 DEF Init
  <2>3. Len(Rotation) \in Nat \ {0}
    BY RotationAssumption
  <2>4. None \notin Dumped
    BY DumpedAssumption
  <2> QED BY <2>1, <2>2, <2>3, <2>4, FreshProfile
          DEF Init, BrowserInv, OneBrowser, Hellos
<1>2. BrowserInv => OneBrowser
  BY DEF BrowserInv
<1> QED BY <1>1, <1>2, BrowserInductive, PTL DEF Spec
=============================================================================
