------------------------------ MODULE Stealth ------------------------------
(***************************************************************************)
(* StealthManager of src/src/stealth.rs: the XOR obfuscator with its       *)
(* rolling key, the active browser fingerprint and its rotation, and the   *)
(* round robin over the fronting domains.  One manager is shared by the    *)
(* thread of the connection, the rotation task and any other caller; a     *)
(* mutex guards the key, another one the fingerprint, and the fronting     *)
(* index is an atomic counter.                                             *)
(*                                                                         *)
(* A key is a record: the draw from the random generator it descends from  *)
(* and how often it was hashed since.  SHA-256 never maps two of the keys  *)
(* in use to one.  A ClientHello is named by the profile it was captured   *)
(* from; only the profiles in Dumped have one on disk.  A combination that *)
(* is not in the table of FingerprintProfile::new gets the parameters of   *)
(* the fallback, Chrome on Windows.                                        *)
(***************************************************************************)
EXTENDS Integers, Sequences, FiniteSets

CONSTANTS
  Threads,      \* callers of the manager
  Profiles,     \* browser and system combinations
  Rotation,     \* the sequence given to start_profile_rotation
  Tabled,       \* the combinations FingerprintProfile::new has a row for
  Fallback,     \* Chrome on Windows
  Dumped,       \* profiles with a file in browser_profiles
  Domains,      \* number of fronting domains
  None,         \* Option::None
  MaxPackets, MaxRekeys, MaxSets, MaxRequests   \* bounds on the calls

ASSUME RotationAssumption == Rotation \in Seq(Profiles) /\ Rotation # <<>>
ASSUME DumpedAssumption ==
  /\ Fallback \in Tabled /\ Tabled \subseteq Profiles
  /\ Dumped \subseteq Tabled        \* so it is in browser_profiles: 26 files, 26 rows
  /\ None \notin Profiles \cup Threads
ASSUME DomainsAssumption == Domains \in Nat \ {0}
ASSUME StealthBounds ==
  MaxPackets \in Nat /\ MaxRekeys \in Nat /\ MaxSets \in Nat /\ MaxRequests \in Nat

VARIABLES
  pc,            \* where each thread is: "idle", "locked", "applied", "store"
  key,           \* XorObfuscator::key
  holder,        \* the thread that has the mutex of the key, or None
  fingerprint,   \* StealthManager::fingerprint: [profile, hello]
  setting,       \* the profile a thread is about to store
  idx,           \* of the rotation task
  task,          \* the rotation task: "sleep" or "store"
  tls,           \* a quiche configuration: [hello, params, whole]
  index,         \* DomainFrontingManager::index
  used,          \* history: the key of every packet, in order
  fronted,       \* history: how often each domain was handed out
  sets           \* calls of set_fingerprint_profile

xor == <<key, holder, used>>
finger == <<fingerprint, setting, tls, sets>>
rotate == <<idx, task>>
front == <<index, fronted>>
vars == <<pc, xor, finger, rotate, front>>

-----------------------------------------------------------------------------
(* FingerprintProfile::new fills in the parameters of a browser, or of the *)
(* fallback, and loads the ClientHello of the browser it was asked for.    *)
(* Where a profile is put to use and has none, the one of the browser it   *)
(* then stands for is loaded.                                              *)
load_client_hello(p) == IF p \in Dumped THEN p ELSE None
Parameters(p) == IF p \in Tabled THEN p ELSE Fallback
FingerprintProfile(p) == [profile |-> Parameters(p), hello |-> load_client_hello(p)]
WithHello(fp) ==
  IF fp.hello = None THEN [fp EXCEPT !.hello = load_client_hello(fp.profile)] ELSE fp

generate_session_key(n) == [draw |-> n, hashed |-> 0]

Init ==
  /\ pc = [t \in Threads |-> "idle"]
  /\ key = generate_session_key(0) /\ holder = None /\ used = <<>>
  /\ \E p \in Profiles : fingerprint = WithHello(FingerprintProfile(p))
  /\ setting = [t \in Threads |-> None]
  /\ tls = [hello |-> None, params |-> None, whole |-> TRUE] /\ sets = 0
  /\ idx = 0 /\ task = "sleep"
  /\ index = 0 /\ fronted = [d \in 0 .. Domains - 1 |-> 0]

-----------------------------------------------------------------------------
(* obfuscate, and deobfuscate, which is the same call: the mutex is taken, *)
(* the key is applied to the payload, then it is replaced by its digest    *)
(* and the mutex is released.                                              *)

Go(t, there) == pc' = [pc EXCEPT ![t] = there]

XorLockUnguarded(t) ==       \* mutant: the key is read without the mutex
  /\ pc[t] = "idle" /\ Len(used) < MaxPackets
  /\ holder' = t
  /\ Go(t, "locked")
  /\ UNCHANGED <<key, used, finger, rotate, front>>

XorLock(t) ==
  /\ pc[t] = "idle" /\ Len(used) < MaxPackets
  /\ holder = None
  /\ holder' = t
  /\ Go(t, "locked")
  /\ UNCHANGED <<key, used, finger, rotate, front>>

(* process_outgoing_packet, process_incoming_packet, process_client_hello  *)
(* and obfuscate_payload come down to this call if XOR obfuscation is      *)
(* enabled, and to nothing otherwise.                                      *)
process_packet(t) == XorLock(t)

XorApply(t) ==
  /\ pc[t] = "locked"
  /\ used' = Append(used, key)
  /\ Go(t, "applied")
  /\ UNCHANGED <<key, holder, finger, rotate, front>>

XorRoll(t) ==
  /\ pc[t] = "applied"
  /\ key' = [key EXCEPT !.hashed = @ + 1]
  /\ holder' = None
  /\ Go(t, "idle")
  /\ UNCHANGED <<used, finger, rotate, front>>

rekey(t) ==
  /\ pc[t] = "idle" /\ holder = None
  /\ key.draw < MaxRekeys
  /\ key' = generate_session_key(key.draw + 1)
  /\ UNCHANGED <<pc, holder, used, finger, rotate, front>>

-----------------------------------------------------------------------------
(* The fingerprint *)

(* A ClientHello replaces the one of the configuration, nothing else. *)
inject_bytes(cfg, hello) == [cfg EXCEPT !.hello = hello, !.whole = FALSE]

(* apply_utls_profile holds the mutex throughout, so it is one step.  If   *)
(* the profile has no ClientHello the one already in the configuration     *)
(* stays.                                                                  *)
apply_utls_profile(t) ==
  LET fp == WithHello(fingerprint)
  IN  /\ pc[t] = "idle"
      /\ fingerprint' = fp
      /\ tls' = [(IF fp.hello # None THEN inject_bytes(tls, fp.hello) ELSE tls)
                    EXCEPT !.params = fp.profile, !.whole = TRUE]
      /\ UNCHANGED <<pc, setting, sets, xor, rotate, front>>

(* set_fingerprint_profile injects the ClientHello into the configuration  *)
(* it was given, if any, and then takes the mutex and stores the profile.  *)
SetInject(t, p, given) ==
  LET hello == WithHello(FingerprintProfile(p)).hello
  IN  /\ pc[t] = "idle" /\ sets < MaxSets
      /\ sets' = sets + 1
      /\ setting' = [setting EXCEPT ![t] = p]
      /\ tls' = IF given /\ hello # None
                THEN inject_bytes(tls, hello) ELSE tls
      /\ Go(t, "store")
      /\ UNCHANGED <<fingerprint, xor, rotate, front>>

(* mutant: only the name of the browser is replaced *)
SetStoreInPlace(t) ==
  /\ pc[t] = "store"
  /\ fingerprint' = [fingerprint EXCEPT !.profile = Parameters(setting[t])]
  /\ setting' = [setting EXCEPT ![t] = None]
  /\ Go(t, "idle")
  /\ UNCHANGED <<tls, sets, xor, rotate, front>>

SetStore(t) ==
  /\ pc[t] = "store"
  /\ fingerprint' = WithHello(FingerprintProfile(setting[t]))
  /\ setting' = [setting EXCEPT ![t] = None]
  /\ Go(t, "idle")
  /\ UNCHANGED <<tls, sets, xor, rotate, front>>

(* start_profile_rotation: the task wakes up, takes the next profile, and  *)
(* stores it like any other caller.                                        *)
NextIndexSticks == IF idx + 1 < Len(Rotation) THEN idx + 1 ELSE idx  \* mutant: no wrap-around
NextIndex == (idx + 1) % Len(Rotation)

RotateWake ==
  /\ task = "sleep"
  /\ idx' = NextIndex
  /\ task' = "store"
  /\ UNCHANGED <<pc, xor, finger, front>>

RotateStore ==
  /\ task = "store"
  /\ fingerprint' = WithHello(FingerprintProfile(Rotation[idx + 1]))
  /\ task' = "sleep"
  /\ UNCHANGED <<pc, setting, tls, sets, idx, xor, front>>

-----------------------------------------------------------------------------
(* get_connection_headers with fronting enabled: fetch_add, then the       *)
(* domain at that number modulo the length of the list.                    *)
get_fronted_domain(t) ==
  LET d == index % Domains
  IN  /\ pc[t] = "idle" /\ index < MaxRequests
      /\ index' = index + 1
      /\ fronted' = [fronted EXCEPT ![d] = @ + 1]
      /\ UNCHANGED <<pc, xor, finger, rotate>>

-----------------------------------------------------------------------------
Continue(t) == XorApply(t) \/ XorRoll(t) \/ SetStore(t)

Next ==
  \/ \E t \in Threads :
       \/ process_packet(t) \/ Continue(t) \/ rekey(t)
       \/ apply_utls_profile(t) \/ get_fronted_domain(t)
       \/ \E p \in Profiles, given \in BOOLEAN : SetInject(t, p, given)
  \/ RotateWake \/ RotateStore

Spec == Init /\ [][Next]_vars

(* A thread inside a call is scheduled, and so is the rotation task, whose *)
(* sleep ends.                                                             *)
FairSpec ==
  /\ Spec
  /\ \A t \in Threads : WF_vars(Continue(t))
  /\ WF_vars(RotateWake) /\ WF_vars(RotateStore)

-----------------------------------------------------------------------------
Keys == [draw : Nat, hashed : Nat]
Hellos == Profiles \cup {None}

(* A key from a later draw, or hashed more often since the same one. *)
Newer(k, l) == k.draw > l.draw \/ (k.draw = l.draw /\ k.hashed > l.hashed)

(* Whatever threads obfuscate, deobfuscate and rekey at the same time, no  *)
(* key is ever applied twice: each call uses one up.  Deobfuscating is a   *)
(* call too, so a manager cannot undo what it has obfuscated itself, and   *)
(* the round trip that the test outgoing_packet_obfuscation_cycle          *)
(* (tests/stealth.rs:17-20) asserts, outgoing and then incoming on one     *)
(* manager, never comes about.                                             *)
KeysNeverRepeat ==
  \A i, j \in 1 .. Len(used) : i < j => Newer(used[j], used[i])

(* The active profile always comes with its own ClientHello, if there is   *)
(* one on disk, however setters and the rotation task interleave; and a    *)
(* configuration that apply_utls_profile filled, and nobody changed since, *)
(* announces parameters and ClientHello of one and the same browser.       *)
OneBrowser ==
  /\ fingerprint.hello = load_client_hello(fingerprint.profile)
  /\ tls.whole /\ tls.params \in Dumped => tls.hello = tls.params

(* Rotation goes on for ever: each of its profiles becomes the active one  *)
(* again and again, also if other callers set profiles meanwhile.          *)
RotationRecurs ==
  \A i \in 1 .. Len(Rotation) : []<>(fingerprint.profile = Parameters(Rotation[i]))

=============================================================================
