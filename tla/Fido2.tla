----------------------------- MODULE Fido2 ------------------------------
(***************************************************************************)
(* YubiKeys, as the threads of the program use them through libfido2.      *)
(* One global mutex is held for the whole of an operation, also while the  *)
(* key waits to be touched.  The path of the key is cached for some        *)
(* seconds, and keys come and go at any time.                              *)
(*                                                                         *)
(* Each thread has a YubiKeyManager of its own, which lives as long as one *)
(* call of VaultYubiKeyService: what it has loaded ends with the challenge.*)
(***************************************************************************)
EXTENDS Naturals, FiniteSets

CONSTANTS
    Keys,       \* the YubiKeys there are
    Ports,      \* the paths of devices
    Threads,
    Creds,      \* the ids of credentials
    NoKey, NoPort, NoThread, NoCred,
    Lost        \* a device that was opened and unplugged since

VARIABLES
    plugged,    \* the key at each port
    cached,     \* cached_yubikey_path, while it is younger than cache_duration
    holder,     \* the thread that holds fido2_mutex
    dev,        \* the device that each thread has opened
    cred,       \* the credential loaded into each thread's manager
    resident    \* the credentials that each key holds

fidoVars == <<plugged, cached, holder, dev, cred, resident>>

FidoTypeOK ==
    /\ plugged \in [Ports -> Keys \cup {NoKey}]
    /\ cached \in Ports \cup {NoPort}
    /\ holder \in Threads \cup {NoThread}
    /\ dev \in [Threads -> Keys \cup {NoKey, Lost}]
    /\ cred \in [Threads -> Creds \cup {NoCred}]
    /\ resident \in [Keys -> SUBSET Creds]

FidoInit ==
    /\ plugged = [p \in Ports |-> NoKey] /\ cached = NoPort
    /\ holder = NoThread
    /\ dev = [t \in Threads |-> NoKey] /\ cred = [t \in Threads |-> NoCred]
    /\ resident = [k \in Keys |-> {}]

Used == {p \in Ports : plugged[p] # NoKey}

\* find_yubikey_path: an empty path, also that of a failed search, is never
\* taken from the cache.
Finds(p) ==
    /\ p \in IF cached # NoPort THEN {cached} ELSE Used \cup {NoPort}
    /\ cached' = p

\* A cached path may be of a key that is gone, and opening may fail anyway.
Opens(p) == p \in Used

Free == holder = NoThread

-----------------------------------------------------------------------------
(* The operations of YubiKeyManager.  ok is what they return. *)

IsPresent(t, ok) ==
    /\ Free
    /\ \E p \in Ports \cup {NoPort} : Finds(p) /\ ok = (p # NoPort)
    /\ UNCHANGED <<plugged, holder, dev, cred, resident>>

\* The device is opened, asked and closed again.
GetDeviceInfo(t, ok) ==
    /\ Free
    /\ \E p \in Ports \cup {NoPort} : Finds(p) /\ (ok => Opens(p))
    /\ UNCHANGED <<plugged, holder, dev, cred, resident>>

SetCredential(t, c) ==
    /\ cred' = [cred EXCEPT ![t] = c]
    /\ UNCHANGED <<plugged, cached, holder, dev, resident>>

\* An operation that needs a touch returns at once, without the mutex ...
Refused(t) ==
    /\ Free
    /\ \E p \in Ports \cup {NoPort} : Finds(p)
    /\ cred' = [cred EXCEPT ![t] = NoCred]
    /\ UNCHANGED <<plugged, holder, dev, resident>>

\* ... or opens the device and waits, with it.
Waits(t) ==
    /\ Free
    /\ \E p \in Ports : Finds(p) /\ Opens(p) /\ dev' = [dev EXCEPT ![t] = plugged[p]]
    /\ holder' = t
    /\ UNCHANGED <<plugged, cred, resident>>

\* Mutant: the device stays open when the operation failed.
Returns_Open(t, ok) ==
    /\ holder = t
    /\ holder' = NoThread
    /\ dev' = IF ok THEN [dev EXCEPT ![t] = NoKey] ELSE dev
    /\ UNCHANGED <<plugged, cached>>
\* Whatever comes of it, the device is closed before the mutex is released.
Returns(t, ok) ==
    /\ holder = t
    /\ holder' = NoThread
    /\ dev' = [dev EXCEPT ![t] = NoKey]
    /\ UNCHANGED <<plugged, cached>>

\* The new credential stays on the key and is loaded into the manager.
CreateCredential(t, c, ok) ==
    /\ Returns(t, ok)
    /\ IF ok
       THEN /\ dev[t] \in Keys
            /\ resident' = [resident EXCEPT ![dev[t]] = @ \cup {c}]
            /\ cred' = [cred EXCEPT ![t] = c]
       ELSE UNCHANGED <<cred, resident>>

\* Only the key that holds the credential answers for it.  The manager is not
\* used again.
ChallengeResponse(t, ok) ==
    /\ Returns(t, ok)
    /\ ok => dev[t] \in Keys /\ cred[t] \in resident[dev[t]]
    /\ cred' = [cred EXCEPT ![t] = NoCred]
    /\ UNCHANGED resident

-----------------------------------------------------------------------------
(* The user and the clock *)

PlugIn(k, p) ==
    /\ plugged[p] = NoKey /\ \A q \in Ports : plugged[q] # k
    /\ plugged' = [plugged EXCEPT ![p] = k]
    /\ UNCHANGED <<cached, holder, dev, cred, resident>>

\* A device that is open is lost, also when the key is plugged in again.
Unplug(p) ==
    /\ plugged[p] # NoKey
    /\ plugged' = [plugged EXCEPT ![p] = NoKey]
    /\ dev' = [t \in Threads |-> IF dev[t] = plugged[p] THEN Lost ELSE dev[t]]
    /\ UNCHANGED <<cached, holder, cred, resident>>

CacheExpires ==
    /\ cached # NoPort
    /\ cached' = NoPort
    /\ UNCHANGED <<plugged, holder, dev, cred, resident>>

\* Whatever goes wrong with a key, no thread has a device open without the
\* mutex: libfido2 is never used by two threads at once, and the next operation
\* of a manager does not go to a device that an earlier one left open.
DeviceUnderMutex == \A t \in Threads : dev[t] # NoKey => holder = t
=============================================================================
