---------------------------- MODULE TlsMaterial ----------------------------
(***************************************************************************)
(* TlsMaterialStore of src/server/app/tls.py: the private CA and the leaf  *)
(* certificate of a server, four files in one directory that several       *)
(* server processes may prepare at the same time, under a file lock that   *)
(* the operating system releases when its holder dies.                     *)
(*                                                                         *)
(* A key pair is a number drawn once; a private key file holds that number *)
(* and a certificate names it, so two of them match when the numbers do.   *)
(* Each file is replaced as a whole, one after the other: a process that   *)
(* dies between two of them leaves the set half replaced.                  *)
(***************************************************************************)
EXTENDS Integers

CONSTANTS Procs,          \* server processes
          Addresses,      \* what a machine may be reached by (the identities)
          Home,           \* the address at first
          Backdate,       \* not_valid_before lies this much in the past
          LeafValidity,   \* _LEAF_VALIDITY
          CaValidity,     \* _CA_VALIDITY
          Margin,         \* _LEAF_RENEWAL_MARGIN
          MaxLag          \* how long a process may wait for the file lock

ASSUME TlsAssumption ==
  /\ Home \in Addresses
  /\ Backdate \in Nat
  /\ CaValidity \in Nat
  /\ Margin \in Nat
  /\ MaxLag \in Nat
  /\ LeafValidity \in Nat
  /\ LeafValidity > Margin + MaxLag

NoKey      == 0
NoAddress  == "none"
NoCa       == [key |-> NoKey, from |-> 0, until |-> 0]
NoLeaf     == [key |-> NoKey, issuer |-> NoKey, hosts |-> NoAddress, from |-> 0, until |-> 0]

(* The stages of a start, each named for what the process does next. *)
WriteStages == {"caCert", "caKey", "chain", "leafKey"}
LockStages  == WriteStages \cup {"release"}
Stages      == {"down", "clock", "authority", "version", "migrate", "load", "pair", "ready"}
               \cup LockStages

CaCerts   == [key : Nat, from : Int, until : Int]
LeafCerts == [key : Nat, issuer : Nat, hosts : Addresses \cup {NoAddress}, from : Int, until : Int]

(* What a process remembers: the time and the addresses it started with,   *)
(* the certificates in its hands, the CA of the chain it loaded, and the   *)
(* schema version it read.                                                 *)
Idle == [stage |-> "down", now |-> 0, hosts |-> NoAddress, ca |-> NoCa, leaf |-> NoLeaf,
         sent |-> NoCa, seen |-> 0]

VARIABLES clock,          \* the machine's time
          address,        \* the configured identities
          files,          \* ca-cert.pem, ca-key.pem, leaf-chain.pem, leaf-key.pem
          keys,           \* key pairs drawn so far
          materialLock,   \* the holder of .tls-material.lock, if any
          proc,           \* the processes
          torn            \* history: a process died or failed with files still to write

tlsVars == <<clock, address, files, keys, materialLock, torn>>

TlsTypeOK ==
  /\ clock \in Nat
  /\ address \in Addresses
  /\ files \in [caCert : CaCerts, caKey : Nat, leaf : LeafCerts, chainCa : CaCerts,
                leafKey : Nat]
  /\ keys \in Nat
  /\ materialLock \subseteq Procs
  /\ proc \in [Procs -> [stage : Stages, now : Nat, hosts : Addresses \cup {NoAddress},
                         ca : CaCerts, leaf : LeafCerts, sent : CaCerts, seen : Nat]]
  /\ torn \in BOOLEAN

(* _create_ca, and the leaf certificate of _write_leaf. *)

NewCa(key, t) == [key |-> key, from |-> t - Backdate, until |-> t + CaValidity]

NewLeaf(key, ca, hosts, t) ==
  [key |-> key, issuer |-> ca.key, hosts |-> hosts, from |-> t - Backdate,
   until |-> t + LeafValidity]

(* An empty directory, or what an earlier start left there.                *)
Missing == [caCert |-> NoCa, caKey |-> NoKey, leaf |-> NoLeaf, chainCa |-> NoCa,
            leafKey |-> NoKey]

Installed == LET ca == NewCa(1, 0)
             IN [caCert |-> ca, caKey |-> 1, leaf |-> NewLeaf(2, ca, Home, 0),
                 chainCa |-> ca, leafKey |-> 2]

TlsInit ==
  /\ clock = 0
  /\ address = Home
  /\ \/ files = Missing /\ keys = 0
     \/ files = Installed /\ keys = 2
  /\ materialLock = {}
  /\ proc = [p \in Procs |-> Idle]
  /\ torn = FALSE

Running(p) == proc[p].stage # "down"

-----------------------------------------------------------------------------
(* What is on the disk. *)

(* Mutation: a CA that lacks a file is made anew. *)
CaMissing == files.caCert.key = NoKey \/ files.caKey = NoKey

NonePresent == /\ files.caCert.key = NoKey
               /\ files.caKey = NoKey
               /\ files.leaf.key = NoKey
               /\ files.leafKey = NoKey

AllPresent == /\ files.caCert.key # NoKey
              /\ files.caKey # NoKey
              /\ files.leaf.key # NoKey
              /\ files.leafKey # NoKey

(* _validate_ca. *)
CaValid(t) == /\ files.caCert.key = files.caKey
              /\ files.caCert.from <= t
              /\ t < files.caCert.until

(* _validate_leaf, but for the identities. *)
LeafValid(t) == /\ files.chainCa = files.caCert
                /\ files.leaf.key = files.leafKey
                /\ files.leaf.issuer = files.caCert.key
                /\ files.leaf.from <= t

(* _load_and_validate_material raises nothing, or only the identity        *)
(* mismatch, which has the leaf renewed.                                   *)
Accepted(t) == AllPresent /\ CaValid(t) /\ LeafValid(t)

(* Mutation: the leaf is renewed when it has expired. *)
ExpiringLate(t) == files.leaf.until <= t

(* _leaf_needs_renewal. *)
Expiring(t) == files.leaf.until <= t + Margin

-----------------------------------------------------------------------------
(* ensure.  The clock is read before the lock is taken. *)

Launched(p) == [proc EXCEPT ![p].stage = "clock", ![p].now = clock, ![p].hosts = address]

(* Mutation: there is no lock. *)
LockAlways == TRUE

LockFree == materialLock = {}

TakeLock(p) ==
  /\ proc[p].stage = "clock"
  /\ LockFree
  /\ materialLock' = materialLock \cup {p}
  /\ UNCHANGED <<clock, address, files, torn>>

(* No file is there: a CA and a leaf are drawn, and written one by one. *)
CreateMaterial(p) ==
  /\ TakeLock(p)
  /\ NonePresent
  /\ LET ca == NewCa(keys + 1, proc[p].now)
     IN proc' = [proc EXCEPT ![p].stage = "caCert", ![p].ca = ca,
                   ![p].leaf = NewLeaf(keys + 2, ca, proc[p].hosts, proc[p].now)]
  /\ keys' = keys + 2

(* The leaf is for other addresses, or expires soon. *)
RenewLeaf(p) ==
  /\ TakeLock(p)
  /\ Accepted(proc[p].now)
  /\ files.leaf.hosts # proc[p].hosts \/ Expiring(proc[p].now)
  /\ proc' = [proc EXCEPT ![p].stage = "chain", ![p].ca = files.caCert,
                ![p].leaf = NewLeaf(keys + 1, files.caCert, proc[p].hosts, proc[p].now)]
  /\ keys' = keys + 1

KeepMaterial(p) ==
  /\ TakeLock(p)
  /\ Accepted(proc[p].now)
  /\ files.leaf.hosts = proc[p].hosts
  /\ ~Expiring(proc[p].now)
  /\ proc' = [proc EXCEPT ![p].stage = "release"]
  /\ UNCHANGED keys

(* The files are incomplete or do not fit: the process ends. *)
RefuseMaterial(p) ==
  /\ proc[p].stage = "clock"
  /\ LockFree
  /\ ~NonePresent
  /\ ~Accepted(proc[p].now)
  /\ proc' = [proc EXCEPT ![p] = Idle]
  /\ UNCHANGED tlsVars

(* msvcrt.locking gives up after ten attempts. *)
LockUnavailable(p) ==
  /\ proc[p].stage = "clock"
  /\ ~LockFree
  /\ proc' = [proc EXCEPT ![p] = Idle]
  /\ UNCHANGED tlsVars

(* _atomic_write of the four files, in the order of the code. *)
WriteFile(p, stage, next, replaced) ==
  /\ proc[p].stage = stage
  /\ files' = replaced
  /\ proc' = [proc EXCEPT ![p].stage = next]
  /\ UNCHANGED <<clock, address, keys, materialLock, torn>>

WriteCaCert(p) == WriteFile(p, "caCert", "caKey", [files EXCEPT !.caCert = proc[p].ca])
WriteCaKey(p) == WriteFile(p, "caKey", "chain", [files EXCEPT !.caKey = proc[p].ca.key])
WriteChain(p) == WriteFile(p, "chain", "leafKey",
                   [files EXCEPT !.leaf = proc[p].leaf, !.chainCa = proc[p].ca])
WriteLeafKey(p) == WriteFile(p, "leafKey", "release",
                     [files EXCEPT !.leafKey = proc[p].leaf.key])

(* A process ends, whatever it was doing; its file lock is released.  It   *)
(* may leave files unwritten.                                              *)
Abandon(p) ==
  /\ proc' = [proc EXCEPT ![p] = Idle]
  /\ materialLock' = materialLock \ {p}
  /\ torn' = (torn \/ proc[p].stage \in WriteStages)
  /\ UNCHANGED <<clock, address, keys>>

(* _restrict_private_file raises after the key was put in place. *)
RestrictFails(p) ==
  /\ \/ /\ proc[p].stage = "caKey"
        /\ files' = [files EXCEPT !.caKey = proc[p].ca.key]
     \/ /\ proc[p].stage = "leafKey"
        /\ files' = [files EXCEPT !.leafKey = proc[p].leaf.key]
  /\ Abandon(p)

(* Mutation: the lock is kept for the life of the process. *)
ReleaseNothing(p) ==
  /\ proc[p].stage = "release"
  /\ proc' = [proc EXCEPT ![p].stage = "authority", ![p].ca = NoCa, ![p].leaf = NoLeaf]
  /\ UNCHANGED tlsVars

ReleaseLock(p) ==
  /\ proc[p].stage = "release"
  /\ materialLock' = materialLock \ {p}
  /\ proc' = [proc EXCEPT ![p].stage = "authority", ![p].ca = NoCa, ![p].leaf = NoLeaf]
  /\ UNCHANGED <<clock, address, files, keys, torn>>

(* Time passes, but not while a process waits too long with a time it read *)
(* before the lock.                                                        *)
Tick ==
  /\ \A p \in Procs : proc[p].stage = "clock" => clock < proc[p].now + MaxLag
  /\ clock' = clock + 1
  /\ UNCHANGED <<address, files, keys, materialLock, proc, torn>>

(* The machine gets another address. *)
Move ==
  /\ address' \in Addresses \ {address}
  /\ UNCHANGED <<clock, files, keys, materialLock, proc, torn>>

Prepare(p) ==
  \/ CreateMaterial(p)
  \/ RenewLeaf(p)
  \/ KeepMaterial(p)
  \/ RefuseMaterial(p)
  \/ WriteCaCert(p)
  \/ WriteCaKey(p)
  \/ WriteChain(p)
  \/ WriteLeafKey(p)
  \/ ReleaseLock(p)

-----------------------------------------------------------------------------
(* Once a CA is in place phones trust it: no start, renewal, crash or race *)
(* replaces it (CHANGELOG.md:21, tls.py:90-121).                           *)
AuthorityIsKept ==
  [][files.caCert.key # NoKey => files'.caCert = files.caCert]_files

(* A set of files that the next start would refuse, but for the time, is   *)
(* left by a process that died or failed while it wrote, by nothing else:  *)
(* processes that start together never mix their files (tls.py:531).       *)
FilesFit == /\ AllPresent
            /\ files.caCert.key = files.caKey
            /\ files.chainCa = files.caCert
            /\ files.leaf.key = files.leafKey
            /\ files.leaf.issuer = files.caCert.key

TornOnlyByFailure == materialLock = {} /\ ~torn => NonePresent \/ FilesFit
=============================================================================
