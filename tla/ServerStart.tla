---------------------------- MODULE ServerStart ----------------------------
(***************************************************************************)
(* The start of a server, src/server/app/runner.py with create_app of      *)
(* main.py and initialize of db.py: TLS material, the CA that phones will  *)
(* be given, the database migration, the certificate files that uvicorn    *)
(* loads, the port.  Several processes may run it on one directory, one    *)
(* database and one port; only the first part is under a lock, and every   *)
(* one of them may end anywhere.                                           *)
(***************************************************************************)
EXTENDS TlsMaterial, SchemaMigration

CONSTANT Versions    \* schema versions of the databases that are found

ASSUME VersionsAssumption == Versions \subseteq Nat

VARIABLE listening   \* the process that is bound to the port, if any

startVars == <<tlsVars, proc, db, listening>>

StartTypeOK == /\ TlsTypeOK
               /\ SchemaTypeOK
               /\ listening \subseteq Procs

StartInit == /\ TlsInit
             /\ db \in UNION {StoredAt(v) : v \in Versions}
             /\ listening = {}

(* uvicorn has the certificate and the port, and answers. *)
Serving(p) == proc[p].stage = "ready" /\ p \in listening

-----------------------------------------------------------------------------
(* A process ends: its lock and its port are free again. *)
Exit(p) == /\ Abandon(p)
           /\ listening' = listening \ {p}
           /\ UNCHANGED <<files, db>>

PrepareMaterial(p) == Prepare(p) /\ UNCHANGED <<db, listening>>

FailToLock(p) == LockUnavailable(p) /\ UNCHANGED <<db, listening>>

FailToRestrict(p) == RestrictFails(p) /\ UNCHANGED <<db, listening>>

(* runner.main reads ca-cert.pem, which the pairing routes will show. *)
ReadAuthority(p) ==
  /\ proc[p].stage = "authority"
  /\ proc' = [proc EXCEPT ![p].stage = "version", ![p].ca = files.caCert]
  /\ UNCHANGED <<tlsVars, db, listening>>

(* The first half of migrate: the version, and whether the schema is what  *)
(* it says.                                                                *)
ReadVersion(p) ==
  /\ proc[p].stage = "version"
  /\ IF db.version > LatestVersion \/ ~SchemaComplete(db.version)
     THEN Exit(p)
     ELSE /\ proc' = [proc EXCEPT ![p].seen = db.version,
                        ![p].stage = IF db.version = LatestVersion THEN "load" ELSE "migrate"]
          /\ UNCHANGED <<tlsVars, db, listening>>

(* The second half, for the version that was read. *)
Migrate(p) ==
  /\ proc[p].stage = "migrate"
  /\ db' = Migrated(db, proc[p].seen)
  /\ proc' = [proc EXCEPT ![p] =
                IF MigrationFails(db, proc[p].seen) THEN Idle ELSE [@ EXCEPT !.stage = "load"]]
  /\ UNCHANGED <<tlsVars, listening>>

(* uvicorn loads leaf-chain.pem, then leaf-key.pem, without the file lock; *)
(* a key that does not belong to the certificate ends the process.         *)
LoadChain(p) ==
  /\ proc[p].stage = "load"
  /\ proc' = [proc EXCEPT ![p].stage = "pair", ![p].leaf = files.leaf, ![p].sent = files.chainCa]
  /\ UNCHANGED <<tlsVars, db, listening>>

LoadKey(p) ==
  /\ proc[p].stage = "pair"
  /\ IF files.leafKey = proc[p].leaf.key
     THEN /\ proc' = [proc EXCEPT ![p].stage = "ready"]
          /\ UNCHANGED <<tlsVars, db, listening>>
     ELSE Exit(p)

(* The port is bound before the certificate is loaded when there are two   *)
(* addresses to bind, afterwards when there is one.                        *)
Bind(p) ==
  /\ proc[p].stage \in {"load", "ready"}
  /\ p \notin listening
  /\ IF listening = {}
     THEN /\ listening' = {p}
          /\ UNCHANGED <<tlsVars, proc, db>>
     ELSE Exit(p)

Start(p) ==
  \/ PrepareMaterial(p)
  \/ ReadAuthority(p)
  \/ ReadVersion(p)
  \/ Migrate(p)
  \/ LoadChain(p)
  \/ LoadKey(p)
  \/ Bind(p)

(* A server that answers pairs and revokes devices. *)
Pair(p, k) == Serving(p) /\ IssueToken(k) /\ UNCHANGED <<tlsVars, proc, listening>>

Revoke(p, k) == Serving(p) /\ RevokeClient(k) /\ UNCHANGED <<tlsVars, proc, listening>>

Pass == Tick /\ UNCHANGED <<db, listening>>

Readdress == Move /\ UNCHANGED <<db, listening>>

-----------------------------------------------------------------------------
(* A server that answers presents a chain whose CA is the one on the disk  *)
(* and the one it gives to phones, and whose leaf that CA signed; its      *)
(* database is at the latest version (runner.py:60, tls.py:121).           *)
ServedChainVerifies ==
  \A p \in Procs : Serving(p) =>
    /\ proc[p].ca = files.caCert
    /\ proc[p].sent = files.caCert
    /\ proc[p].leaf.issuer = files.caCert.key
    /\ db.version = LatestVersion

(* The leaf a server loads has more than the renewal margin left, counted  *)
(* from the time it started with, also when another process renewed it in  *)
(* between (tls.py:458).                                                   *)
ServedLeafIsFresh ==
  \A p \in Procs : proc[p].stage \in {"pair", "ready"} =>
    proc[p].leaf.until > proc[p].now + Margin

(* A start ends: the server answers or the process is gone.  A lock that   *)
(* is never released, or a process that waits for it for ever, would       *)
(* violate it (tls.py:531).                                                *)
StartsEnd == \A p \in Procs :
               proc[p].stage = "clock" ~> Serving(p) \/ ~Running(p)
=============================================================================
