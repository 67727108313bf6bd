-------------------------- MODULE SchemaMigration --------------------------
(***************************************************************************)
(* migrate of src/server/app/migrations.py: one transaction that brings    *)
(* the SQLite schema to the latest version.  The version is read before    *)
(* the transaction begins, so two processes may both decide to migrate;    *)
(* what the second one then does to a database that is no longer the one   *)
(* it looked at is what this module is about.                              *)
(*                                                                         *)
(* The schema is the set of what it offers.  A row of the paired_clients   *)
(* table before version 3 has no generation column; it counts as           *)
(* generation 1, which is what _migrate_v3 makes of it.                    *)
(***************************************************************************)
EXTENDS Naturals

CONSTANTS Clients,         \* device identifiers (client_id)
          MaxGeneration    \* bound on the pairings of one device

ASSUME MigrationAssumption == MaxGeneration \in Nat \ {0}

LatestVersion == 5

VARIABLE db

(* What each version offers. *)
SchemaAt(v) ==
  {t \in {"profiles", "paired_clients", "paired_client_audit", "session_actor",
          "builtin_installations"} :
     v >= CASE t = "profiles"              -> 1
            [] t = "paired_clients"        -> 2
            [] t = "paired_client_audit"   -> 3
            [] t = "session_actor"         -> 4
            [] t = "builtin_installations" -> 5}

(* A database that some release left: audit rows exist from version 3 on,  *)
(* one at least for every paired device.                                   *)
StoredAt(v) ==
  {d \in [version : {v}, schema : {SchemaAt(v)}, generation : [Clients -> 0..MaxGeneration],
          revoked : [Clients -> BOOLEAN], audit : SUBSET Clients] :
     /\ \A k \in Clients :
          /\ v < 2 => d.generation[k] = 0
          /\ v < 3 => d.generation[k] <= 1 /\ ~d.revoked[k]
          /\ d.generation[k] = 0 => ~d.revoked[k]
     /\ d.audit = IF v < 3 THEN {} ELSE {k \in Clients : d.generation[k] > 0}}

SchemaTypeOK ==
  /\ db.version \in Nat
  /\ db.schema \subseteq SchemaAt(LatestVersion)
  /\ db.generation \in [Clients -> 0..MaxGeneration]
  /\ db.revoked \in [Clients -> BOOLEAN]
  /\ db.audit \subseteq Clients

-----------------------------------------------------------------------------
(* The five steps.  The statements of versions 1, 2 and 5 say IF NOT       *)
(* EXISTS, and version 4 copies the audit table, so these may be repeated. *)

V1(d) == [d EXCEPT !.schema = @ \cup {"profiles"}, !.version = 1]

V2(d) == [d EXCEPT !.schema = @ \cup {"paired_clients"}, !.version = 2]

(* Mutation: CREATE TABLE IF NOT EXISTS for the audit table, without       *)
(* foreign keys.                                                           *)
V3Never(d) == FALSE

(* _migrate_v3 fails when an audit row refers to the table it drops, or    *)
(* when there is an audit table already.                                   *)
V3Fails(d) == d.audit # {} \/ "paired_client_audit" \in d.schema

(* Mutation: the new table is not renamed. *)
V3Unnamed(d) == [d EXCEPT !.schema = (@ \ {"paired_clients"}) \cup
                                     {"paired_clients_v3", "paired_client_audit"},
                          !.generation = [k \in Clients |-> IF @[k] = 0 THEN 0 ELSE 1],
                          !.revoked = [k \in Clients |-> FALSE],
                          !.audit = {k \in Clients : d.generation[k] > 0},
                          !.version = 3]

(* Every row starts over at generation 1, not revoked. *)
V3(d) == [d EXCEPT !.schema = @ \cup {"paired_client_audit"},
                   !.generation = [k \in Clients |-> IF @[k] = 0 THEN 0 ELSE 1],
                   !.revoked = [k \in Clients |-> FALSE],
                   !.audit = {k \in Clients : d.generation[k] > 0},
                   !.version = 3]

V4(d) == [d EXCEPT !.schema = @ \cup {"session_actor"}, !.version = 4]

V5(d) == [d EXCEPT !.schema = @ \cup {"builtin_installations"}, !.version = 5]

(* Mutation: every statement commits by itself. *)
RolledBackNot(before, reached) == reached

(* connection.rollback(). *)
RolledBack(before, reached) == before

(* The transaction of a process that read version seen. *)
UpTo2(d, seen) ==
  IF seen < 1 THEN V2(V1(d)) ELSE IF seen < 2 THEN V2(d) ELSE d

MigrationFails(d, seen) == seen < 3 /\ V3Fails(UpTo2(d, seen))

Migrated(d, seen) ==
  IF MigrationFails(d, seen) THEN RolledBack(d, UpTo2(d, seen))
  ELSE IF seen < 3 THEN V5(V4(V3(UpTo2(d, seen))))
  ELSE IF seen < 4 THEN V5(V4(d))
  ELSE V5(d)

(* _schema_is_complete for the version that was read; of versions 3 and 4  *)
(* only what version 2 has is looked for.                                  *)
SchemaComplete(seen) == SchemaAt(IF seen \in {3, 4} THEN 2 ELSE seen) \subseteq db.schema

-----------------------------------------------------------------------------
(* issue_token and revoke_client of pairing.py, with their audit rows. *)

IssueToken(k) ==
  /\ db.generation[k] < MaxGeneration
  /\ db' = [db EXCEPT !.generation[k] = @ + 1, !.revoked[k] = FALSE,
                      !.audit = @ \cup {k}]

RevokeClient(k) ==
  /\ db.generation[k] > 0
  /\ db' = [db EXCEPT !.revoked[k] = TRUE, !.audit = @ \cup {k}]

-----------------------------------------------------------------------------
(* The schema is whole: it offers what its version says, no more and no    *)
(* less, whoever migrated it and whoever failed to (migrations.py:365).    *)
SchemaIsWhole == db.version <= LatestVersion => db.schema = SchemaAt(db.version)

(* To the credential store a migration is nothing: a device's generation   *)
(* and its revocation change by pairings and revocations only, whatever    *)
(* version the process that migrates believes in (migrations.py:350).      *)
Credentials == INSTANCE CredentialStore
                 WITH generation <- db.generation, revoked <- db.revoked

MigrationsKeepCredentials ==
  [][\E k \in Clients : Credentials!IssueToken(k) \/ Credentials!RevokeClient(k)]_(Credentials!credentialVars)
=============================================================================
