--------------------------- MODULE CredentialStore ---------------------------
(***************************************************************************)
(* The paired_clients table of src/server/app/pairing.py: one row per      *)
(* device with the generation of its current token and its revocation      *)
(* mark.  A token is known by the generation it was issued for, because    *)
(* issue_token draws a fresh random token whose hash replaces the row's.   *)
(* Generation 0 stands for a device that was never paired.                 *)
(***************************************************************************)
EXTENDS Naturals

CONSTANTS Clients,         \* device identifiers (client_id)
          MaxGeneration    \* bound on the pairings of one device

ASSUME CredentialAssumption == MaxGeneration \in Nat \ {0}

VARIABLES generation,      \* credential_generation
          revoked          \* revoked_at IS NOT NULL

credentialVars == <<generation, revoked>>

CredentialTypeOK == /\ generation \in [Clients -> 0..MaxGeneration]
                    /\ revoked \in [Clients -> BOOLEAN]

(* active_credential_generation and is_credential_generation_active: the   *)
(* row must exist, carry this generation, and not be revoked.              *)
CredentialActive(k, g) == g > 0 /\ generation[k] = g /\ ~revoked[k]

(* issue_token pairs a new device or replaces the token of a known one,    *)
(* clearing the revocation mark.                                           *)
IssueToken(k) ==
  /\ generation[k] < MaxGeneration
  /\ generation' = [generation EXCEPT ![k] = @ + 1]
  /\ revoked' = [revoked EXCEPT ![k] = FALSE]

(* revoke_client returns without a write when it is revoked already. *)
RevokeClient(k) ==
  /\ generation[k] > 0
  /\ revoked' = [revoked EXCEPT ![k] = TRUE]
  /\ UNCHANGED generation

CredentialNext == \E k \in Clients : IssueToken(k) \/ RevokeClient(k)

CredentialSpec == CredentialTypeOK /\ [][CredentialNext]_credentialVars
=============================================================================
