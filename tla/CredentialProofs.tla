-------------------------- MODULE CredentialProofs --------------------------
(***************************************************************************)
(* What the credential store promises whoever uses it.  The theorems that  *)
(* the channel and the pairing routes use it only by its operations are in *)
(* AnnouncementProofs and LimiterProofs; that migrations leave credentials *)
(* as they are is in ServerProofs.                                         *)
(***************************************************************************)
EXTENDS CredentialStore, TLAPS

(* Every row of the table keeps its type. *)
THEOREM CredentialsKeepType == CredentialSpec => []CredentialTypeOK
<1>1. CredentialTypeOK /\ [CredentialNext]_credentialVars => CredentialTypeOK'
  <2> SUFFICES ASSUME CredentialTypeOK, [CredentialNext]_credentialVars PROVE CredentialTypeOK'
    OBVIOUS
  <2> USE CredentialAssumption DEF CredentialTypeOK
  <2>1. ASSUME NEW k \in Clients, IssueToken(k) PROVE CredentialTypeOK'
    BY <2>1 DEF IssueToken
  <2>2. ASSUME NEW k \in Clients, RevokeClient(k) PROVE CredentialTypeOK'
    BY <2>2 DEF RevokeClient
  <2>3. CASE UNCHANGED credentialVars
    BY <2>3 DEF credentialVars
  <2>4. QED BY <2>1, <2>2, <2>3 DEF CredentialNext
<1>2. QED BY <1>1, PTL DEF CredentialSpec

(* Generation numbers only grow, and a generation that was replaced or     *)
(* revoked never authenticates again: a new pairing starts a new one       *)
(* (PairingService.issue_token, revoke_client).                            *)
THEOREM DeadGenerationsStayDead ==
  CredentialSpec =>
    [][\A k \in Clients :
         /\ generation'[k] >= generation[k]
         /\ \A g \in 1..generation[k] :
              ~CredentialActive(k, g) => ~CredentialActive(k, g)']_credentialVars
<1> DEFINE Dead == \A k \in Clients :
             /\ generation'[k] >= generation[k]
             /\ \A g \in 1..generation[k] :
                  ~CredentialActive(k, g) => ~CredentialActive(k, g)'
<1>1. CredentialTypeOK /\ [CredentialNext]_credentialVars => [Dead]_credentialVars
  <2> SUFFICES ASSUME CredentialTypeOK, CredentialNext PROVE Dead
    OBVIOUS
  <2>0. \A j \in Clients : generation[j] \in Nat
    BY CredentialAssumption DEF CredentialTypeOK
  <2>1. ASSUME NEW k \in Clients, IssueToken(k) PROVE Dead
    <3>1. \A j \in Clients :
            /\ generation'[j] = IF j = k THEN generation[j] + 1 ELSE generation[j]
            /\ j # k => revoked'[j] = revoked[j]
      BY <2>1 DEF CredentialTypeOK, IssueToken
    <3>2. QED BY <2>0, <3>1 DEF CredentialActive
  <2>2. ASSUME NEW k \in Clients, RevokeClient(k) PROVE Dead
    <3>1. /\ UNCHANGED generation
          /\ \A j \in Clients : revoked[j] => revoked'[j]
      BY <2>2 DEF CredentialTypeOK, RevokeClient
    <3>2. QED BY <2>0, <3>1 DEF CredentialActive
  <2>3. QED BY <2>1, <2>2 DEF CredentialNext
<1>2. QED BY <1>1, CredentialsKeepType, PTL DEF CredentialSpec
=============================================================================
