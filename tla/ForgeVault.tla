----------------------------- MODULE ForgeVault -----------------------------
(***************************************************************************)
(* contracts/forge-vault: what the vault contract accepts.                 *)
(*                                                                         *)
(* A vault is the encrypted backup of an account's signing keys.  The      *)
(* address of a vault is a hash of the account's seed, so one account      *)
(* writes it: the guard on identity_fingerprint is not modelled.  The      *)
(* envelopes are modelled by the keys they hold ("settings" is left out),  *)
(* authorized_ops and api_key_wraps, which change together, by the API     *)
(* keys they name.                                                         *)
(***************************************************************************)
EXTENDS Naturals

CONSTANTS
  Prefix,  \* repositories: a site key and a Pages key each
  ApiKey,  \* keys the account may mint for its command line tools
  Scope,   \* Scope[k] : the envelopes API key k may change
  Owner,   \* signs with the identity's key
  None

ASSUME ScopeAssumption == Scope \in [ApiKey -> SUBSET {"repos", "pages"}]
ASSUME OwnerAssumption == Owner \notin ApiKey

\* sig_kind and sig are the signer, by.
Vault == [seq   : Nat \ {0},
          by    : ApiKey \cup {Owner},
          repos : SUBSET Prefix,
          pages : SUBSET Prefix,
          keys  : SUBSET ApiKey]

ASSUME NoneAssumption == None \notin Vault

\* validate_vault_state: an API key's signature counts if the state itself
\* authorizes the key.
Valid(next) == next.by = Owner \/ next.by \in next.keys

\* Mutant: the names of the envelopes are compared, not what is in them.
OpsDeltaAllowed_KeysOnly(prev, next) == next.keys = prev.keys

\* ops_envelope_delta_allowed
OpsDeltaAllowed(prev, next) ==
  /\ next.keys = prev.keys
  /\ next.repos # prev.repos => "repos" \in Scope[next.by]
  /\ next.pages # prev.pages => "pages" \in Scope[next.by]

\* Mutant: an update may repeat the seq.
MayUpsert_SameSeq(prev, next) ==
  /\ Valid(next)
  /\ IF prev = None THEN next.by = Owner
     ELSE /\ next.seq >= prev.seq
          /\ next.by # Owner => OpsDeltaAllowed(prev, next)

\* apply_upsert
MayUpsert(prev, next) ==
  /\ Valid(next)
  /\ IF prev = None THEN next.by = Owner
     ELSE /\ next.seq > prev.seq
          /\ next.by # Owner => OpsDeltaAllowed(prev, next)
=============================================================================
