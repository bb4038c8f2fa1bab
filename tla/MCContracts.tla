---------------------------- MODULE MCContracts ----------------------------
(***************************************************************************)
(* Four contracts, and the session that first Puts two of them: they share *)
(* no state and are checked in one run.  part names the one a behaviour is *)
(* about, the others stay as they started.                                 *)
(***************************************************************************)
EXTENDS ForgeProfile, ForgeRepoMeta, ForgeStars, VaultReplicas, AccountSession

VARIABLE part

MCSignsAs == [c \in MetaClient |-> CHOOSE o \in MetaOwner : TRUE]
MCScope == [k \in ApiKey |-> {"repos"}]

mcVars == <<profileVars, metaVars, starVars, replicaVars, accountVars, part>>

MCInit ==
  /\ part \in {"profile", "meta", "stars", "vault", "account"}
  /\ ProfileInit /\ (part # "profile" => legacy = NoProfile)
  /\ MetaInit    /\ (part # "meta" => \A n \in MetaHost : ~Exists(meta[n]))
  /\ StarsInit
  /\ ReplicasInit
  /\ AccountInit /\ (part # "account" => known = {})

MCNext ==
  \/ /\ part = "profile" /\ ProfileNext
     /\ UNCHANGED <<metaVars, starVars, replicaVars, accountVars, part>>
  \/ /\ part = "meta" /\ MetaNext
     /\ UNCHANGED <<profileVars, starVars, replicaVars, accountVars, part>>
  \/ /\ part = "stars" /\ StarsNext
     /\ UNCHANGED <<profileVars, metaVars, replicaVars, accountVars, part>>
  \/ /\ part = "vault" /\ ReplicasNext
     /\ UNCHANGED <<profileVars, metaVars, starVars, accountVars, part>>
  \/ /\ part = "account" /\ AccountNext
     /\ UNCHANGED <<profileVars, metaVars, starVars, replicaVars, part>>

\* The fairness of the part that is followed: ProfileFairness, StarsFairness,
\* ReplicasFairness and AccountFairness.
PartFairness ==
  /\ \A n, o \in Host : n # o => WF_profileVars(part = "profile" /\ SyncProfile(n, o))
  /\ \A n, o \in StarHost : n # o => WF_starVars(part = "stars" /\ SyncStars(n, o))
  /\ \A n, o \in VaultHost : n # o => WF_replicaVars(part = "vault" /\ SyncVaults(n, o))
  /\ WF_accountVars(part = "account" /\ AccountWork)
  /\ WF_accountVars(part = "account" /\ EnsureEffect)
  /\ WF_accountVars(part = "account" /\ SkeletonCap)

MCSpec == MCInit /\ [][MCNext]_mcVars /\ PartFairness

\* The states of all five are well formed.
ContractsTypeOK ==
  ProfileTypeOK /\ MetaTypeOK /\ StarsTypeOK /\ ReplicasTypeOK /\ AccountTypeOK
\* Replicas that go on exchanging their states (forge-profile, forge-stars and
\* forge-vault, merge and validate) come to agree for good: the profile is one
\* everywhere once its owner stops, a star has reached every node, and the copies
\* of a vault that parted are together once the owner has written past both.
ReplicasMeet ==
  <>[](OwnerRests /\ (part = "vault" => OwnerWroteLast))
    => <>[](ProfileCopiesMeet /\ StarReachesAll /\ VaultCopiesMeet)
=============================================================================
