----------------------------- MODULE ForgeStars -----------------------------
(***************************************************************************)
(* Stars of one repository: the forge-stars contract, one state for the    *)
(* whole network (contracts/forge-stars/src/lib.rs), its copies, and the   *)
(* clients that star and unstar (forge-stars.ts).                          *)
(*                                                                         *)
(* A star is kept with the date its identity signed, but dates order       *)
(* nothing: a star overwrites, an unstar removes and leaves no trace, and  *)
(* the state of a peer is merged by applying its stars one by one.         *)
(***************************************************************************)
EXTENDS Naturals, FiniteSets

CONSTANTS
  StarHost,    \* nodes that may host the contract
  Stargazer,   \* identities
  Fickle,      \* those among them that may unstar
  MaxStarTime  \* bound of the model: how often each identity may change its mind

ASSUME StarAssumption == Fickle \subseteq Stargazer /\ MaxStarTime \in Nat

VARIABLES
  hosting,  \* nodes that have the contract
  stars,    \* starred_at of each identity in each copy, 0 if it has no star
  opinions  \* the signed star and unstar operations, which any client may resend

starVars == <<hosting, stars, opinions>>

Op == [kind : {"star", "unstar"}, who : Stargazer, starred_at : 1..MaxStarTime]

\* starRepo and unstarRepo sign the time of the device.
SignOpinion(i, kind) ==
  \E t \in 1..MaxStarTime :
    /\ kind = "unstar" => i \in Fickle
    /\ \A op \in opinions : op.who = i => op.starred_at < t
    /\ opinions' = opinions \cup {[kind |-> kind, who |-> i, starred_at |-> t]}
    /\ UNCHANGED <<hosting, stars>>

PutEmptyStars_Replace(n) ==
  /\ hosting' = hosting \cup {n}
  /\ stars' = [stars EXCEPT ![n] = [i \in Stargazer |-> 0]]
  /\ UNCHANGED opinions

\* ensureForgeStarsExists, also where the read before it missed the contract:
\* merging an empty state changes nothing.
PutEmptyStars(n) ==
  /\ hosting' = hosting \cup {n}
  /\ UNCHANGED <<stars, opinions>>

\* apply_star and apply_unstar: the update reaches a node, once or again.
apply(n, op) ==
  /\ n \in hosting
  /\ op \in opinions
  /\ stars' = [stars EXCEPT ![n][op.who] = IF op.kind = "star" THEN op.starred_at ELSE 0]
  /\ UNCHANGED <<hosting, opinions>>

merge_NewRepoOnly(mine, theirs) == IF \E i \in Stargazer : mine[i] # 0 THEN mine ELSE theirs

\* The loop of apply_bytes over a peer's state.
merge(mine, theirs) == [i \in Stargazer |-> IF theirs[i] # 0 THEN theirs[i] ELSE mine[i]]

SyncStars(n, o) ==
  /\ {n, o} \subseteq hosting
  /\ stars' = [stars EXCEPT ![n] = merge(stars[n], stars[o])]
  /\ UNCHANGED <<hosting, opinions>>

StarsInit ==
  /\ hosting = {}
  /\ stars = [n \in StarHost |-> [i \in Stargazer |-> 0]]
  /\ opinions = {}

StarsNext ==
  \/ \E i \in Stargazer, kind \in {"star", "unstar"} : SignOpinion(i, kind)
  \/ \E n \in StarHost :
       \/ PutEmptyStars(n)
       \/ \E op \in opinions : apply(n, op)
       \/ \E o \in StarHost : SyncStars(n, o)

StarsSpec == StarsInit /\ [][StarsNext]_starVars

\* Nodes that host the contract exchange states again and again.
StarsFairness == \A n, o \in StarHost : WF_starVars(SyncStars(n, o))

-----------------------------------------------------------------------------
StarsTypeOK ==
  /\ hosting \subseteq StarHost
  /\ stars \in [StarHost -> [Stargazer -> 0..MaxStarTime]]
  /\ opinions \subseteq Op

\* A copy shows an identity's star only with a date it signed for a star, and
\* the star of an identity that never unstars leaves no copy again, whatever is
\* merged, Put or resent.
StarsStay ==
  [][\A n \in StarHost, i \in Stargazer :
       /\ stars'[n][i] # 0 =>
            [kind |-> "star", who |-> i, starred_at |-> stars'[n][i]] \in opinions
       /\ (stars[n][i] # 0 /\ i \notin Fickle) => stars'[n][i] # 0]_starVars

\* It has come to every node that hosts the contract.
StarReachesAll ==
  \A n \in hosting, i \in Stargazer \ Fickle :
    (\E o \in StarHost : stars[o][i] # 0) => stars[n][i] # 0
=============================================================================
