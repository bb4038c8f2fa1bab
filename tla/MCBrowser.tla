----------------------------- MODULE MCBrowser -----------------------------
(***************************************************************************)
(* What the browser does for the account that is signed in, in parts that  *)
(* share no state here: part names the one a behaviour is about, the       *)
(* others stay as they started.                                            *)
(***************************************************************************)
EXTENDS MCVaultSync, PublicGoods, TycheDuty, RepoEdits, PackPublish,
        RepoLifecycle, Invites, TLC

CONSTANTS kairos, large, small, c1, c2, a1, a2, i1, w1, w2

VARIABLE part

MCChunksOf == large :> {c1, c2} @@ small :> {}

browserVars == <<vars, goodsVars, dutyVars, editVars, packVars, lifeVars, inviteVars, part>>

\* Tabs and devices are alike.
Alike == Symmetry \cup Permutations(Window)

\* Bound: while one tab takes the repository down, the other lists it or
\* publishes its site.
OneTakesDown ==
  \E w \in Window : chore[w].does \in {"none", "register", "publish"}

\* Bound: one tab at a time has a copy of the RepoState, and one that takes no site
\* down has no old copy.
OneHasCopy ==
  /\ \E w \in Window : stateCopy[w] = "unread"
  /\ \A w \in Window : stateCopy[w] \in Switch => chore[w].does \notin {"none", "register", "publish"}

\* Bound: one of the two accounts has nothing in its vault.
OneVault == \A s \in Service : vaultGoods[a2][s] = NoAuth

\* Bound: a second service only in the restores of one account, by a tab without the
\* worker in which the user changes nothing.
OneService == /\ auth[kairos] = NoAuth /\ ~consent[kairos] /\ liveNode[kairos] = NoNode
              /\ vaultGoods[a1][kairos] = NoAuth
RestoresTwo == OneService \/ (account # a2 /\ ~mounted /\ saveQueue = <<>>)

\* Bound: while a restore waits for a delegate or a duty runs, one start of the
\* watches may wait; and no duty runs while there is something to restore.
WaitsAlone == (restore # {} \/ runs # {}) => Cardinality(starting) <= 1
RunsAlone == runs # {} => restore = {} /\ \A s \in Service : vaultGoods[a1][s] = NoAuth

NothingApproved ==
  \A s \in Service : /\ ~consent[s] /\ auth[s] = NoAuth /\ liveNode[s] = NoNode
                    /\ \A a \in Account : vaultGoods[a][s] = NoAuth

BrowserInit ==
  /\ part \in {"vault", "goods", "duty", "edits", "packs", "life", "invites"}
  /\ Init
  /\ GoodsInit /\ (part # "goods" => NothingApproved)
  /\ DutyInit /\ EditsInit /\ PacksInit /\ LifeInit /\ InvitesInit

BrowserNext ==
  /\ UNCHANGED part
  /\ \/ /\ part = "vault" /\ Next
        /\ UNCHANGED <<goodsVars, dutyVars, editVars, packVars, lifeVars, inviteVars>>
     \/ /\ part = "goods" /\ GoodsNext
        /\ UNCHANGED <<vars, dutyVars, editVars, packVars, lifeVars, inviteVars>>
     \/ /\ part = "duty" /\ DutyNext
        /\ UNCHANGED <<vars, goodsVars, editVars, packVars, lifeVars, inviteVars>>
     \/ /\ part = "edits" /\ EditsNext
        /\ UNCHANGED <<vars, goodsVars, dutyVars, packVars, lifeVars, inviteVars>>
     \/ /\ part = "packs" /\ PacksNext
        /\ UNCHANGED <<vars, goodsVars, dutyVars, editVars, lifeVars, inviteVars>>
     \/ /\ part = "life" /\ LifeNext
        /\ UNCHANGED <<vars, goodsVars, dutyVars, editVars, packVars, inviteVars>>
     \/ /\ part = "invites" /\ InvitesNext
        /\ UNCHANGED <<vars, goodsVars, dutyVars, editVars, packVars, lifeVars>>

BrowserSpec == BrowserInit /\ [][BrowserNext]_browserVars

\* The state of the part a behaviour is about is well formed.
BrowserTypeOK ==
  CASE part = "vault" -> TypeOK
    [] part = "goods" -> GoodsTypeOK
    [] part = "duty" -> DutyTypeOK
    [] part = "edits" -> EditsTypeOK
    [] part = "packs" -> PacksTypeOK
    [] part = "life" -> LifeTypeOK
    [] part = "invites" -> InvitesTypeOK
=============================================================================
