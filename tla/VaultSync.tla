------------------------------ MODULE VaultSync ------------------------------
(***************************************************************************)
(* The clients of one account's vault: the browsers the account is signed  *)
(* in on (web/src/freenet/auth-api.ts, owner-api.ts, account-heal.ts), each *)
(* with the keys its node's delegates hold, and the command line tool with *)
(* an API key (scripts/cli/gitforge-vault.ts), which has the freenet-git    *)
(* identity bundle.  Every one reads the vault, builds the next state from *)
(* what it read and writes it; these are the steps that interleave.        *)
(*                                                                         *)
(* A client runs one operation at a time.  The vault is one copy: nodes    *)
(* that have not heard of each other's writes are not modelled here.  An   *)
(* operation is its awaited steps: compare, change the delegate, fetch,    *)
(* write; "pull" changes the delegate last.                                *)
(***************************************************************************)
EXTENDS ForgeVault

CONSTANTS
  Device,  \* browsers signed in to the account
  MaxSeq   \* bound on the vault's seq

ASSUME DeviceAssumption == Device \cap ApiKey = {} /\ None \notin Device

VARIABLES
  vault,   \* the vault contract's state, or None
  repos,   \* repos[d] : the site keys in the identity delegate of d's node
  pages,   \* pages[d] : the Pages keys in the pages delegate of d's node
  bundle,  \* the site keys in the freenet-git bundle
  op       \* op[w] : what client w is doing, or None

vars == <<vault, repos, pages, bundle, op>>

Client == Device \cup ApiKey

\* The user's operations.  "add" imports site keys: an accepted invite, a
\* merged bundle, or none, a rename; "drop" is the deletion of a repository,
\* "quiet" the background sync; it goes on as "pull" when the device is behind.
PushGoal == {"push", "quiet", "create", "add", "drop", "leave"}
Goal == PushGoal \cup {"pull", "ensure", "settings", "mint", "revoke", "sync-bundle"}

Op == [goal    : Goal,
       step    : {"compare", "change", "fetch", "write"},
       arg     : (SUBSET Prefix) \cup (SUBSET ApiKey),
       aligned : BOOLEAN,               \* the change will be pushed
       cmp     : Nat,                   \* seq of the vault compared with; 0: none
       seen    : Vault \cup {None}]     \* the state the write is built from

TypeOK ==
  /\ vault \in Vault \cup {None}
  /\ repos \in [Device -> SUBSET Prefix]
  /\ pages \in [Device -> SUBSET Prefix]
  /\ bundle \subseteq Prefix
  /\ op \in [Client -> Op \cup {None}]

Init ==
  /\ vault = None
  /\ repos = [d \in Device |-> {}]
  /\ pages = [d \in Device |-> {}]
  /\ bundle = {}
  /\ op = [w \in Client |-> None]
-----------------------------------------------------------------------------
Doing(w, goals, step) == op[w] # None /\ op[w].goal \in goals /\ op[w].step = step

FirstStep(goal) ==
  IF goal \in {"quiet", "create", "add", "drop"} THEN "compare"
  ELSE IF goal = "leave" THEN "change" ELSE "fetch"

Begin(w, goal, arg) ==
  /\ op[w] = None
  /\ op' = [op EXCEPT ![w] = [goal |-> goal, step |-> FirstStep(goal), arg |-> arg,
                              aligned |-> FALSE, cmp |-> 0, seen |-> None]]
  /\ UNCHANGED <<vault, repos, pages, bundle>>

Done(w) == op' = [op EXCEPT ![w] = None]

\* Any await may throw or the tab may close: the operation ends where it is.
Fail(w) ==
  /\ op[w] # None
  /\ Done(w)
  /\ UNCHANGED <<vault, repos, pages, bundle>>

Unused(p) ==
  /\ p \notin bundle
  /\ vault # None => p \notin vault.repos
  /\ \A d \in Device : p \notin repos[d]

Start(d) ==
  \/ \E goal \in {"quiet", "push", "pull", "ensure", "settings"} : Begin(d, goal, {})
  \/ \E p \in Prefix : Unused(p) /\ Begin(d, "create", {p})
  \/ \E ps \in SUBSET Prefix : Begin(d, "add", ps)
  \/ \E p \in Prefix, goal \in {"drop", "leave"} : Begin(d, goal, {p})
  \/ \E k \in ApiKey, goal \in {"mint", "revoke"} : Begin(d, goal, {k})
-----------------------------------------------------------------------------
\* Mutant: keys on both sides count as "vault_behind".
Kind_NoDiverged(local, remote) ==
  IF local \ remote # {} THEN "vault_behind"
  ELSE IF remote \ local # {} THEN "delegate_behind"
  ELSE "in_sync"

\* compareRepoMaps; a prefix has one secret, so secrets never differ.
Kind(local, remote) ==
  IF local \ remote # {} /\ remote \ local # {} THEN "diverged"
  ELSE IF local \ remote # {} THEN "vault_behind"
  ELSE IF remote \ local # {} THEN "delegate_behind"
  ELSE "in_sync"

\* combineSyncKinds
Combine(a, b) ==
  IF "diverged" \in {a, b} \/ {a, b} = {"vault_behind", "delegate_behind"} THEN "diverged"
  ELSE IF "vault_behind" \in {a, b} THEN "vault_behind"
  ELSE IF "delegate_behind" \in {a, b} THEN "delegate_behind"
  ELSE "in_sync"

\* collectPagesMap takes an export that fails for an empty one.
Exported(d) == {pages[d], {}}

\* compareVaultAndDelegate.  A vault that cannot be read counts as missing.
SyncKinds(d) ==
  {"no_vault"} \cup
  IF vault = None THEN {}
  ELSE {Combine(Kind(repos[d], vault.repos), Kind(ps, vault.pages)) : ps \in Exported(d)}

\* The keys of a new or changed repository are pushed only by a client that
\* was in sync before the change (for a new one: not behind).
Aligned(goal, kind) == kind = "in_sync" \/ (goal = "create" /\ kind = "vault_behind")

Compare(d) ==
  \E kind \in SyncKinds(d) :
    LET seq == IF kind = "no_vault" THEN 0 ELSE vault.seq
    IN  /\ \/ /\ Doing(d, {"create", "add", "drop"}, "compare")
              /\ op' = [op EXCEPT ![d].step = "change", ![d].cmp = seq,
                                  ![d].aligned = Aligned(op[d].goal, kind)]
           \/ /\ Doing(d, {"quiet"}, "compare")
              /\ op' = [op EXCEPT ![d] =
                          IF kind = "vault_behind"
                            THEN [@ EXCEPT !.step = "fetch", !.cmp = seq]
                          ELSE IF kind = "delegate_behind"
                            THEN [@ EXCEPT !.step = "fetch", !.goal = "pull"]
                          ELSE None]
        /\ UNCHANGED <<vault, repos, pages, bundle>>

\* nativeCreateRepo, nativeImportRepoKey, nativeRemoveRepoKey.  A repository
\* is deleted or left by an operation signed with its site key first.
Change(d) ==
  /\ Doing(d, {"create", "add", "drop", "leave"}, "change")
  /\ op[d].goal \in {"drop", "leave"} => op[d].arg \subseteq repos[d]
  /\ repos' = [repos EXCEPT ![d] = IF op[d].goal \in {"drop", "leave"}
                                   THEN @ \ op[d].arg ELSE @ \cup op[d].arg]
  /\ op' = [op EXCEPT ![d] = IF op[d].aligned \/ op[d].goal = "leave"
                             THEN [@ EXCEPT !.step = "fetch"] ELSE None]
  /\ UNCHANGED <<vault, pages, bundle>>
-----------------------------------------------------------------------------
\* fetchForgeVault; a node may answer "not found" though another hosts the
\* vault.  ensurePasswordlessVault goes on when it found none (and stops when
\* the GET fails), the others when they found one.
Fetch(w) ==
  /\ op[w] # None /\ op[w].step = "fetch"
  /\ \E read \in {vault, None} :
       /\ op[w].goal = "sync-bundle" /\ read # None
            => w \in vault.keys /\ "repos" \in Scope[w]
       /\ op' = [op EXCEPT ![w] = IF (op[w].goal = "ensure") = (read = None)
                                  THEN [@ EXCEPT !.step = "write", !.seen = read] ELSE None]
  /\ UNCHANGED <<vault, repos, pages, bundle>>

\* putOrUpdateForgeVault: the contract decides, the operation is over.
Submit(w, next) ==
  /\ next.seq <= MaxSeq
  /\ vault' = IF MayUpsert(vault, next) THEN next ELSE vault
  /\ Done(w)
  /\ UNCHANGED <<repos, pages, bundle>>

\* pushDelegateReposToVault: the delegates' keys replace the vault's.
WritePush(d) ==
  /\ Doing(d, PushGoal, "write")
  /\ \E ps \in Exported(d) :
       Submit(d, [op[d].seen EXCEPT !.seq = @ + 1, !.by = Owner,
                                    !.repos = repos[d], !.pages = ps])

\* mintVaultApiKey and revokeVaultApiKey rebuild the envelopes, from the
\* site keys alone: the Pages keys get an empty one.
WriteMint(d) ==
  /\ Doing(d, {"mint"}, "write")
  /\ Submit(d, [op[d].seen EXCEPT !.seq = @ + 1, !.by = Owner, !.pages = {},
                                  !.keys = @ \cup op[d].arg])

WriteRevoke(d) ==
  /\ Doing(d, {"revoke"}, "write")
  /\ Submit(d, [op[d].seen EXCEPT !.seq = @ + 1, !.by = Owner, !.pages = {},
                                  !.keys = @ \ op[d].arg])

\* A preference is toggled: the other envelopes are the ones that were read.
WriteSettings(d) ==
  /\ Doing(d, {"settings"}, "write")
  /\ Submit(d, [op[d].seen EXCEPT !.seq = @ + 1, !.by = Owner])

\* Mutant: the first state has seq 0.
WriteEnsure_Zero(d) ==
  /\ Doing(d, {"ensure"}, "write")
  /\ Submit(d, [seq |-> 0, by |-> Owner, repos |-> repos[d], pages |-> {}, keys |-> {}])

\* ensurePasswordlessVault
WriteEnsure(d) ==
  /\ Doing(d, {"ensure"}, "write")
  /\ Submit(d, [seq |-> 1, by |-> Owner, repos |-> repos[d], pages |-> {}, keys |-> {}])

\* syncBundle: the bundle's keys are added to the vault's.
WriteBundle(k) ==
  /\ Doing(k, {"sync-bundle"}, "write")
  /\ Submit(k, [op[k].seen EXCEPT !.seq = @ + 1, !.by = k, !.repos = @ \cup bundle])

\* pullVaultReposToDelegate; the pages part is skipped when an import fails.
Pull(d) ==
  /\ Doing(d, {"pull"}, "write")
  /\ repos' = [repos EXCEPT ![d] = @ \cup op[d].seen.repos]
  /\ \E ps \in {{}, op[d].seen.pages} : pages' = [pages EXCEPT ![d] = @ \cup ps]
  /\ Done(d)
  /\ UNCHANGED <<vault, bundle>>
-----------------------------------------------------------------------------
\* nativePagesEnable: the pages delegate makes the repository's key.
EnablePages(d, p) ==
  /\ op[d] = None /\ p \in repos[d]
  /\ pages' = [pages EXCEPT ![d] = @ \cup {p}]
  /\ UNCHANGED <<vault, repos, bundle, op>>

\* The account signs out, which clears the site keys of the identity
\* delegate and leaves the pages delegate alone, and in again.
Relogin(d) ==
  /\ op[d] = None
  /\ repos' = [repos EXCEPT ![d] = {}]
  /\ UNCHANGED <<vault, pages, bundle, op>>

\* freenet-git create
BundleCreate(p) ==
  /\ Unused(p)
  /\ bundle' = bundle \cup {p}
  /\ UNCHANGED <<vault, repos, pages, op>>

DeviceNext(d) ==
  \/ Start(d) \/ Compare(d) \/ Change(d)
  \/ WritePush(d) \/ WriteSettings(d) \/ WriteMint(d) \/ WriteRevoke(d)
  \/ WriteEnsure(d) \/ Pull(d)
  \/ Relogin(d) \/ \E p \in Prefix : EnablePages(d, p)

Next ==
  \/ \E d \in Device : DeviceNext(d)
  \/ \E k \in ApiKey : Begin(k, "sync-bundle", {}) \/ WriteBundle(k)
  \/ \E w \in Client : Fetch(w) \/ Fail(w)
  \/ \E p \in Prefix : BundleCreate(p)

Spec == Init /\ [][Next]_vars
-----------------------------------------------------------------------------
\* What a client read is a state the vault had: either the vault has moved on
\* to a higher seq or it still is that state.
SeenIsPast ==
  \A w \in Client :
    op[w] # None /\ op[w].seen # None =>
      /\ vault # None
      /\ op[w].seen.seq <= vault.seq
      /\ op[w].seen.seq = vault.seq => op[w].seen = vault

\* The clients that would write on top of the present vault.
Fresh == {w \in Client : op[w] # None /\ op[w].step = "write" /\ op[w].seen = vault}

Register == INSTANCE VaultRegister WITH value <- vault, fresh <- Fresh, Value <- Vault

\* The contract's "seq must increase" and the clients' "the seq I read, plus
\* one" make the vault a register with conditional store: no update is lost,
\* by the owner's devices or an API key, also when a read missed the vault.
ActsAsRegister == Register!Spec

\* The site keys a write by d removes from the vault.
DroppedBy(d) == IF vault = None THEN {} ELSE vault.repos \ vault'.repos

Wrote(d, goals) == vault' # vault /\ Doing(d, goals, "write") /\ op'[d] = None

Asked(d) == IF op[d].goal = "drop" THEN op[d].arg ELSE {}

\* The pushes that compare first (the background sync, and the ones after a
\* change to a device in sync) take from the vault no site key but the
\* deleted repository's, when nobody wrote the vault since the comparison.
ComparedPushKeepsKeys ==
  [][\A d \in Device :
       Wrote(d, {"quiet", "create", "add", "drop"}) /\ op[d].cmp = vault.seq
         => DroppedBy(d) \subseteq Asked(d)]_vars

\* Leaving a repository pushes "so vault ciphertext drops this site key too":
\* of the keys in the vault that key is the only one it takes away.
LeaveKeepsOtherKeys ==
  [][\A d \in Device : Wrote(d, {"leave"}) => DroppedBy(d) \subseteq op[d].arg]_vars

\* The "pages" envelope follows the devices' pushes: minting and revoking
\* API keys leave it as it is.
KeyAdminKeepsPages ==
  [][\A d \in Device : Wrote(d, {"mint", "revoke"}) => vault'.pages = vault.pages]_vars
=============================================================================
