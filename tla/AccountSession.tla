--------------------------- MODULE AccountSession ---------------------------
(***************************************************************************)
(* One tab and the identity delegate of its node: creating and restoring   *)
(* an account, signing out, and the work that completes an account which   *)
(* was left half made (web/src/freenet/auth-api.ts, pages/AccountPage.tsx, *)
(* components/AccountHeaderLink.tsx).  Four asynchronous tasks interleave: *)
(* a form of the account page, the header's and the page's look at the     *)
(* session, and the one ensureSignedInAccountVault in flight.  An account  *)
(* stands for its seed, its fingerprint and the address of its vault.      *)
(***************************************************************************)
EXTENDS Naturals, FiniteSets

CONSTANTS
  Account,     \* seeds that are generated or restored
  NoAccount,   \* no identity, no address, no seed
  MaxForms,    \* bound on the forms that are submitted
  MaxDrops,    \* bound on the requests that fail
  MaxLoads     \* bound on the page loads that cut work short

ASSUME AccountAssumption ==
  NoAccount \notin Account /\ {MaxForms, MaxDrops, MaxLoads} \subseteq Nat

VARIABLES
  device,      \* the identity the delegate holds
  tabId, tabVault, tabSeed,  \* the tab's cached identity, vault address, seed
  published,   \* accounts with a profile on Freenet
  vaultSeq,    \* of each account: 0 no vault, 1 empty vault, 2 vault with keys
  known,       \* accounts somebody has a bundle or a phrase of
  page,        \* the account page
  task,        \* the asynchronous tasks
  spent        \* forms, drops and loads so far

tabVars == <<tabId, tabVault, tabSeed>>
netVars == <<published, vaultSeq, known>>
accountVars == <<device, tabVars, netVars, page, task, spent>>

Task == {"form", "header", "page", "ensure"}
Nobody == Account \cup {NoAccount}

\* as: the identity the task works for; at: the vault it works on; key: the
\* seed it was given; gets, puts, round: attempts so far.
Rest == [pc |-> "rest", kind |-> "none", as |-> NoAccount, at |-> NoAccount,
         key |-> NoAccount, gets |-> 0, puts |-> 0, round |-> 1]

Pc(t, pc) == task[t].pc = pc
To(t, pc) == [task EXCEPT ![t].pc = pc, ![t].gets = 0]
Quiet == \A t \in Task : Pc(t, "rest")

\* The connection fails.
Drop == /\ spent.drops < MaxDrops
        /\ spent' = [spent EXCEPT !.drops = @ + 1]

\* The delegate answers that it holds no identity.
NoIdentity == device = NoAccount /\ UNCHANGED spent

(***************************************************************************)
(* The session of the tab.                                                 *)
(***************************************************************************)
\* onAuthSessionChange on the account page: an identity that appears is shown,
\* one that goes stays.
Heard(p, id) ==
  IF p.open /\ id # NoAccount THEN [p EXCEPT !.shown = id, !.effect = "due"] ELSE p

\* setSessionVaultId, setCachedIdentity (which drops the seed with the identity).
SetSession(id, address, seed) ==
  /\ tabId' = id /\ tabVault' = address
  /\ tabSeed' = IF id = NoAccount THEN NoAccount ELSE seed

\* ensureSignedInAccountVault: one run serves all who ask meanwhile.
Ensuring(ts) ==
  IF ts["ensure"].pc # "rest" THEN ts ELSE [ts EXCEPT !["ensure"] = [Rest EXCEPT !.pc = "who"]]

\* The run ends; a page that waits for it and was not cancelled learns how.
EnsureEnds(ok) ==
  /\ task' = [task EXCEPT !["ensure"] = Rest]
  /\ page' = IF page.effect # "waits" THEN page
             ELSE [page EXCEPT !.on = ok, !.effect = IF ok THEN "rest" ELSE "failed"]

\* An exception: a form shows it, the ensure goes on to its second and last round.
Throws(t) ==
  \/ /\ t = "form" /\ task' = [task EXCEPT ![t] = Rest] /\ UNCHANGED page
  \/ /\ t = "ensure" /\ task[t].round < 2
     /\ task' = [task EXCEPT ![t] = [@ EXCEPT !.pc = "profile", !.gets = 0, !.puts = 0, !.round = 2]]
     /\ UNCHANGED page
  \/ t = "ensure" /\ task[t].round = 2 /\ EnsureEnds(FALSE)

\* currentIdentity: the delegate's identity is the session's; without an answer the
\* cached one, and without that the delegate is asked once more.
CurrentIdentity(t, nobody) ==
  \/ /\ device # NoAccount
     /\ tabId' = device /\ page' = Heard(page, device) /\ task' = To(t, "where")
     /\ UNCHANGED spent
  \/ /\ NoIdentity \/ Drop
     /\ UNCHANGED tabId
     /\ \/ tabId # NoAccount /\ task' = To(t, "where") /\ UNCHANGED page
        \/ /\ tabId = NoAccount /\ task[t].gets = 0
           /\ task' = [task EXCEPT ![t].gets = 1] /\ UNCHANGED page
        \/ tabId = NoAccount /\ task[t].gets = 1 /\ nobody

\* refresh ends: the page shows who is signed in and whether there is a vault.
Refreshed(id, vault) ==
  /\ task' = [task EXCEPT !["page"] = Rest]
  /\ page' = [page EXCEPT !.shown = id, !.on = vault, !.ready = TRUE, !.effect = "due"]

\* The header asks only if the session lacks something, the ensure if it has no identity.
Who(t) ==
  /\ Pc(t, "who")
  /\ \/ /\ \/ t = "header" /\ NoAccount \notin {tabId, tabVault}
           \/ t = "ensure" /\ tabId # NoAccount
        /\ task' = To(t, "where") /\ UNCHANGED <<tabId, page, spent>>
     \/ /\ t = "header" /\ NoAccount \in {tabId, tabVault}
        /\ CurrentIdentity(t, task' = To(t, "where") /\ UNCHANGED page)
     \/ t = "page" /\ CurrentIdentity(t, Refreshed(NoAccount, page.on))
     \/ t = "ensure" /\ tabId = NoAccount /\ CurrentIdentity(t, EnsureEnds(FALSE))
  /\ UNCHANGED <<device, tabVault, tabSeed, netVars>>

\* ensureSessionVaultId, with exportIdentitySeed: the address v of the session, else
\* of the cached seed, else of the seed the delegate exports; NoAccount if none is had.
VaultAddress(v) ==
  \/ tabVault # NoAccount /\ v = tabVault /\ UNCHANGED <<tabVault, tabSeed, spent>>
  \/ /\ tabVault = NoAccount /\ tabSeed # NoAccount /\ v = tabSeed
     /\ tabVault' = tabSeed /\ UNCHANGED <<tabSeed, spent>>
  \/ /\ tabVault = NoAccount /\ tabSeed = NoAccount /\ device # NoAccount /\ v = device
     /\ tabVault' = device /\ tabSeed' = device /\ UNCHANGED spent
  \/ /\ tabVault = NoAccount /\ tabSeed = NoAccount /\ v = NoAccount
     /\ NoIdentity \/ Drop
     /\ UNCHANGED <<tabVault, tabSeed>>

\* probeVaultBackupEnabled: a soft GET, which may miss a vault that is there. The
\* header starts the ensure after a miss, refresh tells the page.
SoftProbe(t, v) ==
  \E hit \in {FALSE, vaultSeq[v] > 0} :
    \/ t = "page" /\ Refreshed(tabId, hit)
    \/ /\ t = "header" /\ UNCHANGED page
       /\ LET done == [task EXCEPT ![t] = Rest] IN task' = IF hit THEN done ELSE Ensuring(done)

\* Without an address the header stops, the page shows no vault, the ensure fails.
Where(t) ==
  /\ Pc(t, "where")
  /\ \E v \in Nobody :
       /\ VaultAddress(v)
       /\ \/ t \in {"header", "page"} /\ v # NoAccount /\ SoftProbe(t, v)
          \/ t = "page" /\ v = NoAccount /\ Refreshed(tabId, FALSE)
          \/ t = "header" /\ v = NoAccount /\ task' = [task EXCEPT ![t] = Rest] /\ UNCHANGED page
          \/ /\ t = "ensure" /\ v # NoAccount /\ UNCHANGED page
             /\ task' = [To(t, "reach") EXCEPT ![t].as = tabId, ![t].at = v]
          \/ t = "ensure" /\ v = NoAccount /\ EnsureEnds(FALSE)
  /\ UNCHANGED <<device, tabId, netVars>>

\* probeVaultReachability: only a vault that is known to be absent is created.
Reach(t) ==
  /\ Pc(t, "reach")
  /\ \/ vaultSeq[task[t].at] > 0 /\ EnsureEnds(TRUE) /\ UNCHANGED spent
     \/ Drop /\ EnsureEnds(TRUE)
     \/ vaultSeq[task[t].at] = 0 /\ task' = To(t, "profile") /\ UNCHANGED <<page, spent>>
  /\ UNCHANGED <<device, tabVars, netVars>>

(***************************************************************************)
(* ensureAccountContracts, for a form or for the ensure.                   *)
(***************************************************************************)
\* A reliable GET that is made again after one drop.
GetTwice(t) ==
  /\ Drop
  /\ \/ task[t].gets = 0 /\ task' = [task EXCEPT ![t].gets = 1] /\ UNCHANGED page
     \/ task[t].gets = 1 /\ Throws(t)

\* Mutant: a profile that cannot be read counts as published.
FindProfile_TimeoutFound(t) ==
  /\ Pc(t, "profile")
  /\ \/ UNCHANGED spent /\ task' = To(t, IF task[t].as \in published THEN "export" ELSE "publish")
     \/ Drop /\ task' = To(t, "export")
  /\ UNCHANGED <<device, tabVars, netVars, page>>

\* ensureForgeProfilePublished: a profile that is there may bear another name than
\* the delegate, which then imports its own seed again under that name.
FindProfile(t) ==
  /\ Pc(t, "profile")
  /\ \/ /\ UNCHANGED <<page, spent>>
        /\ \/ task[t].as \in published /\ \E pc \in {"rename", "export"} : task' = To(t, pc)
           \/ task[t].as \notin published /\ task' = To(t, "publish")
     \/ GetTwice(t)
  /\ UNCHANGED <<device, tabVars, netVars>>

ReadSeed(t, next) ==
  \/ /\ device # NoAccount /\ task' = [To(t, next) EXCEPT ![t].key = device]
     /\ UNCHANGED <<page, spent>>
  \/ (NoIdentity \/ Drop) /\ Throws(t)

RenameReads(t) ==
  Pc(t, "rename") /\ ReadSeed(t, "renamed") /\ UNCHANGED <<device, tabVars, netVars>>

RenameImports(t) ==
  /\ Pc(t, "renamed")
  /\ \/ /\ device' = task[t].key /\ SetSession(task[t].key, tabVault, tabSeed)
        /\ page' = Heard(page, task[t].key) /\ task' = To(t, "export")
        /\ UNCHANGED spent
     \/ Drop /\ Throws(t) /\ UNCHANGED <<device, tabVars>>
  /\ UNCHANGED netVars

\* publishForgeProfile signs and publishes as whoever the delegate holds.
PublishProfile(t) ==
  /\ Pc(t, "publish")
  /\ \/ /\ device # NoAccount
        /\ published' = published \cup {device} /\ task' = To(t, "export")
        /\ UNCHANGED <<page, spent>>
     \/ (NoIdentity \/ Drop) /\ Throws(t) /\ UNCHANGED published
  /\ UNCHANGED <<device, tabVars, vaultSeq, known>>

ExportSeed(t) ==
  Pc(t, "export") /\ ReadSeed(t, "vaultGet") /\ UNCHANGED <<device, tabVars, netVars>>

VaultEnsured(t) ==
  /\ tabVault' = task[t].at /\ page' = Heard(page, tabId)
  /\ task' = To(t, IF t = "form" THEN "sealed" ELSE "after")

\* ensurePasswordlessVault: a vault that is there or cannot be asked for is left alone.
FindVault(t) ==
  /\ Pc(t, "vaultGet")
  /\ \/ vaultSeq[task[t].at] > 0 /\ VaultEnsured(t) /\ UNCHANGED spent
     \/ Drop /\ VaultEnsured(t)
     \/ /\ vaultSeq[task[t].at] = 0 /\ task' = To(t, "vaultPut")
        /\ UNCHANGED <<tabVault, page, spent>>
  /\ UNCHANGED <<device, tabId, tabSeed, netVars>>

\* The contract takes the vault from its owner's seed only, and no older state
\* over a newer one.
PutVault(t) ==
  /\ Pc(t, "vaultPut")
  /\ \/ /\ task[t].key = task[t].at
        /\ vaultSeq' = [vaultSeq EXCEPT ![task[t].at] = IF @ = 0 THEN 1 ELSE @]
        /\ VaultEnsured(t) /\ UNCHANGED spent
     \/ /\ \/ task[t].key # task[t].at /\ UNCHANGED spent
           \/ Drop
        /\ \/ /\ task[t].puts < 2 /\ task' = [To(t, "vaultGet") EXCEPT ![t].puts = @ + 1]
              /\ UNCHANGED page
           \/ task[t].puts = 2 /\ Throws(t)
        /\ UNCHANGED <<vaultSeq, tabVault>>
  /\ UNCHANGED <<device, tabId, tabSeed, published, known>>

\* The ensure looks again; a vault it cannot see yet is worth a second round.
After(t) ==
  /\ Pc(t, "after")
  /\ \/ vaultSeq[task[t].at] > 0 /\ EnsureEnds(TRUE) /\ UNCHANGED spent
     \/ Drop /\ EnsureEnds(TRUE)
     \/ vaultSeq[task[t].at] = 0 /\ Throws(t) /\ UNCHANGED spent
  /\ UNCHANGED <<device, tabVars, netVars>>

(***************************************************************************)
(* The account page and its forms.                                         *)
(***************************************************************************)
Submits(kind, a, at, pc) ==
  /\ Pc("form", "rest") /\ spent.forms < MaxForms
  /\ spent' = [spent EXCEPT !.forms = @ + 1]
  /\ task' = [task EXCEPT !["form"] =
       [Rest EXCEPT !.pc = pc, !.kind = kind, !.as = a, !.at = at, !.key = a]]
  /\ page' = [page EXCEPT !.mine = page.open]

\* createIdentity generates a seed; the two forms of restore open a bundle or a
\* phrase. They are shown while the page shows nobody.
Create(a) ==
  /\ page.open /\ page.ready /\ page.shown = NoAccount /\ page.view = "create"
  /\ a \notin known \cup published
  /\ Submits("create", a, a, "delegates") /\ UNCHANGED <<device, tabVars, netVars>>

Restore(a, kind) ==
  /\ page.open /\ page.ready /\ page.shown = NoAccount /\ page.view = "restore"
  /\ a \in known
  /\ Submits(kind, a, a, "delegates") /\ UNCHANGED <<device, tabVars, netVars>>

\* Sign out, in the header or on the page; updatePublicProfile, on the page or a
\* person's page.
SignOut ==
  /\ tabId # NoAccount
  /\ Submits("signOut", NoAccount, NoAccount, "logout") /\ UNCHANGED <<device, tabVars, netVars>>

SaveProfile ==
  /\ tabId # NoAccount
  /\ Submits("save", NoAccount, tabVault, "read") /\ UNCHANGED <<device, tabVars, netVars>>

FormFails(t) == Drop /\ Throws(t)

\* ensureOwnerDelegatesReady; then restore looks the profile up, for the name.
Prepare ==
  /\ Pc("form", "delegates")
  /\ \/ task' = To("form", "import") /\ UNCHANGED <<page, spent>>
     \/ GetTwice("form")
  /\ UNCHANGED <<device, tabVars, netVars>>

\* nativeImportIdentity replaces what the delegate holds. The session follows at
\* once, or for a bundle after its repo keys were imported.
SignedIn(a) == SetSession(a, a, a) /\ page' = Heard(page, a)

Import ==
  /\ Pc("form", "import")
  /\ LET a == task["form"].as IN
     \/ /\ device' = a /\ UNCHANGED spent
        /\ IF task["form"].kind = "bundle"
           THEN task' = To("form", "repoKeys") /\ UNCHANGED <<tabVars, page>>
           ELSE task' = To("form", "profile") /\ SignedIn(a)
     \/ FormFails("form") /\ UNCHANGED <<device, tabVars>>
  /\ UNCHANGED netVars

RepoKeys ==
  /\ Pc("form", "repoKeys")
  /\ \/ task' = To("form", "profile") /\ SignedIn(task["form"].as) /\ UNCHANGED spent
     \/ FormFails("form") /\ UNCHANGED tabVars
  /\ UNCHANGED <<device, netVars>>

\* The form's contracts are there. Create shows the sealed bundle, restore the hub,
\* each only if the page that submitted it is still open; run then refreshes after
\* all but create.
Submitted(p) == IF page.open /\ page.mine THEN p ELSE page
ThenRefresh(ts) ==
  IF page.open /\ page.mine
  THEN [ts EXCEPT !["form"] = Rest, !["page"] = [Rest EXCEPT !.pc = "who"]]
  ELSE [ts EXCEPT !["form"] = Rest]

Sealed ==
  /\ Pc("form", "sealed")
  /\ LET create == task["form"].kind = "create"
         id == IF create THEN task["form"].as ELSE tabId IN
     /\ page' = Submitted(
          [page EXCEPT !.view = IF create THEN "backup" ELSE "hub", !.effect = "due",
                       !.on = IF create THEN FALSE ELSE @,
                       !.shown = IF id = NoAccount THEN @ ELSE id])
     /\ task' = IF create THEN [task EXCEPT !["form"] = Rest] ELSE ThenRefresh(task)
  /\ UNCHANGED <<device, tabVars, netVars, spent>>

\* The bundle is downloaded and confirmed: the account can be restored from now on.
ConfirmBackup ==
  /\ page.open /\ page.view = "backup"
  /\ page' = [page EXCEPT !.view = "hub", !.effect = "due"]
  /\ known' = known \cup ({page.shown} \ {NoAccount})
  /\ UNCHANGED <<device, tabVars, published, vaultSeq, task, spent>>

\* logoutAccount forgets nothing unless the delegate answered.
LoggedOut ==
  /\ Pc("form", "logout")
  /\ \/ /\ device' = NoAccount /\ SetSession(NoAccount, NoAccount, NoAccount)
        /\ page' = Submitted([page EXCEPT !.view = "hub", !.effect = "due"])
        /\ task' = ThenRefresh(task) /\ UNCHANGED spent
     \/ FormFails("form") /\ UNCHANGED <<device, tabVars>>
  /\ UNCHANGED netVars

\* updatePublicProfile: the delegate's identity and its profile are read, the
\* identity is imported under the new name, the profile is published.
SaveReads ==
  /\ Pc("form", "read")
  /\ \/ /\ device # NoAccount /\ UNCHANGED <<page, spent>>
        /\ task' = [To("form", "savePut") EXCEPT !["form"].as = device]
     \/ (NoIdentity \/ Drop) /\ Throws("form")
  /\ UNCHANGED <<device, tabVars, netVars>>

SavePut ==
  /\ Pc("form", "savePut")
  /\ \/ /\ published' = published \cup {device}
        /\ LET at == task["form"].at IN
             SetSession(task["form"].as, IF at = NoAccount THEN tabVault ELSE at, tabSeed)
        /\ page' = Heard(page, task["form"].as) /\ task' = ThenRefresh(task)
        /\ UNCHANGED spent
     \/ FormFails("form") /\ UNCHANGED <<tabVars, published>>
  /\ UNCHANGED <<device, vaultSeq, known>>

(***************************************************************************)
(* Views, loads and the rest of the tab.                                   *)
(***************************************************************************)
SwitchView(v) ==
  /\ page.open /\ page.ready /\ page.shown = NoAccount /\ ~(page.mine /\ ~Pc("form", "rest"))
  /\ page.view # "backup" /\ page.view # v
  /\ page' = [page EXCEPT !.view = v, !.effect = "due"]
  /\ UNCHANGED <<device, tabVars, netVars, task, spent>>

\* The page is ready six seconds after it opened, if the bootstrap takes longer.
SkeletonCap ==
  /\ page.open /\ ~page.ready
  /\ page' = [page EXCEPT !.ready = TRUE, !.effect = "due"]
  /\ UNCHANGED <<device, tabVars, netVars, task, spent>>

\* The effect that makes up for a missing vault, on the hub and the backup view; and
\* the button that repeats it.
EnsureWanted ==
  page.ready /\ page.shown # NoAccount /\ ~page.on /\ page.view \in {"hub", "backup"}

EnsureEffect ==
  /\ page.open /\ page.effect = "due" /\ EnsureWanted
  /\ task' = Ensuring(task) /\ page' = [page EXCEPT !.effect = "waits"]
  /\ UNCHANGED <<device, tabVars, netVars, spent>>

RetryVault ==
  /\ page.open /\ page.effect = "failed" /\ spent.forms < MaxForms
  /\ spent' = [spent EXCEPT !.forms = @ + 1]
  /\ task' = Ensuring(task) /\ page' = [page EXCEPT !.effect = "waits"]
  /\ UNCHANGED <<device, tabVars, netVars>>

Closed == [open |-> FALSE, ready |-> FALSE, mine |-> FALSE, on |-> FALSE,
           view |-> "hub", shown |-> NoAccount, effect |-> "rest"]
Opened(id) == [Closed EXCEPT !.open = TRUE, !.shown = id, !.effect = "due"]

\* The account page is left for another one; a form or an ensure that runs goes on.
\* It opens with a refresh of its own.
LeavePage ==
  /\ page.open /\ page' = Closed /\ task' = [task EXCEPT !["page"] = Rest]
  /\ UNCHANGED <<device, tabVars, netVars, spent>>

OpenPage ==
  /\ ~page.open /\ spent.loads < MaxLoads
  /\ spent' = [spent EXCEPT !.loads = @ + 1]
  /\ page' = Opened(tabId) /\ task' = [task EXCEPT !["page"] = [Rest EXCEPT !.pc = "who"]]
  /\ UNCHANGED <<device, tabVars, netVars>>

\* The site is loaded: what ran is gone, the seed is, and so is the session where the
\* sandbox denies sessionStorage. The header looks at the session, and the account
\* page, if it is the page that is loaded.
Loads ==
  /\ tabSeed' = NoAccount
  /\ \/ UNCHANGED <<tabId, tabVault>>
     \/ tabId' = NoAccount /\ tabVault' = NoAccount
  /\ \E here \in BOOLEAN :
       /\ page' = IF here THEN Opened(tabId') ELSE Closed
       /\ task' = [t \in Task |-> IF t = "header" \/ (here /\ t = "page")
                                 THEN [Rest EXCEPT !.pc = "who"] ELSE Rest]
  /\ UNCHANGED <<device, netVars>>

\* Loaded in the middle of something, or by somebody who comes back.
Reload == /\ ~Quiet /\ spent.loads < MaxLoads
          /\ spent' = [spent EXCEPT !.loads = @ + 1] /\ Loads
Visit == Quiet /\ Loads /\ UNCHANGED spent

TaskNext(t) ==
  \/ Who(t) \/ Where(t) \/ Reach(t)
  \/ FindProfile(t) \/ RenameReads(t) \/ RenameImports(t) \/ PublishProfile(t) \/ ExportSeed(t)
  \/ FindVault(t) \/ PutVault(t) \/ After(t)

FormNext ==
  \/ Prepare \/ Import \/ RepoKeys \/ Sealed \/ LoggedOut
  \/ SaveReads \/ SavePut

AccountWork == FormNext \/ \E t \in Task : TaskNext(t)

AccountInit ==
  /\ device = NoAccount /\ tabId = NoAccount /\ tabVault = NoAccount /\ tabSeed = NoAccount
  /\ known \in SUBSET Account /\ published = known
  /\ vaultSeq = [a \in Account |-> IF a \in known THEN 2 ELSE 0]
  /\ page = Closed /\ spent = [forms |-> 0, drops |-> 0, loads |-> 0]
  /\ task = [t \in Task |-> IF t = "header" THEN [Rest EXCEPT !.pc = "who"] ELSE Rest]

AccountNext ==
  \/ AccountWork
  \/ \E a \in Account : Create(a) \/ \E kind \in {"bundle", "phrase"} : Restore(a, kind)
  \/ SignOut \/ SaveProfile \/ ConfirmBackup
  \/ \E v \in {"hub", "create", "restore"} : SwitchView(v)
  \/ SkeletonCap \/ EnsureEffect \/ RetryVault
  \/ LeavePage \/ OpenPage \/ Reload \/ Visit

\* What was sent is answered or fails; the clock and the page's effects go on.
AccountFairness ==
  WF_accountVars(AccountWork) /\ WF_accountVars(EnsureEffect) /\ WF_accountVars(SkeletonCap)

AccountSpec == AccountInit /\ [][AccountNext]_accountVars /\ AccountFairness

(***************************************************************************)
(* Properties.                                                             *)
(***************************************************************************)
\* The session, the page and the tasks are well formed.
AccountTypeOK ==
  /\ {device, tabId, tabVault, tabSeed, page.shown} \subseteq Nobody
  /\ published \subseteq Account /\ known \subseteq Account
  /\ vaultSeq \in [Account -> 0..2]
  /\ page.view \in {"hub", "create", "restore", "backup"}
  /\ page.effect \in {"rest", "due", "waits", "failed"}
  /\ \A t \in Task : /\ {task[t].as, task[t].at, task[t].key} \subseteq Nobody
                     /\ task[t].gets \in 0..1 /\ task[t].puts \in 0..2 /\ task[t].round \in 1..2

\* "When signed in but ForgeVault ciphertext is missing (interrupted create/restore
\* or failed Put), re-attempt ensure" (auth-api.ts): on a node that only one account
\* signs in to, it ends with a profile and a vault once it stays signed in and the site
\* is visited again and again, whatever was interrupted or failed before.
AccountCompletes ==
  Cardinality(Account) = 1 =>
    \A a \in Account :
      (<>[](device = a) /\ []<><<Visit>>_accountVars)
        => <>[](a \in published /\ vaultSeq[a] > 0)

\* "Vault address ... Derived from your identity seed" (AccountPage.tsx): once nothing
\* runs any more, the session's vault address is that of its identity. An ensure that
\* outlives a sign-out sets the address of the account it was started for.
AddressOfIdentity ==
  Quiet /\ tabId # NoAccount => tabVault \in {tabId, NoAccount}
=============================================================================
