# GitForge in TLA+

GitForge is a forge for git repositories on Freenet without a server: Rust WASM
contracts hold the shared state on the nodes of the network, Rust WASM delegates
hold secrets on the user's own node, and a browser application (with a few command
line scripts) does everything else over one WebSocket to that node. The hard parts
are therefore the replicated states that merge in any order, the read-modify-write
of those states by several clients, and the asynchronous browser code between them.
This directory models those parts, checks them with TLC and proves what matters
most with TLAPS.

## The system

| Component | State | Operations | Modelled by |
| --- | --- | --- | --- |
| `contracts/forge-registry` | per `repo_prefix`: a listing or a tombstone, grants, pending invites | six update envelopes, merge of a peer's state, first Put | ForgeRegistry |
| `contracts/forge-vault` | `seq`, signer, encrypted envelopes of keys, authorized API keys | upsert; an API key may change only the envelopes in its scope | ForgeVault, VaultReplicas |
| `contracts/forge-profile` | profile signed by its owner, inbox of at most 64 messages | upsert, append by anyone, migration from an older WASM hash | ForgeProfile |
| `contracts/forge-repo` | metadata of a repository, two channels of 128 messages | upsert, append public or private | ForgeRepoMeta |
| `contracts/forge-stars` | stars by identity | star, unstar, soft merge | ForgeStars |
| `auth-api.ts`, `account-heal.ts`, the vault CLI | the delegates' keys | vault push and pull, API keys, bundle sync | VaultSync, VaultRegister |
| `auth-api.ts`, `AccountPage.tsx`, the header's link | the tab's session, the delegate's identity, the account page | create, restore, sign out, save the profile, complete a half made account | AccountSession |
| `ws.ts`, reads | two GET queues, the GET in flight, a cooldown | GET with priority, abort, flush, retry | WsGets |
| `ws.ts`, writes | a write lock, requests in the client library | Put and Update with retry | WsWrites |
| `chunk-ws-pool.ts` | sockets, one GET at a time on each | chunk GETs, shrink, reset | ChunkPool |
| `native-api.ts`, `tip-fetch.ts`, `tip-browse/` | loads of tips, merged tips, packs, views | open a ref, load, fill, leave, push | TipBrowse |
| `repo-backup.ts`, `repo-backup-store.ts` | pins in memory and in the delegate, packs in the delegate | pin, refresh, repair, rescue, clear, collect | RepoBackups |
| `local-protect.ts`, `protect-prefs.ts`, `protect-tip-sync.ts` and their panels | permission, grants and ledger on the node, the intent in the browser and in the vault | permit, grant, pin, revoke, restore, sync, compare with the vault | LocalProtect |
| `tip-fetch.ts`, `tip-cache-lifecycle.ts`, edits in `owner-api.ts` | RepoState cache with an epoch | push, rename, About, delayed clear | RepoEdits |
| `chunked-pack.ts`, `freenet-push.ts`, `pack-health.ts` | blobs on the network, tips | push, read back, sign the tip, rescue | PackPublish |
| `owner-api.ts`, `native-pages.ts`, `publish-owner-language.ts` | listing, deletion mark, Pages site and its metadata, site key | register, publish, disable, unregister, delete | RepoLifecycle |
| `repo-invite.ts`, `auth-api.ts` | inboxes, who holds the site key | invite, cancel, accept, deny, leave | Invites |
| `public-goods-*.ts`, its two components | approvals, switches, their copy in the vault | approve, switch, restore, start and stop watches, run a duty | PublicGoods |
| `tyche-duty.ts` | a secret per round in localStorage | commit, reveal | TycheDuty |

They meet in four ways. The browser calls delegates and contracts over the one socket
of `ws.ts`. Contracts never call each other: a multi-step operation is a chain of awaits
in the browser, and everything may happen between two of them. Nodes exchange the states
of a contract and merge them. Tabs share only the node, localStorage, IndexedDB and Web
Locks. What is hard in each part, line by line, is the list `hazards` in PROJECT.json, and
each hazard names the properties that are about it.

## Modules

A definition is translated from the lines PROJECT.json `map` gives. JavaScript runs one
callback at a time, so in the browser modules an action is the code between two awaits.
A request that fails may have been carried out all the same; where that matters there is
an action for the lost answer.

**ForgeRegistry** is the listing contract with `replica`, the copy each node holds, as far as
one prefix goes: what the maps have under its key. An operation on its own goes to the prefix
it was signed for, and so do the listings and tombstones of a state. Its grants and invites
need not: `merge_states` stores a row under the key it arrives under and judges it by the
listing of the row's own `repo_prefix`. `strays` are the contributors whose row here was signed
for another prefix, an invite by `None` is such an invite, and whether the other prefix's
listing lets one pass is left open (`Passing`). There is one action per update envelope, `Put` for the partial states the browser Puts, and `Sync` for a peer's
whole state. `Merge` is `merge_states` with its four phases in their order. A node that
hosts nothing stores the first state it receives if `validate_state` accepts it
(`Receive`, `ValidState`). Signatures are assumed unforgeable: what an identity could sign
may be submitted to any node at any time, any number of times, which covers delay,
reordering, duplication and loss. `Spec` starts from nodes that host nothing,
`HostedSpec` from the empty state that `ensureForgeRegistryExists` Puts first.
**ForgeRegistryRevocation** adds the last grant a copy dropped.

**ForgeVault** is what `forge-vault` accepts; an envelope is the set of the repositories
whose keys it holds. **VaultReplicas** has the copies of several nodes, which take a peer's
state for one more upsert. **VaultSync** has one copy and its clients: `op[w]` is the
operation of client `w` as far as its awaits (compare, change the delegate, fetch, write),
`repos` and `pages` are the delegates' keys, `bundle` what the command line tool has.
`Fetch` may miss a vault that exists, `Exported` takes a failed export of Pages keys for an
empty one, as the code does. **VaultRegister** is what the clients rely on: a register
with load and conditional store, which VaultSync implements (`ActsAsRegister`). The value
of the register is the vault; a load is fresh (`Fresh`) while what it carries is the state
the vault still has; an accepted write maps to `Store`, a step on the delegate alone
to a stutter or to `Forget`.

**ForgeProfile** has the copies of the profile contract, the profile under an older hash, and
`flow`, what each browser of the owner is doing: the flows read, read again for the
seq (`Publish`), and Put. A read asks both hashes and may miss either. `NotifySelf`,
`PruneInbox`, `UpdateProfile`, `Backfill`, `PublishStub` and `Migrate` are the flows,
`AppendInbox` is everybody's message, `SyncProfile` a peer's state. What the owner signs is in
two parts, `bio` and `meta` (`public_meta`), because they may come from different reads: a
draft names in `open` what it leaves to the second one, as a prune does with `public_meta`.

**ForgeRepoMeta** has the copies of the metadata, the clients that draft a state after a read
that may have missed it, and the snapshot in their backup (`saved`), which a restore Puts.
**ForgeStars** keeps `opinions`, the signed operations ever made, because anybody may send one
again; the merge is the contract's, star by star, without an order. **AccountSession** is one
tab and its delegate: four asynchronous tasks (a form, the header's look at the session, the
page's, and the one ensure in flight) with an action for each await; an account stands for its
seed, its fingerprint and the address of its vault.

**WsGets** is the GET pump. `run` is the pump's iteration with the phase of its attempt; when
an attempt ends, the continuation is a step of its own (`Resolve`, `Requeue`, `Reject`,
`Backoff`, ...), because other callbacks run in between. `armed` and `inFlight` are
`cancelInFlightGet` and `inFlightJob`; `orphans` are the bodies of cancelled attempts, which
go on and clear what they find. **WsGetsAbort** adds which GETs were unsettled when
their page was left. **WsWrites** is the write lock with its holder's phase, and below it the
client library: `pending`, the requests it sent, in order, and `answers`, what is on its way.
The library gives an answer to its oldest request, whatever the answer is about; `SettlesOn`
is the page's check of the key. **ChunkPool** has for each socket the GETs that wait their
turn, the library's requests, what the node has still to answer and the answers on their way;
the pool gives a GET up before the library does.

**TipBrowse** is one page on one repository. A load reads the RepoState, then packs until
the ref's commit is found, and goes on in the background; a view joins the load that
`tips` has for its ref. Leaving and pushing move the epoch: a load that is not `valid` any more
may still be answered, fail its views and clean up what it finds. **RepoBackups** has the three
threads that run the same code (the user's menu, the pass, the queue behind a tip push), each
between two requests to the delegate; `mem` and `known` are the page's copy of the pins,
`stored` and `blobs` what the delegate has, and collection removes the packs that no pin
in memory names. The pins of the delegate may fail to be read, which is caught: the page goes on
with those in memory (`Hydrates`). No page of this version mounts the menu or the pass; the
module says what the code does once one does. **LocalProtect** has on each device what its page knows of the node's
capability (`probe`: asked once, a failure remembered as none, asked anew by the settings), the
node's grants and the remembered `intent`, the intent in the vault (`sealed`), the pushes on their way to it, and the syncs of a
pinned repository's ledger with its tip, several of which may overlap.

**RepoEdits** is one page: edits that each read through the cache and Put a field with the next
seq, the GETs on their way, `inflight` (the GET a fetch joins) and the epoch (a GET that
is not `valid` any more does not fill the cache). **PackPublish** is several
pages: `held` are the blobs the network serves, `confirmed` those it was ever seen to hold,
`tipped` the packs a RepoState names. **RepoLifecycle** is the owner's tabs with one chore
each; the listing is a copy of ForgeRegistry (`R!Merge`), `warm` the registry cache of each
tab, from which a removal takes its seq, and `stateCopy` its copy of the RepoState, in which it
looks for pages to take down. **Invites** composes the registry (`G!Merge`), the
inboxes and who imported the site key. **PublicGoods** is one tab, because a tab reads localStorage
once and the event of a switch stays in it: its switches and approvals, the records in the
accounts' vaults, the starts and restores that wait for one delegate's answer after the other,
the watches, and the `runs` of a duty they began. Stopping a watch stops no run; a run checks
the approvals (`Witness`) and then signs. Another tab is seen in what a tab finds when it is
loaded, in the vaults and in what the delegates answer. **TycheDuty** has the tabs that take part in rounds, the
secret they share, and the updates the node has yet to carry out.

MCForgeRegistry, MCVaultSync and MCWsGets give instances of one module. **MCContracts**,
**MCTransport** and **MCBrowser** put modules that share no state into one run: `part` says
which of them a behaviour follows, the rest stays in its initial state. So their runs cost
the sum of the parts and not the product, and a property of one part is checked in all its
behaviours.

Operators named `X_Something` right before `X` are faulty variants of `X`, each a plausible
slip in the code `X` is translated from; one in place of `X` breaks the property that
PROJECT.json lists with it, so no property holds only because of the shape of the model.

## Runs

| Run | What is asked | Result |
| --- | --- | --- |
| `registry` | what every copy keeps, however it came to be hosted, also of what is delivered twice; rosters, invites and agreement of copies that started empty | holds |
| `contracts` | profile, metadata, stars, vault on several nodes: late, blind and repeated writes undo nothing; connected nodes come together; an account left half made is completed | holds |
| `transport` | reads, writes, chunk GETs and tips each end, and end with their own answer; pins catch up, and backups heal if passes are begun | holds |
| `browser` | the vault clients against their register; edits, packs, lives of repositories, invitations, consent, Tyche | holds |
| `registry_revocation` | SCHEMA.md: seq of a grant is monotonic | violated |
| `ws_gets_abort` | comment of `abortContractGets`: the GETs of a page are dropped with it | violated |
| `vault_key_admin` | docs/10: the pages envelope follows push and pull | violated |
| `vault_leave` | comment: the push after leaving drops that site key | violated, it may drop others too |
| `profile_stub` | comment: a stub cannot hide the real profile | violated |
| `account_address` | AccountPage: the vault address is derived from the identity's seed | violated |
| `pages_down` | docs/09: a listed prefix with a live site does not leave the registry | violated |
| `delete_key` | docs/13: the key goes after the prefix was unregistered | violated |

The violated ones are described under `findings` in PROJECT.json:

- `registry_revocation`: removing a contributor leaves nothing behind, so the copy of a peer,
  or the same add again, restores the grant.
- `ws_gets_abort`: a GET that was just preempted, or is in its retry pause, is in no place
  `abortContractGets` looks at, and runs again after its page was left.
- `vault_key_admin`: minting or revoking an API key rebuilds all envelopes without Pages keys.
- `vault_leave`: leaving a repository pushes without comparing, unlike the other automatic pushes.
- `profile_stub`: probes that time out look like a missing profile; the stub is then signed with
  the seq after the real one's, which the second read found.
- `account_address`: an ensure that outlives a sign-out sets the address of the account it was
  started for over that of the next one.
- `pages_down`: a removal looks for pages in the metadata only, and a publish puts the site
  before them; a removal in between sees none. (A tombstone page that cannot be Put is only
  logged, which leads to the same end by a longer way.)
- `delete_key`: the seq of a removal may be behind the listing's; the merge skips it, the Put
  is answered, and the site key goes.

KeyGoesLast and KeyFollowsGrant say what remains true next to the last one: no listing that
is *older* than the removal stays, and nobody imports a site key without a grant that showed.

Two owners who list one prefix on two nodes at once are never reconciled: each copy skips
the other's listing. `OwnerKeepsListing` is the rule that causes it, and HostedCopiesAgree
is stated of copies that one identity signed.

### Bounds

- `registry`: two nodes, two identities that both hold the site key, listing seqs 1 and 3 and
  one unregister seq 2 between them; two grant seqs, so that one is newer; strays are of one
  identity with the newer seq, so that they meet own rows that are older, equal and about
  somebody else. A step reads at most two copies. 151,321 states. HostedCopiesAgree leaves out
  copies where a listing and a tombstone have one seq, because these block each other; clients
  draw seq from a clock in milliseconds.
- `contracts`: *profile*: the owner's node and another, one bio and one meta that are there or not, two mails, one notice, an
  inbox of two (a cap that is reached), seqs to 3. *meta*: two nodes, two holders of the site
  key, channels of one message with two senders, seqs to 2. *stars*: three nodes, so that a
  star travels over a middle one, two people of whom one unstars. *vault*: two nodes, one
  API key with the scope `repos`, seqs to 3: the owner's two writes and a key's between them.
  *account*: one account, `MaxForms = 2`, one failed request and one load that cuts work
  short: one task that is interrupted and the next that must make up for it.
  `account_address` has two accounts and three forms (create, sign out, create), no faults.
- `transport`: *gets*: two high and two low GETs, two that may retry once, two with a cancel
  group: what preemption of a queued, a running and a requeued low job needs. *writes*: two
  writes to two contracts, one that others write too, two attempts. *chunks*: one slot
  that is opened twice and three chunks, so that an answer can be two requests late. *tips*:
  one view that opens again and again, two loads, one push. *backups*: two repositories, of which one is
  pushed to and asked for, `Room` lets two of the three threads run at once, one push, one
  request of the user, one failure or reload. *pins*:
  one device (others are PushedElsewhere and PushedIntentElsewhere), one operation, one failure,
  two tips; `Calm` begins a visit or a change when the device is at rest, and what they begin
  may overlap pushes and what follows them.
- `browser`: *vault*: one device, one API key (two clients that race), two repositories,
  `MaxSeq = 3`: a first vault and two writes. *goods*: two services and two accounts, one
  save, two starts that wait and two runs (one of a watch that was stopped, one of its
  successor). Constraints bound the product of what may wait: `OneVault` (one account has
  records, the other can only be the wrong one), `RestoresTwo` (the second service is there for
  the restore, which asks one after the other, and only while nothing else goes on),
  `WaitsAlone` and `RunsAlone`. *duty*: two tabs, one round, two secrets. *edits*:
  one edit, two GETs (one sent before a push, one after), seqs to 2. *packs*: two tabs, a
  single pack and one of two chunks, one eviction. *life*: two tabs, a clock of 2 (the
  listing a removal saw, and one it did not); `OneTakesDown` lets at most one of them take the
  repository down and `OneHasCopy` at most one keep a copy of the RepoState. 769,927 states
  in all. *invites*: one invitee, a clock of 6: list, invite, unlist, list, invite.

The runs with several parts switch deadlock checking off: a bounded clock or seq ends a
behaviour, a user who has asked for everything may stop, and the parts that are not followed
never move. `registry` and `ws_gets_abort` check it.

### Fairness

- WsGets: `AttemptEnds` is weakly fair because `withTimeout` bounds every attempt, and
  `PumpContinues` because the event loop runs every resolved promise and timer.
- WsWrites: the end of a pause, the sending or failing of the holder's connection, and
  the library's timeout of the holder's request: timers and callbacks of the page. No answer
  is assumed to come.
- ChunkPool: a GET whose turn it is is sent, and the pool's own timer fires.
- TipBrowse: a load goes on (its GETs end, as the first and third items say) and a settled
  promise wakes the views that await it.
- RepoBackups: each thread goes on, and the queue and the pass that was begun take their next
  job: requests that are answered or fail. That passes are begun again and again
  (`PassesGoOn`) is a premise of BackupsHeal and not assumed, for no page of this version
  mounts the worker that would begin them.
- LocalProtect: what a device has begun (the probe, pushes, the pull, the panel, the syncs) goes on.
  PinsCatchUp has a premise besides: the user visits the repository (`Observe`) and the settings
  (`OpenSettings`) again and again, for these are what starts a sync.
- AccountSession: tasks go on, the six seconds of the skeleton end and effects run.
  AccountCompletes has the premise that the account stays signed in and the site is visited
  again and again.
- ForgeProfile, ForgeStars, VaultReplicas: every pair of nodes that host a contract exchange
  its state again and again, which is what a Freenet subscription is; used only for
  ReplicasMeet (ProfileCopiesMeet, StarReachesAll, VaultCopiesMeet), which has the premise that
  the owner stops writing. ForgeRepoMeta claims no liveness.

In the composed runs each condition is bound to the part it is about (`PartFairness`).
EveryCallEnds joins EveryGetSettles, EveryWriteSettles, EveryChunkGetEnds and EveryViewSettles.
Nothing is assumed of users, aborts, the bodies of cancelled attempts or lost messages. The
GETs, writes and chunks of a run are finitely many; in the program low GETs do wait as long as
high ones keep coming, by design.

## Proofs

Each theorem holds for every value of the constants that meets the named assumptions of the
module it is about. In every proof an inductive invariant is preserved by each action, with
one lemma for what several actions share.

**ForgeRegistryProofs.** The invariant is about one copy: `Good(s)` is well-formed, not both
listed and removed (`Xor`), nobody both contributor and invited for this prefix (`Disjoint`),
and empty if not hosted (`Blank`). `Xor` alone does not survive a merge: the phase that merges tombstones must
know that there is no listing it would leave beside one. Each phase of `Merge` preserves `Good`,
hence `Merge`, `Receive` and every update do. The same lemmas carry `Advances` and `KeepsOwner`
from phase to phase. RedeliveryChangesNothing follows from what a merge leaves to take, phase by
phase (`Taken`): nothing, because a later phase makes no earlier one willing again.
HostedRosters and HostedCopiesAgree rest on a second invariant (`Sound`) of copies that were
never put from outside, about the rows of the prefix itself; strays are carried through every
phase beside them. A merge into such a copy takes the newer of the two heads (`HeadOfMerge`);
copies that a merge of the other's own rows leaves alone in both directions have one version,
hence one head, then one set of grants, then one set of invites, but for those whom a stray row
is about: strays of a prefix do outlive its unregister and differ from copy to copy.

**VaultSyncProofs.** "seq must increase" in the contract and "seq = what I read + 1" in the
clients make the vault a compare-and-swap register: a state that was read has a lower seq than
the vault or is the vault (`SeenIsPast`), so an accepted write comes from a client whose load
is fresh, and as it raises seq it spends every load: a `Store`. No other step touches the vault,
and as each is one client's (`OneClient`) it changes `Fresh` by that client at most. That is
`ImplementsRegister`. For the pushes that compare first the invariant adds `CmpOK`: as long as
the vault's seq is the one compared with, the vault holds no site key the device lacks, but
for the one the operation drops.

**ContractsProofs** treats ForgeRepoMeta, ForgeStars, VaultReplicas and ForgeProfile. An upsert
needs a higher seq and an append leaves it alone, which gives MetaOnlyAdvances for any read that
was missed and any snapshot. StarsStay needs that no unstar of a steadfast identity is ever in
`opinions`. KeysKeepToScope follows a state of an API key through `MayReceive`. For the profile
the invariant says what the draft of each flow was built on: a blind one has seq 1, and an
inbox write has the bio of its base, and its meta too unless it is a prune whose second read
saw another profile. AccountSession: a task that has asked for a vault was
given an account's address (`Tasked`), and a profile is saved by somebody (`SaverIn`): the
delegate cannot lose its identity to a sign-out while the form it would need is saving.

**PublishProofs.** RepoEdits: a valid GET that was sent before a push does not survive the
push, because the push moves the epoch; so the cache, and what an edit reads, is never older
than `pushed`. PackPublish: a task has confirmed every chunk that is not in `todo`, and signs a
tip only when `todo` is empty and the manifest was read back.

**DutyProofs.** TycheDuty: the lock of a round has one holder, who alone may draw; a commitment
is signed only after its secret is stored, and a stored secret goes only if the commitment it was
drawn for was refused by the contract. PublicGoods: an approval is on only while the
switch of its service is (`OnOK`), also in what starts and restores carry, and a start that
is not the latest starts nothing: so a watch that goes on has its switch on, and a run that
finds its approval on has too, although nothing stops it. A record that a restore found valid
named an identity the delegate held since the restore began.

**TransportProofs.** WsGets: the queues hold distinct unsettled GETs and none that is in the
pump's hands, whatever order preemption and requeueing leave them in; from that NoGetLost
(which counts), HandleIsOfAttempt, AbortedNotAnswered and HighServedFirst. WsWrites: the
library's queue holds one request of a write; an answer on its way, once it is checked for its
key, means that the contract changed. ChunkPool: what a GET is given is compared with what it
asked for. TipBrowse: a load that still counts has read what this page pushed last, or
something newer (`ReadSincePush`); one that does not was joined before that push
(`JoinedInTime`), so its late answer is not older than what its view was promised.
RepoBackups: every pin has a reason, also the one that is on its way to the delegate
(`Reasoned`), from which a pass takes on whose behalf it repairs. LocalProtect: a node `Holds`
no grant without the permission and no ledger without the repository's grant, by its own
guards, for what an answer under way carries may be older than a revocation.
**SequenceLemmas** has what these need of sequences without repetition. `Drain` is a function
defined by recursion on a queue's length, and what it leaves is proved by induction: the
library's induction theorem takes an operator, so the lemmas use the least natural number of a
set instead (`LeastNat`, `UpTo`).

**LifecycleProofs** composes: it takes an INSTANCE of ForgeRegistryProofs for the copy of the
registry in Invites and in RepoLifecycle, supplies the assumptions of that copy, and cites
what a merge keeps. Invites: while an invitee is about to import the key, the grant has shown
or the prefix was unlisted (`DoingOK`); the lemma behind it is that a grant put to a listed
prefix shows (`GrantShows`), whatever else the merge skips. RepoLifecycle: `Version` of the copy
never goes back, and after a removal was answered it is at least the removal's seq
(`RemovalTaken`), although the removal may have been skipped; a delete at `drop key` is marked
and keeps both (`ChoreOK`) while any other tab does anything.

**The composed runs.** ContractsProofs, TransportProofs and LifecycleProofs extend MCContracts,
MCTransport and MCBrowser. The conjunction of the parts' invariants is preserved by a step of
the composition, which is a step of one part and a stutter of the others; so ContractsAreSafe,
TransportIsSafe and BrowserIsSafe state of the very specifications that the runs check, for all
values of their constants, every safety property they check, and ContractsTypeOKAlways,
TransportTypeOKAlways and BrowserTypeOKAlways their type invariants.

Every safety property of a passing run is thus stated by a theorem. Checked by TLC only are
the liveness properties (ReplicasMeet, AccountCompletes, EveryCallEnds, BackupsHeal,
PinsCatchUp), which rest on fairness and are out of the prover's reach, and the counterexamples.

## What is not modelled

- Export of a backup to a file and its upload, automatic pinning, the anchor in a ledger, and
  the wording of the node's prompts. The menu and the pass of the repo backups, and
  `runAccountHealthPass`, are in no page at this commit (`App.tsx` mounts ProtectWorker);
  RepoBackups models them as their components would run them.
- AccountSession follows one tab and one form at a time; other tabs of the same delegate, and a
  bundle that is merged into a signed-in account, are left out.
- Answers of a delegate that are matched by type and may be swapped between two requests of one
  kind: every signing may fail in the models instead, which is what the contract makes of it.
- What a Kairos run signs: observations and pulses, one update each. Tabs of one browser share
  localStorage, which PublicGoods has in the state a tab starts from; that two tabs write it at
  once, and leave an approval on whose switch is off, is left out (`GoodsInit`).
- Password unlock, password wraps, the settings envelope's contents, avatars, and
  `scripts/cli/prune-junk-repos.mts`.
- Decoding of git packs, license and language detection, ordering and formatting of views: pure
  functions of byte strings and text, without shared state.
- Pages of the user interface, but for what they decide for the operations they call. They are
  a large part of the source, which is why the map covers less than a third of its lines.
- One client runs one operation at a time in VaultSync: the background sync of a tab does not
  overlap an operation of the same tab. RepoEdits follows one tab. Contents of answers in
  WsGets, fields that are only displayed, and length limits are left out.
- `attic/` is retired code.
