---------------------------- MODULE LocalProtect ----------------------------
(***************************************************************************)
(* Pins: contracts a node is asked to keep.  On every device the node has  *)
(* the live pins, under a permission of the site and a grant per area or   *)
(* repository; the browser remembers which were wanted (the intent), and   *)
(* the vault has the intent of the account (web/src/freenet/               *)
(* local-protect.ts, protect-prefs.ts, protect-tip-sync.ts and the panels  *)
(* that use them).  A pinned repository's ledger names the packs of its    *)
(* tip and follows it.  The automatic-pin switches are compared and stored *)
(* like the permission and are left out, and so is the anchor in a ledger. *)
(***************************************************************************)
EXTENDS Naturals, FiniteSets

CONSTANTS
  Device,
  Area,          \* grants of single contracts: profile, vault, website
  Repository,    \* the grant of the repository
  NoIntent,      \* the vault has no intent
  Snapshot,      \* the repository's mirror-mode is "snapshot"
  LastN,         \* packs kept by the retention last_n
  MaxPack,       \* bound on the tips that are pushed
  MaxPinOps,     \* bound on what the users do
  MaxPinFaults   \* bound on requests that fail and pages that are reloaded

ASSUME ProtectAssumption ==
  /\ Repository \notin Area /\ Snapshot \in BOOLEAN
  /\ {LastN, MaxPack, MaxPinOps, MaxPinFaults} \subseteq Nat /\ MaxPack > 0

VARIABLES
  node,      \* of each device: permission, grants, retention, ledger
  intent,    \* of each device: what the browser remembers
  sealed,    \* the intent in the vault
  pushes,    \* intents on their way to the vault
  hydrate,   \* of each device: the comparison under way
  panel,     \* of each device: the pin or retention change under way
  syncs,     \* of each device: membership syncs under way
  probe,     \* of each device: featuresCache, and whether the node is being asked
  newest,    \* the pack of the repository's tip
  pinSpent

protectVars == <<node, intent, sealed, pushes, hydrate, panel, syncs, probe, newest,
                 pinSpent>>

Grant == Area \cup {Repository}
Retention == {"current", "last_n", "all"}
Intent == [app : BOOLEAN, scopes : SUBSET Grant]
Empty == [app |-> FALSE, scopes |-> {}]
SyncSlot == 1..2

Unasked == [cache |-> "none", asking |-> FALSE]
NoSync == [pc |-> "rest", ledger |-> {}, keep |-> "all", keys |-> {}]
NoPanel == [pc |-> "rest", kind |-> "pin", keep |-> "all", keys |-> {}]
NoHydrate == [pc |-> "rest", local |-> Empty]

Operates == /\ pinSpent.ops < MaxPinOps
            /\ pinSpent' = [pinSpent EXCEPT !.ops = @ + 1]
Faults == /\ pinSpent.faults < MaxPinFaults
          /\ pinSpent' = [pinSpent EXCEPT !.faults = @ + 1]

\* Bound: a visit, a look at the settings or a change of the pin begins when nothing
\* else is under way on the device; what a push or an answer begins may overlap it.
Calm(d) ==
  /\ \A s \in SyncSlot : syncs[d][s].pc = "rest"
  /\ \A p \in pushes : p.of # d
  /\ hydrate[d].pc = "rest" /\ panel[d].pc = "rest" /\ ~probe[d].asking

(***************************************************************************)
(* fetchNodeFeatures: whether the node can pin at all.  A page asks once   *)
(* and keeps the answer, null too when the node could not be asked; the    *)
(* settings ask again.  Without the capability nothing is sent to the node *)
(***************************************************************************)
Capable(d) == probe[d].cache = "known"

Probe(d) ==
  /\ probe[d].cache = "none" \/ probe[d].asking
  /\ \/ probe' = [probe EXCEPT ![d] = [cache |-> "known", asking |-> FALSE]] /\ UNCHANGED pinSpent
     \/ Faults /\ probe' = [probe EXCEPT ![d] = [cache |-> "null", asking |-> FALSE]]
  /\ UNCHANGED <<node, intent, sealed, pushes, hydrate, panel, syncs, newest>>

\* tipPackKeysFromBundles: pack i was pushed with tip i, and only the newest tip
\* is a ref.
TipPackKeys(keep, tip) ==
  LET live == {tip} IN
  CASE keep = "all" -> 1..tip
    [] keep = "current" -> IF Snapshot THEN live ELSE 1..tip
    [] keep = "last_n" -> live \cup {i \in 1..tip : i < LastN}

(***************************************************************************)
(* The intent, on the device and in the vault.                             *)
(***************************************************************************)
\* compareProtectIntent.
Kind(local, vault) ==
  CASE vault = NoIntent -> IF local = Empty THEN "both_empty" ELSE "no_vault"
    [] vault = local -> "in_sync"
    [] vault # NoIntent /\ vault # local ->
         IF local = Empty \/ (vault # Empty /\ local.app = vault.app
                              /\ local.scopes \subseteq vault.scopes)
         THEN "local_behind"
         ELSE IF vault = Empty \/ (local.app = vault.app /\ vault.scopes \subseteq local.scopes)
         THEN "vault_behind" ELSE "diverged"

\* A push that is not awaited: base tells whether it has read the vault yet, and
\* whether the vault is still what it read.
Unread(d, i) == [of |-> d, what |-> i, base |-> "unread"]

\* writeIntentLocal and pushProtectIntentToVaultBestEffort, for each next intent.
Remember(d, steps) ==
  /\ intent' = [intent EXCEPT ![d] = steps[Cardinality(DOMAIN steps)]]
  /\ pushes' = pushes \cup {Unread(d, steps[k]) : k \in DOMAIN steps}

Granted(i, g) == [app |-> TRUE, scopes |-> i.scopes \cup {g}]

\* pushProtectIntentToVault: read, seal, Put with the next seq, which the contract
\* refuses if another write came first. A failure is logged.
PushReads(p) ==
  /\ p.base = "unread"
  /\ \/ pushes' = (pushes \ {p}) \cup {[p EXCEPT !.base = "fresh"]} /\ UNCHANGED pinSpent
     \/ Faults /\ pushes' = pushes \ {p}
  /\ UNCHANGED <<node, intent, sealed, hydrate, panel, syncs, newest, probe>>

Outdated(ps) == {IF q.base = "fresh" THEN [q EXCEPT !.base = "old"] ELSE q : q \in ps}

PushPuts(p) ==
  /\ p.base # "unread"
  /\ \/ /\ p.base = "fresh" /\ sealed' = p.what
        /\ pushes' = Outdated(pushes \ {p})
        /\ UNCHANGED pinSpent
     \/ /\ (p.base = "old" /\ UNCHANGED pinSpent) \/ Faults
        /\ pushes' = pushes \ {p} /\ UNCHANGED sealed
  /\ UNCHANGED <<node, intent, hydrate, panel, syncs, newest, probe>>

\* A device that is not followed has pushed its intent.
PushedIntentElsewhere ==
  /\ Operates /\ sealed' \in Intent
  /\ pushes' = Outdated(pushes)
  /\ UNCHANGED <<node, intent, hydrate, panel, syncs, newest, probe>>

\* IdentityProtectSettings asks the node anew and compares the intents
\* (hydrateProtectIntentFromVault): what the device remembers is read before the
\* vault is, and a vault that cannot be read counts as none.
OpenSettings(d) ==
  /\ Calm(d)
  /\ probe' = [probe EXCEPT ![d].asking = TRUE]
  /\ hydrate' = [hydrate EXCEPT ![d] = [pc |-> "pull", local |-> intent[d]]]
  /\ UNCHANGED <<node, intent, sealed, pushes, panel, syncs, newest, pinSpent>>

\* Mutant: a device that lags behind the vault is left alone.
Hydrate_PushOnly(d, vault) ==
  /\ UNCHANGED intent
  /\ pushes' = IF Kind(hydrate[d].local, vault) \in {"vault_behind", "no_vault"}
               THEN pushes \cup {Unread(d, intent[d])} ELSE pushes

Hydrate(d, vault) ==
  LET kind == Kind(hydrate[d].local, vault) IN
  /\ intent' = IF kind = "local_behind" THEN [intent EXCEPT ![d] = vault] ELSE intent
  /\ pushes' = IF kind \in {"vault_behind", "no_vault"}
               THEN pushes \cup {Unread(d, intent[d])} ELSE pushes

Pull(d) ==
  /\ hydrate[d].pc = "pull"
  /\ \/ Hydrate(d, sealed) /\ UNCHANGED pinSpent
     \/ Faults /\ Hydrate(d, NoIntent)
  /\ hydrate' = [hydrate EXCEPT ![d] = NoHydrate]
  /\ UNCHANGED <<node, sealed, panel, syncs, newest, probe>>

\* The user's choice after a difference: this device's intent, or the vault's.
UseLocal(d) ==
  /\ Operates /\ Capable(d) /\ Remember(d, <<intent[d]>>)
  /\ UNCHANGED <<node, sealed, hydrate, panel, syncs, newest, probe>>

UseVault(d) ==
  /\ Operates /\ Capable(d) /\ sealed # NoIntent
  /\ intent' = [intent EXCEPT ![d] = sealed]
  /\ UNCHANGED <<node, sealed, pushes, hydrate, panel, syncs, newest, probe>>

(***************************************************************************)
(* The user's permission and grants.  The node answers, or its answer is   *)
(* lost and nothing is remembered; the settings then ask the node again.   *)
(***************************************************************************)
Answers(d, steps) ==
  /\ pinSpent.ops < MaxPinOps /\ panel[d].pc = "rest" /\ Capable(d)
  /\ probe' \in {probe, [probe EXCEPT ![d].asking = TRUE]}
  /\ \/ /\ Remember(d, steps)
        /\ pinSpent' = [pinSpent EXCEPT !.ops = @ + 1]
     \/ /\ pinSpent.faults < MaxPinFaults /\ UNCHANGED <<intent, pushes>>
        /\ pinSpent' = [ops |-> pinSpent.ops + 1, faults |-> pinSpent.faults + 1]
  /\ UNCHANGED <<sealed, hydrate, panel, syncs, newest>>

RequestLayerA(d) ==
  /\ node' = [node EXCEPT ![d].app = TRUE]
  /\ Answers(d, <<[intent[d] EXCEPT !.app = TRUE]>>)

\* The node drops every grant; the browser keeps them, for a restore.
RevokeLayerA(d) ==
  /\ node[d].app
  /\ node' = [node EXCEPT ![d].app = FALSE, ![d].scopes = {}, ![d].ledger = {}]
  /\ Answers(d, <<[intent[d] EXCEPT !.app = FALSE]>>)

GrantScope(d, a) ==
  /\ node[d].app /\ a \in Area
  /\ node' = [node EXCEPT ![d].scopes = @ \cup {a}]
  /\ Answers(d, <<Granted(intent[d], a)>>)

RevokeScope(d, g) ==
  /\ g \in node[d].scopes
  /\ node' = [node EXCEPT ![d].scopes = @ \ {g},
                             ![d].ledger = IF g = Repository THEN {} ELSE @]
  /\ Answers(d, <<[intent[d] EXCEPT !.scopes = @ \ {g}]>>)

\* Restore, one remembered grant at a time: without the packs of a repository,
\* with the retention that was remembered for it.
RestoreScope(d, g) ==
  /\ g \in intent[d].scopes \ node[d].scopes
  /\ \E keep \in Retention :
       node' = [node EXCEPT ![d].app = TRUE, ![d].scopes = @ \cup {g},
                             ![d].keep = IF g = Repository THEN keep ELSE @]
  /\ Answers(d, IF node[d].app THEN <<Granted(intent[d], g)>>
                ELSE <<[intent[d] EXCEPT !.app = TRUE], Granted(intent[d], g)>>)

(***************************************************************************)
(* A repository is pinned, or its retention changed.  The tip that is      *)
(* pinned is read first, possibly from a cache.                            *)
(***************************************************************************)
ReadTips(d, kind, keep) ==
  /\ Operates /\ node[d].app /\ Calm(d) /\ Capable(d)
  /\ Repository \in node[d].scopes <=> kind = "keep"
  /\ \E tip \in 1..newest :
       panel' = [panel EXCEPT ![d] =
         [pc |-> IF kind = "pin" THEN "authorize" ELSE "create", kind |-> kind,
          keep |-> keep, keys |-> TipPackKeys(keep, tip)]]
  /\ UNCHANGED <<node, intent, sealed, pushes, hydrate, syncs, newest, probe>>

\* request-scope: nothing changes in a grant that is there, nor if the user cancels.
Authorize(d) ==
  /\ panel[d].pc = "authorize"
  /\ \/ /\ node[d].app /\ Capable(d)
        /\ node' = IF Repository \in node[d].scopes THEN node
                   ELSE [node EXCEPT ![d].scopes = @ \cup {Repository},
                                      ![d].keep = panel[d].keep, ![d].ledger = panel[d].keys]
        /\ panel' = [panel EXCEPT ![d].pc = "create"] /\ UNCHANGED pinSpent
     \/ /\ panel' = [panel EXCEPT ![d] = NoPanel] /\ UNCHANGED node
        /\ (~(node[d].app /\ Capable(d)) /\ UNCHANGED pinSpent) \/ Faults
  /\ UNCHANGED <<intent, sealed, pushes, hydrate, syncs, newest, probe>>

\* create-scope sets the retention; a new pin is remembered now.
Create(d) ==
  /\ panel[d].pc = "create"
  /\ \/ /\ node[d].app /\ Capable(d)
        /\ node' = [node EXCEPT ![d].scopes = @ \cup {Repository}, ![d].keep = panel[d].keep]
        /\ panel' = [panel EXCEPT ![d].pc = "sync"] /\ UNCHANGED pinSpent
        /\ IF panel[d].kind = "keep" THEN UNCHANGED <<intent, pushes>>
           ELSE Remember(d, <<[intent[d] EXCEPT !.app = TRUE], Granted(intent[d], Repository)>>)
     \/ /\ panel' = [panel EXCEPT ![d] = NoPanel] /\ UNCHANGED <<node, intent, pushes>>
        /\ (~(node[d].app /\ Capable(d)) /\ UNCHANGED pinSpent) \/ Faults
  /\ UNCHANGED <<sealed, hydrate, syncs, newest, probe>>

SyncPanel(d) ==
  /\ panel[d].pc = "sync"
  /\ panel' = [panel EXCEPT ![d] = NoPanel]
  /\ \/ /\ Repository \in node[d].scopes /\ Capable(d) /\ UNCHANGED pinSpent
        /\ node' = [node EXCEPT ![d].ledger = panel[d].keys]
        /\ IF panel[d].kind = "pin" THEN UNCHANGED <<intent, pushes>>
           ELSE Remember(d, <<Granted(intent[d], Repository)>>)
     \/ /\ (~(Repository \in node[d].scopes /\ Capable(d)) /\ UNCHANGED pinSpent) \/ Faults
        /\ UNCHANGED <<node, intent, pushes>>
  /\ UNCHANGED <<sealed, hydrate, syncs, newest, probe>>

(***************************************************************************)
(* syncRepoProtectMembership, on a push, a visit of the repository and by  *)
(* hand.  Several may be under way.                                        *)
(***************************************************************************)
Starts(d, slots) ==
  syncs' = [syncs EXCEPT ![d] = [s \in SyncSlot |->
              IF s \in slots THEN [NoSync EXCEPT !.pc = "status"] ELSE @[s]]]

\* The worker waits 750 ms and joins what it is told meanwhile into one job.
Observe(d) ==
  /\ Calm(d)
  /\ Starts(d, {1})
  /\ UNCHANGED <<node, intent, sealed, pushes, hydrate, panel, newest, probe, pinSpent>>

\* A push from this tab syncs itself, and tells the worker; one from elsewhere doesn't.
PushTip(d) ==
  /\ newest < MaxPack /\ newest' = newest + 1
  /\ Starts(d, {s \in SyncSlot : syncs[d][s].pc = "rest"})
  /\ UNCHANGED <<node, intent, sealed, pushes, hydrate, panel, probe, pinSpent>>

PushedElsewhere ==
  /\ newest < MaxPack /\ newest' = newest + 1
  /\ UNCHANGED <<node, intent, sealed, pushes, hydrate, panel, syncs, probe, pinSpent>>

Sync(d, s, next) == syncs' = [syncs EXCEPT ![d][s] = next]

\* Only a grant that exists is synced; its ledger and retention are read first, once
\* the node has been asked what it can.
SyncStatus(d, s) ==
  /\ syncs[d][s].pc = "status" /\ probe[d].cache # "none"
  /\ IF Capable(d) /\ Repository \in node[d].scopes
     THEN Sync(d, s, [pc |-> "read", ledger |-> node[d].ledger, keep |-> node[d].keep, keys |-> {}])
     ELSE Sync(d, s, NoSync)
  /\ UNCHANGED <<node, intent, sealed, pushes, hydrate, panel, newest, probe, pinSpent>>

\* The cached RepoState is dropped and the state read anew; nothing is sent if the
\* ledger was right.
SyncReads(d, s) ==
  LET y == syncs[d][s]
      wanted == TipPackKeys(y.keep, newest) IN
  /\ y.pc = "read"
  /\ \/ /\ UNCHANGED pinSpent
        /\ Sync(d, s, IF wanted = y.ledger THEN NoSync
                      ELSE [y EXCEPT !.pc = "put", !.keys = wanted])
     \/ Faults /\ Sync(d, s, NoSync)
  /\ UNCHANGED <<node, intent, sealed, pushes, hydrate, panel, newest, probe>>

SyncPuts(d, s) ==
  /\ syncs[d][s].pc = "put" /\ Sync(d, s, NoSync)
  /\ \/ /\ Repository \in node[d].scopes /\ Capable(d) /\ UNCHANGED pinSpent
        /\ node' = [node EXCEPT ![d].ledger = syncs[d][s].keys]
     \/ /\ (~(Repository \in node[d].scopes /\ Capable(d)) /\ UNCHANGED pinSpent) \/ Faults
        /\ UNCHANGED node
  /\ UNCHANGED <<intent, sealed, pushes, hydrate, panel, newest, probe>>

\* A page is reloaded: what ran is gone, and so is the intent where the sandbox
\* denies localStorage.
ReloadDevice(d) ==
  /\ Faults
  /\ intent' \in {intent, [intent EXCEPT ![d] = Empty]}
  /\ pushes' = {p \in pushes : p.of # d}
  /\ hydrate' = [hydrate EXCEPT ![d] = NoHydrate]
  /\ panel' = [panel EXCEPT ![d] = NoPanel]
  /\ syncs' = [syncs EXCEPT ![d] = [s \in SyncSlot |-> NoSync]]
  /\ probe' = [probe EXCEPT ![d] = Unasked]
  /\ UNCHANGED <<node, sealed, newest>>

\* A device has no permission, or one with or without the repository pinned; it may
\* remember a grant from before a permission was taken back.
NoGrant == [app |-> FALSE, scopes |-> {}, keep |-> "all", ledger |-> {}]
Pinned(keep) ==
  [app |-> TRUE, scopes |-> {Repository}, keep |-> keep, ledger |-> TipPackKeys(keep, 1)]

ProtectInit ==
  /\ node \in [Device -> {NoGrant, [NoGrant EXCEPT !.app = TRUE]}
                         \cup {Pinned(keep) : keep \in Retention}]
  /\ \E once \in SUBSET Device :
       intent = [d \in Device |-> [app |-> node[d].app, scopes |->
                  node[d].scopes \cup IF d \in once THEN {Repository} ELSE {}]]
  /\ sealed \in {NoIntent} \cup {intent[d] : d \in Device} /\ pushes = {}
  /\ hydrate = [d \in Device |-> NoHydrate] /\ panel = [d \in Device |-> NoPanel]
  /\ syncs = [d \in Device |-> [s \in SyncSlot |-> NoSync]]
  /\ probe = [d \in Device |-> Unasked]
  /\ newest = 1 /\ pinSpent = [ops |-> 0, faults |-> 0]

PushNext == \E p \in pushes : PushReads(p) \/ PushPuts(p)
SyncNext(d, s) == SyncStatus(d, s) \/ SyncReads(d, s) \/ SyncPuts(d, s)
PanelNext(d) == Authorize(d) \/ Create(d) \/ SyncPanel(d)
DeviceNext(d) ==
  \/ Probe(d) \/ OpenSettings(d) \/ Pull(d) \/ UseLocal(d) \/ UseVault(d)
  \/ RequestLayerA(d) \/ RevokeLayerA(d)
  \/ \E g \in Grant : GrantScope(d, g) \/ RevokeScope(d, g) \/ RestoreScope(d, g)
  \/ \E kind \in {"pin", "keep"}, keep \in Retention : ReadTips(d, kind, keep)
  \/ PanelNext(d)
  \/ Observe(d) \/ PushTip(d) \/ \E s \in SyncSlot : SyncNext(d, s)
  \/ ReloadDevice(d)

ProtectNext == \/ PushNext \/ PushedElsewhere \/ PushedIntentElsewhere
               \/ \E d \in Device : DeviceNext(d)

ProtectFairness ==
  /\ WF_protectVars(\E p \in pushes : PushReads(p))
  /\ WF_protectVars(\E p \in pushes : PushPuts(p))
  /\ \A d \in Device :
       /\ WF_protectVars(Probe(d)) /\ WF_protectVars(Pull(d)) /\ WF_protectVars(PanelNext(d))
       /\ \A s \in SyncSlot : WF_protectVars(SyncNext(d, s))

ProtectSpec == ProtectInit /\ [][ProtectNext]_protectVars /\ ProtectFairness

-----------------------------------------------------------------------------
\* Pins, intents and what is under way are well formed.
ProtectTypeOK ==
  /\ intent \in [Device -> Intent] /\ sealed \in Intent \cup {NoIntent}
  /\ probe \in [Device -> [cache : {"none", "known", "null"}, asking : BOOLEAN]]
  /\ pushes \subseteq [of : Device, what : Intent, base : {"unread", "fresh", "old"}]
  /\ \A d \in Device :
       /\ node[d].scopes \subseteq Grant /\ node[d].ledger \subseteq 1..MaxPack
       /\ ~node[d].app => node[d].scopes = {}
       /\ Repository \notin node[d].scopes => node[d].ledger = {}

\* "Keep repo Protect scopes aligned with live tip packs" (protect-tip-sync.ts), and
\* "auto-apply the non-empty / richer side" (protect-prefs.ts): whatever was pushed,
\* reloaded, refused or lost before, on devices that go on visiting the repository and
\* the settings a pinned repository's ledger comes to be that of its tip under its
\* retention, and no device's intent stays behind the vault's or ahead of it.
PinsCatchUp ==
  (\A d \in Device : []<><<Observe(d)>>_protectVars /\ []<><<OpenSettings(d)>>_protectVars)
    => <>[](\A d \in Device :
         /\ Repository \in node[d].scopes => node[d].ledger = TipPackKeys(node[d].keep, newest)
         /\ Kind(intent[d], sealed) \in {"in_sync", "both_empty", "diverged"})
=============================================================================
