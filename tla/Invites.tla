------------------------------ MODULE Invites ------------------------------
(***************************************************************************)
(* How a collaborator comes and goes (web/src/freenet/repo-invite.ts,      *)
(* auth-api.ts, owner-api.ts): the owner signs a coupon for the invitee,   *)
(* records the invite in the registry and sends coupon and site key to     *)
(* the invitee's inbox; the invitee adds a signature, puts the grant and   *)
(* imports the key, or declines, and may leave again.                      *)
(*                                                                         *)
(* The registry is one copy of the contract in ForgeRegistry. A request    *)
(* that fails may have been carried out all the same.                      *)
(***************************************************************************)
EXTENDS Naturals

CONSTANTS
  Lister,     \* the registry owner of the repository
  Invitee,    \* other identities
  Nobody,     \* no listing, no tombstone, no invite
  MaxSign     \* bound on the clock that seqs are taken from

ASSUME InvitesAssumption == Lister \notin Invitee /\ MaxSign \in Nat \ {0}

VARIABLES
  listed,     \* the contract state for this prefix
  stamp,      \* Date.now()
  inbox,      \* the invites in each invitee's inbox, each the seq of its coupon
  holds,      \* who imported the site key
  sending,    \* the invite the owner is sending
  doing       \* what each invitee is doing about an invite, or the repository

inviteVars == <<listed, stamp, inbox, holds, sending, doing>>

G == INSTANCE ForgeRegistry WITH
       Replica <- {Lister}, Identity <- Invitee \cup {Lister},
       SiteKeyHolder <- Invitee \cup {Lister},
       UpsertSeq <- 1..MaxSign, RemoveSeq <- 1..MaxSign, GrantSeq <- 1..MaxSign,
       StrayTo <- {}, StraySeq <- {},
       None <- Nobody, replica <- [r \in {Lister} |-> listed]

ASSUME NobodyAssumption == Nobody \notin G!Entry \cup G!Remove \cup G!Invite \cup Invitee \cup {Lister}

Time == 1..MaxSign
NotSending == [step |-> "none", to |-> Lister, coupon |-> 0]
Sending == [step : {"none", "record", "deliver"}, to : Invitee \cup {Lister}, coupon : {0} \cup Time]

\* reached: the registry has shown the grant since the accept began; cut: it has
\* been without the listing.
AtRest == [step |-> "none", coupon |-> 0, reached |-> FALSE, cut |-> FALSE]
InviteeDoing == [step : {"none", "grant", "import", "decline", "prune", "remove grant", "drop key"},
          coupon : {0} \cup Time, reached : BOOLEAN, cut : BOOLEAN]

NextStamp == stamp + 1
Tick == stamp < MaxSign /\ stamp' = NextStamp

Granted(i) == listed.contributors[i] # 0

\* The registry takes s; every accept under way takes note.
Take(s, d) ==
  /\ listed' = s
  /\ doing' = [i \in Invitee |-> IF d[i].step = "none" THEN d[i] ELSE
       [d[i] EXCEPT !.reached = @ \/ s.contributors[i] # 0, !.cut = @ \/ s.repo = Nobody]]

To(i, step) == [doing EXCEPT ![i].step = step]
Rest(i) == [doing EXCEPT ![i] = AtRest]
Quietly(d) == doing' = d /\ UNCHANGED listed
-----------------------------------------------------------------------------
\* Owner: sendRepoInvite. inviteBlockReason: not the owner, no grant, no invite.
BeginSend(i) ==
  /\ sending = NotSending
  /\ listed.repo # Nobody /\ ~Granted(i) /\ listed.pending[i] = Nobody
  /\ Tick
  /\ sending' = [step |-> "record", to |-> i, coupon |-> NextStamp]
  /\ UNCHANGED <<listed, inbox, holds, doing>>

\* nativeAddPendingInvite
RecordInvite ==
  /\ sending.step = "record"
  /\ Tick
  /\ LET put == G!Merge(listed, [G!Empty EXCEPT !.pending[sending.to] = [by |-> Lister, seq |-> NextStamp]])
     IN \/ Take(put, doing) /\ sending' = [sending EXCEPT !.step = "deliver"]
        \/ Take(put, doing) /\ sending' = NotSending
  /\ UNCHANGED <<inbox, holds>>

DeliverInvite ==
  /\ sending.step = "deliver"
  /\ inbox' = [inbox EXCEPT ![sending.to] = @ \cup {sending.coupon}]
  /\ sending' = NotSending
  /\ UNCHANGED <<listed, stamp, holds, doing>>

\* A request fails without effect, or the page closes.
SendFails ==
  /\ sending # NotSending /\ sending' = NotSending
  /\ UNCHANGED <<listed, stamp, inbox, holds, doing>>

\* nativeCancelPendingInvite; the message stays in the inbox.
CancelInvite(i) ==
  /\ listed.pending[i] # Nobody /\ G!ValidPendingRemove(listed, i, Lister)
  /\ Take([listed EXCEPT !.pending[i] = Nobody], doing)
  /\ UNCHANGED <<stamp, inbox, holds, sending>>

\* The owner unregisters the repository, and lists it again.
UnlistRepo ==
  /\ listed.repo # Nobody /\ Tick
  /\ Take(G!Merge(listed, [G!Empty EXCEPT !.removed = [id |-> Lister, seq |-> NextStamp]]), doing)
  /\ UNCHANGED <<inbox, holds, sending>>
ListRepo ==
  /\ listed.repo = Nobody /\ Tick
  /\ Take(G!Merge(listed, [G!Empty EXCEPT !.repo = [id |-> Lister, seq |-> NextStamp]]), doing)
  /\ UNCHANGED <<inbox, holds, sending>>
-----------------------------------------------------------------------------
\* Invitee: acceptRepoInvite, up to the registry read. The sender is the owner of
\* the listing; a grant that is there is not put again.
\* Mutant: the key is imported first, as the code did once.
BeginAccept_KeyFirst(i, m) ==
  /\ doing[i].step = "none" /\ m \in inbox[i]
  /\ listed.repo # Nobody
  /\ Quietly([doing EXCEPT ![i] = [AtRest EXCEPT !.step = "import", !.coupon = m, !.reached = Granted(i)]])
  /\ UNCHANGED <<stamp, inbox, holds, sending>>

BeginAccept(i, m) ==
  /\ doing[i].step = "none" /\ m \in inbox[i]
  /\ listed.repo # Nobody
  /\ Quietly([doing EXCEPT ![i] = [AtRest EXCEPT !.step = IF Granted(i) THEN "import" ELSE "grant",
                                                 !.coupon = m, !.reached = Granted(i)]])
  /\ UNCHANGED <<stamp, inbox, holds, sending>>

\* nativeAcceptContributorCoupon: the Put is answered, also when the merge skips it.
PutGrant(i) ==
  /\ doing[i].step = "grant"
  /\ Take(G!Merge(listed, [G!Empty EXCEPT !.contributors[i] = doing[i].coupon]), To(i, "import"))
  /\ UNCHANGED <<stamp, inbox, holds, sending>>

PutGrantLost(i) ==
  /\ doing[i].step = "grant"
  /\ Take(G!Merge(listed, [G!Empty EXCEPT !.contributors[i] = doing[i].coupon]), Rest(i))
  /\ UNCHANGED <<stamp, inbox, holds, sending>>

\* nativeImportRepoKey
ImportKey(i) ==
  /\ doing[i].step = "import"
  /\ holds' = holds \cup {i}
  /\ Quietly(To(i, "prune"))
  /\ UNCHANGED <<stamp, inbox, sending>>

\* denyRepoInvite: the decline first; where it fails the message stays.
BeginDeny(i, m) ==
  /\ doing[i].step = "none" /\ m \in inbox[i]
  /\ Quietly([doing EXCEPT ![i] = [AtRest EXCEPT !.step = "decline", !.coupon = m]])
  /\ UNCHANGED <<stamp, inbox, holds, sending>>

Decline(i) ==
  /\ doing[i].step = "decline" /\ G!ValidPendingRemove(listed, i, i)
  /\ Take([listed EXCEPT !.pending[i] = Nobody], To(i, "prune"))
  /\ UNCHANGED <<stamp, inbox, holds, sending>>

\* pruneInboxMessages
Prune(i) ==
  /\ doing[i].step = "prune"
  /\ inbox' = [inbox EXCEPT ![i] = @ \ {doing[i].coupon}]
  /\ Quietly(Rest(i))
  /\ UNCHANGED <<stamp, holds, sending>>

\* leaveRepositoryAsContributor: the site key signs the removal, then it goes.
BeginLeave(i) ==
  /\ doing[i].step = "none" /\ Granted(i)
  /\ Quietly([doing EXCEPT ![i] = [AtRest EXCEPT !.step = "remove grant"]])
  /\ UNCHANGED <<stamp, inbox, holds, sending>>

RemoveGrant(i) ==
  /\ doing[i].step = "remove grant" /\ i \in holds
  /\ G!ValidContributorRemove(listed, i, i)
  /\ Take([listed EXCEPT !.contributors[i] = 0], To(i, "drop key"))
  /\ UNCHANGED <<stamp, inbox, holds, sending>>

DropSiteKey(i) ==
  /\ doing[i].step = "drop key"
  /\ holds' = holds \ {i}
  /\ Quietly(Rest(i))
  /\ UNCHANGED <<stamp, inbox, sending>>

\* A request fails without effect, or the page closes.
InviteeFails(i) ==
  /\ doing[i].step # "none"
  /\ Quietly(Rest(i))
  /\ UNCHANGED <<stamp, inbox, holds, sending>>

InvitesInit ==
  /\ listed = [G!Empty EXCEPT !.repo = [id |-> Lister, seq |-> 1]]
  /\ stamp = 1
  /\ inbox = [i \in Invitee |-> {}] /\ holds = {}
  /\ sending = NotSending
  /\ doing = [i \in Invitee |-> AtRest]

InvitesNext ==
  \/ \E i \in Invitee : BeginSend(i) \/ CancelInvite(i)
  \/ RecordInvite \/ DeliverInvite \/ SendFails \/ UnlistRepo \/ ListRepo
  \/ \E i \in Invitee : \E m \in inbox[i] : BeginAccept(i, m) \/ BeginDeny(i, m)
  \/ \E i \in Invitee :
       \/ PutGrant(i) \/ PutGrantLost(i) \/ ImportKey(i) \/ Decline(i) \/ Prune(i)
       \/ BeginLeave(i) \/ RemoveGrant(i) \/ DropSiteKey(i) \/ InviteeFails(i)

InvitesSpec == InvitesInit /\ [][InvitesNext]_inviteVars
-----------------------------------------------------------------------------
InvitesTypeOK ==
  /\ listed \in G!State /\ stamp \in Time
  /\ inbox \in [Invitee -> SUBSET Time] /\ holds \subseteq Invitee
  /\ sending \in Sending /\ doing \in [Invitee -> InviteeDoing]

\* SCHEMA.md, invite coupon: the grant is public before the key is private
\* property of the invitee. Who imports the site key has been shown as a
\* contributor since the accept began, unless the repository was off the
\* registry meanwhile.
KeyFollowsGrant ==
  [][\A i \in Invitee : i \in holds' \ holds => doing[i].reached \/ doing[i].cut]_inviteVars
=============================================================================
