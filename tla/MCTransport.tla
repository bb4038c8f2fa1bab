---------------------------- MODULE MCTransport ----------------------------
(***************************************************************************)
(* Between a page and its node: reads and writes on the shell's socket,    *)
(* chunks on the pool, the tips that are read through them, the backups of *)
(* those tips and the pins that keep their packs.  The models share no     *)
(* state and are checked in one run: part names the one a behaviour is     *)
(* about, the others stay as they started.                                 *)
(***************************************************************************)
EXTENDS MCWsGets, WsWrites, ChunkPool, TipBrowse, RepoBackups, LocalProtect

CONSTANTS bio, keys, profile, vault

VARIABLE part

MCKeyOf == bio :> profile @@ keys :> vault

transportVars == <<vars, writeVars, poolVars, browseVars, backupVars, protectVars, part>>

TransportInit ==
  /\ part \in {"gets", "writes", "chunks", "tips", "backups", "pins"}
  /\ Init /\ WritesInit /\ PoolInit /\ BrowseInit /\ BackupInit /\ ProtectInit
  /\ part # "backups" => \A r \in Busy : stored[r] = NoPin
  /\ part # "pins" => /\ \A d \in Device : node[d] = NoGrant /\ intent[d] = Empty
                      /\ sealed = NoIntent

TransportNext ==
  \/ /\ part = "gets" /\ Next
     /\ UNCHANGED <<writeVars, poolVars, browseVars, backupVars, protectVars, part>>
  \/ /\ part = "writes" /\ WritesNext
     /\ UNCHANGED <<vars, poolVars, browseVars, backupVars, protectVars, part>>
  \/ /\ part = "chunks" /\ PoolNext
     /\ UNCHANGED <<vars, writeVars, browseVars, backupVars, protectVars, part>>
  \/ /\ part = "tips" /\ BrowseNext
     /\ UNCHANGED <<vars, writeVars, poolVars, backupVars, protectVars, part>>
  \/ /\ part = "backups" /\ BackupNext
     /\ UNCHANGED <<vars, writeVars, poolVars, browseVars, protectVars, part>>
  \/ /\ part = "pins" /\ ProtectNext
     /\ UNCHANGED <<vars, writeVars, poolVars, browseVars, backupVars, part>>

\* The fairness of the part that is followed: Fairness, WritesFairness,
\* PoolFairness, BrowseFairness, BackupFairness and ProtectFairness.
PartFairness ==
  /\ WF_vars(part = "gets" /\ \E how \in Failure \cup {"ok"} : AttemptEnds(how))
  /\ WF_vars(part = "gets" /\ PumpContinues)
  /\ WF_writeVars(part = "writes" /\ EndBackoff)
  /\ WF_writeVars(part = "writes" /\ (Send \/ ConnectTimeout \/ ConnectionRefused))
  /\ WF_writeVars(part = "writes" /\ HolderTimesOut)
  /\ \A s \in Slot : /\ WF_poolVars(part = "chunks" /\ SendGet(s))
                     /\ WF_poolVars(part = "chunks" /\ PoolTimeout(s))
  /\ WF_browseVars(part = "tips" /\ \E l \in Load : LoadNext(l))
  /\ \A w \in View : WF_browseVars(part = "tips" /\ Show(w))
  /\ \A t \in Thread : WF_backupVars(part = "backups" /\ ThreadNext(t))
  /\ WF_backupVars(part = "backups" /\ NextJob)
  /\ WF_backupVars(part = "backups" /\ NextRefresh)
  /\ WF_protectVars(part = "pins" /\ \E p \in pushes : PushReads(p))
  /\ WF_protectVars(part = "pins" /\ \E p \in pushes : PushPuts(p))
  /\ \A d \in Device :
       /\ WF_protectVars(part = "pins" /\ Probe(d)) /\ WF_protectVars(part = "pins" /\ Pull(d))
       /\ WF_protectVars(part = "pins" /\ PanelNext(d))
       /\ \A s \in SyncSlot : WF_protectVars(part = "pins" /\ SyncNext(d, s))

TransportSpec == TransportInit /\ [][TransportNext]_transportVars /\ PartFairness

\* The states of all are well formed.
TransportTypeOK ==
  TypeOK /\ WritesTypeOK /\ PoolTypeOK /\ BrowseTypeOK /\ BackupTypeOK /\ ProtectTypeOK
\* No caller waits for ever: for a GET (ws.ts, enqueueContractGet), a Put or an
\* Update (enqueueWrite), a chunk (ws-chunk-pool.ts), or for the tip a view of a
\* repository joined (native-api.ts, nativeEnsureTip), whoever else is served,
\* preempts it, leaves, pushes or runs into a deadline meanwhile.
EveryCallEnds ==
  EveryGetSettles /\ EveryWriteSettles /\ EveryChunkGetEnds /\ EveryViewSettles
=============================================================================
