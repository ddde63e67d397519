--------------------------------- MODULE Boot ---------------------------------
(***************************************************************************)
(* The life of the kited process: run in crates/kited/src/main.rs,         *)
(* Kited::start in daemon.rs, the key file of AgentIdentity and the        *)
(* receipts file, over crashes, failed starts and restarts.                *)
(*                                                                         *)
(* save is a function of the library, which the owner of a handle may call *)
(* with handle.identity; kited itself never does.  SQLite is external and  *)
(* its commits are atomic.                                                 *)
(***************************************************************************)
EXTENDS Naturals, FiniteSets

CONSTANTS
    HasPath,   \* identity.keypair_path is set
    MaxBoots,  \* bound: starts of the process
    MaxRows,   \* bound: receipts stored
    NONE,      \* an absent value
    TORN       \* a key file that was created and not fully written

ASSUME BootAssumption ==
    /\ HasPath \in BOOLEAN /\ MaxBoots \in Nat /\ MaxRows \in Nat
    /\ {NONE, TORN} \cap Nat = {} /\ NONE # TORN
    /\ NONE \notin {"running", "ok", "err"}

Key == 1..MaxBoots
Row == 1..MaxRows

\* How far run and start have come.
Phase == {"down", "config", "metrics", "identity", "encoder", "receipts",
          "swarm", "listen", "running", "interrupted", "joining", "exited"}

VARIABLES
    phase,     \* of the process
    boots,     \* starts so far; the key generated in the n-th is n
    id,        \* the identity of the process, NONE before it has one
    keyfile,   \* NONE, TORN or a key
    saving,    \* whether a save is under way
    table,     \* whether the receipts table exists
    rows,      \* receipts in the file: <<row, identity that wrote it>>
    loop,      \* the event loop's task: NONE, "running", "ok" or "err"
    shutdown,  \* whether Command::Shutdown is in the channel
    status,    \* the exit status of the process, NONE while it runs
    claimed,   \* history: the identity the last save wrote, or began to
    blind      \* history: this start did not see the key file that is there

fileVars == <<keyfile, table, rows>>
keyVars == <<claimed, blind>>
vars == <<phase, boots, id, fileVars, saving, loop, shutdown, status, keyVars>>
-----------------------------------------------------------------------------
TypeOK ==
    /\ phase \in Phase /\ boots \in 0..MaxBoots
    /\ id \in Key \cup {NONE} /\ keyfile \in Key \cup {NONE, TORN}
    /\ saving \in BOOLEAN /\ table \in BOOLEAN /\ shutdown \in BOOLEAN
    /\ rows \subseteq Row \X Key /\ rows # {} => table
    /\ loop \in {NONE, "running", "ok", "err"}
    /\ status \in {NONE, "ok", "err"} /\ claimed \in Key \cup {NONE}
    /\ blind \in BOOLEAN
    /\ phase = "exited" <=> status # NONE
    /\ phase \in {"encoder", "receipts", "swarm", "listen", "running",
                  "interrupted", "joining"} => id # NONE

Init ==
    /\ phase = "down" /\ boots = 0 /\ id = NONE
    /\ keyfile = NONE /\ table = FALSE /\ rows = {}
    /\ saving = FALSE /\ loop = NONE /\ shutdown = FALSE
    /\ status = NONE /\ claimed = NONE /\ blind = FALSE
-----------------------------------------------------------------------------
\* The operator starts kited.
Start ==
    /\ phase \in {"down", "exited"}
    /\ boots < MaxBoots
    /\ boots' = boots + 1
    /\ phase' = "config"
    /\ id' = NONE /\ status' = NONE /\ loop' = NONE /\ shutdown' = FALSE
    /\ blind' = FALSE
    /\ UNCHANGED <<fileVars, saving, claimed>>

\* The process ends at once: SIGKILL, or an interrupt before ctrl_c listens.
Crash ==
    /\ phase \notin {"down", "exited"}
    /\ phase' = "down"
    /\ id' = NONE /\ saving' = FALSE /\ loop' = NONE /\ shutdown' = FALSE
    /\ UNCHANGED <<boots, fileVars, status, keyVars>>

\* run returns.
Exit(result) ==
    /\ phase' = "exited" /\ status' = result
    /\ id' = NONE /\ saving' = FALSE /\ loop' = NONE /\ shutdown' = FALSE

\* A step of the start that only succeeds or fails.
Step(from, to) ==
    /\ phase = from
    /\ \/ phase' = to /\ UNCHANGED <<id, saving, loop, shutdown, status>>
       \/ Exit("err")
    /\ UNCHANGED <<boots, fileVars, keyVars>>

ReadConfig == Step("config", "metrics")     \* parse, or defaults without a file
InstallMetrics == Step("metrics", "identity")
NewEncoder == Step("encoder", "receipts")   \* downloads the model on first run
BuildSwarm == Step("swarm", "listen")

\* A variant of LoadIdentity: a file that does not decode is passed over.
LoadOrGenerate ==
    /\ phase = "identity"
    /\ phase' = "encoder"
    /\ id' = IF HasPath /\ keyfile \in Key THEN keyfile ELSE boots
    /\ UNCHANGED <<boots, fileVars, saving, loop, shutdown, status, keyVars>>

\* The match on keypair_path: load the file that exists, or generate a key and
\* keep it in memory.  exists() is false of a file whose metadata cannot be read
\* (permissions, an I/O error, a broken link) as it is of none.
LoadIdentity ==
    /\ phase = "identity"
    /\ \/ /\ HasPath /\ keyfile # NONE
          /\ \/ /\ keyfile \in Key
                /\ id' = keyfile /\ phase' = "encoder"
                /\ UNCHANGED <<saving, loop, shutdown, status>>
             \/ Exit("err")
          /\ UNCHANGED blind
       \/ /\ id' = boots /\ phase' = "encoder"
          /\ blind' = (HasPath /\ keyfile # NONE)
          /\ UNCHANGED <<saving, loop, shutdown, status>>
    /\ UNCHANGED <<boots, fileVars, claimed>>

\* A variant of OpenReceipts: the migration starts from an empty table.
OpenReceiptsAfresh ==
    /\ phase = "receipts"
    /\ phase' = "swarm" /\ table' = TRUE /\ rows' = {}
    /\ UNCHANGED <<boots, id, keyfile, saving, loop, shutdown, status, keyVars>>

\* A variant of OpenReceipts: the migration is not run.
OpenReceiptsUnmigrated ==
    /\ phase = "receipts"
    /\ phase' = "swarm"
    /\ UNCHANGED <<boots, id, fileVars, saving, loop, shutdown, status, keyVars>>

\* ReceiptStore::open: create the file if missing, the table if it does not exist.
OpenReceipts ==
    /\ phase = "receipts"
    /\ \/ /\ phase' = "swarm" /\ table' = TRUE
          /\ UNCHANGED <<id, saving, loop, shutdown, status>>
       \/ Exit("err") /\ UNCHANGED table
    /\ UNCHANGED <<boots, keyfile, rows, keyVars>>

\* EventLoop::spawn: parse the address, listen, start the task.
Spawn ==
    /\ phase = "listen"
    /\ \/ /\ phase' = "running" /\ loop' = "running"
          /\ UNCHANGED <<id, saving, shutdown, status>>
       \/ Exit("err")
    /\ UNCHANGED <<boots, fileVars, keyVars>>

\* A conversation of the loop ends with a receipt.  Conversation ids are fresh, so
\* INSERT OR REPLACE finds no row to replace.
StoreReceipt ==
    /\ loop = "running"
    /\ \E r \in Row : /\ \A x \in rows : x[1] # r
                      /\ rows' = rows \cup {<<r, id>>}
    /\ UNCHANGED <<phase, boots, id, keyfile, table, saving, loop, shutdown,
                   status, keyVars>>

\* An error, or a panic, ends the loop: run of main hears of it at the join.
LoopFails ==
    /\ loop = "running"
    /\ loop' = "err"
    /\ UNCHANGED <<phase, boots, id, fileVars, saving, shutdown, status, keyVars>>

LoopShutdown ==
    /\ loop = "running" /\ shutdown
    /\ loop' = "ok" /\ shutdown' = FALSE
    /\ UNCHANGED <<phase, boots, id, fileVars, saving, status, keyVars>>

\* signal::ctrl_c() returns, with an error perhaps.
CtrlC ==
    /\ phase = "running"
    /\ \/ phase' = "interrupted" /\ UNCHANGED <<id, saving, loop, shutdown, status>>
       \/ Exit("err")
    /\ UNCHANGED <<boots, fileVars, keyVars>>

\* inbox.shutdown().await: nothing is sent to a loop that is gone.
SendShutdown ==
    /\ phase = "interrupted"
    /\ phase' = "joining"
    /\ shutdown' = (loop = "running")
    /\ UNCHANGED <<boots, id, fileVars, saving, loop, status, keyVars>>

\* A variant of Join: a loop that failed is waited for.
JoinOk ==
    /\ phase = "joining" /\ loop = "ok"
    /\ Exit(loop)
    /\ UNCHANGED <<boots, fileVars, keyVars>>

\* handle.join().await.
Join ==
    /\ phase = "joining" /\ loop # "running"
    /\ Exit(loop)
    /\ UNCHANGED <<boots, fileVars, keyVars>>

\* save: fs::write creates or truncates the file ...
BeginSave ==
    /\ HasPath /\ phase = "running" /\ ~saving
    /\ saving' = TRUE
    /\ keyfile' = TORN
    /\ claimed' = id
    /\ UNCHANGED <<phase, boots, id, table, rows, loop, shutdown, status, blind>>

\* ... and then writes the bytes.
EndSave ==
    /\ saving
    /\ saving' = FALSE
    /\ keyfile' = id
    /\ UNCHANGED <<phase, boots, id, table, rows, loop, shutdown, status, keyVars>>
-----------------------------------------------------------------------------
Process ==
    \/ ReadConfig \/ InstallMetrics \/ LoadIdentity \/ NewEncoder
    \/ OpenReceipts \/ BuildSwarm \/ Spawn \/ SendShutdown \/ Join

Next ==
    \/ Process \/ LoopShutdown
    \/ Start \/ Crash \/ StoreReceipt \/ LoopFails \/ CtrlC
    \/ BeginSave \/ EndSave

Spec == Init /\ [][Next]_vars

\* The steps of run end, and the loop takes its next command.
FairSpec == Spec /\ WF_vars(Process) /\ WF_vars(LoopShutdown)
-----------------------------------------------------------------------------
\* Once a save has touched the key file, a start that sees the file runs under the
\* identity that was last saved or does not come up, also when a crash has left
\* the file torn.  Only a start to which exists() denies the file runs under
\* another, and only from a save of its own is the agent that other one.
OneIdentityOnceSaved ==
    claimed # NONE => /\ id \in {claimed, NONE} \/ blind
                      /\ keyfile \in {claimed, TORN}

\* Receipts outlive crashes, failed starts, restarts and changes of identity.
RowsKept == [][rows \subseteq rows']_vars

\* A process that was interrupted ends, whether its loop runs, failed before the
\* interrupt, or fails with the shutdown in its channel.
InterruptEnds == (phase = "interrupted") ~> (phase \in {"down", "exited"})
-----------------------------------------------------------------------------
\* examples/local.toml: "Set to a path to persist and reload".  With a path, the
\* receipts in the file were all written under the identity that runs.
IdentityPersists == id # NONE => \A x \in rows : x[2] = id
=============================================================================
