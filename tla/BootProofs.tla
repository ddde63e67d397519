------------------------------ MODULE BootProofs ------------------------------
(***************************************************************************)
(* Proofs about Boot: the identity and the receipts of an agent over any    *)
(* number of starts, crashes and failed starts.                            *)
(***************************************************************************)
EXTENDS Boot, TLAPS

\* A process that is not down was started; it has an identity from LoadIdentity
\* on, a receipts table from OpenReceipts on and an event loop from Spawn on; a
\* save is under way only while there is such a loop.
Staged ==
    /\ phase # "down" => boots > 0
    /\ id # NONE => phase \notin {"down", "exited", "config", "metrics", "identity"}
    /\ phase \in {"swarm", "listen", "running", "interrupted", "joining"} => table
    /\ loop # NONE <=> phase \in {"running", "interrupted", "joining"}
    /\ saving => phase \in {"running", "interrupted", "joining"}

\* A key file is written by a save, and a save claims the identity it writes.
Claimed ==
    /\ claimed # NONE => HasPath
    /\ saving => claimed # NONE /\ claimed = id
    /\ claimed = NONE => keyfile = NONE

\* The inductive invariant.
BInv == TypeOK /\ Staged /\ Claimed /\ OneIdentityOnceSaved

LEMMA BInvInit == Init => BInv
<1>. SUFFICES ASSUME Init PROVE BInv
  OBVIOUS
<1>1. TypeOK
  <2>1. /\ saving \in BOOLEAN /\ table \in BOOLEAN /\ shutdown \in BOOLEAN
        /\ blind \in BOOLEAN
    BY Zenon DEF Init
  <2>2. boots \in 0..MaxBoots
    BY BootAssumption DEF Init
  <2>. QED
    BY <2>1, <2>2 DEF Init, TypeOK, Phase
<1>2. Staged /\ Claimed /\ OneIdentityOnceSaved
  BY DEF Init, Staged, Claimed, OneIdentityOnceSaved
<1>. QED
  BY <1>1, <1>2 DEF BInv

\* However far the process came, returning from run keeps the invariant.
LEMMA ExitKeeps ==
    ASSUME BInv, phase # "down", NEW result \in {"ok", "err"}, Exit(result),
           UNCHANGED <<boots, keyfile, table, rows, claimed, blind>>
    PROVE  BInv'
<1>1. TypeOK'
  BY BootAssumption DEF BInv, TypeOK, Exit, Phase
<1>2. Staged' /\ Claimed' /\ OneIdentityOnceSaved'
  BY DEF BInv, Staged, Claimed, OneIdentityOnceSaved, Exit
<1>. QED
  BY <1>1, <1>2 DEF BInv

LEMMA BInvNext == BInv /\ [Next]_vars => BInv'
<1>. SUFFICES ASSUME BInv, [Next]_vars PROVE BInv'
  OBVIOUS
<1>. USE BootAssumption DEF fileVars, keyVars
<1>0. Key \subseteq Nat /\ NONE \notin Key /\ TORN \notin Key
  BY DEF Key
<1>1. CASE UNCHANGED vars
  BY <1>1 DEF vars, BInv, TypeOK, Staged, Claimed, OneIdentityOnceSaved
\* The steps of the start that only move on, or exit.
<1>2. ASSUME NEW from \in Phase, NEW to \in Phase, Step(from, to),
             <<from, to>> \in {<<"config", "metrics">>, <<"metrics", "identity">>,
                               <<"encoder", "receipts">>, <<"swarm", "listen">>}
      PROVE  BInv'
  <2>1. CASE phase' = to /\ UNCHANGED <<id, saving, loop, shutdown, status>>
    <3>1. /\ phase = from
          /\ UNCHANGED <<boots, keyfile, table, rows, claimed, blind>>
      BY <1>2 DEF Step
    <3>2. TypeOK'
      BY <1>2, <2>1, <3>1 DEF BInv, TypeOK
    <3>3. Staged' /\ Claimed' /\ OneIdentityOnceSaved'
      BY <1>2, <2>1, <3>1
         DEF BInv, Staged, Claimed, OneIdentityOnceSaved
    <3>. QED
      BY <3>2, <3>3 DEF BInv
  <2>. QED
    BY <1>2, <2>1, ExitKeeps DEF Step
<1>3. CASE ReadConfig \/ InstallMetrics \/ NewEncoder \/ BuildSwarm
  BY <1>2, <1>3
     DEF ReadConfig, InstallMetrics, NewEncoder, BuildSwarm, Phase
<1>6. CASE LoadIdentity
  <2>0. /\ phase = "identity"
        /\ UNCHANGED <<boots, keyfile, table, rows, claimed>>
    BY <1>6 DEF LoadIdentity
  <2>1. boots \in Key
    BY <2>0 DEF BInv, TypeOK, Staged, Key
  <2>2. CASE Exit("err") /\ UNCHANGED blind
    BY <2>0, <2>2, ExitKeeps
  <2>3. CASE /\ id' \in Key /\ phase' = "encoder" /\ blind' \in BOOLEAN
             /\ claimed # NONE => id' = keyfile \/ blind'
             /\ UNCHANGED <<saving, loop, shutdown, status>>
    <3>1. TypeOK'
      BY <1>0, <2>0, <2>3 DEF BInv, TypeOK, Phase
    <3>2. ~saving
      BY <2>0 DEF BInv, Staged
    <3>3. Staged' /\ Claimed'
      BY <1>0, <2>0, <2>3, <3>2 DEF BInv, Staged, Claimed
    <3>4. OneIdentityOnceSaved'
      BY <1>0, <2>0, <2>3 DEF BInv, OneIdentityOnceSaved
    <3>. QED
      BY <3>1, <3>3, <3>4 DEF BInv
  <2>4. CASE /\ keyfile \in Key /\ id' = keyfile /\ phase' = "encoder"
             /\ UNCHANGED <<saving, loop, shutdown, status, blind>>
    <3>1. blind' \in BOOLEAN
      BY <2>4 DEF BInv, TypeOK
    <3>. QED
      BY <2>3, <2>4, <3>1
  <2>5. CASE /\ id' = boots /\ phase' = "encoder"
             /\ blind' = (HasPath /\ keyfile # NONE)
             /\ UNCHANGED <<saving, loop, shutdown, status>>
    <3>1. blind' \in BOOLEAN
      BY <2>5, Zenon
    <3>2. claimed # NONE => HasPath /\ keyfile # NONE
      BY <1>0 DEF BInv, TypeOK, Claimed, OneIdentityOnceSaved
    <3>. QED
      BY <2>1, <2>3, <2>5, <3>1, <3>2
  <2>. QED
    BY <1>6, <2>2, <2>4, <2>5 DEF LoadIdentity
<1>7. CASE OpenReceipts
  <2>1. CASE /\ phase' = "swarm" /\ table' = TRUE
             /\ UNCHANGED <<id, saving, loop, shutdown, status>>
    <3>1. phase = "receipts" /\ UNCHANGED <<boots, keyfile, rows, claimed, blind>>
      BY <1>7 DEF OpenReceipts
    <3>2. TypeOK'
      BY <2>1, <3>1 DEF BInv, TypeOK, Phase
    <3>3. Staged' /\ Claimed' /\ OneIdentityOnceSaved'
      BY <2>1, <3>1 DEF BInv, Staged, Claimed, OneIdentityOnceSaved
    <3>. QED
      BY <3>2, <3>3 DEF BInv
  <2>. QED
    BY <1>7, <2>1, ExitKeeps DEF OpenReceipts
<1>8. CASE Spawn
  <2>1. CASE /\ phase' = "running" /\ loop' = "running"
             /\ UNCHANGED <<id, saving, shutdown, status>>
    <3>1. /\ phase = "listen"
          /\ UNCHANGED <<boots, keyfile, table, rows, claimed, blind>>
      BY <1>8 DEF Spawn
    <3>2. TypeOK'
      BY <2>1, <3>1 DEF BInv, TypeOK, Phase
    <3>3. Staged' /\ Claimed' /\ OneIdentityOnceSaved'
      BY <2>1, <3>1 DEF BInv, Staged, Claimed, OneIdentityOnceSaved
    <3>. QED
      BY <3>2, <3>3 DEF BInv
  <2>. QED
    BY <1>8, <2>1, ExitKeeps DEF Spawn
<1>9. CASE CtrlC
  <2>1. CASE /\ phase' = "interrupted"
             /\ UNCHANGED <<id, saving, loop, shutdown, status>>
    <3>1. /\ phase = "running"
          /\ UNCHANGED <<boots, keyfile, table, rows, claimed, blind>>
      BY <1>9 DEF CtrlC
    <3>2. TypeOK'
      BY <2>1, <3>1 DEF BInv, TypeOK, Phase
    <3>3. Staged' /\ Claimed' /\ OneIdentityOnceSaved'
      BY <2>1, <3>1 DEF BInv, Staged, Claimed, OneIdentityOnceSaved
    <3>. QED
      BY <3>2, <3>3 DEF BInv
  <2>. QED
    BY <1>9, <2>1, ExitKeeps DEF CtrlC
<1>10. CASE Join
  <2>1. loop \in {"ok", "err"}
    BY <1>10 DEF Join, BInv, TypeOK, Staged
  <2>. QED
    BY <1>10, <2>1, ExitKeeps DEF Join
<1>11. CASE SendShutdown \/ LoopShutdown \/ LoopFails
  <2>1. TypeOK'
    BY <1>11 DEF SendShutdown, LoopShutdown, LoopFails, BInv, TypeOK, Phase
  <2>2. Staged' /\ Claimed' /\ OneIdentityOnceSaved'
    BY <1>11 DEF SendShutdown, LoopShutdown, LoopFails, BInv, TypeOK, Staged,
                 Claimed, OneIdentityOnceSaved
  <2>. QED
    BY <2>1, <2>2 DEF BInv
<1>12. CASE Start \/ Crash
  <2>1. TypeOK'
    <3>1. CASE Start
      <4>1. boots' \in 0..MaxBoots
        BY <3>1 DEF Start, BInv, TypeOK
      <4>2. shutdown' \in BOOLEAN
        BY <3>1, Zenon DEF Start
      <4>. QED
        BY <3>1, <4>1, <4>2 DEF Start, BInv, TypeOK, Phase
    <3>2. CASE Crash
      BY <3>2 DEF Crash, BInv, TypeOK, Phase
    <3>. QED
      BY <1>12, <3>1, <3>2
  <2>2. Staged' /\ Claimed' /\ OneIdentityOnceSaved'
    BY <1>12 DEF Start, Crash, BInv, TypeOK, Staged, Claimed,
                 OneIdentityOnceSaved
  <2>. QED
    BY <2>1, <2>2 DEF BInv
<1>13. CASE StoreReceipt
  <2>1. id \in Key /\ table
    BY <1>13 DEF StoreReceipt, BInv, TypeOK, Staged
  <2>. QED
    BY <1>13, <2>1 DEF StoreReceipt, BInv, TypeOK, Staged, Claimed,
                       OneIdentityOnceSaved
<1>14. CASE BeginSave \/ EndSave
  BY <1>0, <1>14 DEF BeginSave, EndSave, BInv, TypeOK, Staged, Claimed,
                     OneIdentityOnceSaved
<1>. QED
  BY <1>1, <1>3, <1>6, <1>7, <1>8, <1>9, <1>10, <1>11, <1>12, <1>13, <1>14
     DEF Next, Process

LEMMA BootInvariance == Spec => []BInv
BY BInvInit, BInvNext, PTL DEF Spec

\* The files and the phases of the process have their types: a process that got
\* past its identity has one, and it exits with a status.
THEOREM BootTypeCorrect == Spec => []TypeOK
BY BootInvariance, PTL DEF BInv

\* Once a save has touched the key file, a start that sees it runs under the
\* identity last saved, however many crashes and failed starts precede it.
THEOREM OneIdentityCorrect == Spec => []OneIdentityOnceSaved
BY BootInvariance, PTL DEF BInv

\* No step of the process takes a receipt out of the file.
THEOREM RowsKeptCorrect == Spec => RowsKept
<1>1. [Next]_vars => [rows \subseteq rows']_vars
  BY DEF Next, Process, vars, fileVars, ReadConfig, InstallMetrics, NewEncoder,
         BuildSwarm, Step, Exit, LoadIdentity, OpenReceipts, Spawn,
         SendShutdown, Join, LoopShutdown, Start, Crash, StoreReceipt,
         LoopFails, CtrlC, BeginSave, EndSave
<1>. QED
  BY <1>1, PTL DEF Spec, RowsKept
=============================================================================
