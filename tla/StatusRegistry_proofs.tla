------------------------ MODULE StatusRegistry_proofs ------------------------
(***************************************************************************)
(* Theorems about StatusRegistry, for any number of runs and clients and   *)
(* any pids.                                                               *)
(***************************************************************************)
EXTENDS StatusRegistry, TLAPS

(* Where a run has a first process that it has not waited for.             *)
WithProcess == {"cloned", "timed", "opened", "writing", "written", "running",
                "failing"}

(* Where it has the id.                                                    *)
Holding == {"saved", "starting", "removing"} \cup WithProcess

RunnersType ==
  /\ rpc \in [Runners -> RunnerPCs]
  /\ init \in [Runners -> [pid : Pids \cup {0}, start : Nat]]

KernelType == procs \in [Pids -> ProcStates] /\ clock \in Nat

(* A run's first process, until it is waited for, has the pid the run      *)
(* remembers, and no other process has an owner.                           *)
Owned ==
  /\ \A r \in Runners : rpc[r] \in WithProcess =>
       init[r].pid \in Pids /\ procs[init[r].pid].owner = r
  /\ \A p \in Pids : procs[p].owner # Nobody =>
       /\ rpc[procs[p].owner] \in WithProcess \cup {"killed"}
       /\ init[procs[p].owner].pid = p
       /\ Exists(p)

(* While a run removes the files nobody has the id and no container lives. *)
NobodyIn(q) == rpc[q] = "deleting" =>
  /\ \A r \in Runners : rpc[r] \notin Holding
  /\ \A p \in Pids : procs[p].alive => procs[p].owner = Nobody

(* Who has the id, and whose container lives, has its config.json there.   *)
Held ==
  ~collided =>
    /\ \A q \in Runners : NobodyIn(q)
    /\ \A r \in Runners : rpc[r] \in Holding => config = r
    /\ \A r \in Runners : rpc[r] = "running" => status.owner = r
    /\ \A p \in Pids : procs[p].alive /\ procs[p].owner # Nobody
                          => config = procs[p].owner

LEMMA RunnersTypeStep ==
  RunnersType /\ KernelType /\ Owned /\ [Next]_vars => RunnersType'
<1> SUFFICES ASSUME RunnersType, KernelType, Owned, [Next]_vars
             PROVE  RunnersType'
  OBVIOUS
<1> USE NobodyAssumption, PidsAssumption DEF
  RunnersType, KernelType, ProcStates, RunnerPCs, RunnerEnds, Runner, Owned,
  WithProcess, files, kernel, runners, clients
<1>1. ASSUME NEW r \in Runners, Run(r) PROVE RunnersType'
  <2>1. CASE GetDirectory(r)
    BY <2>1 DEF GetDirectory
  <2>2. CASE MakeDirectory(r)
    BY <2>2 DEF MakeDirectory, CreateDirectories
  <2>3. CASE ParseConfig(r)
    BY <2>3 DEF ParseConfig
  <2>4. CASE SaveConfig(r)
    BY <2>4 DEF SaveConfig
  <2>5. CASE CheckOptions(r)
    BY <2>5 DEF CheckOptions
  <2>6. CASE Clone(r)
    BY <2>6 DEF Clone, Spawn, Exists
  <2>7. CASE ReadStartTime(r)
    BY <2>7 DEF ReadStartTime
  <2>8. CASE OpenDirectory(r)
    BY <2>8 DEF OpenDirectory
  <2>9. CASE CreateTemp(r)
    BY <2>9 DEF CreateTemp
  <2>10. CASE WriteTemp(r)
    BY <2>10 DEF WriteTemp, UnlinkTemp
  <2>11. CASE Rename(r)
    BY <2>11 DEF Rename, UnlinkTemp
  <2>12. CASE Fail(r)
    BY <2>12 DEF Fail
  <2>13. CASE WaitContainerExit(r)
    BY <2>13 DEF WaitContainerExit, Reaped
  <2>14. CASE KillChild(r)
    BY <2>14 DEF KillChild, Reaped
  <2>15. CASE OpenRemoval(r)
    BY <2>15 DEF OpenRemoval
  <2>16. CASE RemoveEntry(r)
    BY <2>16 DEF RemoveEntry, Unlink
  <2>17. CASE MissEntry(r)
    BY <2>17 DEF MissEntry
  <2>18. CASE RemoveDirectory(r)
    BY <2>18 DEF RemoveDirectory
  <2>19. CASE RunnerKilled(r)
    BY <2>19 DEF RunnerKilled
  <2>20. QED
    BY <1>1, <2>1, <2>2, <2>3, <2>4, <2>5, <2>6, <2>7, <2>8,
        <2>9, <2>10, <2>11, <2>12, <2>13, <2>14, <2>15, <2>16, <2>17, <2>18,
        <2>19 DEF Run
<1>2. ASSUME NEW c \in Clients, Look(c) PROVE RunnersType'
  <2>1. CASE Scan(c) \/ GetReference(c) \/ MakeReference(c) \/ ReadStatus(c)
          \/ ProbePid(c) \/ CompareStartTime(c) \/ Kill(c) \/ ReadConfig(c)
          \/ Join(c)
    <3>1. UNCHANGED <<rpc, init>>
      BY <2>1 DEF Scan, GetReference, MakeReference, ReadStatus, ProbePid,
        CompareStartTime, Kill, ReadConfig, Join, CreateDirectories, Report,
        ActOn, files, kernel, runners, clients, Runner, Client
    <3>2. QED
      BY <3>1
  <2>2. QED
    BY <1>2, <2>1 DEF Look
<1>3. ASSUME NEW p \in Pids, OtherStarts(p) PROVE RunnersType'
  BY <1>3 DEF OtherStarts, Spawn, Exists, files, kernel, runners, clients
<1>4. ASSUME NEW p \in Pids, Die(p) PROVE RunnersType'
  BY <1>4 DEF Die, files, kernel, runners, clients
<1>5. CASE UNCHANGED vars
  BY <1>5 DEF vars, files, kernel, runners, clients
<1>6. QED
  BY <1>1, <1>2, <1>3, <1>4, <1>5 DEF Next

LEMMA KernelTypeStep ==
  RunnersType /\ KernelType /\ Owned /\ [Next]_vars => KernelType'
<1> SUFFICES ASSUME RunnersType, KernelType, Owned, [Next]_vars
             PROVE  KernelType'
  OBVIOUS
<1> USE NobodyAssumption, PidsAssumption DEF
  RunnersType, KernelType, ProcStates, NoProc, Runner, kernel, clients,
  files
<1>1. ASSUME NEW r \in Runners, Run(r) PROVE KernelType'
  <2>1. CASE Clone(r)
    <3>1. CASE UNCHANGED kernel
      BY <3>1
    <3>2. ASSUME NEW p \in Pids, Spawn(p, r) PROVE KernelType'
      <4>1. [owner |-> r, start |-> clock + 1, alive |-> TRUE] \in ProcStates
        OBVIOUS
      <4>2. clock' = clock + 1 /\ procs' \in [Pids -> ProcStates]
        BY <3>2, <4>1 DEF Spawn
      <4>3. QED
        BY <4>2
    <3>3. QED
      BY <2>1, <3>1, <3>2 DEF Clone
  <2>2. CASE WaitContainerExit(r)
    BY <2>2 DEF WaitContainerExit, Reaped
  <2>3. CASE KillChild(r)
    BY <2>3 DEF KillChild, Reaped
  <2>4. CASE RunnerKilled(r)
    BY <2>4 DEF RunnerKilled
  <2>5. CASE GetDirectory(r) \/ MakeDirectory(r) \/ ParseConfig(r)
          \/ SaveConfig(r) \/ CheckOptions(r) \/ ReadStartTime(r)
          \/ OpenDirectory(r) \/ CreateTemp(r) \/ WriteTemp(r) \/ Rename(r)
          \/ Fail(r) \/ OpenRemoval(r) \/ RemoveEntry(r) \/ MissEntry(r)
          \/ RemoveDirectory(r)
    <3>1. UNCHANGED <<procs, clock>>
      BY <2>5 DEF GetDirectory, MakeDirectory, ParseConfig, SaveConfig,
        CheckOptions, ReadStartTime, OpenDirectory, CreateTemp, WriteTemp,
        Rename, Fail, OpenRemoval, RemoveEntry, MissEntry, RemoveDirectory,
        CreateDirectories, Unlink, files, kernel, runners, clients, Runner,
        Client
    <3>2. QED
      BY <3>1
  <2>6. QED
    BY <1>1, <2>1, <2>2, <2>3, <2>4, <2>5 DEF Run
<1>2. ASSUME NEW c \in Clients, Look(c) PROVE KernelType'
  <2>1. CASE Scan(c) \/ GetReference(c) \/ MakeReference(c) \/ ReadStatus(c)
          \/ ProbePid(c) \/ CompareStartTime(c) \/ Kill(c) \/ ReadConfig(c)
          \/ Join(c)
    <3>1. UNCHANGED <<procs, clock>>
      BY <2>1 DEF Scan, GetReference, MakeReference, ReadStatus, ProbePid,
        CompareStartTime, Kill, ReadConfig, Join, CreateDirectories, Report,
        ActOn, files, kernel, runners, clients, Runner, Client
    <3>2. QED
      BY <3>1
  <2>2. QED
    BY <1>2, <2>1 DEF Look
<1>3. ASSUME NEW p \in Pids, OtherStarts(p) PROVE KernelType'
  BY <1>3 DEF OtherStarts, Spawn, Exists, files, kernel, runners, clients
<1>4. ASSUME NEW p \in Pids, Die(p) PROVE KernelType'
  <2>1. /\ clock' = clock
        /\ \E proc \in ProcStates : procs' = [procs EXCEPT ![p] = proc]
    BY <1>4 DEF Die, files, kernel, runners, clients
  <2>2. QED
    BY <2>1
<1>5. CASE UNCHANGED vars
  BY <1>5 DEF vars, files, kernel, runners, clients
<1>6. QED
  BY <1>1, <1>2, <1>3, <1>4, <1>5 DEF Next

LEMMA OwnedStep ==
  RunnersType /\ KernelType /\ Owned /\ [Next]_vars => Owned'
<1> SUFFICES ASSUME RunnersType, KernelType, Owned, [Next]_vars PROVE Owned'
  OBVIOUS
<1> USE NobodyAssumption, PidsAssumption DEF
  RunnersType, KernelType, ProcStates, NoProc, Runner, kernel, clients,
  files, runners, Owned, WithProcess, RunnerEnds, Exists
<1>1. ASSUME NEW r \in Runners, Run(r) PROVE Owned'
  <2>1. CASE GetDirectory(r)
    BY <2>1 DEF GetDirectory
  <2>2. CASE MakeDirectory(r)
    BY <2>2 DEF MakeDirectory, CreateDirectories
  <2>3. CASE ParseConfig(r)
    BY <2>3 DEF ParseConfig
  <2>4. CASE SaveConfig(r)
    BY <2>4 DEF SaveConfig
  <2>5. CASE CheckOptions(r)
    BY <2>5 DEF CheckOptions
  <2>6. CASE Clone(r)
    <3>1. ASSUME Runner(r, "starting", "removing"), UNCHANGED <<kernel, init>>
          PROVE  Owned'
      BY <3>1
    <3>2. ASSUME NEW p \in Pids, Spawn(p, r), Runner(r, "starting", "cloned"),
                 init' = [init EXCEPT ![r].pid = p]
          PROVE  Owned'
      <4>1. /\ ~Exists(p) /\ clock + 1 # 0
            /\ procs' = [procs EXCEPT ![p] = [owner |-> r, start |-> clock + 1,
                                             alive |-> TRUE]]
        BY <3>2 DEF Spawn
      <4>2. procs[p].owner = Nobody
        BY <4>1
      <4>3. \A q \in Pids : procs[q].owner # r
        BY <3>2
      <4>4. QED
        BY <3>2, <4>1, <4>2, <4>3
    <3>3. QED
      BY <2>6, <3>1, <3>2 DEF Clone
  <2>7. CASE ReadStartTime(r)
    <3>1. /\ rpc[r] = "cloned" /\ rpc'[r] \in {"timed", "failing"}
          /\ \A q \in Runners \ {r} : rpc'[q] = rpc[q]
          /\ \/ init' = [init EXCEPT ![r].start = procs[init[r].pid].start]
             \/ init' = init
          /\ UNCHANGED <<procs, clock>>
      BY <2>7 DEF ReadStartTime
    <3>2. \A q \in Runners : init'[q].pid = init[q].pid
      BY <3>1
    <3>3. QED
      BY <3>1, <3>2
  <2>8. CASE OpenDirectory(r)
    BY <2>8 DEF OpenDirectory
  <2>9. CASE CreateTemp(r)
    BY <2>9 DEF CreateTemp
  <2>10. CASE WriteTemp(r)
    BY <2>10 DEF WriteTemp, UnlinkTemp
  <2>11. CASE Rename(r)
    <3>1. /\ rpc[r] = "written" /\ UNCHANGED <<procs, init>>
          /\ rpc' = [rpc EXCEPT ![r] = "running"]
             \/ rpc' = [rpc EXCEPT ![r] = "failing"]
      BY <2>11 DEF Rename
    <3>2. QED
      BY <3>1
  <2>12. CASE Fail(r)
    BY <2>12 DEF Fail
  <2>13. CASE WaitContainerExit(r)
    BY <2>13 DEF WaitContainerExit, Reaped
  <2>14. CASE KillChild(r)
    BY <2>14 DEF KillChild, Reaped
  <2>15. CASE OpenRemoval(r)
    BY <2>15 DEF OpenRemoval
  <2>16. CASE RemoveEntry(r)
    BY <2>16 DEF RemoveEntry, Unlink
  <2>17. CASE MissEntry(r)
    <3>1. /\ rpc[r] = "deleting" /\ UNCHANGED <<procs, init>>
          /\ rpc' = [rpc EXCEPT ![r] = "deleting"]
             \/ rpc' = [rpc EXCEPT ![r] = "thrown"]
      BY <2>17 DEF MissEntry
    <3>2. QED
      BY <3>1
  <2>18. CASE RemoveDirectory(r)
    BY <2>18 DEF RemoveDirectory
  <2>19. CASE RunnerKilled(r)
    BY <2>19 DEF RunnerKilled
  <2>20. QED
    BY <1>1, <2>1, <2>2, <2>3, <2>4, <2>5, <2>6, <2>7, <2>8,
        <2>9, <2>10, <2>11, <2>12, <2>13, <2>14, <2>15, <2>16, <2>17, <2>18,
        <2>19 DEF Run
<1>2. ASSUME NEW c \in Clients, Look(c) PROVE Owned'
  <2>1. CASE Scan(c) \/ GetReference(c) \/ MakeReference(c) \/ ReadStatus(c)
          \/ ProbePid(c) \/ CompareStartTime(c) \/ Kill(c) \/ ReadConfig(c)
          \/ Join(c)
    <3>1. UNCHANGED <<procs, rpc, init>>
      BY <2>1 DEF Scan, GetReference, MakeReference, ReadStatus, ProbePid,
        CompareStartTime, Kill, ReadConfig, Join, CreateDirectories, Report,
        ActOn, files, kernel, runners, clients, Runner, Client
    <3>2. QED
      BY <3>1
  <2>2. QED
    BY <1>2, <2>1 DEF Look
<1>3. ASSUME NEW p \in Pids, OtherStarts(p) PROVE Owned'
  BY <1>3 DEF OtherStarts, Spawn, Exists, files, kernel, runners, clients
<1>4. ASSUME NEW p \in Pids, Die(p) PROVE Owned'
  BY <1>4 DEF Die, files, kernel, runners, clients
<1>5. CASE UNCHANGED vars
  BY <1>5 DEF vars, files, kernel, runners, clients
<1>6. QED
  BY <1>1, <1>2, <1>3, <1>4, <1>5 DEF Next

LEMMA HeldStep ==
  RunnersType /\ KernelType /\ Owned /\ Held /\ [Next]_vars => Held'
<1> SUFFICES ASSUME RunnersType, KernelType, Owned, Held, [Next]_vars
             PROVE  Held'
  OBVIOUS
<1> USE NobodyAssumption, PidsAssumption DEF
  RunnersType, KernelType, ProcStates, NoProc, Runner, kernel, clients,
  files, runners, Owned, WithProcess, Holding, Held, NobodyIn, RunnerEnds,
  Exists
<1>1. ASSUME NEW r \in Runners, Run(r) PROVE Held'
  <2>1. CASE GetDirectory(r)
    <3>1. /\ rpc[r] = "start" /\ UNCHANGED <<procs, config, status, collided>>
          /\ rpc' = [rpc EXCEPT ![r] = "got"]
             \/ rpc' = [rpc EXCEPT ![r] = "making"]
      BY <2>1 DEF GetDirectory
    <3>2. rpc'[r] \in {"got", "making"} /\ \A q \in Runners \ {r} : rpc'[q] = rpc[q]
      BY <3>1
    <3>3. \A q \in Runners : /\ rpc'[q] \in Holding => rpc[q] \in Holding
                             /\ rpc'[q] = "running" => rpc[q] = "running"
                             /\ rpc'[q] = "deleting" => rpc[q] = "deleting"
      BY <3>2
    <3>4. QED
      BY <3>1, <3>3
  <2>2. CASE MakeDirectory(r)
    BY <2>2 DEF MakeDirectory, CreateDirectories
  <2>3. CASE ParseConfig(r)
    BY <2>3 DEF ParseConfig
  <2>4. CASE SaveConfig(r)
    <3>1. ASSUME Runner(r, "parsed", "thrown"), UNCHANGED <<config, collided>>
          PROVE  Held'
      BY <2>4, <3>1 DEF SaveConfig
    <3>2. ASSUME Runner(r, "parsed", "saved"), config = Nobody, config' = r,
                 collided' = (collided \/ \E q \in Runners : rpc[q] = "deleting"),
                 ~collided'
          PROVE  Held'
      <4>1. ~collided /\ \A q \in Runners : rpc[q] # "deleting"
        BY <3>2
      <4>2. /\ rpc' = [rpc EXCEPT ![r] = "saved"]
            /\ UNCHANGED <<procs, status>>
        BY <2>4, <3>2 DEF SaveConfig
      <4>3. \A q \in Runners : rpc'[q] # "deleting"
        BY <4>1, <4>2
      <4>4. \A q \in Runners : rpc[q] \notin Holding
        BY <3>2, <4>1
      <4>5. \A p \in Pids : procs[p].alive => procs[p].owner = Nobody
        BY <3>2, <4>1
      <4>6. QED
        BY <3>2, <4>1, <4>2, <4>3, <4>4, <4>5
    <3>3. QED
      BY <2>4, <3>1, <3>2 DEF SaveConfig, Held
  <2>5. CASE CheckOptions(r)
    BY <2>5 DEF CheckOptions
  <2>6. CASE Clone(r)
    <3>1. ASSUME Runner(r, "starting", "removing"), UNCHANGED <<kernel, init>>
          PROVE  Held'
      BY <2>6, <3>1 DEF Clone
    <3>2. ASSUME NEW p \in Pids, Spawn(p, r), Runner(r, "starting", "cloned")
          PROVE  Held'
      <4>1. /\ procs' = [procs EXCEPT ![p] = [owner |-> r, start |-> clock + 1,
                                             alive |-> TRUE]]
            /\ rpc[r] = "starting" /\ rpc' = [rpc EXCEPT ![r] = "cloned"]
            /\ UNCHANGED <<config, status, collided>>
        BY <2>6, <3>2 DEF Spawn, Clone
      <4>2. ~collided => config = r /\ \A q \in Runners : rpc[q] # "deleting"
        BY <4>1
      <4>3. QED
        BY <4>1, <4>2
    <3>3. QED
      BY <2>6, <3>1, <3>2 DEF Clone
  <2>7. CASE ReadStartTime(r)
    BY <2>7 DEF ReadStartTime
  <2>8. CASE OpenDirectory(r)
    BY <2>8 DEF OpenDirectory
  <2>9. CASE CreateTemp(r)
    BY <2>9 DEF CreateTemp
  <2>10. CASE WriteTemp(r)
    BY <2>10 DEF WriteTemp, UnlinkTemp
  <2>11. CASE Rename(r)
    <3>1. CASE rpc' = [rpc EXCEPT ![r] = "running"] /\ status'.owner = r
      <4>1. /\ rpc[r] = "written" /\ UNCHANGED <<config, procs, collided>>
        BY <2>11 DEF Rename
      <4>2. /\ rpc'[r] = "running" /\ \A q \in Runners \ {r} : rpc'[q] = rpc[q]
        BY <3>1
      <4>3. \A q \in Runners : NobodyIn(q) => NobodyIn(q)'
        BY <4>1, <4>2
      <4>4. ASSUME ~collided, NEW q \in Runners
            PROVE  /\ rpc'[q] \in Holding => config' = q
                   /\ rpc'[q] = "running" => status'.owner = q
        BY <3>1, <4>1, <4>2, <4>4
      <4>5. QED
        BY <4>1, <4>2, <4>3, <4>4
    <3>2. CASE rpc' = [rpc EXCEPT ![r] = "failing"] /\ status' = status
      <4>1. /\ rpc[r] = "written" /\ UNCHANGED <<config, procs, collided>>
        BY <2>11 DEF Rename
      <4>2. /\ rpc'[r] = "failing" /\ \A q \in Runners \ {r} : rpc'[q] = rpc[q]
        BY <3>2
      <4>3. \A q \in Runners : NobodyIn(q) => NobodyIn(q)'
        BY <4>1, <4>2
      <4>4. ASSUME ~collided, NEW q \in Runners
            PROVE  /\ rpc'[q] \in Holding => config' = q
                   /\ rpc'[q] = "running" => status'.owner = q
        BY <3>2, <4>1, <4>2, <4>4
      <4>5. QED
        BY <4>1, <4>2, <4>3, <4>4
    <3>3. QED
      BY <2>11, <3>1, <3>2 DEF Rename
  <2>12. CASE Fail(r)
    BY <2>12 DEF Fail
  <2>13. CASE WaitContainerExit(r)
    BY <2>13 DEF WaitContainerExit, Reaped
  <2>14. CASE KillChild(r)
    BY <2>14 DEF KillChild, Reaped
  <2>15. CASE OpenRemoval(r)
    BY <2>15 DEF OpenRemoval
  <2>16. CASE RemoveEntry(r)
    BY <2>16 DEF RemoveEntry, Unlink
  <2>17. CASE MissEntry(r)
    BY <2>17 DEF MissEntry
  <2>18. CASE RemoveDirectory(r)
    BY <2>18 DEF RemoveDirectory
  <2>19. CASE RunnerKilled(r)
    BY <2>19 DEF RunnerKilled
  <2>20. QED
    BY <1>1, <2>1, <2>2, <2>3, <2>4, <2>5, <2>6, <2>7, <2>8,
        <2>9, <2>10, <2>11, <2>12, <2>13, <2>14, <2>15, <2>16, <2>17, <2>18,
        <2>19 DEF Run
<1>2. ASSUME NEW c \in Clients, Look(c) PROVE Held'
  <2>1. CASE Scan(c) \/ GetReference(c) \/ MakeReference(c) \/ ReadStatus(c)
          \/ ProbePid(c) \/ CompareStartTime(c) \/ Kill(c) \/ ReadConfig(c)
          \/ Join(c)
    <3>1. UNCHANGED <<procs, rpc, config, status, collided>>
      BY <2>1 DEF Scan, GetReference, MakeReference, ReadStatus, ProbePid,
        CompareStartTime, Kill, ReadConfig, Join, CreateDirectories, Report,
        ActOn, files, kernel, runners, clients, Runner, Client
    <3>2. QED
      BY <3>1
  <2>2. QED
    BY <1>2, <2>1 DEF Look
<1>3. ASSUME NEW p \in Pids, OtherStarts(p) PROVE Held'
  BY <1>3 DEF OtherStarts, Spawn, Exists, files, kernel, runners, clients
<1>4. ASSUME NEW p \in Pids, Die(p) PROVE Held'
  BY <1>4 DEF Die, files, kernel, runners, clients
<1>5. CASE UNCHANGED vars
  BY <1>5 DEF vars, files, kernel, runners, clients
<1>6. QED
  BY <1>1, <1>2, <1>3, <1>4, <1>5 DEF Next

-----------------------------------------------------------------------------
(* Records: what status.json and its readers say of a run's container.     *)

(* Where a run has made its record, or never will.                         *)
Past == {"running", "failing", "removing", "deleting"} \cup RunnerEnds

(* A record is whole, it is what its run knows of its container, and that  *)
(* run will start no other; the process with this pid, if it is the run's, *)
(* has this start time.                                                    *)
Genuine(record) ==
  record # NoRecord =>
    /\ record.whole
    /\ record.owner \in Runners /\ record.pid \in Pids
    /\ rpc[record.owner] \in Past
    /\ init[record.owner] = [pid |-> record.pid, start |-> record.start]
    /\ procs[record.pid].owner = record.owner
         => procs[record.pid].start = record.start

FilesType ==
  /\ temps \in [Runners -> {"none", "part", "whole"}]
  /\ \A r \in Runners : rpc[r] = "written" => temps[r] \in {"none", "whole"}

(* A start time was read from the process while it was there.              *)
StartKnown ==
  \A r \in Runners :
    rpc[r] \in {"timed", "opened", "writing", "written", "running"}
      => procs[init[r].pid].start = init[r].start

ClientsType ==
  /\ cpc \in [Clients -> ClientPCs] /\ rec \in [Clients -> Records]
  /\ outcome \in [Clients -> Outcomes] /\ status \in Records
  /\ \A c \in Clients :
       /\ cpc[c] \in {"read", "probed", "joining"} => rec[c] # NoRecord
       /\ outcome[c] # "none" => cpc[c] = "ended" /\ rec[c] # NoRecord

Types == RunnersType /\ KernelType /\ Owned

LEMMA FilesTypeStep ==
  Types /\ FilesType /\ [Next]_vars => FilesType'
<1> SUFFICES ASSUME Types, FilesType, [Next]_vars PROVE FilesType'
  OBVIOUS
<1> USE NobodyAssumption, PidsAssumption DEF
  RunnersType, KernelType, ProcStates, NoProc, Runner, kernel, clients,
  files, runners, Owned, WithProcess, RunnerEnds, Exists, Types, FilesType
<1>1. ASSUME NEW r \in Runners, Run(r) PROVE FilesType'
  <2>1. CASE GetDirectory(r)
    BY <2>1 DEF GetDirectory
  <2>2. CASE MakeDirectory(r)
    BY <2>2 DEF MakeDirectory, CreateDirectories
  <2>3. CASE ParseConfig(r)
    BY <2>3 DEF ParseConfig
  <2>4. CASE SaveConfig(r)
    BY <2>4 DEF SaveConfig
  <2>5. CASE CheckOptions(r)
    BY <2>5 DEF CheckOptions
  <2>6. CASE Clone(r)
    BY <2>6 DEF Clone, Spawn, Exists
  <2>7. CASE ReadStartTime(r)
    BY <2>7 DEF ReadStartTime
  <2>8. CASE OpenDirectory(r)
    BY <2>8 DEF OpenDirectory
  <2>9. CASE CreateTemp(r)
    <3>1. \A q \in Runners : rpc'[q] = "written" => q # r /\ rpc[q] = "written"
      BY <2>9 DEF CreateTemp
    <3>2. temps' = [temps EXCEPT ![r] = "part"] \/ temps' = temps
      BY <2>9 DEF CreateTemp
    <3>3. QED
      BY <3>1, <3>2
  <2>10. CASE WriteTemp(r)
    <3>1. \A q \in Runners : rpc'[q] = "written" /\ q # r => rpc[q] = "written"
      BY <2>10 DEF WriteTemp
    <3>2. \/ temps' = [temps EXCEPT ![r] = IF @ = "none" THEN @ ELSE "whole"]
          \/ rpc'[r] = "failing" /\ temps' = [temps EXCEPT ![r] = "none"]
          \/ rpc'[r] = "failing" /\ temps' = temps
      BY <2>10 DEF WriteTemp, UnlinkTemp
    <3>3. /\ temps' \in [Runners -> {"none", "part", "whole"}]
          /\ \A q \in Runners \ {r} : temps'[q] = temps[q]
          /\ rpc'[r] = "written" => temps'[r] \in {"none", "whole"}
      BY <3>2
    <3>4. QED
      BY <3>1, <3>3
  <2>11. CASE Rename(r)
    <3>1. \A q \in Runners : rpc'[q] = "written" => rpc[q] = "written"
      BY <2>11 DEF Rename
    <3>2. temps' = [temps EXCEPT ![r] = "none"] \/ temps' = temps
      BY <2>11 DEF Rename, UnlinkTemp
    <3>3. /\ temps' \in [Runners -> {"none", "part", "whole"}]
          /\ \A q \in Runners : temps'[q] \in {"none", temps[q]}
      BY <3>2
    <3>4. QED
      BY <3>1, <3>3
  <2>12. CASE Fail(r)
    BY <2>12 DEF Fail
  <2>13. CASE WaitContainerExit(r)
    BY <2>13 DEF WaitContainerExit, Reaped
  <2>14. CASE KillChild(r)
    BY <2>14 DEF KillChild, Reaped
  <2>15. CASE OpenRemoval(r)
    BY <2>15 DEF OpenRemoval
  <2>16. CASE RemoveEntry(r)
    BY <2>16 DEF RemoveEntry, Unlink
  <2>17. CASE MissEntry(r)
    BY <2>17 DEF MissEntry
  <2>18. CASE RemoveDirectory(r)
    BY <2>18 DEF RemoveDirectory
  <2>19. CASE RunnerKilled(r)
    BY <2>19 DEF RunnerKilled
  <2>20. QED
    BY <1>1, <2>1, <2>2, <2>3, <2>4, <2>5, <2>6, <2>7, <2>8,
        <2>9, <2>10, <2>11, <2>12, <2>13, <2>14, <2>15, <2>16, <2>17, <2>18,
        <2>19 DEF Run
<1>2. ASSUME NEW c \in Clients, Look(c) PROVE FilesType'
  <2>1. CASE Scan(c) \/ GetReference(c) \/ MakeReference(c) \/ ReadStatus(c)
          \/ ProbePid(c) \/ CompareStartTime(c) \/ Kill(c) \/ ReadConfig(c)
          \/ Join(c)
    <3>1. UNCHANGED <<rpc, temps>>
      BY <2>1 DEF Scan, GetReference, MakeReference, ReadStatus, ProbePid,
        CompareStartTime, Kill, ReadConfig, Join, CreateDirectories, Report,
        ActOn, files, kernel, runners, clients, Runner, Client
    <3>2. QED
      BY <3>1
  <2>2. QED
    BY <1>2, <2>1 DEF Look
<1>3. ASSUME NEW p \in Pids, OtherStarts(p) PROVE FilesType'
  BY <1>3 DEF OtherStarts, Spawn, Exists, files, kernel, runners, clients
<1>4. ASSUME NEW p \in Pids, Die(p) PROVE FilesType'
  BY <1>4 DEF Die, files, kernel, runners, clients
<1>5. CASE UNCHANGED vars
  BY <1>5 DEF vars, files, kernel, runners, clients
<1>6. QED
  BY <1>1, <1>2, <1>3, <1>4, <1>5 DEF Next

LEMMA StartKnownStep ==
  Types /\ StartKnown /\ [Next]_vars => StartKnown'
<1> SUFFICES ASSUME Types, StartKnown, [Next]_vars PROVE StartKnown'
  OBVIOUS
<1> USE NobodyAssumption, PidsAssumption DEF
  RunnersType, KernelType, ProcStates, NoProc, Runner, kernel, clients,
  files, runners, Owned, WithProcess, RunnerEnds, Exists, Types, StartKnown
<1>1. ASSUME NEW r \in Runners, Run(r) PROVE StartKnown'
  <2>1. CASE GetDirectory(r)
    BY <2>1 DEF GetDirectory
  <2>2. CASE MakeDirectory(r)
    BY <2>2 DEF MakeDirectory, CreateDirectories
  <2>3. CASE ParseConfig(r)
    BY <2>3 DEF ParseConfig
  <2>4. CASE SaveConfig(r)
    BY <2>4 DEF SaveConfig
  <2>5. CASE CheckOptions(r)
    BY <2>5 DEF CheckOptions
  <2>6. CASE Clone(r)
    <3>1. ASSUME Runner(r, "starting", "removing"), UNCHANGED <<kernel, init>>
          PROVE  StartKnown'
      BY <3>1
    <3>2. ASSUME NEW p \in Pids, Spawn(p, r), Runner(r, "starting", "cloned"),
                 init' = [init EXCEPT ![r].pid = p]
          PROVE  StartKnown'
      <4>1. /\ ~Exists(p)
            /\ procs' = [procs EXCEPT ![p] = [owner |-> r, start |-> clock + 1,
                                             alive |-> TRUE]]
        BY <3>2 DEF Spawn
      <4>2. ASSUME NEW q \in Runners,
                   rpc'[q] \in {"timed", "opened", "writing", "written", "running"}
            PROVE  q # r /\ rpc[q] = rpc'[q] /\ init'[q] = init[q]
        BY <3>2, <4>2
      <4>3. \A q \in Runners :
              rpc[q] \in {"timed", "opened", "writing", "written", "running"}
                => init[q].pid # p
        BY <4>1
      <4>4. QED
        BY <4>1, <4>2, <4>3
    <3>3. QED
      BY <2>6, <3>1, <3>2 DEF Clone
  <2>7. CASE ReadStartTime(r)
    BY <2>7 DEF ReadStartTime
  <2>8. CASE OpenDirectory(r)
    BY <2>8 DEF OpenDirectory
  <2>9. CASE CreateTemp(r)
    BY <2>9 DEF CreateTemp
  <2>10. CASE WriteTemp(r)
    BY <2>10 DEF WriteTemp, UnlinkTemp
  <2>11. CASE Rename(r)
    BY <2>11 DEF Rename, UnlinkTemp
  <2>12. CASE Fail(r)
    BY <2>12 DEF Fail
  <2>13. CASE WaitContainerExit(r)
    BY <2>13 DEF WaitContainerExit, Reaped
  <2>14. CASE KillChild(r)
    BY <2>14 DEF KillChild, Reaped
  <2>15. CASE OpenRemoval(r)
    BY <2>15 DEF OpenRemoval
  <2>16. CASE RemoveEntry(r)
    BY <2>16 DEF RemoveEntry, Unlink
  <2>17. CASE MissEntry(r)
    BY <2>17 DEF MissEntry
  <2>18. CASE RemoveDirectory(r)
    BY <2>18 DEF RemoveDirectory
  <2>19. CASE RunnerKilled(r)
    BY <2>19 DEF RunnerKilled
  <2>20. QED
    BY <1>1, <2>1, <2>2, <2>3, <2>4, <2>5, <2>6, <2>7, <2>8,
        <2>9, <2>10, <2>11, <2>12, <2>13, <2>14, <2>15, <2>16, <2>17, <2>18,
        <2>19 DEF Run
<1>2. ASSUME NEW c \in Clients, Look(c) PROVE StartKnown'
  <2>1. CASE Scan(c) \/ GetReference(c) \/ MakeReference(c) \/ ReadStatus(c)
          \/ ProbePid(c) \/ CompareStartTime(c) \/ Kill(c) \/ ReadConfig(c)
          \/ Join(c)
    <3>1. UNCHANGED <<rpc, init, procs>>
      BY <2>1 DEF Scan, GetReference, MakeReference, ReadStatus, ProbePid,
        CompareStartTime, Kill, ReadConfig, Join, CreateDirectories, Report,
        ActOn, files, kernel, runners, clients, Runner, Client
    <3>2. QED
      BY <3>1
  <2>2. QED
    BY <1>2, <2>1 DEF Look
<1>3. ASSUME NEW p \in Pids, OtherStarts(p) PROVE StartKnown'
  BY <1>3 DEF OtherStarts, Spawn, Exists, files, kernel, runners, clients
<1>4. ASSUME NEW p \in Pids, Die(p) PROVE StartKnown'
  BY <1>4 DEF Die, files, kernel, runners, clients
<1>5. CASE UNCHANGED vars
  BY <1>5 DEF vars, files, kernel, runners, clients
<1>6. QED
  BY <1>1, <1>2, <1>3, <1>4, <1>5 DEF Next

LEMMA ClientsTypeStep ==
  Types /\ ClientsType /\ [Next]_vars => ClientsType'
<1> SUFFICES ASSUME Types, ClientsType, [Next]_vars PROVE ClientsType'
  OBVIOUS
<1> USE NobodyAssumption, PidsAssumption DEF
  RunnersType, Runner, Client, KernelType, kernel, clients, files, runners,
  ClientsType, Outcomes, ClientPCs, Types, Owned
<1>1. ASSUME NEW r \in Runners, Run(r) PROVE ClientsType'
  <2>1. CASE Rename(r)
    <3>1. status' \in Records
      <4>1. CASE UNCHANGED status
        BY <4>1
      <4>2. CASE status' = [owner |-> r, pid |-> init[r].pid,
                            start |-> init[r].start, whole |-> temps[r] = "whole"]
        <5>1. (temps[r] = "whole") \in BOOLEAN
          OBVIOUS
        <5>2. QED
          BY <4>2, <5>1 DEF Records
      <4>3. QED
        BY <2>1, <4>1, <4>2 DEF Rename
    <3>2. UNCHANGED <<cpc, rec, outcome>>
      BY <2>1 DEF Rename
    <3>3. QED
      BY <3>1, <3>2
  <2>2. CASE RemoveEntry(r)
    <3>1. NoRecord \in Records
      BY DEF NoRecord, Records
    <3>2. status' \in {NoRecord, status} /\ UNCHANGED <<cpc, rec, outcome>>
      BY <2>2 DEF RemoveEntry, Unlink
    <3>3. QED
      BY <3>1, <3>2
  <2>3. CASE GetDirectory(r) \/ MakeDirectory(r) \/ ParseConfig(r)
          \/ SaveConfig(r) \/ CheckOptions(r) \/ Clone(r) \/ ReadStartTime(r)
          \/ OpenDirectory(r) \/ CreateTemp(r) \/ WriteTemp(r) \/ Fail(r)
          \/ WaitContainerExit(r) \/ KillChild(r) \/ OpenRemoval(r)
          \/ MissEntry(r) \/ RemoveDirectory(r) \/ RunnerKilled(r)
    <3>1. UNCHANGED <<cpc, rec, outcome, status>>
      BY <2>3 DEF GetDirectory, MakeDirectory, ParseConfig, SaveConfig,
        CheckOptions, Clone, ReadStartTime, OpenDirectory, CreateTemp,
        WriteTemp, Fail, WaitContainerExit, KillChild, OpenRemoval,
        MissEntry, RemoveDirectory, RunnerKilled, CreateDirectories, files,
        kernel, runners, clients, Runner, Client
    <3>2. QED
      BY <3>1
  <2>4. QED
    BY <1>1, <2>1, <2>2, <2>3 DEF Run
<1>2. ASSUME NEW c \in Clients, Look(c) PROVE ClientsType'
  <2>1. CASE Scan(c)
    BY <2>1 DEF Scan
  <2>2. CASE GetReference(c)
    BY <2>2 DEF GetReference
  <2>3. CASE MakeReference(c)
    BY <2>3 DEF MakeReference, CreateDirectories
  <2>4. CASE ReadStatus(c)
    BY <2>4 DEF ReadStatus
  <2>5. CASE ProbePid(c)
    BY <2>5 DEF ProbePid, Report, Exists
  <2>6. CASE CompareStartTime(c)
    BY <2>6 DEF CompareStartTime, Report, Exists
  <2>7. CASE Kill(c)
    BY <2>7 DEF Kill, ActOn, Report, Exists
  <2>8. CASE ReadConfig(c)
    BY <2>8 DEF ReadConfig
  <2>9. CASE Join(c)
    BY <2>9 DEF Join, ActOn, Report, Exists
  <2>10. QED
    BY <1>2, <2>1, <2>2, <2>3, <2>4, <2>5, <2>6, <2>7, <2>8,
        <2>9 DEF Look
<1>3. ASSUME NEW p \in Pids, OtherStarts(p) PROVE ClientsType'
  BY <1>3 DEF OtherStarts, Spawn, Exists, files, kernel, runners, clients
<1>4. ASSUME NEW p \in Pids, Die(p) PROVE ClientsType'
  BY <1>4 DEF Die, files, kernel, runners, clients
<1>5. CASE UNCHANGED vars
  BY <1>5 DEF vars, files, kernel, runners, clients
<1>6. QED
  BY <1>1, <1>2, <1>3, <1>4, <1>5 DEF Next

(* What is said of containers is true.                                     *)
RecordsTrue == Genuine(status) /\ \A c \in Clients : Genuine(rec[c])

LEMMA RecordsTrueStep ==
  Types /\ FilesType /\ StartKnown /\ ClientsType /\ RecordsTrue /\ [Next]_vars
    => RecordsTrue'
<1> SUFFICES ASSUME Types, FilesType, StartKnown, ClientsType, RecordsTrue, [Next]_vars
             PROVE  RecordsTrue'
  OBVIOUS
<1> USE NobodyAssumption, PidsAssumption DEF
  RunnersType, KernelType, ProcStates, NoProc, Runner, Client, kernel,
  clients, files, runners, Owned, WithProcess, RunnerEnds, Exists, Types,
  Genuine, Past, RecordsTrue
<1>1. ASSUME NEW r \in Runners, Run(r) PROVE RecordsTrue'
  <2>1. CASE GetDirectory(r)
    BY <2>1 DEF GetDirectory
  <2>2. CASE MakeDirectory(r)
    BY <2>2 DEF MakeDirectory, CreateDirectories
  <2>3. CASE ParseConfig(r)
    BY <2>3 DEF ParseConfig
  <2>4. CASE SaveConfig(r)
    BY <2>4 DEF SaveConfig
  <2>5. CASE CheckOptions(r)
    BY <2>5 DEF CheckOptions
  <2>6. CASE Clone(r)
    <3>1. /\ rpc[r] = "starting"
          /\ \A q \in Runners \ {r} : rpc'[q] = rpc[q] /\ init'[q] = init[q]
          /\ UNCHANGED <<status, rec>>
      BY <2>6 DEF Clone
    <3>2. \A p \in Pids : procs'[p] = procs[p] \/ procs'[p].owner = r
      BY <2>6 DEF Clone, Spawn
    <3>3. ASSUME NEW rr, Genuine(rr), rr # NoRecord
          PROVE  /\ rr.owner \in Runners \ {r} /\ rr.pid \in Pids
                 /\ rpc'[rr.owner] = rpc[rr.owner] /\ init'[rr.owner] = init[rr.owner]
      BY <3>1, <3>3
    <3>4. ASSUME NEW rr, Genuine(rr), rr # NoRecord
          PROVE  procs'[rr.pid].owner = rr.owner => procs'[rr.pid].start = rr.start
      <4>1. CASE procs'[rr.pid] = procs[rr.pid]
        BY <3>4, <4>1
      <4>2. CASE procs'[rr.pid].owner = r
        BY <3>3, <3>4, <4>2
      <4>3. QED
        BY <3>2, <3>3, <3>4, <4>1, <4>2
    <3>5. Genuine(status)'
      BY <3>1, <3>3, <3>4
    <3>6. ASSUME NEW c \in Clients PROVE Genuine(rec[c])'
      <4>1. CASE rec[c] = NoRecord
        BY <3>1, <4>1
      <4>2. CASE rec[c] # NoRecord
        <5>1. Genuine(rec[c])
          OBVIOUS
        <5>2. QED
          BY <3>1, <3>3, <3>4, <4>2, <5>1
      <4>3. QED
        BY <4>1, <4>2
    <3>7. QED
      BY <3>5, <3>6
  <2>7. CASE ReadStartTime(r)
    <3>1. /\ rpc[r] = "cloned"
          /\ \A q \in Runners \ {r} : rpc'[q] = rpc[q] /\ init'[q] = init[q]
          /\ UNCHANGED <<procs, status, rec>>
      BY <2>7 DEF ReadStartTime
    <3>2. ASSUME NEW rr, Genuine(rr), rr # NoRecord
          PROVE  /\ rr.owner \in Runners \ {r}
                 /\ rpc'[rr.owner] = rpc[rr.owner] /\ init'[rr.owner] = init[rr.owner]
      BY <3>1, <3>2
    <3>3. Genuine(status)'
      BY <3>1, <3>2
    <3>4. \A c \in Clients : Genuine(rec[c])'
      BY <3>1, <3>2
    <3>5. QED
      BY <3>3, <3>4
  <2>8. CASE OpenDirectory(r)
    BY <2>8 DEF OpenDirectory
  <2>9. CASE CreateTemp(r)
    BY <2>9 DEF CreateTemp
  <2>10. CASE WriteTemp(r)
    <3>1. /\ rpc[r] = "writing"
          /\ \A q \in Runners \ {r} : rpc'[q] = rpc[q]
          /\ UNCHANGED <<procs, init, status, rec>>
      BY <2>10 DEF WriteTemp
    <3>2. Genuine(status)'
      BY <3>1
    <3>3. \A c \in Clients : Genuine(rec[c])'
      BY <3>1
    <3>4. QED
      BY <3>2, <3>3
  <2>11. CASE Rename(r)
    <3>1. /\ rpc[r] = "written" /\ rpc'[r] \in {"running", "failing"}
          /\ \A q \in Runners \ {r} : rpc'[q] = rpc[q]
          /\ UNCHANGED <<procs, init, rec>>
      BY <2>11 DEF Rename
    <3>2. \A c \in Clients : Genuine(rec[c])'
      BY <3>1
    <3>3. CASE UNCHANGED status
      BY <3>1, <3>2, <3>3
    <3>4. CASE /\ temps[r] # "none" /\ rpc'[r] = "running"
               /\ status' = [owner |-> r, pid |-> init[r].pid,
                             start |-> init[r].start, whole |-> temps[r] = "whole"]
      <4>1. temps[r] = "whole"
        BY <3>1, <3>4 DEF FilesType
      <4>2. status'.whole
        BY <3>4, <4>1
      <4>3. /\ status'.owner = r /\ status'.pid = init[r].pid
            /\ status'.start = init[r].start
        BY <3>4
      <4>4. init[r] = [pid |-> init[r].pid, start |-> init[r].start]
            /\ init[r].pid \in Pids /\ procs[init[r].pid].start = init[r].start
        BY <3>1 DEF StartKnown
      <4>5. Genuine(status)'
        BY <3>1, <3>4, <4>2, <4>3, <4>4
      <4>6. QED
        BY <3>2, <4>5
    <3>5. QED
      BY <2>11, <3>3, <3>4 DEF Rename
  <2>12. CASE Fail(r)
    BY <2>12 DEF Fail
  <2>13. CASE WaitContainerExit(r)
    BY <2>13 DEF WaitContainerExit, Reaped
  <2>14. CASE KillChild(r)
    BY <2>14 DEF KillChild, Reaped
  <2>15. CASE OpenRemoval(r)
    BY <2>15 DEF OpenRemoval
  <2>16. CASE RemoveEntry(r)
    BY <2>16 DEF RemoveEntry, Unlink
  <2>17. CASE MissEntry(r)
    BY <2>17 DEF MissEntry
  <2>18. CASE RemoveDirectory(r)
    BY <2>18 DEF RemoveDirectory
  <2>19. CASE RunnerKilled(r)
    BY <2>19 DEF RunnerKilled
  <2>20. QED
    BY <1>1, <2>1, <2>2, <2>3, <2>4, <2>5, <2>6, <2>7, <2>8,
        <2>9, <2>10, <2>11, <2>12, <2>13, <2>14, <2>15, <2>16, <2>17, <2>18,
        <2>19 DEF Run
<1>2. ASSUME NEW c \in Clients, Look(c) PROVE RecordsTrue'
  <2>1. CASE ReadStatus(c)
    <3>1. /\ UNCHANGED <<rpc, init, procs, status>>
          /\ \A d \in Clients : rec'[d] \in {rec[d], status}
      BY <2>1 DEF ReadStatus, ClientsType
    <3>2. Genuine(status)'
      BY <3>1
    <3>3. ASSUME NEW d \in Clients PROVE Genuine(rec[d])'
      <4>1. CASE rec'[d] = rec[d]
        BY <3>1, <4>1
      <4>2. CASE rec'[d] = status
        BY <3>1, <4>2
      <4>3. QED
        BY <3>1, <4>1, <4>2
    <3>4. QED
      BY <3>2, <3>3
  <2>2. CASE Scan(c) \/ GetReference(c) \/ MakeReference(c) \/ ProbePid(c)
          \/ CompareStartTime(c) \/ Kill(c) \/ ReadConfig(c) \/ Join(c)
    <3>1. UNCHANGED <<rpc, init, procs, status, rec>>
      BY <2>2 DEF Scan, GetReference, MakeReference, ProbePid,
        CompareStartTime, Kill, ReadConfig, Join, CreateDirectories, Report,
        ActOn, files, kernel, runners, clients, Runner, Client
    <3>2. QED
      BY <3>1
  <2>3. QED
    BY <1>2, <2>1, <2>2 DEF Look
<1>3. ASSUME NEW p \in Pids, OtherStarts(p) PROVE RecordsTrue'
  BY <1>3 DEF OtherStarts, Spawn, Exists, files, kernel, runners, clients
<1>4. ASSUME NEW p \in Pids, Die(p) PROVE RecordsTrue'
  BY <1>4 DEF Die, files, kernel, runners, clients
<1>5. CASE UNCHANGED vars
  BY <1>5 DEF vars, files, kernel, runners, clients
<1>6. QED
  BY <1>1, <1>2, <1>3, <1>4, <1>5 DEF Next

(* A client that reported a container as stopped had a record.             *)
LEMMA ReportedOne ==
  ASSUME Types, ClientsType, RecordsTrue, NEW c \in Clients,
         cpc[c] \in {"read", "probed", "joining"} \/ outcome[c] # "none"
  PROVE  /\ rec[c].owner \in Runners /\ rec[c].owner # Nobody
         /\ rec[c].pid \in Pids
         /\ rpc[rec[c].owner] \in Past
         /\ procs[rec[c].pid].owner = rec[c].owner
              => procs[rec[c].pid].start = rec[c].start
  BY NobodyAssumption DEF ClientsType, RecordsTrue, Genuine

LEMMA StoppedIsDeadStep ==
  Types /\ ClientsType /\ RecordsTrue /\ StoppedIsDead /\ [Next]_vars
    => StoppedIsDead'
<1> SUFFICES ASSUME Types, ClientsType, RecordsTrue, StoppedIsDead, [Next]_vars
             PROVE  StoppedIsDead'
  OBVIOUS
<1> USE NobodyAssumption, PidsAssumption DEF
  RunnersType, KernelType, ProcStates, NoProc, Runner, Client, kernel,
  clients, files, runners, Types, ClientsType, Genuine, Past, RunnerEnds,
  RecordsTrue, StoppedIsDead, Lives
<1>1. ASSUME NEW r \in Runners, Run(r) PROVE StoppedIsDead'
  <2>1. CASE Clone(r)
    <3>1. /\ rpc[r] = "starting" /\ UNCHANGED <<outcome, rec>>
          /\ \/ procs' = procs
             \/ \E p \in Pids : procs' =
                  [procs EXCEPT ![p] = [owner |-> r, start |-> clock + 1,
                                        alive |-> TRUE]]
      BY <2>1 DEF Clone, Spawn
    <3>2. ASSUME NEW c \in Clients, outcome[c] = "stopped"
          PROVE  ~Lives(rec[c])'
      <4>1. /\ rec[c].owner # r /\ rec[c].pid \in Pids
            /\ ~Lives(rec[c])
        BY <3>1, <3>2, ReportedOne
      <4>2. CASE procs' = procs
        BY <3>1, <4>1, <4>2
      <4>3. ASSUME NEW p \in Pids, procs' =
                     [procs EXCEPT ![p] = [owner |-> r, start |-> clock + 1,
                                           alive |-> TRUE]]
            PROVE  ~Lives(rec[c])'
        <5>1. CASE p = rec[c].pid
          <6>1. procs'[rec[c].pid].owner = r
            BY <4>1, <4>3, <5>1
          <6>2. QED
            BY <3>1, <4>1, <6>1
        <5>2. CASE p # rec[c].pid
          <6>1. procs'[rec[c].pid] = procs[rec[c].pid]
            BY <4>1, <4>3, <5>2
          <6>2. QED
            BY <3>1, <4>1, <6>1
        <5>3. QED
          BY <5>1, <5>2
      <4>4. QED
        BY <3>1, <4>2, <4>3
    <3>3. QED
      BY <3>1, <3>2
  <2>2. CASE WaitContainerExit(r)
    BY <2>2 DEF WaitContainerExit, Reaped
  <2>3. CASE KillChild(r)
    BY <2>3 DEF KillChild, Reaped
  <2>4. CASE RunnerKilled(r)
    BY <2>4 DEF RunnerKilled
  <2>5. CASE GetDirectory(r) \/ MakeDirectory(r) \/ ParseConfig(r)
          \/ SaveConfig(r) \/ CheckOptions(r) \/ ReadStartTime(r)
          \/ OpenDirectory(r) \/ CreateTemp(r) \/ WriteTemp(r) \/ Rename(r)
          \/ Fail(r) \/ OpenRemoval(r) \/ RemoveEntry(r) \/ MissEntry(r)
          \/ RemoveDirectory(r)
    <3>1. UNCHANGED <<outcome, rec, procs>>
      BY <2>5 DEF GetDirectory, MakeDirectory, ParseConfig, SaveConfig,
        CheckOptions, ReadStartTime, OpenDirectory, CreateTemp, WriteTemp,
        Rename, Fail, OpenRemoval, RemoveEntry, MissEntry, RemoveDirectory,
        CreateDirectories, Unlink, files, kernel, runners, clients, Runner,
        Client
    <3>2. QED
      BY <3>1
  <2>6. QED
    BY <1>1, <2>1, <2>2, <2>3, <2>4, <2>5 DEF Run
<1>2. ASSUME NEW c \in Clients, Look(c) PROVE StoppedIsDead'
  <2>1. CASE ReadStatus(c)
    BY <2>1 DEF ReadStatus
  <2>2. CASE ProbePid(c)
    <3>1. /\ UNCHANGED <<rec, procs>> /\ cpc[c] = "read"
          /\ \A d \in Clients : outcome'[d] = "stopped" =>
               \/ outcome[d] = "stopped"
               \/ d = c /\ procs[rec[c].pid].start = 0
      BY <2>2 DEF ProbePid, Report, Exists
    <3>2. rec[c].owner # Nobody /\ rec[c].pid \in Pids
      BY <3>1, ReportedOne
    <3>3. procs[rec[c].pid].start = 0 => procs[rec[c].pid].owner = Nobody
      BY <3>2 DEF Owned, Exists
    <3>4. procs[rec[c].pid].start = 0 => ~Lives(rec[c])
      BY <3>2, <3>3
    <3>5. QED
      BY <3>1, <3>4
  <2>3. CASE CompareStartTime(c)
    <3>1. /\ UNCHANGED <<rec, procs>> /\ cpc[c] = "probed"
          /\ \A d \in Clients : outcome'[d] = "stopped" =>
               \/ outcome[d] = "stopped"
               \/ d = c /\ procs[rec[c].pid].start # rec[c].start
      BY <2>3 DEF CompareStartTime, Report
    <3>2. procs[rec[c].pid].start # rec[c].start => ~Lives(rec[c])
      BY <3>1, ReportedOne
    <3>3. QED
      BY <3>1, <3>2
  <2>4. CASE Kill(c)
    BY <2>4 DEF Kill, ActOn, Report, Exists
  <2>5. CASE Join(c)
    BY <2>5 DEF Join, ActOn, Report, Exists
  <2>6. CASE Scan(c) \/ GetReference(c) \/ MakeReference(c) \/ ReadConfig(c)
    <3>1. UNCHANGED <<outcome, rec, procs>>
      BY <2>6 DEF Scan, GetReference, MakeReference, ReadConfig,
        CreateDirectories, files, kernel, runners, clients, Runner, Client
    <3>2. QED
      BY <3>1
  <2>7. QED
    BY <1>2, <2>1, <2>2, <2>3, <2>4, <2>5, <2>6 DEF Look
<1>3. ASSUME NEW p \in Pids, OtherStarts(p) PROVE StoppedIsDead'
  <2>1. /\ UNCHANGED <<outcome, rec>>
        /\ procs' = [procs EXCEPT ![p] = [owner |-> Nobody, start |-> clock + 1,
                                          alive |-> TRUE]]
    BY <1>3 DEF OtherStarts, Spawn
  <2>2. ASSUME NEW c \in Clients, outcome[c] = "stopped"
        PROVE  ~Lives(rec[c])'
    <3>1. /\ rec[c].owner # Nobody /\ rec[c].pid \in Pids
          /\ ~Lives(rec[c])
      BY <2>2, ReportedOne
    <3>2. QED
      BY <2>1, <3>1
  <2>3. QED
    BY <2>1, <2>2
<1>4. ASSUME NEW p \in Pids, Die(p) PROVE StoppedIsDead'
  BY <1>4 DEF Die, files, kernel, runners, clients
<1>5. CASE UNCHANGED vars
  BY <1>5 DEF vars, files, kernel, runners, clients
<1>6. QED
  BY <1>1, <1>2, <1>3, <1>4, <1>5 DEF Next

-----------------------------------------------------------------------------
(* What is in the directory belongs to a run that still answers for it.    *)
Kept == Holding \cup {"deleting", "killed", "aborted"}

(* Who removes the files is alone with them: it has the directory open and *)
(* has still to come to exactly what is left in it.                        *)
Alone(r) ==
  /\ dir # 0 /\ dirfd[r] = dir /\ seen[r] = Present
  /\ \A q \in Runners : rpc[q] = "deleting" => q = r

Tidy ==
  /\ dir = 0 => Present = {}
  /\ ~collided =>
       /\ \A r \in Runners : rpc[r] = "deleting" => Alone(r)
       /\ config # Nobody => config \in Runners /\ rpc[config] \in Kept
       /\ status # NoRecord => status.owner \in Runners /\ rpc[status.owner] \in Kept
       /\ \A r \in Runners : temps[r] # "none" => rpc[r] \in Kept

(* The tables in which a run keeps what it has open and has still to do.   *)
TablesType ==
  dirfd = [r \in Runners |-> dirfd[r]] /\ seen = [r \in Runners |-> seen[r]]

LEMMA TablesTypeStep ==
  ASSUME TablesType, [Next]_vars
  PROVE  TablesType'
<1> USE DEF files, kernel, runners, clients
<1>1. ASSUME NEW r \in Runners, Run(r) PROVE TablesType'
  <2>1. /\ dirfd' = dirfd \/ \E d : dirfd' = [dirfd EXCEPT ![r] = d]
        /\ seen' = seen \/ \E d : seen' = [seen EXCEPT ![r] = d]
    BY <1>1 DEF Run, GetDirectory, MakeDirectory, ParseConfig, SaveConfig, CheckOptions, Clone,
      ReadStartTime, OpenDirectory, CreateTemp, WriteTemp, Rename, Fail, WaitContainerExit,
      KillChild, OpenRemoval, RemoveEntry, MissEntry, RemoveDirectory, RunnerKilled
  <2>. QED BY <2>1 DEF TablesType
<1>2. ASSUME NEW c \in Clients, Look(c) PROVE TablesType'
  BY <1>2 DEF Look, Scan, GetReference, MakeReference, ReadStatus, ProbePid, CompareStartTime,
    Kill, ReadConfig, Join, TablesType
<1>3. ASSUME NEW p \in Pids, OtherStarts(p) \/ Die(p) PROVE TablesType'
  BY <1>3 DEF OtherStarts, Die, TablesType
<1>4. CASE UNCHANGED vars
  BY <1>4 DEF vars, TablesType
<1>. QED BY <1>1, <1>2, <1>3, <1>4 DEF Next

LEMMA EmptyDirectory ==
  Present = {} <=> /\ config = Nobody /\ status = NoRecord
                   /\ \A r \in Runners : temps[r] = "none"
  BY DEF Present

(* A step of a run that leaves the files alone and stays answerable.       *)
LEMMA QuietKeepsTidy ==
  ASSUME Types, Tidy, NEW r \in Runners,
         UNCHANGED <<dir, config, status, temps, collided>>,
         \A q \in Runners \ {r} :
           rpc'[q] = rpc[q] /\ dirfd'[q] = dirfd[q] /\ seen'[q] = seen[q],
         rpc'[r] # "deleting",
         rpc[r] \in Kept => rpc'[r] \in Kept \/ dir = 0
  PROVE  Tidy'
<1>1. UNCHANGED Present
  BY DEF Present
<1>2. CASE dir = 0
  <2>1. config = Nobody /\ status = NoRecord /\ \A q \in Runners : temps[q] = "none"
    BY <1>2, EmptyDirectory DEF Tidy
  <2>2. ~collided => \A q \in Runners : rpc'[q] # "deleting"
    BY <1>2 DEF Tidy, Alone
  <2>3. NoRecord' = NoRecord
    BY DEF NoRecord
  <2>. QED BY <1>1, <2>1, <2>2, <2>3 DEF Tidy
<1>3. CASE dir # 0
  <2>1. \A q \in Runners : rpc[q] \in Kept => rpc'[q] \in Kept
    BY <1>3
  <2>2. ~collided => \A q \in Runners : rpc'[q] = "deleting" => Alone(q)'
    BY <1>1 DEF Tidy, Alone
  <2>. QED BY <1>1, <1>3, <2>1, <2>2 DEF Tidy, NoRecord
<1>. QED BY <1>2, <1>3

(* A step of a run that changes files, while nobody removes them.          *)
LEMMA BusyKeepsTidy ==
  ASSUME Types, Tidy, NEW r \in Runners,
         ~collided' => ~collided /\ \A q \in Runners : rpc[q] # "deleting",
         \A q \in Runners \ {r} :
           rpc'[q] = rpc[q] /\ (temps'[q] # "none" => temps[q] # "none"),
         rpc'[r] # "deleting",
         rpc[r] \in Kept => rpc'[r] \in Kept,
         dir' = 0 => Present' = {},
         temps'[r] # "none" => rpc'[r] \in Kept \/ temps[r] # "none",
         config' = config \/ (config' = r /\ rpc'[r] \in Kept),
         status' = status \/ (status'.owner = r /\ rpc'[r] \in Kept)
  PROVE  Tidy'
<1>1. \A q \in Runners : rpc[q] \in Kept => rpc'[q] \in Kept
  OBVIOUS
<1>2. ~collided' => \A q \in Runners : rpc'[q] # "deleting"
  OBVIOUS
<1>3. ~collided' =>
        /\ config' # Nobody => config' \in Runners /\ rpc'[config'] \in Kept
        /\ status' # NoRecord => status'.owner \in Runners /\ rpc'[status'.owner] \in Kept
        /\ \A q \in Runners : temps'[q] # "none" => rpc'[q] \in Kept
  BY <1>1 DEF Tidy
<1>4. NoRecord' = NoRecord
  BY DEF NoRecord
<1>. QED BY <1>2, <1>3, <1>4 DEF Tidy

LEMMA RunKeepsTidy ==
  ASSUME Types, FilesType, Held, TablesType, Tidy, NEW r \in Runners, Run(r)
  PROVE  Tidy'
<1> USE DEF Runner, kernel, clients, files, runners
<1>1. CASE GetDirectory(r) \/ ParseConfig(r) \/ CheckOptions(r) \/ Clone(r)
           \/ ReadStartTime(r) \/ OpenDirectory(r) \/ Fail(r) \/ WaitContainerExit(r)
           \/ KillChild(r) \/ RunnerKilled(r)
  <2>1. UNCHANGED <<dir, config, status, temps, collided, seen>>
    BY <1>1 DEF GetDirectory, ParseConfig, CheckOptions, Clone, ReadStartTime, OpenDirectory,
      Fail, WaitContainerExit, KillChild, RunnerKilled
  <2>2. \E to : /\ rpc' = [rpc EXCEPT ![r] = to] /\ to # "deleting"
                /\ rpc[r] \in Kept => to \in Kept
    BY <1>1 DEF GetDirectory, ParseConfig, CheckOptions, Clone, ReadStartTime, OpenDirectory,
      Fail, WaitContainerExit, KillChild, RunnerKilled, Kept, Holding, WithProcess
  <2>3. dirfd' = dirfd \/ \E d : dirfd' = [dirfd EXCEPT ![r] = d]
    BY <1>1 DEF GetDirectory, ParseConfig, CheckOptions, Clone, ReadStartTime, OpenDirectory,
      Fail, WaitContainerExit, KillChild, RunnerKilled
  <2>4. /\ rpc'[r] # "deleting" /\ (rpc[r] \in Kept => rpc'[r] \in Kept)
        /\ \A q \in Runners \ {r} : rpc'[q] = rpc[q]
    <3>1. PICK to : /\ rpc' = [rpc EXCEPT ![r] = to] /\ to # "deleting"
                    /\ rpc[r] \in Kept => to \in Kept
      BY <2>2
    <3>. QED BY <3>1 DEF Types, RunnersType
  <2>5. \A q \in Runners \ {r} : dirfd'[q] = dirfd[q] /\ seen'[q] = seen[q]
    BY <2>1, <2>3 DEF TablesType
  <2>. QED BY <2>1, <2>4, <2>5, QuietKeepsTidy
<1>2. CASE MakeDirectory(r)
  <2>1. CASE Runner(r, "making", "got") /\ CreateDirectories
    <3>1. /\ dir = 0 /\ UNCHANGED <<config, status, temps, collided>>
          /\ rpc[r] = "making" /\ rpc' = [rpc EXCEPT ![r] = "got"]
      BY <1>2, <2>1 DEF MakeDirectory, CreateDirectories
    <3>2. Present = {} /\ Present' = Present
      BY <3>1 DEF Tidy, Present
    <3>3. ~collided => \A q \in Runners : rpc[q] # "deleting"
      BY <3>1 DEF Tidy, Alone
    <3>4. "making" \notin Kept
      BY DEF Kept, Holding, WithProcess
    <3>. QED BY <3>1, <3>2, <3>3, <3>4, BusyKeepsTidy DEF Types, RunnersType
  <2>2. CASE Runner(r, "making", "thrown") /\ UNCHANGED files
    BY <1>2, <2>2, QuietKeepsTidy
    DEF MakeDirectory, Types, RunnersType, Kept, Holding, WithProcess
  <2>. QED BY <1>2, <2>1, <2>2 DEF MakeDirectory
<1>3. CASE SaveConfig(r)
  <2>1. CASE /\ Runner(r, "parsed", "saved") /\ dir # 0 /\ config' = r
             /\ collided' = (collided \/ \E q \in Runners : rpc[q] = "deleting")
    <3>1. /\ UNCHANGED <<dir, status, temps>>
          /\ rpc[r] = "parsed" /\ rpc' = [rpc EXCEPT ![r] = "saved"] /\ "saved" \in Kept
      BY <1>3, <2>1 DEF SaveConfig, Kept, Holding
    <3>2. rpc'[r] = "saved" /\ \A q \in Runners \ {r} : rpc'[q] = rpc[q]
      BY <3>1 DEF Types, RunnersType
    <3>. QED BY <2>1, <3>1, <3>2, BusyKeepsTidy
  <2>2. CASE Runner(r, "parsed", "thrown") /\ UNCHANGED <<config, collided>>
    BY <1>3, <2>2, QuietKeepsTidy
    DEF SaveConfig, Types, RunnersType, Kept, Holding, WithProcess
  <2>. QED BY <1>3, <2>1, <2>2 DEF SaveConfig
<1>4. CASE CreateTemp(r) \/ WriteTemp(r) \/ Rename(r)
  <2>1. /\ rpc[r] \in {"opened", "writing", "written"}
        /\ \E to \in {"writing", "written", "running", "failing"} :
             rpc' = [rpc EXCEPT ![r] = to]
        /\ UNCHANGED <<dir, config, collided>>
    BY <1>4 DEF CreateTemp, WriteTemp, Rename
  <2>2. ~collided => \A q \in Runners : rpc[q] # "deleting"
    BY <2>1 DEF Held, NobodyIn, Holding, WithProcess
  <2>3. rpc'[r] \in Kept /\ rpc'[r] # "deleting" /\ \A q \in Runners \ {r} : rpc'[q] = rpc[q]
    BY <2>1 DEF Types, RunnersType, Kept, Holding, WithProcess
  <2>4. \A q \in Runners \ {r} : temps'[q] = temps[q]
    BY <1>4 DEF CreateTemp, WriteTemp, Rename, UnlinkTemp, FilesType
  <2>5. status' = status \/ status'.owner = r
    BY <1>4 DEF CreateTemp, WriteTemp, Rename
  <2>6. dir = 0 => Present' = {}
    <3>1. ASSUME dir = 0 PROVE Present' = {}
      <4>1. config = Nobody /\ status = NoRecord /\ \A q \in Runners : temps[q] = "none"
        BY <3>1, EmptyDirectory DEF Tidy
      <4>2. UNCHANGED status /\ \A q \in Runners : temps'[q] = "none"
        BY <1>4, <3>1, <4>1 DEF CreateTemp, WriteTemp, Rename, UnlinkTemp, FilesType
      <4>. QED BY <2>1, <4>1, <4>2 DEF Present, NoRecord
    <3>. QED BY <3>1
  <2>. QED BY <2>1, <2>2, <2>3, <2>4, <2>5, <2>6, BusyKeepsTidy
<1>5. CASE OpenRemoval(r)
  <2>1. CASE Runner(r, "removing", "done") /\ dir = 0 /\ UNCHANGED <<dirfd, seen>>
    BY <1>5, <2>1, QuietKeepsTidy DEF OpenRemoval, Types, RunnersType
  <2>2. CASE /\ Runner(r, "removing", "deleting") /\ dir # 0
             /\ dirfd' = [dirfd EXCEPT ![r] = dir] /\ seen' = [seen EXCEPT ![r] = Present]
    <3>1. /\ UNCHANGED <<dir, config, status, temps, collided>>
          /\ rpc[r] = "removing" /\ "removing" \in Holding
      BY <1>5, <2>2 DEF OpenRemoval, Holding
    <3>2. UNCHANGED Present
      BY <3>1 DEF Present
    <3>3. ~collided => \A q \in Runners : rpc[q] # "deleting"
      BY <3>1 DEF Held, NobodyIn
    <3>4. rpc'[r] = "deleting" /\ \A q \in Runners \ {r} : rpc'[q] = rpc[q]
      BY <2>2 DEF Types, RunnersType
    <3>5. dirfd'[r] = dir /\ seen'[r] = Present
      BY <2>2 DEF TablesType
    <3>6. ~collided => \A q \in Runners : rpc'[q] = "deleting" => Alone(q)'
      BY <2>2, <3>1, <3>2, <3>3, <3>4, <3>5 DEF Alone
    <3>7. \A q \in Runners : rpc[q] \in Kept => rpc'[q] \in Kept
      BY <3>4 DEF Kept
    <3>8. dir' = 0 => Present' = {}
      BY <3>1, <3>2 DEF Tidy
    <3>. QED BY <3>1, <3>6, <3>7, <3>8 DEF Tidy, NoRecord
  <2>. QED BY <1>5, <2>1, <2>2 DEF OpenRemoval
<1>6. CASE RemoveEntry(r)
  <2>1. PICK f \in Present : Unlink(f) /\ seen' = [seen EXCEPT ![r] = @ \ {f}]
    BY <1>6 DEF RemoveEntry
  <2>2. /\ rpc[r] = "deleting" /\ rpc' = rpc
        /\ UNCHANGED <<dir, dirfd, collided>>
    BY <1>6, <2>1 DEF RemoveEntry, Unlink, Types, RunnersType
  <2>3. /\ config' # Nobody => config' = config
        /\ status' # NoRecord => status' = status
        /\ \A q \in Runners : temps'[q] # "none" => temps'[q] = temps[q]
    BY <2>1 DEF Unlink
  <2>4. Present' = Present \ {f}
    <3>1. /\ (config' # Nobody) <=> (config # Nobody /\ f # "config")
          /\ (status' # NoRecord) <=> (status # NoRecord /\ f # "status")
          /\ \A q \in Runners : (temps'[q] # "none") <=> (temps[q] # "none" /\ f # q)
      BY <2>1 DEF Unlink
    <3>2. NoRecord' = NoRecord
      BY DEF NoRecord
    <3>. QED BY <3>1, <3>2 DEF Present
  <2>5. seen'[r] = seen[r] \ {f}
    BY <2>1 DEF TablesType
  <2>6. ~collided => \A q \in Runners : rpc'[q] = "deleting" => Alone(q)'
    BY <2>2, <2>4, <2>5 DEF Tidy, Alone
  <2>7. dir' = 0 => Present' = {}
    BY <2>2, <2>4 DEF Tidy
  <2>. QED BY <2>2, <2>3, <2>6, <2>7 DEF Tidy, NoRecord
<1>7. CASE MissEntry(r)
  <2>1. /\ UNCHANGED <<dir, config, status, temps, dirfd, collided>>
        /\ rpc[r] = "deleting"
    BY <1>7 DEF MissEntry
  <2>2. collided
    BY <1>7, <2>1 DEF MissEntry, Tidy, Alone
  <2>. QED BY <2>1, <2>2 DEF Tidy, Present, NoRecord
<1>8. CASE RemoveDirectory(r)
  <2>1. /\ UNCHANGED <<config, status, temps, dirfd, seen, collided>>
        /\ rpc[r] = "deleting" /\ seen[r] = {}
        /\ dir' \in {0, dir}
        /\ dir' # dir => Present = {}
    BY <1>8 DEF RemoveDirectory
  <2>2. UNCHANGED Present
    BY <2>1 DEF Present
  <2>3. dir' = 0 => Present' = {}
    BY <2>1, <2>2 DEF Tidy
  <2>4. ASSUME ~collided PROVE Present = {} /\ \A q \in Runners : rpc'[q] # "deleting"
    <3>1. Alone(r)
      BY <2>1, <2>4 DEF Tidy
    <3>2. Present = {}
      BY <2>1, <3>1 DEF Alone
    <3>3. rpc'[r] # "deleting" /\ \A q \in Runners \ {r} : rpc'[q] = rpc[q]
      BY <1>8 DEF RemoveDirectory, Types, RunnersType
    <3>. QED BY <3>1, <3>2, <3>3 DEF Alone
  <2>5. ~collided => config = Nobody /\ status = NoRecord
                     /\ \A q \in Runners : temps[q] = "none"
    BY <2>4, EmptyDirectory
  <2>. QED BY <2>1, <2>3, <2>4, <2>5 DEF Tidy, NoRecord
<1>. QED BY <1>1, <1>2, <1>3, <1>4, <1>5, <1>6, <1>7, <1>8 DEF Run

LEMMA TidyStep ==
  ASSUME Types, FilesType, Held, TablesType, Tidy, [Next]_vars
  PROVE  Tidy'
<1> USE DEF files, kernel, runners, clients
<1>1. ASSUME NEW r \in Runners, Run(r) PROVE Tidy'
  BY <1>1, RunKeepsTidy
<1>2. ASSUME NEW c \in Clients, Look(c) PROVE Tidy'
  <2>1. /\ UNCHANGED <<config, status, temps, rpc, dirfd, seen, collided>>
        /\ dir' = dir \/ dir = 0
    BY <1>2 DEF Look, Scan, GetReference, MakeReference, CreateDirectories, ReadStatus, ProbePid,
      CompareStartTime, Kill, ReadConfig, Join
  <2>2. UNCHANGED Present
    BY <2>1 DEF Present
  <2>3. dir' = 0 => Present' = {}
    BY <2>1, <2>2 DEF Tidy
  <2>4. ~collided => \A r \in Runners : rpc'[r] = "deleting" => Alone(r)'
    BY <2>1, <2>2 DEF Tidy, Alone
  <2>. QED BY <2>1, <2>3, <2>4 DEF Tidy, NoRecord
<1>3. CASE (\E p \in Pids : OtherStarts(p) \/ Die(p)) \/ UNCHANGED vars
  <2>1. UNCHANGED <<dir, config, status, temps, rpc, dirfd, seen, collided>>
    BY <1>3 DEF OtherStarts, Die, vars
  <2>. QED BY <2>1 DEF Tidy, Alone, Present, NoRecord
<1>. QED BY <1>1, <1>2, <1>3 DEF Next

-----------------------------------------------------------------------------
(* The theorems.                                                           *)

Inv ==
  /\ RunnersType /\ KernelType /\ Owned /\ Held
  /\ FilesType /\ StartKnown /\ ClientsType
  /\ RecordsTrue /\ StoppedIsDead
  /\ TablesType /\ Tidy

LEMMA InvHolds == Spec => []Inv
<1>1. Init => Inv
  <2>1. Init => RunnersType /\ KernelType
    BY DEF Init, RunnersType, KernelType, RunnerPCs, ProcStates, NoProc
  <2>2. Init => Owned /\ Held
    BY DEF Init, Owned, Held, NobodyIn, WithProcess, Holding, NoProc
  <2>3. Init => FilesType /\ StartKnown /\ ClientsType
    BY DEF Init, FilesType, StartKnown, ClientsType, ClientPCs, Records,
      Outcomes, NoRecord
  <2>4. Init => RecordsTrue /\ StoppedIsDead
    BY DEF Init, RecordsTrue, Genuine, StoppedIsDead
  <2>5. Init => TablesType /\ Tidy
    BY DEF Init, TablesType, Tidy, Present
  <2>6. QED
    BY <2>1, <2>2, <2>3, <2>4, <2>5 DEF Inv
<1>2. Inv /\ [Next]_vars => Inv'
  BY RunnersTypeStep, KernelTypeStep, OwnedStep, HeldStep, FilesTypeStep,
    StartKnownStep, ClientsTypeStep, RecordsTrueStep, StoppedIsDeadStep,
    TablesTypeStep, TidyStep DEF Inv, Types
<1>3. QED
  BY <1>1, <1>2, PTL DEF Spec

(* Any number of runs may be started with an id that is taken, and any     *)
(* number of lists, kills and execs come between: the run that has the id  *)
(* keeps its config.json and its status.json (save_config, remove).        *)
THEOREM HolderSafe == Spec => []HolderKeepsFiles
<1>1. Inv => HolderKeepsFiles
  BY DEF Inv, Held, Holding, WithProcess, HolderKeepsFiles
<1>2. QED
  BY <1>1, InvHolds, PTL

(* However many runs there are, no two containers of one id live at the    *)
(* same time, be their runtimes alive or killed.                           *)
THEOREM SingleContainer == Spec => []OneContainer
<1>1. Inv => OneContainer
  <2> SUFFICES ASSUME Inv, ~collided, NEW p \in Pids, NEW q \in Pids,
                      procs[p].alive, procs[q].alive, p # q,
                      procs[p].owner # Nobody, procs[q].owner # Nobody
               PROVE FALSE
    BY DEF OneContainer
  <2>1. procs[p].owner = config /\ procs[q].owner = config
    BY DEF Inv, Held
  <2>2. init[config].pid = p /\ init[config].pid = q
    BY <2>1 DEF Inv, Owned
  <2>3. QED
    BY <2>2
<1>2. QED
  BY <1>1, InvHolds, PTL

(* Whoever reads status.json, and whenever, gets the whole record of one   *)
(* run's container, or none (atomic_write, status_directory::read).        *)
THEOREM RecordsWhole == Spec => []WholeRecords
<1>1. Inv => WholeRecords
  BY DEF Inv, RecordsTrue, Genuine, WholeRecords
<1>2. QED
  BY <1>1, InvHolds, PTL

(* A container that list reports as stopped has no live first process,     *)
(* whatever has been done with its pid since (derive_status).              *)
THEOREM StoppedTrue == Spec => []StoppedIsDead
<1>1. Inv => StoppedIsDead
  BY DEF Inv
<1>2. QED
  BY <1>1, InvHolds, PTL

(* An id whose run has finished, or failed anywhere but between            *)
(* save_config and the try block, can be used again: no file of that run   *)
(* is in the directory, at whatever entry another command came between     *)
(* (status_directory::remove, atomic_write).                               *)
THEOREM IdIsFreed == Spec => []NothingLeftBehind
<1>1. \A r \in Runners : rpc[r] \in Kept => ~LeftBehind(r)
  BY DEF Kept, Holding, WithProcess, LeftBehind
<1>2. Inv => NothingLeftBehind
  BY <1>1 DEF Inv, Tidy, NothingLeftBehind
<1>3. QED
  BY <1>2, InvHolds, PTL
=============================================================================
