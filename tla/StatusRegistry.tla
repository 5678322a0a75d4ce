--------------------------- MODULE StatusRegistry ---------------------------
(***************************************************************************)
(* The status directory of one container id, and the commands that share   *)
(* it: runs that create the container under this id, and list, kill and    *)
(* exec. Each command is a process of its own and none takes a lock. What  *)
(* stands in for one is config.json, which is copied only where there is   *)
(* none yet.                                                               *)
(*                                                                         *)
(* Every system call on the directory is a step. So is every step at which *)
(* a process comes to hold a pid or gives it back, for what status.json    *)
(* says of the container is a pid and the time its process started.        *)
(*                                                                         *)
(* Files: status_directory.cpp, status_directory_manager.cpp, runtime.cpp, *)
(* container_status.cpp, command/, and the parts of container.cpp and      *)
(* container_ref.cpp that use them.                                        *)
(***************************************************************************)
EXTENDS Integers

CONSTANTS
  Runners,      \* the processes of ll-box run, all with the same id
  Clients,      \* the processes of ll-box list, kill and exec
  Nobody,       \* none of them
  Pids,         \* the pids there are
  MaxClock      \* bound: other processes start only before this time

ASSUME NobodyAssumption == Nobody \notin Runners
ASSUME PidsAssumption == Pids \subseteq Nat \ {0}
ASSUME MaxClockAssumption == MaxClock \in Nat

VARIABLES
  dir,       \* the directory, 0 if there is none: each new one is another
  made,      \* directories made so far
  config,    \* whose config.json is in it
  status,    \* what status.json in it says
  temps,     \* runner -> its temporary file in it
  procs,     \* pid -> the process that has it
  clock,     \* start time of the youngest process
  rpc,       \* runner -> where it is
  init,      \* runner -> pid and start time of its container's first process
  dirfd,     \* runner -> the directory it opened
  seen,      \* runner -> entries that remove_all has still to come to
  cpc,       \* client -> where it is
  rec,       \* client -> the record it read
  outcome,   \* client -> what it reported or did
  target,    \* client -> the process it did it to
  collided   \* history: a run took the id while another was removing its files

files == <<dir, made, config, status, temps>>
kernel == <<procs, clock>>
runners == <<rpc, init, dirfd, seen>>
clients == <<cpc, rec, outcome, target>>
vars == <<files, kernel, runners, clients, collided>>

NoRecord == [owner |-> Nobody, pid |-> 0, start |-> 0, whole |-> FALSE]
NoProc   == [owner |-> Nobody, start |-> 0, alive |-> FALSE]

(* The files in the directory; a temporary file goes by its writer's name. *)
Present == {f \in {"config"} : config # Nobody}
             \cup {f \in {"status"} : status # NoRecord}
             \cup {r \in Runners : temps[r] # "none"}

RunnerEnds == {"done",      \* removed its directory
               "thrown",    \* by an exception
               "aborted",   \* by one between save_config and run's try
               "killed"}
RunnerPCs == {"start", "making", "got", "parsed", "saved", "starting",
              "cloned", "timed", "opened", "writing", "written", "running",
              "failing", "removing", "deleting"} \cup RunnerEnds
ClientPCs == {"start", "found", "making", "have", "read", "probed",
              "joining", "ended"}
Outcomes == {"none", "running", "stopped", "signalled", "joined"}

Exists(p) == procs[p].start # 0

Init ==
  /\ dir = 0 /\ made = 0
  /\ config = Nobody /\ status = NoRecord
  /\ temps = [r \in Runners |-> "none"]
  /\ procs = [p \in Pids |-> NoProc] /\ clock = 0
  /\ rpc = [r \in Runners |-> "start"]
  /\ init = [r \in Runners |-> [pid |-> 0, start |-> 0]]
  /\ dirfd = [r \in Runners |-> 0]
  /\ seen = [r \in Runners |-> {}]
  /\ cpc = [c \in Clients |-> "start"]
  /\ rec = [c \in Clients |-> NoRecord]
  /\ outcome = [c \in Clients |-> "none"]
  /\ target = [c \in Clients |-> NoProc]
  /\ collided = FALSE

-----------------------------------------------------------------------------
(* The kernel.                                                             *)

(* A process gets a free pid, and a start time of its own: a pid is not    *)
(* used again within one tick of the clock.                                *)
Spawn(p, who) ==
  /\ ~Exists(p)
  /\ clock' = clock + 1
  /\ procs' = [procs EXCEPT ![p] =
                 [owner |-> who, start |-> clock + 1, alive |-> TRUE]]

OtherStarts(p) ==
  /\ clock < MaxClock
  /\ Spawn(p, Nobody)
  /\ UNCHANGED <<files, runners, clients, collided>>

(* What dies stays as a zombie while its runtime is there to wait for it.  *)
Die(p) ==
  /\ procs[p].alive
  /\ procs' = [procs EXCEPT ![p] =
                 IF procs[p].owner = Nobody \/ rpc[procs[p].owner] = "killed"
                   THEN NoProc
                   ELSE [procs[p] EXCEPT !.alive = FALSE]]
  /\ UNCHANGED <<files, clock, runners, clients, collided>>

(* waitpid of the runtime.                                                 *)
Reaped(p) == procs' = [procs EXCEPT ![p] = NoProc]

-----------------------------------------------------------------------------
(* The status directory.                                                   *)

(* create_directories, which answers false when somebody else was faster.  *)
CreateDirectories ==
  /\ dir = 0
  /\ made' = made + 1
  /\ dir' = made + 1
  /\ UNCHANGED <<config, status, temps>>

(* Unlinking a file.                                                       *)
Unlink(f) ==
  /\ config' = IF f = "config" THEN Nobody ELSE config
  /\ status' = IF f = "status" THEN NoRecord ELSE status
  /\ temps' = [r \in Runners |-> IF f = r THEN "none" ELSE temps[r]]
  /\ UNCHANGED <<dir, made>>

(* The clean-up of atomic_write, through the directory it opened.          *)
UnlinkTemp(r) ==
  temps' = IF dirfd[r] = dir THEN [temps EXCEPT ![r] = "none"] ELSE temps

-----------------------------------------------------------------------------
(* ll-box run.                                                             *)

Runner(r, from, to) ==
  /\ rpc[r] = from
  /\ rpc' = [rpc EXCEPT ![r] = to]

GetDirectory(r) ==
  /\ \/ dir # 0 /\ Runner(r, "start", "got")
     \/ dir = 0 /\ Runner(r, "start", "making")
  /\ UNCHANGED <<files, kernel, init, dirfd, seen, clients, collided>>

MakeDirectory(r) ==
  /\ \/ Runner(r, "making", "got") /\ CreateDirectories
     \/ dir # 0 /\ Runner(r, "making", "thrown") /\ UNCHANGED files
  /\ UNCHANGED <<kernel, init, dirfd, seen, clients, collided>>

(* Reading and checking the bundle's configuration.                        *)
ParseConfig(r) ==
  /\ \/ Runner(r, "got", "parsed")
     \/ Runner(r, "got", "thrown")
  /\ UNCHANGED <<files, kernel, init, dirfd, seen, clients, collided>>

(* Mutant: a copy with overwrite_existing.                                 *)
SaveConfigOverwriting(r) ==
  /\ Runner(r, "parsed", IF dir # 0 THEN "saved" ELSE "thrown")
  /\ config' = IF dir # 0 THEN r ELSE config
  /\ collided' = (collided \/ \E q \in Runners : rpc[q] = "deleting")
  /\ UNCHANGED <<dir, made, status, temps, kernel, init, dirfd, seen, clients>>

(* Mutant: a constructor that cleans up after itself when it fails.        *)
SaveConfigOrRemove(r) ==
  /\ Runner(r, "parsed", IF dir # 0 /\ config = Nobody THEN "saved"
                                                       ELSE "removing")
  /\ config' = IF dir # 0 /\ config = Nobody THEN r ELSE config
  /\ collided' = (collided \/ \E q \in Runners : rpc[q] = "deleting")
  /\ UNCHANGED <<dir, made, status, temps, kernel, init, dirfd, seen, clients>>

(* std::filesystem::copy does not overwrite.                               *)
SaveConfig(r) ==
  /\ \/ /\ Runner(r, "parsed", "saved")
        /\ dir # 0 /\ config = Nobody
        /\ config' = r
        /\ collided' = (collided \/ \E q \in Runners : rpc[q] = "deleting")
     \/ /\ Runner(r, "parsed", "thrown")
        /\ dir = 0 \/ config # Nobody
        /\ UNCHANGED <<config, collided>>
  /\ UNCHANGED <<dir, made, status, temps, kernel, init, dirfd, seen, clients>>

(* What is left to check before run's try block: the cgroup manager,       *)
(* process and root, the console socket, the child subreaper. The copy of  *)
(* the file may also fail half-way, with the same effect.                  *)
CheckOptions(r) ==
  /\ \/ Runner(r, "saved", "starting")
     \/ Runner(r, "saved", "aborted")
  /\ UNCHANGED <<files, kernel, init, dirfd, seen, clients, collided>>

Clone(r) ==
  /\ \/ /\ Runner(r, "starting", "cloned")
        /\ \E p \in Pids :
             /\ Spawn(p, r)
             /\ init' = [init EXCEPT ![r].pid = p]
     \/ /\ Runner(r, "starting", "removing")
        /\ UNCHANGED <<kernel, init>>
  /\ UNCHANGED <<files, dirfd, seen, clients, collided>>

(* Mutant: the start time is left out of the record.                       *)
ReadNoStartTime(r) ==
  /\ Runner(r, "cloned", "timed")
  /\ UNCHANGED <<files, kernel, init, dirfd, seen, clients, collided>>

(* The process may have died, but nobody else waits for it.                *)
ReadStartTime(r) ==
  /\ \/ /\ Runner(r, "cloned", "timed")
        /\ init' = [init EXCEPT ![r].start = procs[init[r].pid].start]
     \/ /\ Runner(r, "cloned", "failing")
        /\ UNCHANGED init
  /\ UNCHANGED <<files, kernel, dirfd, seen, clients, collided>>

(* atomic_write of status.json, step by step.                              *)
OpenDirectory(r) ==
  /\ \/ /\ Runner(r, "timed", "opened")
        /\ dir # 0
        /\ dirfd' = [dirfd EXCEPT ![r] = dir]
     \/ /\ Runner(r, "timed", "failing")
        /\ dir = 0
        /\ UNCHANGED dirfd
  /\ UNCHANGED <<files, kernel, init, seen, clients, collided>>

CreateTemp(r) ==
  /\ \/ /\ Runner(r, "opened", "writing")
        /\ dir # 0
        /\ temps' = [temps EXCEPT ![r] = "part"]
     \/ /\ Runner(r, "opened", "failing")
        /\ dir = 0
        /\ UNCHANGED temps
  /\ UNCHANGED <<dir, made, config, status, kernel, init, dirfd, seen, clients,
                 collided>>

(* Mutant: the file gets its name before its content is complete.          *)
WriteTempLate(r) ==
  /\ Runner(r, "writing", "written")
  /\ UNCHANGED <<files, kernel, init, dirfd, seen, clients, collided>>

(* A file that was unlinked meanwhile can be written all the same.         *)
WriteTemp(r) ==
  /\ \/ /\ Runner(r, "writing", "written")
        /\ temps' = [temps EXCEPT ![r] = IF @ = "none" THEN @ ELSE "whole"]
     \/ /\ Runner(r, "writing", "failing")
        /\ UnlinkTemp(r)
  /\ UNCHANGED <<dir, made, config, status, kernel, init, dirfd, seen, clients,
                 collided>>

Rename(r) ==
  /\ \/ /\ Runner(r, "written", "running")
        /\ dirfd[r] = dir /\ temps[r] # "none"
        /\ status' = [owner |-> r, pid |-> init[r].pid,
                      start |-> init[r].start, whole |-> temps[r] = "whole"]
        /\ temps' = [temps EXCEPT ![r] = "none"]
     \/ /\ Runner(r, "written", "failing")
        /\ dirfd[r] # dir \/ temps[r] = "none"
        /\ UnlinkTemp(r)
        /\ UNCHANGED status
  /\ UNCHANGED <<dir, made, config, kernel, init, dirfd, seen, clients,
                 collided>>

(* Setting up the container, its hooks, and forwarding to it may throw.    *)
Fail(r) ==
  /\ Runner(r, "running", "failing")
  /\ UNCHANGED <<files, kernel, init, dirfd, seen, clients, collided>>

WaitContainerExit(r) ==
  /\ Runner(r, "running", "removing")
  /\ ~procs[init[r].pid].alive
  /\ Reaped(init[r].pid)
  /\ UNCHANGED <<files, clock, init, dirfd, seen, clients, collided>>

(* Mutant: a failed run leaves without removing its directory.             *)
KillChildOnly(r) ==
  /\ Runner(r, "failing", "thrown")
  /\ Reaped(init[r].pid)
  /\ UNCHANGED <<files, clock, init, dirfd, seen, clients, collided>>

(* run's catch block: kill_child, which also waits.                        *)
KillChild(r) ==
  /\ Runner(r, "failing", "removing")
  /\ Reaped(init[r].pid)
  /\ UNCHANGED <<files, clock, init, dirfd, seen, clients, collided>>

(* remove_all: what is there when it begins is removed entry by entry, in  *)
(* any order; what comes later may or may not be.                          *)
OpenRemoval(r) ==
  /\ \/ /\ Runner(r, "removing", "deleting")
        /\ dir # 0
        /\ dirfd' = [dirfd EXCEPT ![r] = dir]
        /\ seen' = [seen EXCEPT ![r] = Present]
     \/ /\ Runner(r, "removing", "done")
        /\ dir = 0
        /\ UNCHANGED <<dirfd, seen>>
  /\ UNCHANGED <<files, kernel, init, clients, collided>>

RemoveEntry(r) ==
  /\ Runner(r, "deleting", "deleting")
  /\ dirfd[r] = dir
  /\ \E f \in Present :
       /\ Unlink(f)
       /\ seen' = [seen EXCEPT ![r] = @ \ {f}]
  /\ UNCHANGED <<kernel, init, dirfd, clients, collided>>

(* Whether an entry that is gone already is an error is left open.         *)
MissEntry(r) ==
  /\ Runner(r, "deleting", "deleting") \/ Runner(r, "deleting", "thrown")
  /\ \E f \in seen[r] :
       /\ dirfd[r] # dir \/ f \notin Present
       /\ seen' = [seen EXCEPT ![r] = @ \ {f}]
  /\ UNCHANGED <<files, kernel, init, dirfd, clients, collided>>

(* rmdir, by path, which refuses when a file came after the last look.     *)
RemoveDirectory(r) ==
  /\ seen[r] = {}
  /\ \/ /\ Runner(r, "deleting", "done")
        /\ Present = {}
        /\ dir' = 0
     \/ /\ Runner(r, "deleting", "thrown")
        /\ Present # {}
        /\ UNCHANGED dir
  /\ UNCHANGED <<made, config, status, temps, kernel, init, dirfd, seen,
                 clients, collided>>

(* SIGKILL, or poststop_hooks, which may not throw, without a status.json: *)
(* the directory stays as it is, the container lives on, and what was      *)
(* waiting to be reaped is reaped by init.                                 *)
RunnerKilled(r) ==
  /\ rpc[r] \notin RunnerEnds
  /\ rpc' = [rpc EXCEPT ![r] = "killed"]
  /\ procs' = [p \in Pids |-> IF procs[p].owner = r /\ ~procs[p].alive
                                THEN NoProc ELSE procs[p]]
  /\ UNCHANGED <<files, clock, init, dirfd, seen, clients, collided>>

Run(r) ==
  \/ GetDirectory(r) \/ MakeDirectory(r) \/ ParseConfig(r) \/ SaveConfig(r)
  \/ CheckOptions(r) \/ Clone(r) \/ ReadStartTime(r)
  \/ OpenDirectory(r) \/ CreateTemp(r) \/ WriteTemp(r) \/ Rename(r)
  \/ Fail(r) \/ WaitContainerExit(r) \/ KillChild(r)
  \/ OpenRemoval(r) \/ RemoveEntry(r) \/ MissEntry(r) \/ RemoveDirectory(r)
  \/ RunnerKilled(r)

-----------------------------------------------------------------------------
(* ll-box list, kill and exec. Until the record is read they do the same:  *)
(* runtime_t::containers looks for directories with a status.json, and     *)
(* then gets each, making it anew if it has vanished meanwhile.            *)

Client(c, from, to) ==
  /\ cpc[c] = from
  /\ cpc' = [cpc EXCEPT ![c] = to]

Scan(c) ==
  /\ \/ Client(c, "start", "found") /\ status # NoRecord
     \/ Client(c, "start", "ended") /\ status = NoRecord
  /\ UNCHANGED <<files, kernel, runners, rec, outcome, target, collided>>

GetReference(c) ==
  /\ \/ dir # 0 /\ Client(c, "found", "have")
     \/ dir = 0 /\ Client(c, "found", "making")
  /\ UNCHANGED <<files, kernel, runners, rec, outcome, target, collided>>

MakeReference(c) ==
  /\ \/ Client(c, "making", "have") /\ CreateDirectories
     \/ dir # 0 /\ Client(c, "making", "ended") /\ UNCHANGED files
  /\ UNCHANGED <<kernel, runners, rec, outcome, target, collided>>

ReadStatus(c) ==
  /\ \/ /\ Client(c, "have", "read")
        /\ status # NoRecord
        /\ rec' = [rec EXCEPT ![c] = status]
     \/ /\ Client(c, "have", "ended")
        /\ status = NoRecord
        /\ UNCHANGED rec
  /\ UNCHANGED <<files, kernel, runners, outcome, target, collided>>

Report(c, what) == outcome' = [outcome EXCEPT ![c] = what]

(* derive_status, first kill(pid, 0): without the permission the container *)
(* is taken to run.                                                        *)
ProbePid(c) ==
  /\ \/ /\ Client(c, "read", "ended")
        /\ ~Exists(rec[c].pid)
        /\ Report(c, "stopped")
     \/ /\ Client(c, "read", "ended")
        /\ Exists(rec[c].pid)
        /\ Report(c, "running")
     \/ /\ Client(c, "read", "probed")
        /\ Exists(rec[c].pid)
        /\ UNCHANGED outcome
  /\ UNCHANGED <<files, kernel, runners, rec, target, collided>>

(* Then the start time in /proc, where a process that is gone by now reads *)
(* as 0, and one that cannot be read is taken to run.                      *)
CompareStartTime(c) ==
  /\ \/ /\ Client(c, "probed", "ended")
        /\ Report(c, IF procs[rec[c].pid].start = rec[c].start
                       THEN "running" ELSE "stopped")
     \/ /\ Client(c, "probed", "ended")
        /\ Exists(rec[c].pid)
        /\ Report(c, "running")
  /\ UNCHANGED <<files, kernel, runners, rec, target, collided>>

(* What is done to a pid is done to the process that has it.               *)
ActOn(c, what) ==
  \/ /\ Exists(rec[c].pid)
     /\ target' = [target EXCEPT ![c] = procs[rec[c].pid]]
     /\ Report(c, what)
  \/ /\ ~Exists(rec[c].pid)
     /\ UNCHANGED <<target, outcome>>

Kill(c) ==
  /\ Client(c, "read", "ended")
  /\ ActOn(c, "signalled")
  /\ UNCHANGED <<files, kernel, runners, rec, collided>>

(* container_ref::exec reads the saved configuration next, and then joins  *)
(* the namespaces of the pid.                                              *)
ReadConfig(c) ==
  /\ \/ Client(c, "read", "joining") /\ config # Nobody
     \/ Client(c, "read", "ended") /\ config = Nobody
  /\ UNCHANGED <<files, kernel, runners, rec, outcome, target, collided>>

Join(c) ==
  /\ Client(c, "joining", "ended")
  /\ ActOn(c, "joined")
  /\ UNCHANGED <<files, kernel, runners, rec, collided>>

Look(c) ==
  \/ Scan(c) \/ GetReference(c) \/ MakeReference(c) \/ ReadStatus(c)
  \/ ProbePid(c) \/ CompareStartTime(c) \/ Kill(c) \/ ReadConfig(c) \/ Join(c)

-----------------------------------------------------------------------------

Next ==
  \/ \E r \in Runners : Run(r)
  \/ \E c \in Clients : Look(c)
  \/ \E p \in Pids : OtherStarts(p) \/ Die(p)

Spec == Init /\ [][Next]_vars

-----------------------------------------------------------------------------
(* Properties.                                                             *)

Records == [owner : Runners \cup {Nobody}, pid : Pids \cup {0}, start : Nat,
            whole : BOOLEAN]
ProcStates == [owner : Runners \cup {Nobody}, start : Nat, alive : BOOLEAN]

(* A reader of status.json never gets a part of a record, and what it gets *)
(* is the record that one of the runs made of its container: atomic_write  *)
(* gives the file its name when its content is complete.                   *)
WholeRecords ==
  \A c \in Clients : rec[c] # NoRecord =>
    /\ rec[c].whole
    /\ rec[c].owner \in Runners
    /\ init[rec[c].owner] = [pid |-> rec[c].pid, start |-> rec[c].start]

(* The process of this record lives.                                       *)
Lives(record) ==
  /\ procs[record.pid].alive
  /\ procs[record.pid].owner = record.owner

(* list reports no container as stopped whose first process lives, though  *)
(* its pid may be used again, and that process may die, between kill(2)    *)
(* and the look at /proc (derive_status).                                  *)
StoppedIsDead ==
  \A c \in Clients : outcome[c] = "stopped" => ~Lives(rec[c])

(* A run may throw at save_config because another has the id, at any time  *)
(* and with any command between: the run that has the id keeps its files.  *)
(* From save_config to remove its config.json is there, and while its      *)
(* container runs status.json is its record. Only a run that took the id   *)
(* while another removed the files is not safe.                            *)
HolderKeepsFiles ==
  ~collided =>
    \A r \in Runners :
      /\ rpc[r] \in {"saved", "starting", "cloned", "timed", "opened",
                     "writing", "written", "running", "failing", "removing"}
           => config = r
      /\ rpc[r] = "running" => status.owner = r

(* One container for an id: no two runs have a live first process. This    *)
(* includes the container of a run that was killed, whose files stay.      *)
OneContainer ==
  ~collided =>
    \A p, q \in Pids :
      (procs[p].alive /\ procs[q].alive /\ p # q)
        => Nobody \in {procs[p].owner, procs[q].owner}

(* Nothing is left behind that would keep the id from being used again,    *)
(* but by a run that was killed, or threw between save_config and the try  *)
(* block: every file in the directory is of a run that goes on, or of one  *)
(* of those (container::run, status_directory::remove).                    *)
LeftBehind(r) == rpc[r] \in {"done", "thrown"}

NothingLeftBehind ==
  ~collided =>
    /\ config # Nobody => ~LeftBehind(config)
    /\ status # NoRecord => ~LeftBehind(status.owner)
    /\ \A r \in Runners : temps[r] # "none" => ~LeftBehind(r)

=============================================================================
