-------------------------------- MODULE Config --------------------------------
(***************************************************************************)
(* From the text of a configuration to the flags of clone: the members     *)
(* that are read (from_json, config.cpp), the options of each mount        *)
(* (MountOptions), the rules of validate (config/validate.cpp), those of   *)
(* container's constructor (container.cpp:2233), and the namespaces that   *)
(* are asked of the kernel.  Whatever throws refuses the configuration.    *)
(*                                                                         *)
(* A JSON value is a record with its type in t.  Of a string it has what   *)
(* later code asks of it: of a path abs, of an environment entry valid, of *)
(* a version its numbers, of a list of ranges its tokens, of an option what*)
(* MountOptions wants; of any other string the text.                       *)
(***************************************************************************)
EXTENDS Integers, FiniteSets, MountOptions

CONSTANTS
    Values,     \* the JSON values there are
    Documents,  \* those of them that are the configurations to read
    Word,       \* the number of values of a 32-bit integer
    MaxUint     \* the largest unsigned integer

(* Of JSON: an array has values for elements, an object for members; a     *)
(* number is an integer, and so is a Boolean where a number is asked for.  *)
Json(values) ==
    \A v \in values :
        /\ v.t \in {"null", "obj", "arr", "str", "num", "bool"}
        /\ v.t = "obj" => \A m \in DOMAIN v.m : v.m[m] \in values
        /\ v.t = "arr" => v.e \in Seq(values)
        /\ v.t \in {"num", "bool"} => v.n \in Int
        /\ "tokens" \in DOMAIN v => v.tokens \in Seq(Int)

ASSUME ValuesAssumption == Documents \subseteq Values /\ Json(Values)
ASSUME IntegersAssumption == Word \in Nat \ {0} /\ MaxUint \in Nat

VARIABLES
    doc,    \* the configuration as it is written, fixed
    mounts, \* the results of its mounts' options, in order
    flags,  \* the bits of clone's flags
    phase   \* the part reached; "refused" after an exception

configVars == <<doc, mounts, flags, phase, opts, read, mo>>

(* JSON values.                                                            *)
Null == [t |-> "null"]
Obj(members) == [t |-> "obj", m |-> members]
Arr(elements) == [t |-> "arr", e |-> elements]
Str(text) == [t |-> "str", v |-> text]
Num(n) == [t |-> "num", n |-> n]
Bool(b) == [t |-> "bool", b |-> b, n |-> IF b THEN 1 ELSE 0]
Missing == <<>>

Has(v, member) == v.t = "obj" /\ member \in DOMAIN v.m /\ v.m[member].t # "null"
Get(v, member) == v.m[member]
Elements(v, member) == IF Has(v, member) THEN Get(v, member).e ELSE <<>>

(* A number as a 32-bit integer has it.                                    *)
Int32(n) == ((n + Word \div 2) % Word) - Word \div 2

-----------------------------------------------------------------------------
(* parse_range_list, on tokens: a number, which may be too large, or one of*)
(* the following.                                                          *)
Dash == -1
Comma == -2
Other == -3

IsNumber(text, p) == p \in DOMAIN text /\ text[p] \in 0 .. MaxUint

(* The item at p, its range and where it ends.                             *)
Item(text, p) ==
    IF p + 1 \in DOMAIN text /\ text[p + 1] = Dash
    THEN [ok |-> /\ IsNumber(text, p) /\ IsNumber(text, p + 2)
                 /\ text[p] <= text[p + 2]
                 /\ ~(text[p] = 0 /\ text[p + 2] = MaxUint),
          from |-> text[p], to |-> p + 2, next |-> p + 3]
    ELSE [ok |-> IsNumber(text, p), from |-> text[p], to |-> p, next |-> p + 1]

(* A turn of the loop: the item at p, which is at the end or followed by a *)
(* comma.  What has been read is in list, ok is FALSE after an exception.  *)
Turn(text, turn) ==
    LET item == Item(text, turn.p)
        from == item.from
        last == item.next \notin DOMAIN text
    IN  IF ~turn.ok \/ turn.p \notin DOMAIN text THEN turn
        ELSE IF item.ok /\ (last \/ text[item.next] = Comma)
        THEN [ok |-> TRUE, p |-> item.next + 1,
              list |-> turn.list \o [j \in 1 .. text[item.to] - from + 1 |-> from + j - 1]]
        ELSE [turn EXCEPT !.ok = FALSE]

(* There are no more turns than tokens.                                    *)
RangeList(text) ==
    LET turns[n \in 0 .. Len(text)] ==
            IF n = 0 THEN [ok |-> TRUE, p |-> 1, list |-> <<>>] ELSE Turn(text, turns[n - 1])
    IN  turns[Len(text)]

-----------------------------------------------------------------------------
(* What from_json asks of each kind of object: members that must be there  *)
(* (at), members that are read unless they are missing or null (find), and *)
(* members with a default, which may be missing but not null (value).      *)
Object(needs, may) == [needs |-> needs, may |-> may, default |-> Missing]

ConsoleSize == Object([height |-> "number", width |-> "number"], Missing)
Rlimit == Object([type |-> "rlimitType", soft |-> "number", hard |-> "number"], Missing)
User == Object([uid |-> "number", gid |-> "number"],
               [umask |-> "number", additionalGids |-> "numbers"])
Capabilities ==
    Object(Missing, [effective |-> "looseStrings", ambient |-> "looseStrings",
                     bounding |-> "looseStrings", inheritable |-> "looseStrings",
                     permitted |-> "looseStrings"])
IoPriority == [needs |-> [class |-> "ioClass"], may |-> Missing,
               default |-> [priority |-> "number"]]
Scheduler ==
    Object([policy |-> "policy"],
           [nice |-> "number", priority |-> "number", flags |-> "schedulerFlags",
            runtime |-> "number", deadline |-> "number", period |-> "number"])
ExecCpuAffinity == Object(Missing, [initial |-> "string", final |-> "string"])
Process ==
    Object([cwd |-> "path", args |-> "strings"],
           [terminal |-> "bool", env |-> "envs", rlimits |-> "rlimits",
            apparmorProfile |-> "string", capabilities |-> "capabilities",
            noNewPrivileges |-> "bool", oomScoreAdj |-> "number",
            scheduler |-> "scheduler", selinuxLabel |-> "string",
            ioPriority |-> "ioPriority", execCPUAffinity |-> "execCPUAffinity",
            user |-> "user"])
IdMapping ==
    Object([hostID |-> "number", containerID |-> "number", size |-> "number"], Missing)
Namespace == Object([type |-> "namespaceType"], [path |-> "nsPath"])
TimeOffset == Object([secs |-> "number", nanosecs |-> "number"], Missing)
Device ==
    Object([type |-> "string", path |-> "path"],
           [fileMode |-> "number", major |-> "number", minor |-> "number",
            uid |-> "number", gid |-> "number"])
NetworkDevice == Object(Missing, [name |-> "string"])
AllowedDevice ==
    Object([allow |-> "bool"],
           [type |-> "string", major |-> "number", minor |-> "number", access |-> "string"])
Memory ==
    Object(Missing,
           [limit |-> "number", reservation |-> "number", swap |-> "number",
            kernel |-> "number", kernelTCP |-> "number", swappiness |-> "number",
            disableOOMKiller |-> "bool", useHierarchy |-> "bool",
            checkBeforeUpdate |-> "bool"])
Cpu ==
    Object(Missing,
           [shares |-> "number", quota |-> "number", burst |-> "number",
            period |-> "number", realtimeRuntime |-> "number", realtimePeriod |-> "number",
            cpus |-> "ranges", mems |-> "ranges", idle |-> "number"])
WeightDevice ==
    Object([major |-> "number", minor |-> "number"],
           [weight |-> "number", leafWeight |-> "number"])
ThrottleDevice ==
    Object([major |-> "number", minor |-> "number", rate |-> "number"], Missing)
BlockIo ==
    Object(Missing,
           [weight |-> "number", leafWeight |-> "number", weightDevice |-> "weightDevices",
            throttleReadBpsDevice |-> "throttleDevices",
            throttleWriteBpsDevice |-> "throttleDevices",
            throttleReadIOPSDevice |-> "throttleDevices",
            throttleWriteIOPSDevice |-> "throttleDevices"])
HugepageLimit == Object([pageSize |-> "string", limit |-> "number"], Missing)
NetworkPriority == Object([name |-> "string", priority |-> "number"], Missing)
Network == Object(Missing, [classID |-> "number", priorities |-> "networkPriorities"])
Pids == Object(Missing, [limit |-> "number"])
Rdma == Object(Missing, [hcaHandles |-> "number", hcaObjects |-> "number"])
IntelRdt ==
    Object(Missing,
           [closID |-> "string", l3CacheSchema |-> "string", memBwSchema |-> "string",
            schemata |-> "strings", enableMonitoring |-> "bool"])
Resources ==
    Object(Missing,
           [unified |-> "stringMap", devices |-> "allowedDevices", pids |-> "pids",
            memory |-> "memory", cpu |-> "cpu", hugepageLimits |-> "hugepageLimits",
            blockIO |-> "blockIO", network |-> "network", rdma |-> "rdmaMap"])
MemoryPolicy ==
    Object([mode |-> "memoryMode"], [nodes |-> "ranges", flags |-> "memoryFlags"])
Personality == Object([domain |-> "domain"], [flags |-> "strings"])
SyscallArg ==
    Object([index |-> "number", value |-> "number", op |-> "compare"],
           [valueTwo |-> "number"])
Syscall ==
    Object([names |-> "strings", action |-> "action"],
           [errnoRet |-> "number", args |-> "syscallArgs"])
Seccomp ==
    Object([defaultAction |-> "action"],
           [defaultErrnoRet |-> "number", architectures |-> "architectures",
            flags |-> "seccompFlags", listenerPath |-> "path",
            listenerMetadata |-> "string", syscalls |-> "syscalls"])
Linux ==
    Object(Missing,
           [uidMappings |-> "idMappings", gidMappings |-> "idMappings",
            namespaces |-> "namespaces", devices |-> "devices",
            netDevices |-> "netDeviceMap", cgroupsPath |-> "string",
            maskedPaths |-> "paths", readonlyPaths |-> "paths", mountLabel |-> "string",
            rootfsPropagation |-> "propagation", sysctl |-> "stringMap",
            timeOffsets |-> "timeOffsets", personality |-> "personality",
            memoryPolicy |-> "memoryPolicy", intelRdt |-> "intelRdt",
            resources |-> "resources", seccomp |-> "seccomp"])
Hook ==
    Object([path |-> "path"], [args |-> "strings", env |-> "envs", timeout |-> "number"])
Hooks ==
    Object(Missing,
           [prestart |-> "hookList", createRuntime |-> "hookList",
            createContainer |-> "hookList", startContainer |-> "hookList",
            poststart |-> "hookList", poststop |-> "hookList"])
Mount ==
    Object([destination |-> "path"],
           [source |-> "path", type |-> "string", uidMappings |-> "idMappings",
            gidMappings |-> "idMappings", options |-> "strings"])
RootDir == [needs |-> [path |-> "path"], may |-> Missing, default |-> [readonly |-> "bool"]]
OciConfig ==
    Object([ociVersion |-> "version"],
           [process |-> "process", hostname |-> "string", domainname |-> "string",
            linux |-> "linux", hooks |-> "hooks", mounts |-> "mountList",
            root |-> "root", annotations |-> "stringMap"])

Schema ==
    [consoleSize |-> ConsoleSize, rlimit |-> Rlimit, user |-> User,
     capabilities |-> Capabilities, ioPriority |-> IoPriority, scheduler |-> Scheduler,
     execCPUAffinity |-> ExecCpuAffinity, process |-> Process, idMapping |-> IdMapping,
     namespace |-> Namespace, timeOffset |-> TimeOffset, device |-> Device,
     networkDevice |-> NetworkDevice, allowedDevice |-> AllowedDevice, memory |-> Memory,
     cpu |-> Cpu, weightDevice |-> WeightDevice, throttleDevice |-> ThrottleDevice,
     blockIO |-> BlockIo, hugepageLimit |-> HugepageLimit,
     networkPriority |-> NetworkPriority, network |-> Network, pids |-> Pids,
     rdma |-> Rdma, intelRdt |-> IntelRdt, resources |-> Resources,
     memoryPolicy |-> MemoryPolicy, personality |-> Personality,
     syscallArg |-> SyscallArg, syscall |-> Syscall, seccomp |-> Seccomp,
     linux |-> Linux, hook |-> Hook, hooks |-> Hooks, mount |-> Mount, root |-> RootDir,
     config |-> OciConfig]

(* Arrays, maps from names, and the lists that are iterated over whatever  *)
(* they are: an object for its members, anything else for itself.          *)
ListOf ==
    [strings |-> "string", numbers |-> "number", envs |-> "string", paths |-> "path",
     rlimits |-> "rlimit", idMappings |-> "idMapping", namespaces |-> "namespace",
     devices |-> "device", allowedDevices |-> "allowedDevice",
     weightDevices |-> "weightDevice", throttleDevices |-> "throttleDevice",
     hugepageLimits |-> "hugepageLimit", networkPriorities |-> "networkPriority",
     syscallArgs |-> "syscallArg", syscalls |-> "syscall", hookList |-> "hook",
     mountList |-> "mount"]

MapOf == [stringMap |-> "string", netDeviceMap |-> "networkDevice", rdmaMap |-> "rdma"]

LooseListOf ==
    [looseStrings |-> "string", schedulerFlags |-> "schedulerFlag",
     memoryFlags |-> "memoryFlag", architectures |-> "architecture",
     seccompFlags |-> "seccompFlag", timeOffsets |-> "timeOffset"]

(* The tables of names (config/enum_tables.h); of the long ones that       *)
(* nothing else depends on, some.                                          *)
Names ==
    [rlimitType |-> {"RLIMIT_AS", "RLIMIT_CORE", "RLIMIT_NOFILE", "RLIMIT_STACK"},
     policy |-> {"SCHED_OTHER", "SCHED_FIFO", "SCHED_RR", "SCHED_BATCH", "SCHED_ISO",
                 "SCHED_IDLE", "SCHED_DEADLINE"},
     schedulerFlag |-> {"SCHED_FLAG_RESET_ON_FORK", "SCHED_FLAG_RECLAIM"},
     ioClass |-> {"IOPRIO_CLASS_RT", "IOPRIO_CLASS_BE", "IOPRIO_CLASS_IDLE"},
     domain |-> {"LINUX", "LINUX32"},
     memoryMode |-> {"MPOL_DEFAULT", "MPOL_BIND", "MPOL_LOCAL"},
     memoryFlag |-> {"MPOL_F_NUMA_BALANCING", "MPOL_F_STATIC_NODES"},
     compare |-> {"SCMP_CMP_EQ", "SCMP_CMP_MASKED_EQ"},
     action |-> {"SCMP_ACT_ALLOW", "SCMP_ACT_ERRNO", "SCMP_ACT_NOTIFY", "SCMP_ACT_TRACE"},
     seccompFlag |-> {"SECCOMP_FILTER_FLAG_TSYNC", "SECCOMP_FILTER_FLAG_LOG"},
     namespaceType |-> {"ipc", "uts", "mount", "pid", "network", "user", "cgroup", "time"},
     architecture |-> {"SCMP_ARCH_X86_64", "SCMP_ARCH_AARCH64"},
     propagation |-> DOMAIN Propagation]

(* The version must be a semantic one with the major number of the one     *)
(* supported, 1.3.0, and not follow it.                                    *)
VersionRead(version) ==
    /\ version.wellFormed
    /\ version.major = 1
    /\ version.minor < 3 \/ (version.minor = 3 /\ version.patch = 0)

Lacks(v, member) == ~(v.t = "obj" /\ member \in DOMAIN v.m)

(* What a value of a kind must look like, and what is read of what is in   *)
(* it: pairs of a kind and a value.  The size of the console is read for a *)
(* terminal only.                                                          *)
Children(v) ==
    IF v.t = "obj" THEN {v.m[m] : m \in DOMAIN v.m}
    ELSE IF v.t = "arr" THEN {v.e[k] : k \in DOMAIN v.e} ELSE {}

Shape(kind, v) ==
    /\ kind \in DOMAIN Schema =>
         /\ v.t = "obj" \/ Schema[kind].needs = Missing
         /\ \A m \in DOMAIN Schema[kind].needs : ~Lacks(v, m)
    /\ kind \in DOMAIN ListOf => v.t = "arr"
    /\ kind \in DOMAIN MapOf => v.t = "obj"

MembersRead(object, v) ==
    {<<object.needs[m], Get(v, m)>> : m \in DOMAIN object.needs}
      \cup {<<object.may[m], Get(v, m)>> : m \in {n \in DOMAIN object.may : Has(v, n)}}
      \cup {<<object.default[m], Get(v, m)>> :
               m \in {n \in DOMAIN object.default : ~Lacks(v, n)}}

ConsoleSizeRead(v) ==
    {<<"consoleSize", Get(v, m)>> : m \in
        {n \in {"consoleSize"} :
            Has(v, n) /\ Has(v, "terminal") /\ Get(v, "terminal") = Bool(TRUE)}}

ReadFrom(kind, v) ==
    IF kind = "process" THEN MembersRead(Process, v) \cup ConsoleSizeRead(v)
    ELSE IF kind \in DOMAIN Schema THEN MembersRead(Schema[kind], v)
    ELSE IF kind \in DOMAIN ListOf THEN {<<ListOf[kind], w>> : w \in Children(v)}
    ELSE IF kind \in DOMAIN MapOf THEN {<<MapOf[kind], w>> : w \in Children(v)}
    ELSE {<<LooseListOf[kind], w>> : w \in IF v.t \in {"obj", "arr"} THEN Children(v) ELSE {v}}

ReadsScalar(kind, v) ==
    \/ kind = "number" /\ v.t \in {"num", "bool"}
    \/ kind = "bool" /\ v.t = "bool"
    \/ kind \in {"string", "path"} /\ v.t = "str"
    \/ kind \in DOMAIN Names /\ v.t = "str" /\ v.v \in Names[kind]
    \/ kind = "nsPath" /\ v.t = "str" /\ v.abs
    \/ kind = "version" /\ v.t = "str" /\ VersionRead(v)
    \/ kind = "ranges" /\ v.t = "str" /\ RangeList(v.tokens).ok

(* A value can be read if what is in it can.  A configuration is seven     *)
(* kinds above the scalars in it.                                          *)
Structured == DOMAIN Schema \cup DOMAIN ListOf \cup DOMAIN MapOf \cup DOMAIN LooseListOf

Reads1(kind, v) ==
    IF kind \notin Structured THEN ReadsScalar(kind, v)
    ELSE Shape(kind, v) /\ \A part \in ReadFrom(kind, v) : ReadsScalar(part[1], part[2])

Reads2(kind, v) ==
    IF kind \notin Structured THEN ReadsScalar(kind, v)
    ELSE Shape(kind, v) /\ \A part \in ReadFrom(kind, v) : Reads1(part[1], part[2])

Reads3(kind, v) ==
    IF kind \notin Structured THEN ReadsScalar(kind, v)
    ELSE Shape(kind, v) /\ \A part \in ReadFrom(kind, v) : Reads2(part[1], part[2])

Reads4(kind, v) ==
    IF kind \notin Structured THEN ReadsScalar(kind, v)
    ELSE Shape(kind, v) /\ \A part \in ReadFrom(kind, v) : Reads3(part[1], part[2])

Reads5(kind, v) ==
    IF kind \notin Structured THEN ReadsScalar(kind, v)
    ELSE Shape(kind, v) /\ \A part \in ReadFrom(kind, v) : Reads4(part[1], part[2])

Reads6(kind, v) ==
    IF kind \notin Structured THEN ReadsScalar(kind, v)
    ELSE Shape(kind, v) /\ \A part \in ReadFrom(kind, v) : Reads5(part[1], part[2])

ReadsConfig(v) ==
    Shape("config", v) /\ \A part \in ReadFrom("config", v) : Reads6(part[1], part[2])

-----------------------------------------------------------------------------
(* The steps.                                                              *)
DocMounts == Elements(doc, "mounts")

Reject == phase' = "refused"
Check(rule, next) == IF rule THEN phase' = next ELSE Reject

ReadDocument ==
    /\ phase = "read"
    /\ Check(ReadsConfig(doc), "mounts")
    /\ UNCHANGED <<doc, mounts, flags, opts, read, mo>>

(* from_json of a mount: without options the result keeps its defaults and *)
(* the maps of the document; with options everything is theirs, the maps   *)
(* too.                                                                    *)
Current == DocMounts[Len(mounts) + 1]

MapOrNone(member) == IF Has(Current, member) THEN Get(Current, member) ELSE NoMap

WithoutOptions ==
    [NoOptions EXCEPT !.uids = MapOrNone("uidMappings"), !.gids = MapOrNone("gidMappings")]

ReadMount ==
    /\ phase = "mounts"
    /\ Len(mounts) < Len(DocMounts)
    /\ IF Has(Current, "options")
       THEN /\ opts' = LET options == Get(Current, "options").e
                       IN  [k \in DOMAIN options |-> options[k].option]
            /\ read' = 0
            /\ mo' = NoOptions
            /\ phase' = "options"
            /\ UNCHANGED mounts
       ELSE /\ mounts' = Append(mounts, WithoutOptions)
            /\ UNCHANGED <<opts, read, mo, phase>>
    /\ UNCHANGED <<doc, flags>>

ReadMountOption ==
    /\ phase = "options"
    /\ ReadOption
    /\ Check(mo'.ok, "options")
    /\ UNCHANGED <<doc, mounts, flags>>

LeaveMount ==
    /\ phase = "options"
    /\ read = Len(opts)
    /\ mounts' = Append(mounts, mo)
    /\ phase' = "mounts"
    /\ UNCHANGED <<doc, flags, opts, read, mo>>

MountsRead ==
    /\ phase = "mounts"
    /\ Len(mounts) = Len(DocMounts)
    /\ phase' = "validate process"
    /\ UNCHANGED <<doc, mounts, flags, opts, read, mo>>

-----------------------------------------------------------------------------
(* validate.                                                               *)
AllElements(v, member, Holds(_)) ==
    \A k \in DOMAIN Elements(v, member) : Holds(Elements(v, member)[k])

Distinct(v, member, key) ==
    \A j, k \in DOMAIN Elements(v, member) :
        Get(Elements(v, member)[j], key).v = Get(Elements(v, member)[k], key).v => j = k

In(v, member, numbers) == Has(v, member) => Get(v, member).n \in numbers
IntIn(v, member, numbers) == Has(v, member) => Int32(Get(v, member).n) \in numbers

IoPriorityRules(v) == IntIn(v, "priority", 0 .. 7)

SchedulerRules(v) ==
    /\ IntIn(v, "nice", -20 .. 19)
    /\ Get(v, "policy").v \notin {"SCHED_FIFO", "SCHED_RR"} => IntIn(v, "priority", {0})
    /\ Get(v, "policy").v # "SCHED_DEADLINE" =>
         \A m \in {"runtime", "deadline", "period"} : ~Has(v, m)

(* Mutant: the program may be missing.                                     *)
ProcessRulesNoArgs(v) ==
    /\ Get(v, "cwd").abs
    /\ AllElements(v, "env", LAMBDA e : e.valid)
    /\ Distinct(v, "rlimits", "type")

ProcessRules(v) ==
    /\ Has(v, "user") => In(Get(v, "user"), "umask", 0 .. 4095)
    /\ Get(v, "cwd").abs
    /\ AllElements(v, "env", LAMBDA e : e.valid)
    /\ Elements(v, "args") # <<>>
    /\ Distinct(v, "rlimits", "type")
    /\ Has(v, "scheduler") => SchedulerRules(Get(v, "scheduler"))
    /\ Has(v, "ioPriority") => IoPriorityRules(Get(v, "ioPriority"))

ReturnsErrno == {"SCMP_ACT_ERRNO", "SCMP_ACT_TRACE"}

SyscallRules(v) ==
    /\ Elements(v, "names") # <<>>
    /\ Has(v, "errnoRet") => Get(v, "action").v \in ReturnsErrno

SeccompRules(v) ==
    /\ Has(v, "defaultErrnoRet") => Get(v, "defaultAction").v \in ReturnsErrno
    /\ Get(v, "defaultAction").v = "SCMP_ACT_NOTIFY" => Has(v, "listenerPath")
    /\ Has(v, "listenerMetadata") => Has(v, "listenerPath")
    /\ AllElements(v, "syscalls", SyscallRules)

NamespacesRules(v) == Distinct(v, "namespaces", "type")

CpuRules(v) ==
    LET quota == Get(v, "quota").n
    IN  Has(v, "quota") /\ Has(v, "burst") /\ quota > 0 => Get(v, "burst").n \in 0 .. quota

ResourcesRules(v) ==
    /\ Has(v, "memory") => In(Get(v, "memory"), "swappiness", 0 .. 100)
    /\ Has(v, "cpu") => CpuRules(Get(v, "cpu"))

LinuxRules(v) ==
    /\ NamespacesRules(v)
    /\ Has(v, "seccomp") => SeccompRules(Get(v, "seccomp"))
    /\ AllElements(v, "maskedPaths", LAMBDA p : p.abs)
    /\ AllElements(v, "readonlyPaths", LAMBDA p : p.abs)
    /\ Has(v, "resources") => ResourcesRules(Get(v, "resources"))

HookRules(v) ==
    /\ Get(v, "path").abs
    /\ AllElements(v, "env", LAMBDA e : e.valid)
    /\ Has(v, "timeout") => Int32(Get(v, "timeout").n) > 0

HooksRules(v) == \A stage \in DOMAIN Hooks.may : AllElements(v, stage, HookRules)

MountRules(m) == (m.uids = NoMap) = (m.gids = NoMap)

ValidateProcess ==
    /\ phase = "validate process"
    /\ Check(Has(doc, "process") => ProcessRules(Get(doc, "process")), "validate linux")
    /\ UNCHANGED <<doc, mounts, flags, opts, read, mo>>

ValidateLinux ==
    /\ phase = "validate linux"
    /\ Check(Has(doc, "linux") => LinuxRules(Get(doc, "linux")), "validate hooks")
    /\ UNCHANGED <<doc, mounts, flags, opts, read, mo>>

ValidateHooks ==
    /\ phase = "validate hooks"
    /\ Check(Has(doc, "hooks") => HooksRules(Get(doc, "hooks")), "validate mounts")
    /\ UNCHANGED <<doc, mounts, flags, opts, read, mo>>

(* The mounts, and that no annotation has an empty name.                   *)
ValidateMounts ==
    /\ phase = "validate mounts"
    /\ Check(/\ \A k \in DOMAIN mounts : MountRules(mounts[k])
             /\ Has(doc, "annotations") => "" \notin DOMAIN Get(doc, "annotations").m,
             "construct")
    /\ UNCHANGED <<doc, mounts, flags, opts, read, mo>>

(* container's constructor.                                                *)
Construct ==
    /\ phase = "construct"
    /\ Check(\A k \in DOMAIN mounts :
                /\ Get(DocMounts[k], "destination").abs
                /\ "BIND" \in mounts[k].vfs => Has(DocMounts[k], "source"),
             "clone")
    /\ UNCHANGED <<doc, mounts, flags, opts, read, mo>>

-----------------------------------------------------------------------------
(* generate_clone_flag.  A flag is the set of its bits: SIGCHLD is 17, and *)
(* the kernel takes the low eight bits of the flags for the signal.        *)
SIGCHLD == {0, 4}
SignalBits == 0 .. 7

ToCloneFlag ==
    [ipc |-> 27, uts |-> 26, mount |-> 17, pid |-> 29, network |-> 30, user |-> 28,
     cgroup |-> 25, time |-> 7]

NamespaceTypes ==
    IF Has(doc, "linux")
    THEN {Get(v, "type").v : v \in
            {Elements(Get(doc, "linux"), "namespaces")[k] :
                k \in DOMAIN Elements(Get(doc, "linux"), "namespaces")}}
    ELSE {}

GenerateCloneFlag ==
    /\ phase = "clone"
    /\ flags' = SIGCHLD \cup {ToCloneFlag[type] : type \in NamespaceTypes}
    /\ phase' = "cloned"
    /\ UNCHANGED <<doc, mounts, opts, read, mo>>

-----------------------------------------------------------------------------
ConfigInit ==
    /\ doc \in Documents
    /\ mounts = <<>>
    /\ flags = {}
    /\ phase = "read"
    /\ opts = <<>>
    /\ read = 0
    /\ mo = NoOptions

ConfigNext ==
    \/ ReadDocument
    \/ ReadMount
    \/ ReadMountOption
    \/ LeaveMount
    \/ MountsRead
    \/ ValidateProcess
    \/ ValidateLinux
    \/ ValidateHooks
    \/ ValidateMounts
    \/ Construct
    \/ GenerateCloneFlag

ConfigSpec == ConfigInit /\ [][ConfigNext]_configVars

-----------------------------------------------------------------------------
(* A list of ranges is the list that its text says: the pieces between the *)
(* commas, each a number or two numbers in order, and nothing after the    *)
(* last comma if it is the end; any other text is refused (parse_range_list*)
(* of config.cpp:71, which reads it in one pass and looks no further back).*)
RangeTexts ==
    IF phase = "read" /\ Has(doc, "linux") /\ Has(Get(doc, "linux"), "memoryPolicy")
    THEN LET policy == Get(Get(doc, "linux"), "memoryPolicy")
         IN  {Get(policy, m).tokens : m \in
                {n \in {"nodes"} : Has(policy, n) /\ "tokens" \in DOMAIN Get(policy, n)}}
    ELSE {}

Starts(text) == {1} \cup {p + 1 : p \in {q \in DOMAIN text : text[q] = Comma}}

Piece(text, start) ==
    LET ends == {p \in start .. Len(text) : text[p] = Comma} \cup {Len(text) + 1}
    IN  SubSeq(text, start, (CHOOSE p \in ends : \A q \in ends : p <= q) - 1)

IsRange(piece) ==
    \/ Len(piece) = 1 /\ piece[1] \in 0 .. MaxUint
    \/ /\ Len(piece) = 3
       /\ piece[1] \in 0 .. MaxUint /\ piece[2] = Dash /\ piece[3] \in piece[1] .. MaxUint
       /\ piece[1] # 0 \/ piece[3] # MaxUint

RangesAsWritten ==
    \A text \in RangeTexts :
        LET pieces == {Piece(text, s) : s \in Starts(text) \ {Len(text) + 1}}
            result == RangeList(text)
        IN  /\ result.ok <=> \A piece \in pieces : IsRange(piece)
            /\ result.ok =>
                 {result.list[k] : k \in DOMAIN result.list} =
                    UNION {piece[1] .. piece[Len(piece)] : piece \in pieces}

(* The options of every mount and the lists of ranges mean what they say:  *)
(* of the options about one flag the last one counts, none that no table   *)
(* knows is lost, idmap and ridmap exclude each other, and a list of ranges*)
(* has the numbers of its pieces.                                          *)
ListsAsWritten == LastWins /\ NothingDropped /\ OneIdmap /\ RangesAsWritten

(* A configuration that is accepted can be used as the rest of the program *)
(* uses it without looking again: execute_process takes the first argument *)
(* and changes to the working directory (container.cpp:1130), set_rlimits  *)
(* sets every limit once (1744), execute_hook waits for a time that is not *)
(* negative (86), a bind has a source and the maps of a mount come in      *)
(* pairs, the masked paths are below the root, and clone is asked for just *)
(* the namespaces configured, with SIGCHLD at the end: a time namespace    *)
(* excepted, whose flag is one of the bits of the signal (1642).           *)
Used(part, member, Holds(_)) ==
    Has(doc, part) /\ Has(Get(doc, part), member) => Holds(Get(Get(doc, part), member))

ListOfLinux(member) == IF Has(doc, "linux") THEN Elements(Get(doc, "linux"), member) ELSE <<>>

AcceptedIsUsable ==
    phase = "cloned" =>
      /\ Has(doc, "process") => LET process == Get(doc, "process")
                                IN  Len(process.m["args"].e) > 0 /\ process.m["cwd"].abs
      /\ Used("process", "rlimits", LAMBDA v :
            Cardinality({v.e[k].m["type"].v : k \in DOMAIN v.e}) = Len(v.e))
      /\ \A stage \in DOMAIN Hooks.may : Used("hooks", stage, LAMBDA v :
            \A k \in DOMAIN v.e : /\ v.e[k].m["path"].abs
                                  /\ Has(v.e[k], "timeout") =>
                                        Int32(v.e[k].m["timeout"].n) >= 0)
      /\ \A k \in DOMAIN mounts :
            /\ "BIND" \in mounts[k].vfs => Has(DocMounts[k], "source")
            /\ (mounts[k].uids # NoMap) <=> (mounts[k].gids # NoMap)
      /\ \A member \in {"maskedPaths", "readonlyPaths"} :
            \A k \in DOMAIN ListOfLinux(member) : ListOfLinux(member)[k].abs
      /\ Cardinality(flags \ SignalBits) =
            Cardinality({k \in DOMAIN ListOfLinux("namespaces") :
                            ListOfLinux("namespaces")[k].m["type"].v # "time"})
      /\ "time" \notin NamespaceTypes => flags \cap SignalBits = SIGCHLD
=============================================================================
