----------------------------- MODULE Credentials -----------------------------
(***************************************************************************)
(* How the process of a container, or of an exec, gets its identity: the   *)
(* resource limits and the id maps that the runtime sets up (container.cpp,*)
(* runtime_ns), the namespaces an exec joins (setns.cpp), and what         *)
(* privilege_context::apply does just before the execve (privilege.cpp):   *)
(* bounding set, groups, ids, capability sets, ambient set and             *)
(* no_new_privs.  Every system call has a rule of its own for who may call *)
(* it, and each one changes what the next may do, so the order matters.    *)
(*                                                                         *)
(* The kernel's rules (capabilities(7), credentials(7), user_namespaces(7))*)
(* are external: they are the operators under "The kernel".  An id is what *)
(* the host calls it; an optional value of the configuration is a set of   *)
(* at most one element.                                                    *)
(***************************************************************************)
EXTENDS Naturals, Sequences

CONSTANTS
    Caps,       \* the capabilities the kernel knows
    Requests,   \* what may be asked, and by whom: [mode, launcher, ...]; the
                \* launcher's capabilities are caps (permitted and effective),
                \* bound, inh (inheritable) and amb (ambient)
    HelperExits \* what newuidmap or newgidmap, or a failed execvp, exits with

ASSUME CapsAssumption == {"setpcap", "setuid", "setgid"} \subseteq Caps

VARIABLES
    ask,    \* the request, fixed
    cred,   \* credentials of the process: ids, groups, capability sets, flags
    userns, \* its user namespace: the id maps, and whether setgroups is denied
    limits, \* resource limits, by resource
    proc,   \* whether its /proc is a proc file system
    step    \* the step reached; "refused" after an error

credVars == <<ask, cred, userns, limits, proc, step>>

(* Optional values.                                                        *)
Given(option) == option # {}
The(option) == UNION option

-----------------------------------------------------------------------------
(* The kernel.                                                             *)

Root == 0
NoId == 99      \* the overflow id

Inside(entry) == entry.c .. entry.c + entry.size - 1
Outside(entry) == entry.h .. entry.h + entry.size - 1
Overlap(map) ==
    \E e, f \in map : /\ e # f
                      /\ \/ Inside(e) \cap Inside(f) # {}
                         \/ Outside(e) \cap Outside(f) # {}

(* The host's id of an id of the namespace.                                *)
HostId(map, id) ==
    IF \E e \in map : id \in Inside(e)
    THEN LET e == CHOOSE e \in map : id \in Inside(e) IN e.h + (id - e.c)
    ELSE NoId

Identity == {[c |-> 0, h |-> 0, size |-> NoId]}

IsRoot(uid) == uid # NoId /\ uid = HostId(userns.uids, Root)

(* Who may write a map: the holder of the capability in the parent; or     *)
(* anyone, to map just its own id, the group id only once setgroups is     *)
(* denied.                                                                 *)
MayMap(map, cap, own, denied) ==
    /\ map # {}
    /\ ~Overlap(map)
    /\ \/ cap \in ask.launcher.caps
       \/ /\ denied
          /\ \E e \in map : map = {e} /\ e.size = 1 /\ e.h = own

(* setresuid to another user.  Leaving root behind loses the capabilities, *)
(* all but the permitted ones with PR_SET_KEEPCAPS.                        *)
WithUid(c, uid) ==
    LET leaves == IsRoot(c.uid) /\ ~IsRoot(uid)
        P == IF leaves /\ ~c.keep THEN {} ELSE c.P
    IN  [c EXCEPT !.uid = uid,
                  !.P = P,
                  !.E = CASE leaves -> {}
                          [] IsRoot(uid) /\ ~IsRoot(c.uid) -> P
                          [] OTHER -> c.E,
                  !.A = IF leaves THEN {} ELSE c.A]

MaySetId(c, cap, own, id) == id # NoId /\ (cap \in c.E \/ id = own)

(* capset.                                                                 *)
MaySetCaps(c, E, P, I) ==
    /\ P \subseteq c.P
    /\ E \subseteq P
    /\ I \subseteq c.I \cup c.B
    /\ "setpcap" \in c.E \/ I \subseteq c.I \cup c.P

WithCaps(c, E, P, I) ==
    [c EXCEPT !.E = E, !.P = P, !.I = I, !.A = @ \cap P \cap I]

(* execve of a program without capabilities of its own.                    *)
Execed(c) ==
    LET asRoot == IF IsRoot(c.uid) THEN c.B \cup c.I ELSE {}
        gained == IF c.nnp THEN asRoot \cap c.P ELSE asRoot
    IN  [c EXCEPT !.P = gained \cup c.A, !.E = gained \cup c.A, !.keep = FALSE]

-----------------------------------------------------------------------------
(* The resource limits.  run names the resource (to_rlimit_resource), exec *)
(* takes the enumerator's number for the resource's (child_apply_rlimits,  *)
(* container_ref.cpp:155).                                                 *)
LimitNames == {"CPU", "FSIZE", "DATA", "STACK", "CORE", "RSS", "NPROC", "NOFILE", "MEMLOCK",
               "AS", "LOCKS", "SIGPENDING", "MSGQUEUE", "NICE", "RTPRIO", "RTTIME"}

ResourceNumbered ==
    <<"CPU", "FSIZE", "DATA", "STACK", "CORE", "RSS", "NPROC", "NOFILE", "MEMLOCK", "AS",
      "LOCKS", "SIGPENDING", "MSGQUEUE", "NICE", "RTPRIO", "RTTIME">>

RlimitTypes ==
    <<"AS", "CORE", "CPU", "DATA", "FSIZE", "LOCKS", "MEMLOCK", "MSGQUEUE", "NICE", "NOFILE",
      "NPROC", "RSS", "RTPRIO", "RTTIME", "SIGPENDING", "STACK">>

ResourceSet(type) ==
    IF ask.mode = "run" THEN type
    ELSE ResourceNumbered[CHOOSE n \in DOMAIN RlimitTypes : RlimitTypes[n] = type]

Unlimited == 9

(* setrlimit, one after the other; a limit may be lowered, and raised only *)
(* with CAP_SYS_RESOURCE.                                                  *)
SetRlimits(list) ==
    LET after[n \in 0 .. Len(list)] ==
            IF n = 0 THEN [limits |-> limits, ok |-> TRUE]
            ELSE LET before == after[n - 1]
                     resource == ResourceSet(list[n].type)
                     may == \/ list[n].hard <= before.limits[resource].hard
                            \/ "sysresource" \in ask.launcher.caps /\ userns.uids = Identity
                 IN  IF before.ok /\ list[n].soft <= list[n].hard /\ may
                     THEN [before EXCEPT !.limits[resource] =
                                [soft |-> list[n].soft, hard |-> list[n].hard]]
                     ELSE [before EXCEPT !.ok = FALSE]
    IN  after[Len(list)]

-----------------------------------------------------------------------------
(* The steps: each ends in the next one, or refuses and ends the set-up.   *)
Go(next) == step' = next
Refuse == step' = "refused"

Apply(ok, next, changed) ==
    IF ok THEN cred' = changed /\ Go(next) ELSE Refuse /\ UNCHANGED cred

(* start_container_process: the limits are set in the runtime itself, and  *)
(* the container inherits them.                                            *)
LimitRuntime ==
    /\ step = "start"
    /\ ask.mode = "run"
    /\ LET set == SetRlimits(ask.rlimits)
       IN  /\ limits' = set.limits
           /\ IF set.ok THEN Go("clone") ELSE Refuse
    /\ UNCHANGED <<ask, cred, userns, proc>>

(* clone: in a new user namespace the process has every capability, and no *)
(* id is mapped.                                                           *)
FullCaps(c) == [c EXCEPT !.E = Caps, !.P = Caps, !.B = Caps, !.I = {}, !.A = {}]

Clone ==
    /\ step = "clone"
    /\ IF ask.userNs
       THEN cred' = FullCaps(cred) /\ userns' = [uids |-> {}, gids |-> {}, deny |-> FALSE]
       ELSE UNCHANGED <<cred, userns>>
    /\ Go(IF ask.userNs THEN "uidmap" ELSE "child")
    /\ UNCHANGED <<ask, limits, proc>>

(* configure_uid_mapping and configure_gid_mapping.  A single entry that   *)
(* maps an id to itself is written directly; otherwise the helper is asked,*)
(* and only when it exits with ENOENT's number is a map written directly,  *)
(* host id first.                                                          *)
IsSingle(map) == \E e \in map : map = {e} /\ e.size = 1 /\ e.h = e.c

Swapped(map) == {[c |-> e.h, h |-> e.c, size |-> e.size] : e \in map}

ENOENT == 2

(* The maps that may result, if one does.                                  *)
Mappings(map, cap, own, denied) ==
    IF IsSingle(map)
    THEN {m \in {map} : MayMap(m, cap, own, denied)}
    ELSE (IF 0 \in HelperExits /\ ~Overlap(map) THEN {map} ELSE {})
           \cup (IF ENOENT \in HelperExits
                 THEN {m \in {Swapped(map)} : MayMap(m, cap, own, denied)} ELSE {})

(* Without a map to write nothing fails.                                   *)
MapFails(map, cap, own, denied) ==
    IF IsSingle(map) THEN ~MayMap(map, cap, own, denied)
    ELSE \/ HelperExits \ {0, ENOENT} # {}
         \/ ENOENT \in HelperExits /\ ~MayMap(Swapped(map), cap, own, denied)

MapUids ==
    /\ step = "uidmap"
    /\ LET map == The(ask.uidMap)
           own == ask.launcher.uid
       IN  \/ ~Given(ask.uidMap) /\ Go("gidmap") /\ UNCHANGED userns
           \/ /\ Given(ask.uidMap)
              /\ \E m \in Mappings(map, "setuid", own, TRUE) :
                    userns' = [userns EXCEPT !.uids = m]
              /\ Go("gidmap")
           \/ /\ Given(ask.uidMap)
              /\ MapFails(map, "setuid", own, TRUE)
              /\ Refuse
              /\ UNCHANGED userns
    /\ UNCHANGED <<ask, cred, limits, proc>>

(* The groups: for a single entry setgroups is denied first.               *)
MapGids ==
    /\ step = "gidmap"
    /\ LET map == The(ask.gidMap)
           own == ask.launcher.gid
           deny == IsSingle(map)
       IN  \/ ~Given(ask.gidMap) /\ Go("child") /\ UNCHANGED userns
           \/ /\ Given(ask.gidMap)
              /\ \E m \in Mappings(map, "setgid", own, deny) :
                    userns' = [userns EXCEPT !.gids = m, !.deny = deny]
              /\ Go("child")
           \/ /\ Given(ask.gidMap)
              /\ MapFails(map, "setgid", own, deny)
              /\ Refuse
              /\ userns' = [userns EXCEPT !.deny = deny]
    /\ UNCHANGED <<ask, cred, limits, proc>>

(* The process in the container goes on once the maps are there, through   *)
(* its mounts and the change of root; after that its /proc is the          *)
(* container's.  The extension of clone_fn wants to write to it.           *)
InContainer(hasProc, writable) ==
    /\ step = "child"
    /\ proc' = hasProc
    /\ IF ask.lastPid /\ hasProc /\ ~writable THEN Refuse ELSE Go("bounding")
    /\ UNCHANGED <<ask, cred, userns, limits>>

(* exec: the child joins the container's user namespace first and then the *)
(* others, /proc among them, and sets its limits.                          *)
Join(hasProc) ==
    /\ step = "start"
    /\ ask.mode = "exec"
    /\ proc' = hasProc
    /\ IF ask.userNs
       THEN /\ cred' = FullCaps(cred)
            /\ userns' = [uids |-> IF Given(ask.uidMap) THEN The(ask.uidMap) ELSE {},
                          gids |-> IF Given(ask.gidMap) THEN The(ask.gidMap) ELSE {},
                          deny |-> IsSingle(The(ask.gidMap))]
       ELSE UNCHANGED <<cred, userns>>
    /\ Go("limit")
    /\ UNCHANGED <<ask, limits>>

LimitExec ==
    /\ step = "limit"
    /\ LET set == SetRlimits(ask.rlimits)
       IN  /\ limits' = set.limits
           /\ IF set.ok THEN Go("bounding") ELSE Refuse
    /\ UNCHANGED <<ask, cred, userns, proc>>

-----------------------------------------------------------------------------
(* privilege_context::apply.                                               *)

(* exec falls back on the capabilities of the container's process when its *)
(* own are absent or all empty.                                            *)
AllEmpty(caps) ==
    \A f \in {"bounding", "effective", "permitted", "inheritable", "ambient"} :
        The(caps[f]) = {}

CapSets ==
    IF ask.mode = "exec" /\ (\A c \in ask.execCaps : AllEmpty(c)) THEN ask.caps
    ELSE IF ask.mode = "exec" THEN ask.execCaps ELSE ask.caps

HasCaps == Given(CapSets)
CapSet(field) == The((CHOOSE c \in CapSets : TRUE)[field])
BoundingGiven == Given((CHOOSE c \in CapSets : TRUE).bounding)
AmbientGiven == Given((CHOOSE c \in CapSets : TRUE).ambient)

(* drop_bounding.  The last capability is read from /proc; clone_fn did so *)
(* before the root changed, exec does it here.                             *)
DropBounding ==
    /\ step = "bounding"
    /\ LET drops == HasCaps /\ BoundingGiven
           known == ask.mode = "run" \/ proc
           may == CapSet("bounding") = Caps \/ "setpcap" \in cred.E
       IN  Apply(drops => known /\ may, "keepcaps",
                 IF drops THEN [cred EXCEPT !.B = @ \cap CapSet("bounding")] ELSE cred)
    /\ UNCHANGED <<ask, userns, limits, proc>>

(* Mutant: the capabilities are not kept over the change of user.          *)
KeepCapsForgotten ==
    /\ step = "keepcaps"
    /\ Go("groups")
    /\ UNCHANGED <<ask, cred, userns, limits, proc>>

KeepCaps ==
    /\ step = "keepcaps"
    /\ cred' = [cred EXCEPT !.keep = HasCaps]
    /\ Go("groups")
    /\ UNCHANGED <<ask, userns, limits, proc>>

(* can_setgroups and should_setgroups: what /proc/self/setgroups says, and *)
(* without it that setgroups may be called.                                *)
CanSetgroups == ~(proc /\ userns.deny)

HostGroups(gids) == {HostId(userns.gids, g) : g \in gids}

MaySetgroups(c, gids) ==
    /\ "setgid" \in c.E
    /\ userns.gids # {}
    /\ ~userns.deny
    /\ NoId \notin HostGroups(gids)

(* Mutant: without groups to set, setgroups is not called.                 *)
SetGroupsIfAny ==
    /\ step = "groups"
    /\ IF CanSetgroups /\ ask.user.groups # {}
       THEN Apply(MaySetgroups(cred, ask.user.groups), "gid",
                  [cred EXCEPT !.groups = HostGroups(ask.user.groups)])
       ELSE Apply(ask.user.groups = {}, "gid", cred)
    /\ UNCHANGED <<ask, userns, limits, proc>>

SetGroups ==
    /\ step = "groups"
    /\ IF CanSetgroups
       THEN Apply(MaySetgroups(cred, ask.user.groups), "gid",
                  [cred EXCEPT !.groups = HostGroups(ask.user.groups)])
       ELSE Apply(ask.user.groups = {}, "gid", cred)
    /\ UNCHANGED <<ask, userns, limits, proc>>

SetGid ==
    /\ step = "gid"
    /\ LET gid == HostId(userns.gids, ask.user.gid)
       IN  Apply(MaySetId(cred, "setgid", cred.gid, gid), "uid", [cred EXCEPT !.gid = gid])
    /\ UNCHANGED <<ask, userns, limits, proc>>

(* Mutant: the inheritable set is left out of capset.                      *)
SetCapsNotInheritable ==
    /\ step = "caps"
    /\ LET E == CapSet("effective")
           P == CapSet("permitted")
       IN  IF HasCaps THEN Apply(MaySetCaps(cred, E, P, {}), "ambient", WithCaps(cred, E, P, {}))
           ELSE Go("nnp") /\ UNCHANGED cred
    /\ UNCHANGED <<ask, userns, limits, proc>>

SetUid ==
    /\ step = "uid"
    /\ LET uid == HostId(userns.uids, ask.user.uid)
       IN  Apply(MaySetId(cred, "setuid", cred.uid, uid), "caps", WithUid(cred, uid))
    /\ UNCHANGED <<ask, userns, limits, proc>>

(* apply_caps: a set that is absent is cleared.                            *)
SetCaps ==
    /\ step = "caps"
    /\ LET E == CapSet("effective")
           P == CapSet("permitted")
           I == CapSet("inheritable")
       IN  IF HasCaps THEN Apply(MaySetCaps(cred, E, P, I), "ambient", WithCaps(cred, E, P, I))
           ELSE Go("nnp") /\ UNCHANGED cred
    /\ UNCHANGED <<ask, userns, limits, proc>>

(* apply_ambient: a capability that cannot be raised is only warned about. *)
(* Nothing is cleared when no ambient set is given.                        *)
SetAmbient ==
    /\ step = "ambient"
    /\ cred' = [cred EXCEPT !.A = IF AmbientGiven THEN CapSet("ambient") \cap cred.P \cap cred.I
                                  ELSE @,
                            !.keep = FALSE]
    /\ Go("nnp")
    /\ UNCHANGED <<ask, userns, limits, proc>>

SetNoNewPrivs ==
    /\ step = "nnp"
    /\ cred' = [cred EXCEPT !.nnp = @ \/ ask.nnp]
    /\ Go("execve")
    /\ UNCHANGED <<ask, userns, limits, proc>>

Execve ==
    /\ step = "execve"
    /\ cred' = Execed(cred)
    /\ Go("running")
    /\ UNCHANGED <<ask, userns, limits, proc>>

-----------------------------------------------------------------------------
CredInit ==
    /\ ask \in Requests
    /\ cred = [uid |-> ask.launcher.uid, gid |-> ask.launcher.gid,
               groups |-> ask.launcher.groups, E |-> ask.launcher.caps,
               P |-> ask.launcher.caps, I |-> ask.launcher.inh, A |-> ask.launcher.amb,
               B |-> ask.launcher.bound, keep |-> FALSE, nnp |-> ask.launcher.nnp]
    /\ userns = [uids |-> Identity, gids |-> Identity, deny |-> FALSE]
    /\ limits = [r \in LimitNames |-> [soft |-> Unlimited, hard |-> Unlimited]]
    /\ proc = TRUE
    /\ step = "start"

(* What the runtime does, and what the process does before and after its   *)
(* mounts are in place.                                                    *)
BeforeMounts == LimitRuntime \/ Clone \/ MapUids \/ MapGids

TakeIdentity ==
    \/ LimitExec
    \/ DropBounding
    \/ KeepCaps
    \/ SetGroups
    \/ SetGid
    \/ SetUid
    \/ SetCaps
    \/ SetAmbient
    \/ SetNoNewPrivs
    \/ Execve

CredNext ==
    \/ BeforeMounts
    \/ \E hasProc, writable \in BOOLEAN : InContainer(hasProc, writable)
    \/ \E hasProc \in BOOLEAN : Join(hasProc)
    \/ TakeIdentity

CredSpec == CredInit /\ [][CredNext]_credVars

-----------------------------------------------------------------------------
(* What a process starts from, and may be asked to keep.                   *)
Available == IF ask.userNs THEN Caps ELSE ask.launcher.caps
AskedUids == IF ask.userNs THEN The(ask.uidMap) ELSE Identity
AskedGids == IF ask.userNs THEN The(ask.gidMap) ELSE Identity

(* Taking on the identity is refused only when it could not be had: an id  *)
(* that is not mapped, a set of capabilities that is not part of what the  *)
(* set above it allows, groups where setgroups is denied, or a launcher    *)
(* without the capabilities that changing ids takes.  Each call of         *)
(* privilege_context::apply needs something that another one gives up, and *)
(* the order leaves every call what it needs (privilege.cpp:233).  Without *)
(* a /proc the code cannot see that setgroups is denied, or in an exec     *)
(* what the last capability is, and may be refused for that alone.         *)
IdsMapped ==
    /\ NoId \notin {HostId(AskedUids, ask.user.uid), HostId(AskedGids, ask.user.gid)}
    /\ NoId \notin {HostId(AskedGids, g) : g \in ask.user.groups}

CapsConsistent ==
    HasCaps =>
      /\ CapSet("effective") \subseteq CapSet("permitted")
      /\ CapSet("permitted") \subseteq Available
      /\ CapSet("inheritable") \subseteq Available
      /\ CapSet("inheritable") \subseteq (IF ask.userNs THEN Caps ELSE ask.launcher.bound)
      /\ BoundingGiven => CapSet("inheritable") \subseteq CapSet("bounding")

Grantable ==
    /\ IdsMapped
    /\ CapsConsistent
    /\ {"setpcap", "setuid", "setgid"} \subseteq Available
    /\ ask.user.groups = {} \/ ~userns.deny
    /\ proc \/ (ask.mode = "run" /\ ~userns.deny)

IdentitySteps == {"bounding", "keepcaps", "groups", "gid", "uid", "caps", "ambient", "nnp"}

RefusedOnlyWhenAskedTooMuch ==
    [][step' = "refused" /\ step \in IdentitySteps => ~Grantable]_credVars

(* The process runs as the user asked for, seen through the id maps asked  *)
(* for, and with the groups asked for; it keeps the groups of whoever      *)
(* started it only where setgroups is denied and none are asked for        *)
(* (configure_uid_mapping, container.cpp:1975, and privilege.cpp:240).     *)
IdentityAsAsked ==
    step = "running" =>
      /\ cred.uid = HostId(AskedUids, ask.user.uid)
      /\ cred.gid = HostId(AskedGids, ask.user.gid)
      /\ \/ cred.groups = {HostId(AskedGids, g) : g \in ask.user.groups}
         \/ userns.deny /\ ask.user.groups = {} /\ cred.groups = ask.launcher.groups

(* The capabilities the program starts with, whoever starts the container. *)
(* They are those the configuration asks for: the ambient ones that are    *)
(* permitted and inheritable as well, though leaving root clears them and  *)
(* though they are raised only after the other sets are in place; and for  *)
(* root the bounding and inheritable ones too, cut to the permitted ones   *)
(* by no_new_privs, the configuration's or the launcher's.  Without        *)
(* capabilities in the configuration root has what the launcher's bounding *)
(* and inheritable sets allow, and another user none that root left        *)
(* (apply_caps and apply_ambient, privilege.cpp:128 and 162).              *)
(* No others, with one exception: nothing clears the launcher's ambient    *)
(* capabilities when the configuration has no ambient set                  *)
(* (privilege.cpp:164) or no capabilities at all.  They outlast the change *)
(* of user unless root is left, and outlast the execve; only a new user    *)
(* namespace, or permitted and inheritable sets without them, takes them   *)
(* away.                                                                   *)
LeavesRoot == ask.launcher.uid = Root /\ HostId(AskedUids, ask.user.uid) # Root

KeptAmbient == IF ask.userNs \/ LeavesRoot THEN {} ELSE ask.launcher.amb
KeptInheritable == IF ask.userNs THEN {} ELSE ask.launcher.inh

AmbientAtExec ==
    IF ~HasCaps THEN KeptAmbient
    ELSE CapSet("permitted") \cap CapSet("inheritable")
           \cap (IF AmbientGiven THEN CapSet("ambient") ELSE KeptAmbient)

GainedByRoot ==
    LET bound == IF ask.userNs THEN Caps ELSE ask.launcher.bound
        asked == IF HasCaps /\ BoundingGiven THEN bound \cap CapSet("bounding") ELSE bound
        asRoot == asked \cup (IF HasCaps THEN CapSet("inheritable") ELSE KeptInheritable)
        permitted == IF HasCaps THEN CapSet("permitted") ELSE Available
    IN  IF ask.nnp \/ ask.launcher.nnp THEN asRoot \cap permitted ELSE asRoot

CapabilitiesAsAsked ==
    step = "running" =>
      /\ cred.P = AmbientAtExec \cup (IF IsRoot(cred.uid) THEN GainedByRoot ELSE {})
      /\ cred.E = cred.P

(* The limits the process runs with are those of the configuration, each   *)
(* on the resource it names: the conversion of the types of the OCI        *)
(* specification is to_rlimit_resource, container.cpp:1704.                *)
LimitsAsAsked ==
    step = "running" =>
      \A n \in DOMAIN ask.rlimits :
        limits[ask.rlimits[n].type] =
            [soft |-> ask.rlimits[n].soft, hard |-> ask.rlimits[n].hard]

=============================================================================
