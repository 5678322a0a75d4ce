---------------------------- MODULE MCCredentials ----------------------------
(***************************************************************************)
(* Requests for Credentials: launchers with all, some or no capabilities,  *)
(* with and without a user namespace, maps of one and of several entries,  *)
(* and combinations of the five capability sets.                           *)
(***************************************************************************)
EXTENDS Credentials

MCCaps == {"setpcap", "setuid", "setgid", "net"}

Map(entries) == {entries}
Entry(c, h, size) == [c |-> c, h |-> h, size |-> size]

(* Host ids: 0 is root, 1 the user that starts the container, 2 and 3 its  *)
(* subordinate ids.                                                        *)
HostRoot == [uid |-> 0, gid |-> 0, groups |-> {0, 3}, caps |-> MCCaps, bound |-> MCCaps,
             inh |-> {}, amb |-> {}, nnp |-> FALSE]
LesserRoot == [HostRoot EXCEPT !.caps = MCCaps \ {"setpcap"}, !.bound = MCCaps \ {"setpcap"}]
HostUser == [HostRoot EXCEPT !.uid = 1, !.gid = 1, !.groups = {1, 3}, !.caps = {}]

(* Root with an ambient capability that its bounding set lacks, a user     *)
(* whose capabilities are all ambient, and both without new privileges.    *)
AmbientRoot == [HostRoot EXCEPT !.bound = MCCaps \ {"net"}, !.inh = {"net", "setuid"},
                                !.amb = {"net"}]
AmbientUser == [HostUser EXCEPT !.caps = MCCaps, !.inh = MCCaps, !.amb = MCCaps]
NoNewRoot == [AmbientRoot EXCEPT !.nnp = TRUE]
NoNewUser == [AmbientUser EXCEPT !.nnp = TRUE]
Holders == {AmbientRoot, AmbientUser, NoNewRoot, NoNewUser}

NoCapSets == [bounding |-> {}, effective |-> {}, permitted |-> {}, inheritable |-> {},
              ambient |-> {}]
Base == [mode |-> "run", launcher |-> HostRoot, userNs |-> FALSE, uidMap |-> {},
         gidMap |-> {}, user |-> [uid |-> 1, gid |-> 1, groups |-> {}], caps |-> {},
         execCaps |-> {}, nnp |-> FALSE, rlimits |-> <<>>, lastPid |-> FALSE]

Net == {{"net"}}
CapSetsOf ==
    {[bounding |-> b, effective |-> e, permitted |-> p, inheritable |-> i, ambient |-> a] :
        b \in {{}, {{}}, Net, {MCCaps}}, e \in {{}, Net}, p \in {{}, Net, {{"net", "setuid"}}},
        i \in {{}, Net, {{"setuid"}}}, a \in {{}, Net, {{"net", "setuid"}}}}

Users ==
    {[uid |-> u, gid |-> g, groups |-> s] : u \in {0, 1}, g \in {0, 1}, s \in {{}, {1}}}

Maps == {Map({Entry(1, 1, 1)}), Map({Entry(0, 1, 1)}),
         Map({Entry(0, 1, 1), Entry(1, 2, 2)}), Map({Entry(0, 1, 2), Entry(1, 3, 1)}),
         Map({Entry(0, 0, 1)}), {}}

(* Capability sets, for root and another user, with and without a          *)
(* user namespace.                                                         *)
CapRequests ==
    {[Base EXCEPT !.caps = {c}, !.nnp = nnp, !.user.uid = u, !.userNs = ns,
                  !.uidMap = IF ns THEN Map({Entry(0, 1, 1), Entry(1, 2, 2)}) ELSE {},
                  !.gidMap = IF ns THEN Map({Entry(0, 1, 1), Entry(1, 2, 2)}) ELSE {},
                  !.launcher = l] :
        c \in CapSetsOf, nnp \in BOOLEAN, u \in {0, 1}, ns \in BOOLEAN,
        l \in {HostRoot, LesserRoot} \cup Holders}

(* Users, groups and maps.                                                 *)
MapRequests ==
    {[Base EXCEPT !.userNs = TRUE, !.uidMap = um, !.gidMap = gm, !.user = u,
                  !.launcher = l, !.caps = c, !.lastPid = (u.uid = 0)] :
        um \in Maps, gm \in Maps, u \in Users, l \in {HostRoot, HostUser},
        c \in {{}, {NoCapSets}}}

HostRequests ==
    {[Base EXCEPT !.user = u, !.launcher = l, !.caps = c,
                  !.rlimits = <<[type |-> "NOFILE", soft |-> 1, hard |-> h],
                                [type |-> "CORE", soft |-> 2, hard |-> 2]>>] :
        u \in Users, l \in {HostRoot, LesserRoot, HostUser} \cup Holders,
        c \in {{}, {NoCapSets}, {[NoCapSets EXCEPT !.permitted = Net, !.inheritable = Net]}},
        h \in {0, 3}}

(* exec, with capabilities of its own or those of the container.           *)
ExecRequests ==
    {[Base EXCEPT !.mode = "exec", !.userNs = ns, !.uidMap = m, !.gidMap = m,
                  !.caps = c, !.execCaps = x, !.user = u, !.launcher = l] :
        ns \in BOOLEAN, m \in {Map({Entry(1, 1, 1)}), Map({Entry(0, 1, 1), Entry(1, 2, 2)})},
        l \in {HostRoot, AmbientUser},
        u \in Users,
        c \in {{}, {[NoCapSets EXCEPT !.bounding = Net]}},
        x \in {{}, {NoCapSets}, {[bounding |-> Net, effective |-> Net, permitted |-> Net,
                                  inheritable |-> Net, ambient |-> Net]}}}

MCRequests == CapRequests \cup MapRequests \cup HostRequests \cup ExecRequests

(* A container and an exec with the same limits.                           *)
LimitRequests ==
    {[Base EXCEPT !.mode = m, !.rlimits = <<[type |-> t, soft |-> 1, hard |-> 3]>>] :
        m \in {"run", "exec"}, t \in LimitNames}
=============================================================================
