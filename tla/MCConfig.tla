------------------------------- MODULE MCConfig -------------------------------
(***************************************************************************)
(* Configurations for TLC: a full one with every member, and all that      *)
(* differ from it in one place; and small ones that vary the options of a  *)
(* mount, a list of ranges, the namespaces and the scheduler.              *)
(***************************************************************************)
EXTENDS Config, TLC

CONSTANTS MapA, MapB

MCWord == 64
Path(abs) == [t |-> "str", abs |-> abs]
Env(valid) == [t |-> "str", valid |-> valid]
Version(wellFormed, minor, patch) ==
    [t |-> "str", wellFormed |-> wellFormed, major |-> 1, minor |-> minor, patch |-> patch]
Text(tokens) == [t |-> "str", tokens |-> tokens]
OptionStr(option) == [t |-> "str", option |-> option]
Option(name) == OptionStr([name |-> name, parts |-> {}])

-----------------------------------------------------------------------------
(* A value of every kind, with all of its members.                         *)
Scalar(kind) ==
    CASE kind = "path" -> Path(TRUE)
      [] kind = "nsPath" -> Path(TRUE)
      [] kind = "version" -> Version(TRUE, 3, 0)
      [] kind = "ranges" -> Text(<<0, Dash, 2>>)
      [] kind = "number" -> Num(1)
      [] kind = "bool" -> Bool(TRUE)
      [] kind = "namespaceType" -> Str("pid")
      [] kind = "policy" -> Str("SCHED_OTHER")
      [] kind = "action" -> Str("SCMP_ACT_ERRNO")
      [] kind \in DOMAIN Names \ {"namespaceType", "policy", "action"} ->
           Str(CHOOSE name \in Names[kind] : TRUE)
      [] OTHER -> Str("text")

Scalars == {"number", "bool", "string", "path", "nsPath", "version", "ranges"} \cup DOMAIN Names
Kinds == DOMAIN Schema \cup DOMAIN ListOf \cup DOMAIN LooseListOf \cup DOMAIN MapOf \cup Scalars

Members(object) == DOMAIN object.needs \cup DOMAIN object.may \cup DOMAIN object.default
KindOf(object, m) ==
    IF m \in DOMAIN object.needs THEN object.needs[m]
    ELSE IF m \in DOMAIN object.may THEN object.may[m] ELSE object.default[m]

Full[kind \in Kinds] ==
    CASE kind = "scheduler" ->
           Obj([policy |-> Str("SCHED_DEADLINE"), nice |-> Num(1), runtime |-> Num(1),
                flags |-> Arr(<<Scalar("schedulerFlag")>>)])
      [] kind = "mount" ->
           Obj([destination |-> Path(TRUE), source |-> Path(TRUE), type |-> Str("bind"),
                options |-> Arr(<<Option("rbind"), Option("ro")>>)])
      [] kind \in DOMAIN Schema \ {"scheduler", "mount"} ->
           Obj([m \in Members(Schema[kind]) |-> Full[KindOf(Schema[kind], m)]])
      [] kind = "envs" -> Arr(<<Env(TRUE)>>)
      [] kind \in DOMAIN ListOf \ {"envs"} -> Arr(<<Full[ListOf[kind]]>>)
      [] kind \in DOMAIN LooseListOf -> Arr(<<Full[LooseListOf[kind]]>>)
      [] kind \in DOMAIN MapOf -> Obj([name |-> Full[MapOf[kind]]])
      [] OTHER -> Scalar(kind)

(* The values and all that they are made of, down to their scalars.  TLC   *)
(* sorts a set that is compared, and finds a value in a sorted one at once.*)
Sorted(S) == IF S = {} THEN {} ELSE S

Within(S) ==
    LET level[n \in 0 .. 8] ==
            IF n = 0 THEN [all |-> Sorted(S), new |-> S]
            ELSE LET last == level[n - 1]
                     inside == UNION {Children(v) : v \in last.new}
                 IN  [all |-> Sorted(last.all \cup inside), new |-> inside]
    IN  level[8].all

(* All values that differ from a value in one place: something missing,    *)
(* null, of another type, or with an extreme value.                        *)
Changed(v) ==
    {Null} \cup (CASE v.t = "str" -> {Num(7)}
                   [] v.t = "num" -> {Str("text"), Num(0), Num(-1), Bool(TRUE)}
                   [] OTHER -> {Str("text")})
           \cup (IF v.t = "arr" THEN {Arr(<<>>)} ELSE {})
           \cup (IF v = Path(TRUE) THEN {Path(FALSE)} ELSE {})

Variants[v \in Within({Full["config"]})] ==
    CASE v.t = "obj" ->
           {Obj([m \in DOMAIN v.m \ {gone} |-> v.m[m]]) : gone \in DOMAIN v.m}
             \cup UNION {{Obj([v.m EXCEPT ![m] = w]) :
                            w \in Changed(v.m[m]) \cup Variants[v.m[m]]} : m \in DOMAIN v.m}
      [] v.t = "arr" ->
           UNION {{Arr([v.e EXCEPT ![k] = w]) : w \in Changed(v.e[k]) \cup Variants[v.e[k]]} :
                    k \in DOMAIN v.e}
      [] OTHER -> {}

FullDocuments == {Full["config"]} \cup Variants[Full["config"]]

-----------------------------------------------------------------------------
UpTo(n, S) == UNION {[1 .. k -> S] : k \in 0 .. n}

Small(member, v) == Obj([m \in {"ociVersion", member} |->
                            IF m = member THEN v ELSE Version(TRUE, 2, 7)])

Versions ==
    {Small("ociVersion", Version(w, m, p)) :
        w \in BOOLEAN, m \in 2 .. 4, p \in 0 .. 1}

(* Options: of each table, about the same flags, and idmaps of both kinds. *)
Part(key, map) == [key |-> key, map |-> map]
Inline(name, parts) == OptionStr([name |-> name, parts |-> {parts}])

Options ==
    {Option(name) : name \in {"ro", "rw", "rbind", "defaults", "rprivate", "shared", "rro", "rrw",
                              "tmpcopyup", "idmap", "ridmap", "mode=755"}}
      \cup {Inline("idmap", <<Part("uids", MapA), Part("gids", MapB)>>),
            Inline("ridmap", <<Part("uids", MapA)>>),
            Inline("idmap", <<Part("uids", Malformed), Part("uids", MapB)>>)}

MountOf(options) ==
    Obj([destination |-> Path(TRUE), source |-> Path(TRUE), options |-> Arr(options)])

MountDocuments ==
    {Small("mounts", Arr(<<MountOf(list)>>)) : list \in UpTo(3, Options)}
      \cup {Small("mounts", Arr(<<MountOf(<<Option("ro")>>), Obj(members)>>)) : members \in
              {[destination |-> Path(TRUE), uidMappings |-> Full["idMappings"]],
               [destination |-> Path(TRUE), uidMappings |-> Full["idMappings"],
                gidMappings |-> Full["idMappings"]],
               [destination |-> Path(FALSE), gidMappings |-> Null],
               [destination |-> Path(TRUE), options |-> Arr(<<Option("bind")>>)]}}

(* Lists of ranges: up to four tokens, and those that begin with a range.  *)
Tokens == {0, 2, MaxUint, MaxUint + 1, Dash, Comma}
Texts ==
    UpTo(4, Tokens) \cup {<<Other>>, <<1, Other>>}
      \cup {<<0, Dash, 2, Comma>> \o rest : rest \in UpTo(3, Tokens)}

RangeDocuments ==
    {Small("linux", Obj([memoryPolicy |->
        Obj([mode |-> Str("MPOL_BIND"), nodes |-> Text(text)])])) :
            text \in Texts}

NamespaceDocuments ==
    {Small("linux", Obj([namespaces |->
        Arr([k \in DOMAIN types |-> Obj([type |-> Str(types[k])])])])) :
            types \in UpTo(3, {"mount", "pid", "user", "time", "none"})}

Limit(type) == Obj([type |-> Str(type), soft |-> Num(1), hard |-> Num(2)])

ProcessOf(members) ==
    Small("process", Obj([m \in {"cwd", "args"} \cup DOMAIN members |->
        IF m \in DOMAIN members THEN members[m]
        ELSE IF m = "cwd" THEN Path(TRUE) ELSE Arr(<<Str("text")>>)]))

ProcessDocuments ==
    {ProcessOf([rlimits |-> Arr([k \in DOMAIN types |-> Limit(types[k])])]) :
        types \in UpTo(2, {"RLIMIT_AS", "RLIMIT_CORE"})}
      \cup {ProcessOf([ioPriority |-> Obj([class |-> Str("IOPRIO_CLASS_BE"), priority |-> Num(n)])]) :
              n \in {-1, 0, 7, 8, MCWord + 7}}
      \cup {ProcessOf([scheduler |-> Obj([policy |-> Str(policy), nice |-> Num(n),
                                          priority |-> Num(p)])]) :
              policy \in Names["policy"], n \in {-21, -20, 19, 20, MCWord + 5}, p \in {0, 1}}
      \cup {ProcessOf([terminal |-> Bool(b), consoleSize |-> size]) :
              b \in BOOLEAN, size \in {Null, Str("text"), Full["consoleSize"]}}
      \cup {ProcessOf([env |-> Arr(<<Env(TRUE), Env(FALSE)>>)]),
            ProcessOf([capabilities |-> Obj([bounding |-> Str("CAP_KILL")])])}

SeccompMembers(action) ==
    {Missing, [listenerPath |-> Path(TRUE)], [listenerMetadata |-> Str("text")],
     [defaultErrnoRet |-> Num(1)],
     [syscalls |-> Arr(<<Obj([names |-> Arr(<<>>), action |-> Str(action)])>>)],
     [syscalls |-> Arr(<<Obj([names |-> Arr(<<Str("text")>>), action |-> Str(action),
                              errnoRet |-> Num(1)])>>)]}

SeccompOf(action) ==
    {Small("linux", Obj([seccomp |-> Obj([defaultAction |-> Str(action)] @@ more)])) :
        more \in SeccompMembers(action)}

LinuxDocuments ==
    UNION {SeccompOf(action) : action \in Names["action"]}
      \cup {Small("linux", Obj([resources |-> Obj([cpu |->
                Obj([quota |-> Num(q), burst |-> Num(b)])])])) : q, b \in {-1, 0, 1, 2}}
      \cup {Small("linux", Obj([resources |-> Obj([memory |-> Obj([swappiness |-> Num(n)])])])) :
                n \in {-1, 0, 100, 101}}

HookDocuments ==
    {Small("hooks", Obj([poststop |-> Arr(<<Obj([path |-> Path(abs), timeout |-> Num(n)])>>)])) :
        abs \in BOOLEAN, n \in {-1, 0, 1, MCWord, MCWord + 1, 31, 32}}
      \cup {Small("hooks", Str("text")), Small("annotations", Obj([n \in {""} |-> Str("text")])),
            Small("root", Obj([path |-> Path(TRUE), readonly |-> Null]))}

MCDocuments ==
    FullDocuments \cup Versions \cup MountDocuments \cup RangeDocuments
      \cup NamespaceDocuments \cup ProcessDocuments \cup LinuxDocuments \cup HookDocuments

MCValues == Within(MCDocuments)
=============================================================================
