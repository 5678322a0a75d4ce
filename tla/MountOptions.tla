----------------------------- MODULE MountOptions -----------------------------
(***************************************************************************)
(* The options of a mount, read one after the other (parse_mount_options,  *)
(* config.cpp:276, with the tables of config/mount_options.h).  An option  *)
(* is a name and, for "idmap=..." and "ridmap=...", the parts after the    *)
(* "=", each a key and what stands for the map it has: a map, Malformed or *)
(* NoMap for an empty one.  Flags are sets of the bits the tables name.    *)
(***************************************************************************)
EXTENDS Naturals, Sequences

CONSTANTS
    OptionLists,    \* the lists of options to read
    Malformed,      \* a map without two colons and three numbers
    NoMap           \* no map

VARIABLES
    opts,   \* the list being read
    read,   \* how many of its options have been
    mo      \* the result so far; ok is FALSE after an exception

optVars == <<opts, read, mo>>

-----------------------------------------------------------------------------
(* The tables.                                                             *)
Vfs ==
    [bind |-> {"BIND"}, dirsync |-> {"DIRSYNC"}, defaults |-> {},
     iversion |-> {"I_VERSION"}, lazytime |-> {"LAZYTIME"}, mand |-> {"MANDLOCK"},
     noatime |-> {"NOATIME"}, nodev |-> {"NODEV"}, nodiratime |-> {"NODIRATIME"},
     noexec |-> {"NOEXEC"}, nosuid |-> {"NOSUID"}, nosymfollow |-> {"NOSYMFOLLOW"},
     rbind |-> {"BIND", "REC"}, relatime |-> {"RELATIME"}, remount |-> {"REMOUNT"},
     ro |-> {"RDONLY"}, silent |-> {"SILENT"}, strictatime |-> {"STRICTATIME"},
     sync |-> {"SYNCHRONOUS"}]

Unset ==
    [async |-> {"SYNCHRONOUS"}, atime |-> {"NOATIME"}, dev |-> {"NODEV"},
     diratime |-> {"NODIRATIME"}, exec |-> {"NOEXEC"}, loud |-> {"SILENT"},
     noiversion |-> {"I_VERSION"}, nolazytime |-> {"LAZYTIME"}, nomand |-> {"MANDLOCK"},
     norelatime |-> {"RELATIME"}, nostrictatime |-> {"STRICTATIME"}, rw |-> {"RDONLY"},
     suid |-> {"NOSUID"}, symfollow |-> {"NOSYMFOLLOW"}]

Propagation ==
    [private |-> {"PRIVATE"}, rprivate |-> {"PRIVATE", "REC"}, slave |-> {"SLAVE"},
     rslave |-> {"SLAVE", "REC"}, shared |-> {"SHARED"}, rshared |-> {"SHARED", "REC"},
     unbindable |-> {"UNBINDABLE"}, runbindable |-> {"UNBINDABLE", "REC"}]

RecursiveSet ==
    [rro |-> {"rdonly"}, rnosuid |-> {"nosuid"}, rnodev |-> {"nodev"},
     rnoexec |-> {"noexec"}, rnodiratime |-> {"nodiratime"}, rnoatime |-> {"noatime"},
     rstrictatime |-> {"strictatime"}, rnosymfollow |-> {"nosymfollow"}, rrelatime |-> {}]

RecursiveClear ==
    [rrw |-> {"rdonly"}, rsuid |-> {"nosuid"}, rdev |-> {"nodev"}, rexec |-> {"noexec"},
     rdiratime |-> {"nodiratime"}, ratime |-> {"noatime"}, rnostrictatime |-> {"strictatime"},
     rsymfollow |-> {"nosymfollow"}, rnorelatime |-> {}]

Extensions == {"copy-symlink", "tmpcopyup"}
IdmapTypes == {"idmap", "ridmap"}

-----------------------------------------------------------------------------
NoOptions ==
    [ok |-> TRUE, vfs |-> {}, prop |-> {}, set |-> {}, clr |-> {}, ext |-> {},
     idmap |-> {}, uids |-> NoMap, gids |-> NoMap, data |-> <<>>]

Plain(o) == o.parts = {}
Named(o, table) == Plain(o) /\ o.name \in DOMAIN table
Parts(o) == CHOOSE p \in o.parts : TRUE

(* parse_inline_idmap_option: every part is "uids=" or "gids=" with a map, *)
(* and the last one of a key is taken.                                     *)
InlineOk(parts) ==
    \A k \in DOMAIN parts : parts[k].key \in {"uids", "gids"} /\ parts[k].map # Malformed

LastOf(parts, key) ==
    IF \E k \in DOMAIN parts : parts[k].key = key
    THEN parts[CHOOSE k \in DOMAIN parts :
                  /\ parts[k].key = key
                  /\ \A j \in DOMAIN parts : parts[j].key = key => j <= k].map
    ELSE NoMap

IsIdmap(o) == o.name \in IdmapTypes
OtherType(o, m) == m.idmap \notin {{}, {o.name}}

(* One option: no name is in two of the tables, and an option that none has*)
(* is left for the file system.                                            *)
SetFlags(o, m) == [m EXCEPT !.vfs = @ \cup Vfs[o.name]]

(* Mutant: the negations do not clear.                                     *)
ClearNothing(o, m) == m

ClearFlags(o, m) == [m EXCEPT !.vfs = @ \ Unset[o.name]]
Propagate(o, m) == [m EXCEPT !.prop = @ \cup Propagation[o.name]]
SetRecursive(o, m) == [m EXCEPT !.set = @ \cup RecursiveSet[o.name]]
ClearRecursive(o, m) == [m EXCEPT !.clr = @ \cup RecursiveClear[o.name]]
Extend(o, m) == [m EXCEPT !.ext = @ \cup {o.name}]
Leave(o, m) == [m EXCEPT !.data = Append(@, o.name)]

TakeIdmap(o, m) ==
    IF Plain(o) THEN [m EXCEPT !.idmap = {o.name}]
    ELSE [m EXCEPT !.idmap = {o.name}, !.uids = LastOf(Parts(o), "uids"),
                   !.gids = LastOf(Parts(o), "gids"), !.ok = InlineOk(Parts(o))]

IdmapOption(o, m) ==
    IF OtherType(o, m) THEN [m EXCEPT !.ok = FALSE] ELSE TakeIdmap(o, m)

Known(o) ==
    \/ IsIdmap(o)
    \/ /\ Plain(o)
       /\ o.name \in DOMAIN Vfs \cup DOMAIN Unset \cup DOMAIN Propagation \cup Extensions
                       \cup DOMAIN RecursiveSet \cup DOMAIN RecursiveClear

ReadPlain(o, m) ==
    CASE o.name \in DOMAIN Vfs -> SetFlags(o, m)
      [] o.name \in DOMAIN Unset -> ClearFlags(o, m)
      [] o.name \in DOMAIN Propagation -> Propagate(o, m)
      [] o.name \in DOMAIN RecursiveSet -> SetRecursive(o, m)
      [] o.name \in DOMAIN RecursiveClear -> ClearRecursive(o, m)
      [] o.name \in Extensions -> Extend(o, m)

Step(o, m) ==
    CASE IsIdmap(o) -> IdmapOption(o, m)
      [] Known(o) /\ ~IsIdmap(o) -> ReadPlain(o, m)
      [] ~Known(o) -> Leave(o, m)

ReadOption ==
    /\ mo.ok
    /\ read < Len(opts)
    /\ mo' = Step(opts[read + 1], mo)
    /\ read' = read + 1
    /\ UNCHANGED opts

OptionsInit ==
    /\ opts \in OptionLists
    /\ read = 0
    /\ mo = NoOptions

OptionsSpec == OptionsInit /\ [][ReadOption]_optVars

-----------------------------------------------------------------------------
(* What the options of a list ask for, as a whole.                         *)
Sets(o) == IF Named(o, Vfs) THEN Vfs[o.name] ELSE {}
Clears(o) == IF Named(o, Unset) THEN Unset[o.name] ELSE {}

(* A flag is on in the result if and only if the last option about it that *)
(* has been read turned it on.                                             *)
LastWins ==
    \A flag \in UNION {Vfs[name] : name \in DOMAIN Vfs} :
        flag \in mo.vfs <=>
            \E k \in 1 .. read :
                /\ flag \in Sets(opts[k])
                /\ \A j \in k + 1 .. read : flag \notin Clears(opts[j])

(* No option is lost: those no table knows are handed to the file system,  *)
(* and no other.                                                           *)
NothingDropped ==
    {mo.data[k] : k \in DOMAIN mo.data} =
        {opts[k].name : k \in {j \in 1 .. read : ~Known(opts[j])}}

(* idmap and ridmap exclude each other wherever they stand, and a map that *)
(* is kept is one that an option named.                                    *)
OneIdmap ==
    mo.ok =>
      /\ \A k \in 1 .. read : IsIdmap(opts[k]) => mo.idmap = {opts[k].name}
      /\ mo.idmap # {} => \E k \in 1 .. read : IsIdmap(opts[k])
=============================================================================
