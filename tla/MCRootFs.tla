------------------------------ MODULE MCRootFs ------------------------------
(***************************************************************************)
(* Small trees for RootFs, and paths through the links in them.            *)
(***************************************************************************)
EXTENDS RootFs, TLC

CONSTANTS host, root, d, e, a, b, f, n1, n2    \* the inodes

MCNodes == {host, root, d, e, a, b, f, n1, n2}
MCHost == {host}
MCNames == {"a", "b", "d", "e", "f", "x"}

(* Within the root the directory d and in it e, a file f, a link a, and a  *)
(* link b beside a or in d; n1 and n2 are spare.                           *)
Rel(ps) == [abs |-> FALSE, parts |-> ps]
Abs(ps) == [abs |-> TRUE, parts |-> ps]

LinkTargets ==
  {Abs(<<>>), Rel(<<"..">>), Rel(<<"d">>), Rel(<<"b">>), Abs(<<"d", "b">>),
   Rel(<<"d", "..", "a">>), Abs(<<"d", "x">>), Abs(<<"b", "f">>)}

Tree(ta, tb, pb, spare) ==
  [kind |-> [n \in MCNodes |-> CASE n \in {host, root, d, e} -> "dir"
                                 [] n \in {a, b} -> "link"
                                 [] n = f -> "file"
                                 [] OTHER -> spare],
   parent |-> [n \in MCNodes |-> CASE n \in {a, d} -> root
                                   [] n = b -> pb
                                   [] n \in {e, f} -> d
                                   [] n \in {n1, n2} -> e
                                   [] OTHER -> host],
   name |-> [n \in MCNodes |-> CASE n \in {a, n2} -> "a" [] n = b -> "b" [] n = d -> "d"
                                 [] n = e -> "e" [] n = f -> "f"
                                 [] OTHER -> "x"],
   target |-> [n \in MCNodes |-> CASE n = a -> ta [] n = b -> tb
                                   [] OTHER -> Abs(<<>>)]]

(* In one of the trees no inode is free.                                   *)
MCTrees ==
  {Tree(ta, tb, pb, "free") : ta \in LinkTargets, tb \in LinkTargets,
                              pb \in {root, d}}
  \cup {Tree(Rel(<<"d">>), Rel(<<"d">>), root, "file")}

Paths ==
  {<<>>} \cup {<<p>> : p \in {"a", "..", "d", "x"}}
         \cup {<<p, q>> : p \in {"a", "d", "f", "x", ".."},
                          q \in {"a", "b", "e", "f", "x", "..", "."}}
         \cup {<<"a", p, q>> : p \in {"b", "..", "x", "e"},
                               q \in {"d", "x", "."}}

Call1(what, ps, fs) == [do : {what}, path : ps, flags : fs]
Ending(ps) == {p \in ps : p # <<>> /\ Last(p) \in MCNames}

MCOps ==
  Call1("open", Paths, {{"path"}, {"path", "no_follow"}, {"no_follow"},
                        {"path", "directory", "no_follow"}})
  \cup Call1("create_directories", Paths \cup {<<"x", "..", "a">>}, {{}})
  \cup Call1("ensure_mount_destination", Ending(Paths), {{}, {"directory"}})
  \cup UNION {Call1(what, {<<"a">>, <<"a", "x">>, <<"d">>, <<"a", "..">>,
                           <<"a", "b">>, <<"f", "x">>, <<"d", "e">>, <<"a", "d">>}, {{}}) :
                what \in {"create_directory", "create_file", "create",
                          "remove_file", "remove_dir", "remove_all"}}

MCNewTarget == Abs(<<"d">>)

=============================================================================
