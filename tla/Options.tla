------------------------------- MODULE Options -------------------------------
(***************************************************************************)
(* What the client makes of its arguments: which command they run, and the  *)
(* options that command's parser takes from them.  An argument is a string  *)
(* that the model only compares: Dashed are those that begin with a dash,   *)
(* Number reads those that are numbers.                                    *)
(***************************************************************************)
EXTENDS Integers, Sequences, SequencesExt

Dashed ==
  {"-h", "--help", "--version", "--", "--to", "--port", "--shell", "--repo", "--name", "--node",
   "--layer", "--secret", "--fetch-credential", "--stdin", "--identity", "--bogus"}

\* Go's zero string: what an option holds that was not given, or was given an empty value.
Empty == ""

\* strconv.Atoi.
Number(argument) ==
  CASE argument = "80" -> 80
    [] argument = "0" -> 0
    [] argument = "65535" -> 65535
    [] argument = "65536" -> 65536
    [] OTHER -> -1

-----------------------------------------------------------------------------
(* Command.Execute on the tree of commands.                                *)

\* The commands each file of cmd/biot registers; a group is a command with children of its own.
sessionCommands == {"help", "login", "logout", "list", "show"}
lifecycleCommands == {"create", "start", "stop", "restart", "rebuild", "destroy", "wait"}
publicationCommands == {"publish", "unpublish", "urls"}
accessCommands == {"share", "unshare", "grants"}
operationsCommands == {"ssh", "nodes", "diagnose", "logs"}
valueGroups == [group \in {"secret", "fetch-credential"} |->
                  IF group = "secret" THEN {"set", "rm", "list"} ELSE {"set", "rm"}]
accountGroups == [group \in {"ssh-key", "token"} |->
                    IF group = "ssh-key" THEN {"add", "list", "rm"} ELSE {"create", "list", "revoke"}]

Children(path) ==
  CASE path = <<>> -> sessionCommands \cup lifecycleCommands \cup publicationCommands \cup accessCommands
                      \cup operationsCommands \cup DOMAIN valueGroups \cup DOMAIN accountGroups
    [] Len(path) = 1 /\ path[1] \in DOMAIN valueGroups -> valueGroups[path[1]]
    [] Len(path) = 1 /\ path[1] \in DOMAIN accountGroups -> accountGroups[path[1]]
    [] OTHER -> {}

HasRun(path) == path = <<>> \/ Children(path) = {}

Outcome(kind, path, args) == [kind |-> kind, path |-> path, args |-> args]

\* One level of Execute: help, an error, the command's own run function, or a child of it.
ExecuteLevel(path, args) ==
  IF args = <<>> THEN Outcome(IF Children(path) # {} THEN "help" ELSE "run", path, args)
  ELSE IF Head(args) \in {"-h", "--help"} THEN Outcome("help", path, args)
  ELSE IF Head(args) \in Dashed THEN Outcome(IF HasRun(path) THEN "run" ELSE "usage", path, args)
  ELSE IF Head(args) \in Children(path) THEN Outcome("child", Append(path, Head(args)), Tail(args))
  ELSE Outcome(IF Children(path) # {} THEN "usage" ELSE "run", path, args)

\* The tree is two levels deep.
Execute(args) ==
  LET root == ExecuteLevel(<<>>, args)
      group == IF root.kind = "child" THEN ExecuteLevel(root.path, root.args) ELSE root
  IN  IF group.kind = "child" THEN ExecuteLevel(group.path, group.args) ELSE group

-----------------------------------------------------------------------------
(* The checks the parsers share.                                           *)

RejectUnknown(args, allowed) == \A i \in DOMAIN args : args[i] \in Dashed => args[i] \in allowed

validateArguments(args, count) == RejectUnknown(args, {}) /\ Len(args) = count

Ports == 1..65535
parsePort(argument) == Number(argument) \in Ports

-----------------------------------------------------------------------------
(* The parsers.  Each reads its arguments from left to right; `want` is the *)
(* option whose value is read next.                                        *)

ShareStart == [ok |-> TRUE, want |-> Empty, email |-> Empty, port |-> 0, shell |-> FALSE]

\* Mutant of ShareStep: a second --shell or --port passes, and the last one counts.
ShareStepRepeats(o, argument) ==
  CASE ~o.ok -> o
    [] o.ok /\ o.want = "--to" -> [o EXCEPT !.want = Empty, !.email = argument, !.ok = argument # Empty]
    [] o.ok /\ o.want = "--port" -> [o EXCEPT !.want = Empty, !.port = Number(argument), !.ok = parsePort(argument)]
    [] o.ok /\ o.want = Empty /\ argument = "--to" -> [o EXCEPT !.want = argument, !.ok = o.email = Empty]
    [] o.ok /\ o.want = Empty /\ argument = "--port" -> [o EXCEPT !.want = argument]
    [] o.ok /\ o.want = Empty /\ argument = "--shell" -> [o EXCEPT !.shell = TRUE]
    [] OTHER -> [o EXCEPT !.ok = FALSE]

ShareStep(o, argument) ==
  CASE ~o.ok -> o
    [] o.ok /\ o.want = "--to" -> [o EXCEPT !.want = Empty, !.email = argument, !.ok = argument # Empty]
    [] o.ok /\ o.want = "--port" -> [o EXCEPT !.want = Empty, !.port = Number(argument), !.ok = parsePort(argument)]
    [] o.ok /\ o.want = Empty /\ argument = "--to" -> [o EXCEPT !.want = argument, !.ok = o.email = Empty]
    [] o.ok /\ o.want = Empty /\ argument = "--port" -> [o EXCEPT !.want = argument, !.ok = o.port = 0]
    [] o.ok /\ o.want = Empty /\ argument = "--shell" -> [o EXCEPT !.shell = TRUE, !.ok = ~o.shell]
    [] OTHER -> [o EXCEPT !.ok = FALSE]

parseShareOptions(args) ==
  LET o == FoldLeft(ShareStep, ShareStart, Tail(args)) IN
  /\ RejectUnknown(args, {"--to", "--port", "--shell"})
  /\ args # <<>>
  /\ o.ok /\ o.want = Empty /\ o.email # Empty /\ o.shell = (o.port = 0)

\* The positional arguments of secret set and fetch-credential set.
Positionals(args) == SelectSeq(args, LAMBDA a : a # "--stdin")
parseValueCommand(args) ==
  /\ RejectUnknown(args, {"--stdin"})
  /\ Len(args) - Len(Positionals(args)) <= 1
  /\ Len(Positionals(args)) = 2

CreateStart == [ok |-> TRUE, want |-> Empty, repo |-> Empty, name |-> Empty, values |-> 0, stdin |-> FALSE]
CreateValued == {"--repo", "--name", "--node", "--layer", "--secret", "--fetch-credential"}

CreateStep(o, argument) ==
  CASE o.ok /\ o.want # Empty ->
         [o EXCEPT !.want = Empty,
                   !.repo = IF o.want = "--repo" THEN argument ELSE @,
                   !.name = IF o.want = "--name" THEN argument ELSE @,
                   !.values = IF o.want \in {"--secret", "--fetch-credential"} THEN @ + 1 ELSE @]
    [] o.ok /\ o.want = Empty /\ argument = "--stdin" -> [o EXCEPT !.stdin = TRUE]
    [] o.ok /\ o.want = Empty /\ argument \in CreateValued -> [o EXCEPT !.want = argument]
    [] OTHER -> [o EXCEPT !.ok = FALSE]

parseCreateOptions(args) ==
  LET o == FoldLeft(CreateStep, CreateStart, args) IN
  /\ RejectUnknown(args, CreateValued \cup {"--stdin"})
  /\ o.ok /\ o.want = Empty /\ o.repo # Empty /\ o.name # Empty
  /\ o.stdin => o.values = 1

SSHStart == [ok |-> TRUE, want |-> Empty, identity |-> Empty, remote |-> FALSE]

SSHStep(o, argument) ==
  CASE o.ok /\ o.remote -> o
    [] o.ok /\ ~o.remote /\ o.want # Empty -> [o EXCEPT !.want = Empty, !.identity = argument, !.ok = argument # Empty]
    [] o.ok /\ ~o.remote /\ o.want = Empty /\ argument = "--identity" ->
         [o EXCEPT !.want = argument, !.ok = o.identity = Empty]
    [] o.ok /\ ~o.remote /\ o.want = Empty /\ argument = "--" -> [o EXCEPT !.remote = TRUE]
    [] OTHER -> [o EXCEPT !.ok = FALSE]

\* Flags are refused only in front of the first --.
parseSSH(args) ==
  LET o == FoldLeft(SSHStep, SSHStart, Tail(args))
      separator == SelectInSeq(args, LAMBDA a : a = "--")
      local == IF separator = 0 THEN args ELSE SubSeq(args, 1, separator - 1)
  IN  /\ RejectUnknown(local, {"--identity"})
      /\ local # <<>>
      /\ o.ok /\ (o.want = Empty \/ o.remote)

\* Whether the command at `path` takes these arguments.
Takes(path, args) ==
  CASE path = <<>> -> args = <<"--version">>
    [] path \in {<<"share">>, <<"unshare">>} -> parseShareOptions(args)
    [] path \in {<<"secret", "set">>, <<"fetch-credential", "set">>} -> parseValueCommand(args)
    [] path = <<"create">> -> parseCreateOptions(args)
    [] path = <<"ssh">> -> parseSSH(args)
    [] path = <<"login">> -> RejectUnknown(args, {}) /\ Len(args) <= 1
    [] path \in {<<"publish">>, <<"unpublish">>} -> validateArguments(args, 2) /\ parsePort(args[2])
    [] path \in {<<"secret", "rm">>, <<"fetch-credential", "rm">>} -> validateArguments(args, 2)
    [] path \in {<<"help">>, <<"logout">>, <<"list">>, <<"nodes">>, <<"ssh-key", "list">>,
                 <<"token", "create">>, <<"token", "list">>} -> validateArguments(args, 0)
    [] OTHER -> validateArguments(args, 1)

-----------------------------------------------------------------------------
(* The synopses: which arguments a command's usage allows.  A value may be  *)
(* any argument that is no unknown flag.  The commands that only count     *)
(* their arguments have no synopsis but that count.                         *)

ShellShares(b, e) == {<<b, "--to", e, "--shell">>, <<b, "--shell", "--to", e>>}
PortShares(b, e, p) == {<<b, "--to", e, "--port", p>>, <<b, "--port", p, "--to", e>>}

ShareSynopsis(args) ==
  \E b, e \in ToSet(args) :
    /\ {b, e} \cap Dashed \subseteq {"--to", "--port", "--shell"} /\ e # Empty
    /\ \/ args \in ShellShares(b, e)
       \/ \E p \in ToSet(args) : Number(p) > 0 /\ Number(p) < 65536 /\ args \in PortShares(b, e, p)

\* create's arguments cut into options, each with its value behind it; `starts` are the options.
ValuedOptions(args, starts) == {i \in starts : args[i] # "--stdin"}
IsCut(args, starts) ==
  /\ \A i \in starts : args[i] \in CreateValued \cup {"--stdin"}
  /\ DOMAIN args \ starts = {i + 1 : i \in ValuedOptions(args, starts)}

\* The last one given counts.
LastIsSet(args, starts, option) ==
  \E i \in ValuedOptions(args, starts) :
    /\ args[i] = option /\ args[i + 1] # Empty
    /\ \A j \in ValuedOptions(args, starts) : args[j] = option => j <= i
InputOptions(args, starts) ==
  {i \in ValuedOptions(args, starts) : args[i] \in {"--secret", "--fetch-credential"}}

CreateSynopsis(args) ==
  \E starts \in SUBSET DOMAIN args :
    /\ RejectUnknown(args, CreateValued \cup {"--stdin"}) /\ IsCut(args, starts)
    /\ LastIsSet(args, starts, "--repo") /\ LastIsSet(args, starts, "--name")
    /\ ValuedOptions(args, starts) # starts => \E i \in starts : InputOptions(args, starts) = {i}

\* A biot, at most one --identity with its value, and the remote command behind a --.
SSHSynopsis(args) ==
  \E n \in {1, 3} \cap DOMAIN args :
    /\ n = 3 => args[2] = "--identity" /\ args[3] # Empty
    /\ args[1] # "--" /\ RejectUnknown(SubSeq(args, 1, n), {"--identity", "--"})
    /\ n = Len(args) \/ args[n + 1] = "--"

Synopsis(path, args) ==
  CASE path \in {<<"share">>, <<"unshare">>} -> ShareSynopsis(args)
    [] path = <<"create">> -> CreateSynopsis(args)
    [] path = <<"ssh">> -> SSHSynopsis(args)
    [] OTHER -> Takes(path, args)
=============================================================================
