---------------------------- MODULE MCCommandLine ----------------------------
(***************************************************************************)
(* Two processes that log in to two servers, log out and use the session    *)
(* at the same time; every arrangement of a few pieces as the arguments of  *)
(* create, share and ssh; and the vocabulary with each of its lines wrong   *)
(* in each way.                                                            *)
(***************************************************************************)
EXTENDS CommandLine

CONSTANTS p1, p2

MCIssued == {<<"s1", "t1">>, <<"s2", "t2">>}

MCNames ==
  <<"", "invalid_input", "missing", "publication_not_active", "revision_conflict",
    "secret_value_too_large", "unauthenticated", "value">>
MCRank == [name \in ToSet(MCNames) |-> CHOOSE i \in DOMAIN MCNames : MCNames[i] = name]

MCText(holes) == [text |-> "text", holes |-> holes, stray |-> FALSE]
MCLine(name, kind, limit, holes, remedy) ==
  [parts |-> 5, name |-> name, kind |-> kind, limit |-> limit, sentence |-> MCText(holes), remedy |-> remedy]
MCLines ==
  <<MCLine("invalid_input", "command", 0, <<>>, "none"),
    MCLine("missing", "field", 0, <<>>, "none"),
    MCLine("publication_not_active", "field", 0, <<>>, "required"),
    MCLine("revision_conflict", "command", 0, <<"revision">>, "required"),
    MCLine("secret_value_too_large", "field", 3, <<>>, "none"),
    MCLine("unauthenticated", "command", 0, <<>>, "required")>>
MCLabels == <<[parts |-> 2, name |-> "missing"], [parts |-> 2, name |-> "value"]>>

\* One line that is wrong in one way.
MCWrong(line) ==
  {[line EXCEPT !.parts = 4], [line EXCEPT !.name = ""], [line EXCEPT !.kind = "other"],
   [line EXCEPT !.kind = IF @ = "field" THEN "command" ELSE "field"],
   [line EXCEPT !.limit = -1], [line EXCEPT !.limit = 0],
   [line EXCEPT !.sentence.text = "empty"], [line EXCEPT !.sentence.text = "blank"],
   [line EXCEPT !.sentence.stray = TRUE], [line EXCEPT !.sentence.holes = <<>>],
   [line EXCEPT !.sentence.holes = <<"name">>],
   [line EXCEPT !.remedy = IF @ = "none" THEN "required" ELSE "none"], [line EXCEPT !.remedy = "other"]}
MCArtifact(lines, labels) == [lines |-> lines, labels |-> labels]
MCGood == MCArtifact(MCLines, MCLabels)
MCArtifacts ==
  {MCGood, MCArtifact(<<>>, MCLabels), MCArtifact(Reverse(MCLines), MCLabels),
   MCArtifact(MCLines, Reverse(MCLabels)), MCArtifact(MCLines, <<>>)}
  \cup {MCArtifact(RemoveAt(MCLines, i), MCLabels) : i \in DOMAIN MCLines}
  \cup UNION {{MCArtifact([MCLines EXCEPT ![i] = line], MCLabels) : line \in MCWrong(MCLines[i])}
                : i \in DOMAIN MCLines}

MCAnswer(code, body, tag, fields) == [status |-> code, body |-> body, tag |-> tag, fields |-> fields]
MCFields == [{"missing", "value"} -> {"none", "missing", "publication_not_active", "unheard"}]
MCNoFields == [f \in {"missing", "value"} |-> "none"]
MCAnswers ==
  {MCAnswer(code, "garbage", "", MCNoFields) : code \in {401, 500}}
  \cup {MCAnswer(409, "object", tag, MCNoFields) :
          tag \in {"revision_conflict", "unauthenticated", "internal", "missing", "unheard", ""}}
  \cup {MCAnswer(422, "object", "invalid_input", fields) : fields \in MCFields}

\* Arrangements of up to n pieces.
MCArranged(pieces, n) == UNION {{FlattenSeq(s) : s \in [1..k -> pieces]} : k \in 0..n}
MCCreate ==
  MCArranged({<<"--repo", "r">>, <<"--name", "n">>, <<"--name", "">>, <<"--secret", "v">>,
              <<"--secret", "--stdin">>, <<"--stdin">>, <<"--repo">>, <<"r">>}, 4)
MCShare ==
  MCArranged({<<"b">>, <<"--to", "e">>, <<"--to", "">>, <<"--to">>, <<"--port", "80">>,
              <<"--port", "65535">>, <<"--port", "65536">>, <<"--port", "0">>, <<"--shell">>, <<"--bogus">>}, 4)
MCSSH ==
  MCArranged({<<"b">>, <<"--identity", "f">>, <<"--identity">>, <<"--">>, <<"--bogus">>, <<"">>}, 5)
MCParsed ==
  {<<"create">> \o a : a \in MCCreate} \cup {<<"share">> \o a : a \in MCShare} \cup {<<"ssh">> \o a : a \in MCSSH}
  \cup {<<>>, <<"--version">>, <<"--bogus">>, <<"-h">>, <<"nothing">>, <<"secret">>, <<"secret", "--bogus">>,
        <<"secret", "nothing">>, <<"list", "--help">>, <<"list", "b">>, <<"help">>, <<"token", "create">>,
        <<"publish", "b", "80">>, <<"publish", "b", "0">>}
MCSession ==
  {<<"login">>, <<"login", "s1">>, <<"login", "no url">>, <<"logout">>, <<"list">>,
   <<"secret", "set", "b", "v">>, <<"secret", "set", "b", "v", "--stdin">>, <<"token", "create">>}

\* One process is given arguments to parse, two work with the session, or a client that is built
\* wrong is used.
MCRun(built, a, b) == [artifact |-> built, given |-> [p \in Procs |-> IF p = p1 THEN a ELSE b]]
MCInvocations ==
  {MCRun(MCGood, args, NotGiven) : args \in MCParsed}
  \cup {MCRun(MCGood, a, b) : a, b \in MCSession}
  \cup {MCRun(built, <<"list">>, <<"login", "s1">>) : built \in MCArtifacts}
=============================================================================
