-------------------------------- MODULE MCCli --------------------------------
(***************************************************************************)
(* Every command, given once, next to clients that create, start, stop and *)
(* destroy two biots of one name, and a node that reports on the first.    *)
(***************************************************************************)
EXTENDS Cli

CONSTANT e1

MCNameOf == [b \in Biots |-> "name"]
MCChange(kind) == [kind |-> kind, env |-> IF kind = "update_environment" THEN e1 ELSE NoEnv]
MCOthersAsk ==
  [b \in Biots |-> {MCChange(kind) : kind \in IF b = 1 THEN {"stop", "start", "destroy"} ELSE {"destroy"}}]

MCReport(revisions, env, container, data, failure) ==
  [revision : revisions, env : {env}, container : {container}, data : {data}, failure : {failure}]
MCReports ==
  MCReport({1}, NoEnv, "absent", "uninitialized", "none")
  \cup MCReport(Revisions, e1, "running", "present", "none")
  \cup MCReport(Revisions, e1, "absent", "present", "none")
  \cup MCReport({1, 2}, NoEnv, "absent", "present", "operator")

MCCommands == AllCommands
=============================================================================
