----------------------------- MODULE CommandLine -----------------------------
(***************************************************************************)
(* Processes of the command line client on one machine: each checks the     *)
(* vocabulary it was built with, parses its arguments, and logs in, logs    *)
(* out, or loads the saved session and makes a request.  They share the     *)
(* configuration file; one of them has the terminal and may prompt.        *)
(***************************************************************************)
EXTENDS Vocabulary, Options

CONSTANTS
  Procs,        \* the processes
  AtTerminal,   \* the one whose standard input is a terminal
  Invocations,  \* what is run: [artifact, given], the vocabulary [lines, labels] the client is built with
                \* and the arguments of each process, NotGiven for one that is not run
  Servers,      \* the server URLs that api.New takes
  Typed,        \* the server URLs a person types
  Tokens,       \* the tokens a person has
  Issued,       \* which token each server accepts: pairs
  Answers,      \* the error answers of a server: [status, body, tag, fields]
  NotGiven, NoSession

ASSUME CommandLineConstants ==
         /\ AtTerminal \in Procs
         /\ Issued \subseteq Servers \X Tokens
         /\ \A run \in Invocations, p \in Procs :
              run.given[p] # NotGiven => run.given[p] \in Seq(STRING)

VARIABLES
  artifact,    \* the vocabulary of the client
  given,       \* the arguments of each process
  pc,          \* where each process is
  session,     \* the server and token each process uses: <<server, token>>
  saved,       \* what each logout has found
  status,      \* how each process has ended
  message,     \* the error message each process has ended with
  config,      \* the configuration file: [session, whole], or NoSession
  temporary,   \* the temporary file of each process: "none", "part" or "whole"
  accepted,    \* the sessions a server has accepted
  echo,        \* whether the terminal echoes
  watcher,     \* the prompt's goroutine
  caught,      \* an interrupt in the goroutine's channel
  heard        \* where the prompt was when it was interrupted

promptVars == <<echo, watcher, caught, heard>>
fileVars == <<config, temporary>>
vars == <<artifact, given, pc, session, saved, status, message, fileVars, accepted, promptVars>>

-----------------------------------------------------------------------------
Vocab == VocabularyOf(artifact.lines)
Path(p) == Execute(given[p]).path
Arguments(p) == Execute(given[p]).args

\* The commands that read a value, and those that read it from standard input.  login does when
\* its standard input is no terminal.
CreateOptions(p) == FoldLeft(CreateStep, CreateStart, Arguments(p))
ReadsValue(p) ==
  \/ Path(p) \in {<<"login">>, <<"secret", "set">>, <<"fetch-credential", "set">>}
  \/ Path(p) = <<"create">> /\ CreateOptions(p).values > 0
FromStdin(p) ==
  CASE Path(p) = <<"login">> -> p # AtTerminal
    [] Path(p) = <<"create">> -> CreateOptions(p).stdin
    [] OTHER -> "--stdin" \in ToSet(Arguments(p))

At(p, label) == status[p] = "running" /\ pc[p] = label
Goto(p, label) == pc' = [pc EXCEPT ![p] = label] /\ UNCHANGED <<status, message>>
EndWith(p, how, text) ==
  /\ status' = [status EXCEPT ![p] = how]
  /\ message' = [message EXCEPT ![p] = text]
  /\ UNCHANGED pc
End(p, how) == EndWith(p, how, <<>>)

CommandLineInit ==
  /\ \E run \in Invocations : artifact = run.artifact /\ given = run.given
  /\ pc = [p \in Procs |-> "start"]
  /\ status = [p \in Procs |-> IF given[p] = NotGiven THEN "not run" ELSE "running"]
  /\ session = [p \in Procs |-> NoSession] /\ saved = [p \in Procs |-> FALSE]
  /\ message = [p \in Procs |-> <<>>]
  /\ config = NoSession /\ temporary = [p \in Procs |-> "none"]
  /\ accepted = {}
  /\ echo = TRUE /\ watcher = "none" /\ caught = FALSE /\ heard = "none"

\* Package initialization, Execute, and the parser of the command.
Begin(p) ==
  /\ At(p, "start")
  /\ LET outcome == Execute(given[p])
         path == outcome.path
         runs == outcome.kind = "run" /\ Takes(path, outcome.args)
     IN  IF ~Starts(artifact.lines) \/ ~ParsesLabels(artifact.labels) THEN End(p, "panic")
         ELSE \/ outcome.kind = "help" /\ End(p, "ok")
              \/ outcome.kind \in {"usage", "run"} /\ ~runs /\ End(p, "usage")
              \/ runs /\ path \in {<<>>, <<"help">>} /\ End(p, "ok")
              \/ runs /\ path = <<"login">> /\ Goto(p, "url")
              \/ runs /\ path = <<"logout">> /\ Goto(p, "exists")
              \/ runs /\ path \notin {<<>>, <<"help">>, <<"login">>, <<"logout">>} /\ Goto(p, "load")
  /\ UNCHANGED <<artifact, given, session, saved, fileVars, accepted, promptVars>>

-----------------------------------------------------------------------------
(* runLogin.                                                               *)

\* The server is an argument or is typed; api.New refuses what is no HTTP URL.
AskServer(p) ==
  /\ At(p, "url")
  /\ \E server \in IF Arguments(p) # <<>> THEN {Arguments(p)[1]} ELSE Typed :
       IF server \in Servers
         THEN session' = [session EXCEPT ![p] = <<server, "">>] /\ Goto(p, "value")
         ELSE UNCHANGED session /\ End(p, "error")
  /\ UNCHANGED <<artifact, given, saved, fileVars, accepted, promptVars>>

\* A value is read: a token for login, or one that is delivered.  Line endings aside, one larger
\* than the vocabulary's limit is refused.
ValueRead(p) ==
  IF Path(p) # <<"login">> THEN UNCHANGED session /\ (Goto(p, "deliver") \/ End(p, "error"))
  ELSE \/ \E token \in Tokens :
            session' = [session EXCEPT ![p] = <<@[1], token>>] /\ Goto(p, "me")
       \/ UNCHANGED session /\ End(p, "error")

\* StdinToken and StdinSecret.
ReadStdin(p) ==
  /\ At(p, "value") /\ FromStdin(p)
  /\ ValueRead(p)
  /\ UNCHANGED <<artifact, given, saved, fileVars, accepted, promptVars>>

\* readSensitiveValue without a terminal to prompt at.
NoTerminal(p) ==
  /\ At(p, "value") /\ ~FromStdin(p) /\ p # AtTerminal
  /\ End(p, "error")
  /\ UNCHANGED <<artifact, given, session, saved, fileVars, accepted, promptVars>>

\* The server accepts the token, or answers otherwise, or does not answer.
Me(p) ==
  /\ At(p, "me")
  /\ \/ /\ session[p] \in Issued
        /\ accepted' = accepted \cup {session[p]} /\ Goto(p, "temporary")
     \/ UNCHANGED accepted /\ End(p, "error")
     \/ \E answer \in Answers :
          /\ UNCHANGED accepted
          /\ LET text == Message(Vocab, answer)
             IN  IF IsUnauthenticated(answer) THEN End(p, "error")
                 ELSE EndWith(p, IF text = Panic THEN "panic" ELSE "error", text)
  /\ UNCHANGED <<artifact, given, session, saved, fileVars, promptVars>>

-----------------------------------------------------------------------------
(* config.Save: a temporary file of its own, renamed when it is whole.     *)

CreateTemp(p) ==
  /\ At(p, "temporary")
  /\ \/ temporary' = [temporary EXCEPT ![p] = "part"] /\ Goto(p, "write")
     \/ UNCHANGED temporary /\ End(p, "error")
  /\ UNCHANGED <<artifact, given, session, saved, config, accepted, promptVars>>

\* Mutant of WriteTemp: the configuration file itself is written.
WriteInPlace(p) ==
  /\ At(p, "write")
  /\ temporary' = [temporary EXCEPT ![p] = "whole"]
  /\ config' = [session |-> session[p], whole |-> FALSE]
  /\ Goto(p, "rename")
  /\ UNCHANGED <<artifact, given, session, saved, accepted, promptVars>>

\* Write and Close.  The deferred Remove runs when either fails.
WriteTemp(p) ==
  /\ At(p, "write")
  /\ \/ temporary' = [temporary EXCEPT ![p] = "whole"] /\ Goto(p, "rename")
     \/ temporary' = [temporary EXCEPT ![p] = "none"] /\ End(p, "error")
  /\ UNCHANGED <<artifact, given, session, saved, config, accepted, promptVars>>

\* Mutant of Rename: the temporary file is kept when it cannot be renamed.
RenameKeeps(p) ==
  /\ At(p, "rename")
  /\ \/ /\ config' = [session |-> session[p], whole |-> temporary[p] = "whole"]
        /\ temporary' = [temporary EXCEPT ![p] = "none"] /\ End(p, "ok")
     \/ UNCHANGED <<config, temporary>> /\ End(p, "error")
  /\ UNCHANGED <<artifact, given, session, saved, accepted, promptVars>>

Rename(p) ==
  /\ At(p, "rename")
  /\ \/ config' = [session |-> session[p], whole |-> temporary[p] = "whole"] /\ End(p, "ok")
     \/ UNCHANGED config /\ End(p, "error")
  /\ temporary' = [temporary EXCEPT ![p] = "none"]
  /\ UNCHANGED <<artifact, given, session, saved, accepted, promptVars>>

-----------------------------------------------------------------------------
(* runLogout: config.Exists and config.Remove.                             *)

Exists(p) ==
  /\ At(p, "exists")
  /\ saved' = [saved EXCEPT ![p] = config # NoSession]
  /\ Goto(p, "remove") \/ End(p, "error")
  /\ UNCHANGED <<artifact, given, session, fileVars, accepted, promptVars>>

RemoveConfig(p) ==
  /\ At(p, "remove")
  /\ \/ config' = NoSession /\ End(p, "ok")
     \/ UNCHANGED config /\ End(p, "error")
  /\ UNCHANGED <<artifact, given, session, saved, temporary, accepted, promptVars>>

-----------------------------------------------------------------------------
(* The other commands: loadClient, and the requests Cli has in detail.     *)

\* config.Load.
Load(p) ==
  /\ At(p, "load")
  /\ IF config # NoSession /\ config.whole
       THEN /\ session' = [session EXCEPT ![p] = config.session]
            /\ IF Path(p) = <<"token", "create">> THEN End(p, "ok") ELSE Goto(p, "request")
       ELSE UNCHANGED session /\ End(p, "error")
  /\ UNCHANGED <<artifact, given, saved, fileVars, accepted, promptVars>>

\* A request succeeds, goes unanswered, or is answered with an error, which is rendered.
Answered(p, next) ==
  \/ next
  \/ End(p, "error")
  \/ \E answer \in Answers :
       LET text == Message(Vocab, answer)
       IN  EndWith(p, IF text = Panic THEN "panic" ELSE "error", text)

Request(p) ==
  /\ At(p, "request")
  /\ Answered(p, IF ReadsValue(p) THEN Goto(p, "value") ELSE End(p, "ok"))
  /\ UNCHANGED <<artifact, given, session, saved, fileVars, accepted, promptVars>>

Deliver(p) ==
  /\ At(p, "deliver")
  /\ Answered(p, End(p, "ok"))
  /\ UNCHANGED <<artifact, given, session, saved, fileVars, accepted, promptVars>>

-----------------------------------------------------------------------------
(* input.Secret, and the goroutine that waits for an interrupt.            *)

fixedAtPrompt == <<artifact, given, saved, fileVars, accepted>>
T == AtTerminal

\* signal.Notify.
Notify ==
  /\ At(T, "value") /\ ~FromStdin(T) /\ Goto(T, "watch")
  /\ UNCHANGED <<fixedAtPrompt, session, promptVars>>

Watch ==
  /\ At(T, "watch") /\ watcher' = "waiting" /\ Goto(T, "hide")
  /\ UNCHANGED <<fixedAtPrompt, session, echo, caught, heard>>

\* term.ReadPassword turns the echo off, reads, and turns it on again.
Hide ==
  /\ At(T, "hide") /\ echo' = FALSE /\ Goto(T, "read")
  /\ UNCHANGED <<fixedAtPrompt, session, watcher, caught, heard>>

ReadPassword ==
  /\ At(T, "read") /\ echo' = TRUE /\ Goto(T, "finish")
  /\ UNCHANGED <<fixedAtPrompt, session, watcher, caught, heard>>

\* The deferred close and signal.Stop.  A goroutine that has not been told of an interrupt ends.
Finish ==
  /\ At(T, "finish")
  /\ watcher' = IF watcher = "waiting" THEN "none" ELSE watcher
  /\ ValueRead(T)
  /\ UNCHANGED <<fixedAtPrompt, echo, caught, heard>>

Prompting == {"watch", "hide", "read", "finish"}

\* The person interrupts the prompt, once.
Interrupt ==
  /\ status[T] = "running" /\ pc[T] \in Prompting /\ heard = "none"
  /\ heard' = pc[T] /\ caught' = TRUE
  /\ UNCHANGED <<fixedAtPrompt, pc, session, status, message, echo, watcher>>

\* The goroutine takes the interrupt, restores the terminal, and exits the process.
TakeInterrupt ==
  /\ status[T] = "running" /\ watcher = "waiting" /\ caught
  /\ watcher' = "restoring" /\ caught' = FALSE
  /\ UNCHANGED <<fixedAtPrompt, pc, session, status, message, echo, heard>>

\* Mutant of Restore: the process exits without it.
RestoreForgotten ==
  /\ status[T] = "running" /\ watcher = "restoring"
  /\ watcher' = "exiting"
  /\ UNCHANGED <<fixedAtPrompt, pc, session, status, message, echo, caught, heard>>

Restore ==
  /\ status[T] = "running" /\ watcher = "restoring"
  /\ echo' = TRUE /\ watcher' = "exiting"
  /\ UNCHANGED <<fixedAtPrompt, pc, session, status, message, caught, heard>>

ExitInterrupted ==
  /\ status[T] = "running" /\ watcher = "exiting"
  /\ watcher' = "none" /\ End(T, "interrupted")
  /\ UNCHANGED <<fixedAtPrompt, session, echo, caught, heard>>

Prompt ==
  \/ Notify \/ Watch \/ Hide \/ ReadPassword \/ Finish
  \/ Interrupt \/ TakeInterrupt \/ Restore \/ ExitInterrupted

-----------------------------------------------------------------------------
\* A process is killed in the middle of a save, or the machine stops before the rename.  config.go
\* does not sync the file: what a machine that stops later makes of the rename is not modelled.
Killed(p) ==
  /\ status[p] = "running" /\ pc[p] \in {"write", "rename"}
  /\ End(p, "killed")
  /\ UNCHANGED <<artifact, given, session, saved, fileVars, accepted, promptVars>>

CommandLineNext ==
  \/ \E p \in Procs :
       \/ Begin(p) \/ AskServer(p) \/ ReadStdin(p) \/ NoTerminal(p) \/ Me(p)
       \/ CreateTemp(p) \/ WriteTemp(p) \/ Rename(p) \/ Exists(p) \/ RemoveConfig(p)
       \/ Load(p) \/ Request(p) \/ Deliver(p) \/ Killed(p)
  \/ Prompt

CommandLineSpec == CommandLineInit /\ [][CommandLineNext]_vars

-----------------------------------------------------------------------------
\* config.go:43-79, commands.go:131-137: whatever logins, logouts and kills do at the same time, the
\* configuration file is whole and holds a server with a token that this server has accepted.
SessionVerified == config # NoSession => config.whole /\ config.session \in accepted

\* config.go:59: a login that ends on its own leaves no temporary file, which would hold a token.
TokenNotLeft == \A p \in Procs : status[p] \in {"ok", "error"} => temporary[p] = "none"

\* docs/model.md:963-966, client.go:84-120: in whatever a client says that has started, no placeholder
\* is left and the remedy stands wherever the vocabulary declares one.  The one thing that it may
\* fail to render, in a panic, is the entry invalid_input, when the vocabulary has none.
MessagesRendered ==
  Starts(artifact.lines) /\ ParsesLabels(artifact.labels) =>
    \A p \in Procs :
      IF status[p] = "panic" THEN ~IsCommand(Vocab, "invalid_input")
      ELSE \A i \in DOMAIN message[p] :
             LET sentence == message[p][i] IN
             /\ sentence.holes = <<>>
             /\ sentence.name \in DOMAIN Vocab => sentence.remedy = (Vocab[sentence.name].remedy = "required")

\* access.go:26, lifecycle.go:31, operations_commands.go:28: a command is refused as misused if and
\* only if its arguments do not have the form of its synopsis, which create, share, unshare and ssh
\* have apart from their parsers.
ParsesAsSynopsis ==
  \A p \in Procs :
    given[p] # NotGiven /\ Execute(given[p]).kind = "run" /\ status[p] \notin {"running", "panic"} =>
      (status[p] = "usage") = ~Synopsis(Path(p), Arguments(p))

\* input.go:62-63 "an interrupted prompt cannot leave the person's shell with echo disabled": so it
\* is when the interrupt comes while the prompt reads.
EchoRestored == status[T] = "interrupted" /\ heard = "read" => echo
=============================================================================
