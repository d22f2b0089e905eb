-------------------------- MODULE CommandLineProofs --------------------------
(***************************************************************************)
(* The command line client, for every set of processes, invocations,       *)
(* artifacts, servers and answers: what a login saves, what it leaves      *)
(* behind, the echo of an interrupted prompt, the error messages, and that *)
(* the parsers of create, share, unshare and ssh take what the synopses of *)
(* these commands allow.                                                   *)
(***************************************************************************)
EXTENDS CommandLine, FiniteSetTheorems, WellFoundedInduction, TLAPS

Domains ==
  /\ DOMAIN pc = Procs /\ DOMAIN status = Procs /\ DOMAIN session = Procs
  /\ DOMAIN temporary = Procs /\ DOMAIN message = Procs

\* A process that saves has a session the server accepted, and the temporary
\* file is there only while it saves or where it was killed.
SaveInv ==
  \A p \in Procs :
    /\ pc[p] \in {"temporary", "write", "rename"} => session[p] \in accepted
    /\ At(p, "rename") => temporary[p] = "whole"
    /\ temporary[p] # "none" => pc[p] \in {"write", "rename"} /\ status[p] \notin {"ok", "error"}

\* The goroutine moves only for an interrupt.  A prompt that was interrupted
\* while it read is not hidden again, and the goroutine exits behind the echo.
EchoInv ==
  /\ heard = "none" => ~caught /\ watcher \notin {"restoring", "exiting"}
  /\ heard = "read" =>
       /\ pc[T] \in {"read", "finish", "me", "deliver", "temporary", "write", "rename"}
       /\ watcher = "exiting" \/ status[T] = "interrupted" => echo

SessionInv == Domains /\ SaveInv /\ SessionVerified /\ EchoInv

-----------------------------------------------------------------------------
\* Nothing is saved, and no prompt is interrupted, before a process begins.
LEMMA SessionStart == CommandLineInit => SessionInv
BY DEF CommandLineInit, SessionInv, Domains, SaveInv, SessionVerified, EchoInv, At

\* Every step of a process keeps account of its session, its file and the echo.
LEMMA ProcessStep ==
  ASSUME SessionInv, NEW p \in Procs,
         \/ Begin(p) \/ AskServer(p) \/ ReadStdin(p) \/ NoTerminal(p) \/ Me(p)
         \/ CreateTemp(p) \/ WriteTemp(p) \/ Rename(p) \/ Exists(p) \/ RemoveConfig(p)
         \/ Load(p) \/ Request(p) \/ Deliver(p) \/ Killed(p)
  PROVE  SessionInv'
<1> USE CommandLineConstants
    DEF SessionInv, Domains, SaveInv, SessionVerified, EchoInv, At, Goto, End, EndWith, T,
        fileVars, promptVars
<1>1. CASE Begin(p)
  BY <1>1 DEF Begin
<1>2. CASE AskServer(p)
  BY <1>2 DEF AskServer
<1>3. CASE ReadStdin(p)
  BY <1>3 DEF ReadStdin, ValueRead
<1>4. CASE NoTerminal(p)
  BY <1>4 DEF NoTerminal
<1>5. CASE Me(p)
  BY <1>5 DEF Me
<1>6. CASE CreateTemp(p)
  BY <1>6 DEF CreateTemp
<1>7. CASE WriteTemp(p)
  BY <1>7 DEF WriteTemp
<1>8. CASE Rename(p)
  <2>1. temporary[p] = "whole" /\ session[p] \in accepted
    BY <1>8 DEF Rename
  <2>2. Domains' /\ SaveInv' /\ EchoInv'
    BY <1>8 DEF Rename
  <2>3. config' = config \/ config' = [session |-> session[p], whole |-> TRUE]
    BY <1>8, <2>1 DEF Rename
  <2>4. accepted' = accepted
    BY <1>8 DEF Rename
  <2>5. SessionVerified'
    BY <2>1, <2>3, <2>4
  <2> QED
    BY <2>2, <2>5
<1>9. CASE Exists(p)
  BY <1>9 DEF Exists
<1>10. CASE RemoveConfig(p)
  BY <1>10 DEF RemoveConfig
<1>11. CASE Load(p)
  BY <1>11 DEF Load
<1>12. CASE Request(p)
  BY <1>12 DEF Request, Answered
<1>13. CASE Deliver(p)
  BY <1>13 DEF Deliver, Answered
<1>14. CASE Killed(p)
  BY <1>14 DEF Killed
<1> QED
  BY <1>1, <1>2, <1>3, <1>4, <1>5, <1>6, <1>7, <1>8, <1>9, <1>10, <1>11, <1>12, <1>13, <1>14

\* So does every step of the prompt and its goroutine.
LEMMA PromptStep ==
  ASSUME SessionInv, Prompt
  PROVE  SessionInv'
<1> USE CommandLineConstants
    DEF SessionInv, Domains, SaveInv, SessionVerified, EchoInv, At, Goto, End, EndWith, T,
        fileVars, promptVars, fixedAtPrompt
<1>1. CASE Notify
  BY <1>1 DEF Notify
<1>2. CASE Watch
  BY <1>2 DEF Watch
<1>3. CASE Hide
  BY <1>3 DEF Hide
<1>4. CASE ReadPassword
  BY <1>4 DEF ReadPassword
<1>5. CASE Finish
  BY <1>5 DEF Finish, ValueRead
<1>6. CASE Interrupt
  BY <1>6 DEF Interrupt, Prompting
<1>7. CASE TakeInterrupt
  BY <1>7 DEF TakeInterrupt
<1>8. CASE Restore
  BY <1>8 DEF Restore
<1>9. CASE ExitInterrupted
  BY <1>9 DEF ExitInterrupted
<1> QED
  BY <1>1, <1>2, <1>3, <1>4, <1>5, <1>6, <1>7, <1>8, <1>9 DEF Prompt

\* What a process or the operator at its prompt does keeps the account.
LEMMA SessionKept == SessionInv /\ [CommandLineNext]_vars => SessionInv'
<1>1. ASSUME SessionInv, UNCHANGED vars PROVE SessionInv'
  BY <1>1
     DEF vars, fileVars, promptVars, SessionInv, Domains, SaveInv, SessionVerified, EchoInv, At, T
<1> QED
  BY <1>1, ProcessStep, PromptStep DEF CommandLineNext

\* config.go, input.go: however the processes interleave, every one keeps account of its session,
\* its temporary file and the echo.
THEOREM SessionTheorem == CommandLineSpec => []SessionInv
BY SessionStart, SessionKept, PTL DEF CommandLineSpec

\* config.go:43-79, commands.go:131-137: however many processes log in, log out and are killed at the
\* same time, the configuration file is whole and holds a session its server has accepted.
THEOREM SessionVerifiedTheorem == CommandLineSpec => []SessionVerified
<1>1. SessionInv => SessionVerified
  BY DEF SessionInv
<1> QED
  BY <1>1, SessionTheorem, PTL

\* config.go:59: a login that ends on its own leaves no temporary file.
THEOREM TokenTheorem == CommandLineSpec => []TokenNotLeft
<1>1. SessionInv => TokenNotLeft
  BY DEF SessionInv, SaveInv, TokenNotLeft
<1> QED
  BY <1>1, SessionTheorem, PTL

\* input.go:62-63: whatever the goroutine and the prompt do in between, a process that ends over an
\* interrupt of its reading leaves the echo on.
THEOREM EchoTheorem == CommandLineSpec => []EchoRestored
<1>1. SessionInv => EchoRestored
  BY DEF SessionInv, EchoInv, EchoRestored
<1> QED
  BY <1>1, SessionTheorem, PTL

-----------------------------------------------------------------------------
(* The error messages.                                                     *)

\* What the client has checked before it renders anything.
Sound(v) ==
  /\ \A name \in DOMAIN v :
       /\ v[name].kind \in {"field", "command"}
       /\ RemedyCovered(name, v[name]) /\ v[name].remedy \in {"none", "required"}
       /\ v[name].sentence.holes = expectedPlaceholders(name)
  /\ DOMAIN clientRemedies \subseteq DOMAIN v

\* A sentence with nothing left to fill in and the remedy that is declared.
Rendered(v, sentence) ==
  /\ sentence.holes = <<>>
  /\ sentence.name \in DOMAIN v => sentence.remedy = (v[sentence.name].remedy = "required")

\* init checks every entry.
LEMMA StartsSound ==
  ASSUME NEW lines, Starts(lines)
  PROVE  Sound(VocabularyOf(lines))
<1> DEFINE v == VocabularyOf(lines)
<1>1. ASSUME NEW name \in DOMAIN v
      PROVE  \E i \in DOMAIN lines : v[name] = lines[i]
  BY DEF VocabularyOf, NamesOf, EntryOf
<1>2. ASSUME NEW name \in DOMAIN v PROVE ParsedLine(v[name])
  BY <1>1 DEF Starts, Parses
<1> QED
  BY <1>2 DEF Starts, Sound, ParsedLine, validatePlaceholders

\* client.go: the client's remedies, and that their sentences begin like the server's.
LEMMA Remedies ==
  /\ DOMAIN clientRemedies = {"unauthenticated", "revision_conflict", "publication_not_active"}
  /\ clientRemedies["unauthenticated"] = "upper" /\ clientRemedies["revision_conflict"] = "upper"
BY DEF clientRemedies

\* A command's sentence is rendered with what it takes, a field's takes nothing.
LEMMA SentencesRendered ==
  ASSUME NEW v, Sound(v), NEW name
  PROVE  /\ Rendered(v, Sentence(name, name \in DOMAIN clientRemedies, <<>>))
         /\ name \in DOMAIN v /\ name # "revision_conflict" => v[name].sentence.holes = <<>>
         /\ "revision_conflict" \in DOMAIN v /\ v["revision_conflict"].kind = "command"
         /\ v["revision_conflict"].sentence.holes = <<"revision">>
<1>1. v["revision_conflict"].kind # "field"
  BY Remedies DEF Sound, RemedyCovered
<1>2. Rendered(v, Sentence(name, name \in DOMAIN clientRemedies, <<>>))
  BY DEF Sound, RemedyCovered, Rendered, Sentence
<1> QED
  BY <1>1, <1>2, Remedies DEF Sound, expectedPlaceholders

\* Of a message every sentence is rendered.
AllRendered(v, text) == \A i \in DOMAIN text : Rendered(v, text[i])

\* A message that is rendered throughout is not the one a panic leaves.
LEMMA NoPanic == ASSUME NEW v, NEW text, AllRendered(v, text) PROVE text # Panic
<1>1. Sentence("", FALSE, <<"panic">>).holes = <<"panic">>
  BY DEF Sentence
<1>2. <<"panic">> # <<>>
  OBVIOUS
<1>3. ASSUME text = Panic PROVE Rendered(v, Sentence("", FALSE, <<"panic">>))
  <2>1. \A s : 1 \in DOMAIN <<s>> /\ <<s>>[1] = s
    OBVIOUS
  <2> QED
    BY <1>3, <2>1, Zenon DEF AllRendered, Panic
<1> QED
  BY <1>1, <1>2, <1>3 DEF Rendered

\* What a process has said when it ended: it panics only for want of the entry invalid_input.
SaidWell(v, how, text) ==
  IF how = "panic" THEN ~IsCommand(v, "invalid_input") ELSE AllRendered(v, text)

\* A message without sentences has nothing left to render.
LEMMA NoSentence == ASSUME NEW v PROVE AllRendered(v, <<>>)
BY DEF AllRendered

\* A message of one rendered sentence is rendered.
LEMMA OneSentence ==
  ASSUME NEW v, NEW sentence, Rendered(v, sentence) PROVE AllRendered(v, <<sentence>>)
BY DEF AllRendered

\* Error.Error renders every answer, unless it looks for the entry invalid_input in vain.
LEMMA AnswersRendered ==
  ASSUME NEW v, Sound(v), NEW answer
  PROVE  \/ AllRendered(v, Message(v, answer))
         \/ Message(v, answer) = Panic /\ ~IsCommand(v, "invalid_input")
<1> DEFINE tag == ErrorTag(answer)
<1>1. ASSUME NEW name PROVE AllRendered(v, WithRemedy(name, <<>>))
  BY SentencesRendered, OneSentence DEF WithRemedy
<1>2. ASSUME NEW name, name \notin DOMAIN clientRemedies
      PROVE  AllRendered(v, <<Sentence(name, FALSE, <<>>)>>)
  <2>1. Rendered(v, Sentence(name, name \in DOMAIN clientRemedies, <<>>))
    BY SentencesRendered
  <2>2. (name \in DOMAIN clientRemedies) = FALSE
    BY <1>2
  <2> QED
    BY <2>1, <2>2, OneSentence
<1>3. CASE tag = "revision_conflict"
  <2>1. Message(v, answer) = renderCommandSentence(v, "revision_conflict", {"revision"})
    BY <1>3 DEF Message
  <2>2. IsCommand(v, "revision_conflict")
    BY SentencesRendered DEF IsCommand
  <2>3. \A i \in DOMAIN <<"revision">> : <<"revision">>[i] \in {"revision"}
    OBVIOUS
  <2>4. renderCommandSentence(v, "revision_conflict", {"revision"}) = WithRemedy("revision_conflict", <<>>)
    BY <2>2, <2>3, SentencesRendered DEF renderCommandSentence
  <2> QED
    BY <1>1, <2>1, <2>4
<1>4. CASE tag = "invalid_input"
  <2>1. Message(v, answer) = invalidInputMessage(v, answer.fields)
    BY <1>4 DEF Message
  <2>2. ASSUME NEW reason
        PROVE  /\ DOMAIN FieldSentence(v, reason) = {1}
               /\ Rendered(v, FieldSentence(v, reason)[1])
    <3>1. FieldSentence(v, reason) = WithRemedy(reason, <<>>)
      <4>1. reason \in DOMAIN v /\ v[reason].kind = "field" => v[reason].sentence.holes = <<>>
        BY SentencesRendered
      <4> QED
        BY <4>1 DEF FieldSentence
    <3> QED
      BY <3>1, SentencesRendered DEF WithRemedy
  <2>3. CASE IsCommand(v, "invalid_input")
    <3>1. commandSentence(v, "invalid_input") = <<Sentence("invalid_input", FALSE, <<>>)>>
      BY <2>3, SentencesRendered DEF commandSentence, IsCommand
    <3> QED
      BY <1>2, <2>1, <2>2, <3>1, Remedies DEF invalidInputMessage, AllRendered
  <2>4. CASE ~IsCommand(v, "invalid_input")
    <3>1. commandSentence(v, "invalid_input") = Panic
      BY <2>4 DEF commandSentence
    <3> QED
      BY <2>1, <2>2, <2>4, <3>1 DEF invalidInputMessage, AllRendered
  <2> QED
    BY <2>3, <2>4
<1>5. CASE tag = "internal"
  <2>1. Message(v, answer) = <<Sentence("internal", FALSE, <<>>)>>
    BY <1>5 DEF Message
  <2> QED
    BY <1>2, <2>1, Remedies
<1>6. CASE tag \notin {"revision_conflict", "invalid_input", "internal"}
  <2>1. CASE IsCommand(v, tag)
    <3>1. Message(v, answer) = renderCommandSentence(v, tag, {})
      BY <1>6, <2>1 DEF Message
    <3>2. v[tag].sentence.holes = <<>>
      BY <1>6, <2>1, SentencesRendered DEF IsCommand
    <3>3. renderCommandSentence(v, tag, {}) = WithRemedy(tag, <<>>)
      BY <2>1, <3>2 DEF renderCommandSentence
    <3> QED
      BY <1>1, <3>1, <3>3
  <2>2. CASE ~IsCommand(v, tag)
    <3>1. Message(v, answer) = <<Sentence("unknown", FALSE, <<>>)>>
      BY <1>6, <2>2 DEF Message
    <3> QED
      BY <1>2, <3>1, Remedies
  <2> QED
    BY <2>1, <2>2
<1> QED
  BY <1>3, <1>4, <1>5, <1>6

\* Every process of a client that has started has said well what it has said.
MessageInv ==
  Starts(artifact.lines) /\ ParsesLabels(artifact.labels) =>
    \A p \in Procs : SaidWell(Vocab, status[p], message[p])

\* A process ends with nothing to say, with a message that is rendered, or with a panic over one
\* that is not, or of its start.
Says(p) ==
  \/ UNCHANGED <<status, message>>
  \/ \E how \in {"ok", "error", "usage", "killed", "interrupted"} : End(p, how)
  \/ \E answer \in Answers :
       LET text == Message(Vocab, answer)
       IN  EndWith(p, IF text = Panic THEN "panic" ELSE "error", text)
  \/ (~Starts(artifact.lines) \/ ~ParsesLabels(artifact.labels)) /\ End(p, "panic")

\* A step leaves the messages of the processes as they are, or is one process's that says something.
LEMMA EveryStepSays ==
  [CommandLineNext]_vars => UNCHANGED artifact /\ (UNCHANGED <<status, message>> \/ \E p \in Procs : Says(p))
<1> USE CommandLineConstants DEF Says, Goto, T
<1>1. ASSUME NEW p \in Procs,
             \/ Begin(p) \/ AskServer(p) \/ ReadStdin(p) \/ NoTerminal(p) \/ Me(p)
             \/ CreateTemp(p) \/ WriteTemp(p) \/ Rename(p) \/ Exists(p) \/ RemoveConfig(p)
             \/ Load(p) \/ Request(p) \/ Deliver(p) \/ Killed(p)
      PROVE  UNCHANGED artifact /\ Says(p)
  BY <1>1 DEF Begin, AskServer, ReadStdin, NoTerminal, Me, CreateTemp, WriteTemp, Rename, Exists,
     RemoveConfig, Load, Request, Deliver, Killed, ValueRead, Answered
<1>2. ASSUME Prompt PROVE UNCHANGED artifact /\ Says(T)
  BY <1>2 DEF Prompt, Notify, Watch, Hide, ReadPassword, Finish, Interrupt, TakeInterrupt, Restore,
     ExitInterrupted, ValueRead, fixedAtPrompt
<1> QED
  BY <1>1, <1>2 DEF CommandLineNext, vars

\* client.go: a step leaves no message with a hole in it, and no panic but for invalid_input.
LEMMA MessageStep == Domains /\ MessageInv /\ [CommandLineNext]_vars => MessageInv'
<1> SUFFICES ASSUME Domains, MessageInv, [CommandLineNext]_vars,
                    Starts(artifact'.lines), ParsesLabels(artifact'.labels)
             PROVE  \A p \in Procs : SaidWell(Vocab', status'[p], message'[p])
  BY DEF MessageInv
<1>1. artifact' = artifact /\ Vocab' = Vocab
  BY EveryStepSays DEF Vocab
<1>2. \A p \in Procs : SaidWell(Vocab, status[p], message[p])
  BY <1>1 DEF MessageInv
<1>3. ASSUME NEW answer
      PROVE  LET text == Message(Vocab, answer)
             IN  SaidWell(Vocab, IF text = Panic THEN "panic" ELSE "error", text)
  <2>1. Sound(Vocab)
    BY <1>1, StartsSound DEF Vocab
  <2>2. CASE ~IsCommand(Vocab, "invalid_input")
    BY <2>1, <2>2, AnswersRendered DEF SaidWell
  <2>3. CASE IsCommand(Vocab, "invalid_input")
    <3>1. AllRendered(Vocab, Message(Vocab, answer))
      BY <2>1, <2>3, AnswersRendered
    <3> QED
      BY <3>1, NoPanic DEF SaidWell
  <2> QED
    BY <2>2, <2>3
<1>4. \A how \in {"ok", "error", "usage", "killed", "interrupted"} : SaidWell(Vocab, how, <<>>)
  BY NoSentence DEF SaidWell
<1>5. ASSUME NEW q \in Procs, Says(q)
      PROVE  \A p \in Procs : SaidWell(Vocab', status'[p], message'[p])
  BY <1>1, <1>2, <1>3, <1>4, <1>5 DEF Says, End, EndWith, Domains
<1> QED
  BY <1>1, <1>2, <1>5, EveryStepSays

\* docs/model.md:963-966, client.go:84-120: whatever entries the vocabulary has and whatever a server
\* answers, a client that has started renders every error answer, with the declared remedy, but for
\* an entry invalid_input that is missing: over that it panics.
THEOREM MessagesTheorem == CommandLineSpec => []MessagesRendered
<1>1. CommandLineInit => MessageInv
  BY NoSentence DEF CommandLineInit, MessageInv, SaidWell
<1>2. MessageInv => MessagesRendered
  BY DEF MessageInv, SaidWell, MessagesRendered, AllRendered, Rendered
<1>3. SessionInv => Domains
  BY DEF SessionInv
<1> QED
  BY <1>1, <1>2, <1>3, MessageStep, SessionTheorem, PTL DEF CommandLineSpec

-----------------------------------------------------------------------------
(* What the parsers of the commands take.  A parser folds its step over    *)
(* the arguments.  RunReads takes the fold apart into the states it passes *)
(* through, and a claim about them is proved by refuting the least place   *)
(* where it fails (Climb).                                                 *)

\* A set of numbers that is not empty has a least one.
LEMMA Least ==
  ASSUME NEW S, S \subseteq Nat, S # {}
  PROVE  \E x \in S : \A y \in S : x <= y
<1> DEFINE I == {1..n : n \in S}
<1>1. IsWellFoundedOn(StrictSubsetOrdering(Nat), FiniteSubsetsOf(Nat))
  BY FS_StrictSubsetOrderingWellFounded
<1>2. I \subseteq FiniteSubsetsOf(Nat) /\ I # {}
  <2>1. \A n \in S : 1..n \subseteq Nat /\ IsFiniteSet(1..n)
     BY FS_Interval
  <2> QED BY <2>1 DEF FiniteSubsetsOf
<1> HIDE DEF I
<1>3. \E x \in I : \A y \in I : <<y, x>> \notin StrictSubsetOrdering(Nat)
  BY <1>1, <1>2, WFMin
<1>4. PICK x \in S : \A y \in I : <<y, 1..x>> \notin StrictSubsetOrdering(Nat)
  BY <1>3 DEF I
<1>5. \A y \in S : x <= y
  <2> SUFFICES ASSUME NEW y \in S, y < x PROVE FALSE
    OBVIOUS
  <2>1. 1..y \subseteq 1..x /\ x \in 1..x /\ x \notin 1..y
    OBVIOUS
  <2>2. <<1..y, 1..x>> \notin StrictSubsetOrdering(Nat)
    BY <1>4 DEF I
  <2>3. <<1..y, 1..x>> \in StrictSubsetOrdering(Nat)
    BY <2>1 DEF StrictSubsetOrdering
  <2> QED BY <2>2, <2>3
<1> QED
  BY <1>5

\* What holds of m, and of every number up to n when it holds of the one before, holds from m to n.
LEMMA Climb ==
  ASSUME NEW m \in Nat, NEW n \in Nat, NEW K, m \in K,
         \A k \in (m + 1)..n : k - 1 \in K => k \in K
  PROVE  m..n \subseteq K
<1> DEFINE Missing == (m..n) \ K
<1> SUFFICES ASSUME Missing # {} PROVE FALSE
  OBVIOUS
<1>1. Missing \subseteq Nat
  OBVIOUS
<1> PICK x \in Missing : \A y \in Missing : x <= y
  BY <1>1, Least
<1>2. x \in (m + 1)..n /\ x - 1 \in m..n /\ x - 1 \notin Missing
  OBVIOUS
<1> QED
  BY <1>2

\* What a fold of n steps comes to on each set of positions: FoldLeft takes the last of them last.
IsRun(g, n, base, F) ==
  \A s \in SUBSET (1..n) : g[s] = IF s = {} THEN base ELSE F[<<g[s \ {Max(s)}], Max(s)>>]

\* Max finds the largest of some positions.
LEMMA MaxIs ==
  ASSUME NEW n \in Nat, NEW s \in SUBSET (1..n), NEW x \in s, \A y \in s : y <= x
  PROVE  Max(s) = x
<1>1. \E z \in s : \A y \in s : z >= y
  OBVIOUS
<1>2. Max(s) \in s /\ \A y \in s : Max(s) >= y
  BY <1>1 DEF Max
<1>3. \A y \in s : y \in Int
  OBVIOUS
<1>4. x \in Int /\ Max(s) \in Int /\ Max(s) >= x /\ x >= Max(s)
  BY <1>2, <1>3
<1> HIDE DEF Max
<1> QED
  BY <1>4

\* Some positions have a largest.
LEMMA MaxOf ==
  ASSUME NEW n \in Nat, NEW s \in SUBSET (1..n), s # {}
  PROVE  Max(s) \in s /\ \A y \in s : Max(s) >= y
<1> DEFINE D == {n - y : y \in s}
<1>0. \A y \in s : y \in 1..n
  OBVIOUS
<1>1. D \subseteq Nat /\ D # {}
  <2>1. PICK y \in s : TRUE
    OBVIOUS
  <2>2. n - y \in D
    OBVIOUS
  <2>3. \A z \in s : n - z \in Nat
    BY <1>0
  <2> QED BY <2>2, <2>3
<1>2. PICK x \in D : \A y \in D : x <= y
  BY <1>1, Least
<1>3. n - x \in s /\ \A y \in s : n - x >= y
  <2>1. PICK y \in s : x = n - y
    OBVIOUS
  <2>2. n - x = y
    BY <1>0, <2>1
  <2>3. \A z \in s : n - z \in D
    OBVIOUS
  <2>4. \A z \in s : x <= n - z
    BY <1>2, <2>3
  <2> HIDE DEF D
  <2> QED
    BY <1>0, <2>1, <2>2, <2>4
<1> QED
  BY <1>3 DEF Max

\* Every step function has such a run: this is what the definition of FoldLeft chooses.
LEMMA RunExists ==
  ASSUME NEW V, NEW n \in Nat, NEW base \in V, NEW F \in [V \X (1..n) -> V]
  PROVE  \E g \in [SUBSET (1..n) -> V] : IsRun(g, n, base, F)
<1> DEFINE K == {k \in 0..n : \E g \in [SUBSET (1..k) -> V] : IsRun(g, k, base, F)}
<1>1. 0 \in K
  <2> DEFINE g == [s \in SUBSET (1..0) |-> base]
  <2>1. 1..0 = {}
    OBVIOUS
  <2>2. g \in [SUBSET (1..0) -> V] /\ IsRun(g, 0, base, F)
    BY <2>1 DEF IsRun
  <2> QED BY <2>2
<1>2. ASSUME NEW k \in 1..n, k - 1 \in K PROVE k \in K
  <2>1. PICK h \in [SUBSET (1..(k-1)) -> V] : IsRun(h, k-1, base, F)
    BY <1>2
  <2> DEFINE g == [s \in SUBSET (1..k) |-> IF k \in s THEN F[<<h[s \ {k}], k>>] ELSE h[s]]
  <2>2. ASSUME NEW s \in SUBSET (1..k) 
        PROVE s \ {k} \in SUBSET (1..(k-1)) /\ (k \notin s => s \in SUBSET (1..(k-1)))
    OBVIOUS
  <2>3. g \in [SUBSET (1..k) -> V]
    <3> SUFFICES ASSUME NEW s \in SUBSET (1..k) PROVE g[s] \in V
      OBVIOUS
    <3>1. CASE k \in s
      <4>1. h[s \ {k}] \in V
        BY <2>2, <2>1
      <4>2. <<h[s \ {k}], k>> \in V \X (1..n)
        BY <4>1
      <4> QED
       BY <3>1, <4>2
    <3>2. CASE k \notin s
       BY <3>2, <2>2
    <3> QED BY <3>1, <3>2
  <2>4. ASSUME NEW s \in SUBSET (1..k)
        PROVE  g[s] = IF s = {} THEN base ELSE F[<<g[s \ {Max(s)}], Max(s)>>]
    <3>1. CASE k \in s
      <4>1. Max(s) = k
        BY <3>1, MaxIs
      <4>2. k \notin s \ {k} /\ s \ {k} \in SUBSET (1..k)
        OBVIOUS
      <4>3. g[s \ {k}] = h[s \ {k}]
        BY <4>2
      <4> QED
        BY <3>1, <4>1, <4>3
    <3>2. CASE k \notin s /\ s # {}
      <4>1. Max(s) \in s
        BY <3>2, k \in Nat, MaxOf
      <4>2. s \ {Max(s)} \in SUBSET (1..k) /\ k \notin s \ {Max(s)}
        BY <3>2
      <4>3. g[s \ {Max(s)}] = h[s \ {Max(s)}]
        BY <4>2
      <4>4. s \in SUBSET (1..(k-1))
        BY <2>2, <3>2
      <4>5. h[s] = F[<<h[s \ {Max(s)}], Max(s)>>]
        BY <2>1, <4>4, <3>2 DEF IsRun
      <4> QED BY <3>2, <4>3, <4>5
    <3>3. CASE s = {}
      <4>1. h[s] = base
        BY <2>1, <3>3 DEF IsRun
      <4> QED BY <3>3, <4>1
    <3> QED BY <3>1, <3>2, <3>3
  <2>5. IsRun(g, k, base, F)
    BY <2>4 DEF IsRun
  <2> HIDE DEF g
  <2>6. k \in 0..n
    OBVIOUS
  <2> QED
    BY <2>3, <2>5, <2>6
<1> HIDE DEF K
<1>3. 0..n \subseteq K
  <2>1. \A k \in (0 + 1)..n : k - 1 \in K => k \in K
    BY <1>2
  <2> QED
    BY <1>1, <2>1, Climb
<1>4. n \in K
  BY <1>3
<1> QED
  BY <1>4 DEF K

\* The states a reading of n arguments passes through; the last is what the fold comes to.
Reads(st, n, base, F, g) ==
  st[0] = base /\ st[n] = g[1..n] /\ \A k \in 1..n : st[k] = F[<<st[k - 1], k>>]

\* What is known of the run that FoldLeft chooses while its states are in V.
Follows(g, V, n, base, F) ==
  \A s \in SUBSET (1..n) :
    /\ s = {} => g[s] = base
    /\ s # {} /\ g[s \ {Max(s)}] \in V => g[s] = F[<<g[s \ {Max(s)}], Max(s)>>]

\* A chosen run is a reading, one state behind each argument.
LEMMA RunReads ==
  ASSUME NEW V, NEW n \in Nat, NEW base \in V, NEW F \in [V \X (1..n) -> V], NEW g,
         Follows(g, V, n, base, F)
  PROVE  \E st \in [0..n -> V] : Reads(st, n, base, F, g)
<1> DEFINE st == [k \in 0..n |-> g[1..k]]
           K == {k \in 0..n : g[1..k] \in V}
<1>1. g[1..0] = base
  <2>1. 1..0 = {} /\ 1..0 \in SUBSET (1..n)
    OBVIOUS
  <2> QED
    BY <2>1 DEF Follows
<1>2. ASSUME NEW k \in 1..n, g[1..(k - 1)] \in V
      PROVE  g[1..k] = F[<<g[1..(k - 1)], k>>]
  <2>1. 1..k \in SUBSET (1..n) /\ 1..k # {} /\ k \in 1..k
    OBVIOUS
  <2>2. Max(1..k) = k
    <3>1. \A y \in 1..k : y <= k
      OBVIOUS
    <3> QED
      BY <2>1, <3>1, MaxIs
  <2>3. (1..k) \ {k} = 1..(k - 1)
    OBVIOUS
  <2> QED
    BY <1>2, <2>1, <2>2, <2>3 DEF Follows
<1>3. 0 \in K
  BY <1>1
<1>4. ASSUME NEW k \in (0 + 1)..n, k - 1 \in K PROVE k \in K
  <2>1. k \in 1..n /\ k \in 0..n
    OBVIOUS
  <2>2. g[1..(k - 1)] \in V
    BY <1>4
  <2>3. <<g[1..(k - 1)], k>> \in V \X (1..n)
    BY <2>1, <2>2
  <2> QED
    BY <1>2, <2>1, <2>2, <2>3
<1> HIDE DEF K
<1>5. 0..n \subseteq K
  BY <1>3, <1>4, Climb
<1>6. \A k \in 0..n : g[1..k] \in V
  BY <1>5 DEF K
<1>7. \A k \in 1..n : k - 1 \in 0..n /\ k \in 0..n
  OBVIOUS
<1>8. st \in [0..n -> V] /\ Reads(st, n, base, F, g)
  BY <1>1, <1>2, <1>6, <1>7 DEF Reads
<1> QED
  BY <1>8

\* The empty value is no option.
LEMMA EmptyIs == Empty \notin Dashed
  BY Zenon DEF Empty, Dashed

\* Nor is it any other word a parser looks for.
LEMMA EmptyFacts ==
  Empty \notin {"--to", "--port", "--shell", "--stdin", "--repo", "--name", "--node", "--layer", "--secret",
               "--fetch-credential", "--identity", "--"}
  BY EmptyIs, Zenon DEF Dashed

\* The option parsers. What they keep while they read share and unshare.
Texts == STRING \cup {Empty}
ShareStates == [ok : BOOLEAN, want : {Empty, "--to", "--port"}, email : Texts, port : Int, shell : BOOLEAN]

\* strconv.Atoi gives a number.
LEMMA NumberType == ASSUME NEW a PROVE Number(a) \in Int
  BY DEF Number

\* Each argument leaves a state of the parser.
LEMMA ShareStepType ==
  ASSUME NEW o \in ShareStates, NEW a \in STRING
  PROVE  ShareStep(o, a) \in ShareStates
<1>1. Number(a) \in Int
  BY NumberType
<1>2. a \in Texts /\ Empty \in Texts
  BY DEF Texts
<1>3. (a # Empty) \in BOOLEAN /\ parsePort(a) \in BOOLEAN
  BY DEF parsePort
<1>4. CASE ~o.ok
  BY <1>4 DEF ShareStep
<1>5. CASE o.ok /\ o.want = "--to"
  <2>1. ShareStep(o, a) = [o EXCEPT !.want = Empty, !.email = a, !.ok = a # Empty]
    BY <1>5, EmptyFacts DEF ShareStep
  <2> QED
    BY <1>2, <2>1 DEF ShareStates
<1>6. CASE o.ok /\ o.want = "--port"
  <2>1. ShareStep(o, a) = [o EXCEPT !.want = Empty, !.port = Number(a), !.ok = parsePort(a)]
    BY <1>6, EmptyFacts DEF ShareStep
  <2> QED
    BY <1>1, <1>3, <2>1 DEF ShareStates
<1>7. CASE o.ok /\ o.want = Empty
  <2>1. CASE a = "--to"
    BY <1>7, <2>1, EmptyFacts DEF ShareStep, ShareStates
  <2>2. CASE a = "--port"
    BY <1>7, <2>2, EmptyFacts DEF ShareStep, ShareStates
  <2>3. CASE a = "--shell"
    BY <1>7, <2>3, EmptyFacts DEF ShareStep, ShareStates
  <2>4. CASE a \notin {"--to", "--port", "--shell"}
    BY <1>7, <2>4, EmptyFacts DEF ShareStep, ShareStates
  <2> QED
    BY <2>1, <2>2, <2>3, <2>4
<1> QED
  BY <1>4, <1>5, <1>6, <1>7 DEF ShareStates

\* The states parseShareOptions passes through.
ShareRead(t, st) ==
  /\ st \in [0..Len(t) -> ShareStates] /\ st[0] = ShareStart
  /\ \A k \in 1..Len(t) : st[k] = ShareStep(st[k - 1], t[k])

\* The fold over the arguments of share comes to the last state of a reading.
LEMMA ShareReads ==
  ASSUME NEW t \in Seq(STRING)
  PROVE  \E st : ShareRead(t, st) /\ FoldLeft(ShareStep, ShareStart, t) = st[Len(t)]
<1> DEFINE n == Len(t)
           F == [q \in ShareStates \X (1..n) |-> ShareStep(q[1], t[q[2]])]
           Iter == CHOOSE iter : iter = [s \in SUBSET (DOMAIN t) |->
                     IF s = {} THEN ShareStart ELSE ShareStep(iter[s \ {Max(s)}], t[Max(s)])]
<1>1. n \in Nat /\ DOMAIN t = 1..n /\ \A k \in 1..n : t[k] \in STRING
  OBVIOUS
<1>2. FoldLeft(ShareStep, ShareStart, t) = Iter[DOMAIN t]
  BY DEF FoldLeft, MapThenFoldSet
<1>3. F \in [ShareStates \X (1..n) -> ShareStates]
  BY <1>1, ShareStepType
<1>4. ShareStart \in ShareStates
  BY DEF ShareStart, ShareStates, Texts
<1>5. \A o \in ShareStates, k \in 1..n : F[<<o, k>>] = ShareStep(o, t[k])
  OBVIOUS
<1> HIDE DEF F, n
<1>6. PICK g \in [SUBSET (1..n) -> ShareStates] : IsRun(g, n, ShareStart, F)
  BY <1>1, <1>3, <1>4, RunExists
<1>7. \A s \in SUBSET (1..n) : s # {} => s \ {Max(s)} \in SUBSET (1..n) /\ Max(s) \in 1..n
  BY <1>1, MaxOf
<1>8. \A s \in SUBSET (1..n) :
        g[s] = IF s = {} THEN ShareStart ELSE ShareStep(g[s \ {Max(s)}], t[Max(s)])
  BY <1>5, <1>6, <1>7 DEF IsRun
<1>9. g = [s \in SUBSET (DOMAIN t) |->
                     IF s = {} THEN ShareStart ELSE ShareStep(g[s \ {Max(s)}], t[Max(s)])]
  BY <1>1, <1>6, <1>8
<1>10. Iter = [s \in SUBSET (DOMAIN t) |->
                     IF s = {} THEN ShareStart ELSE ShareStep(Iter[s \ {Max(s)}], t[Max(s)])]
  BY <1>9
<1> HIDE DEF Iter
<1>11. Follows(Iter, ShareStates, n, ShareStart, F)
  BY <1>1, <1>5, <1>7, <1>10 DEF Follows
<1>12. PICK st \in [0..n -> ShareStates] : Reads(st, n, ShareStart, F, Iter)
  BY <1>1, <1>3, <1>4, <1>11, RunReads
<1>13. \A k \in 1..n : k - 1 \in 0..n
  BY <1>1
<1>14. ShareRead(t, st)
  BY <1>5, <1>12, <1>13 DEF Reads, ShareRead, n
<1>15. Iter[DOMAIN t] = st[Len(t)]
  BY <1>1, <1>12 DEF Reads, n
<1> QED
  BY <1>2, <1>14, <1>15

\* The five ways an argument is taken, and what each leaves.
ShareMoved(o, a, u) ==
  \/ /\ o.want = "--to" /\ a # Empty
     /\ u.want = Empty /\ u.email = a /\ u.port = o.port /\ u.shell = o.shell
  \/ /\ o.want = "--port" /\ parsePort(a)
     /\ u.want = Empty /\ u.email = o.email /\ u.port = Number(a) /\ u.shell = o.shell
  \/ /\ o.want = Empty /\ a = "--to" /\ o.email = Empty
     /\ u.want = a /\ u.email = o.email /\ u.port = o.port /\ u.shell = o.shell
  \/ /\ o.want = Empty /\ a = "--port" /\ o.port = 0
     /\ u.want = a /\ u.email = o.email /\ u.port = o.port /\ u.shell = o.shell
  \/ /\ o.want = Empty /\ a = "--shell" /\ ~o.shell
     /\ u.want = Empty /\ u.email = o.email /\ u.port = o.port /\ u.shell = TRUE

\* The arguments that are taken.
ShareMay(o, a) ==
  \/ o.want = "--to" /\ a # Empty
  \/ o.want = "--port" /\ parsePort(a)
  \/ o.want = Empty /\ a = "--to" /\ o.email = Empty
  \/ o.want = Empty /\ a = "--port" /\ o.port = 0
  \/ o.want = Empty /\ a = "--shell" /\ ~o.shell

\* access.go: an argument is taken in one of the five ways or the parser stops, for good.
LEMMA ShareMoves ==
  ASSUME NEW o \in ShareStates, NEW a \in STRING
  PROVE  /\ ShareStep(o, a).ok => o.ok /\ ShareMoved(o, a, ShareStep(o, a))
         /\ o.ok /\ ShareMay(o, a) => ShareStep(o, a).ok
<1> DEFINE u == ShareStep(o, a)
<1>3. (a # Empty) \in BOOLEAN /\ parsePort(a) \in BOOLEAN
  BY DEF parsePort
<1>4. CASE ~o.ok
  BY <1>4 DEF ShareStep
<1>5. CASE o.ok /\ o.want = "--to"
  <2>1. u = [o EXCEPT !.want = Empty, !.email = a, !.ok = a # Empty]
    BY <1>5, EmptyFacts DEF ShareStep
  <2> HIDE DEF u
  <2>2. u.ok = (a # Empty) /\ u.want = Empty /\ u.email = a /\ u.port = o.port /\ u.shell = o.shell
    BY <2>1 DEF ShareStates
  <2> QED
    BY <1>5, <2>2, EmptyFacts DEF u, ShareMoved, ShareMay
<1>6. CASE o.ok /\ o.want = "--port"
  <2>1. u = [o EXCEPT !.want = Empty, !.port = Number(a), !.ok = parsePort(a)]
    BY <1>6, EmptyFacts DEF ShareStep
  <2> HIDE DEF u
  <2>2. u.ok = parsePort(a) /\ u.want = Empty /\ u.email = o.email /\ u.port = Number(a) /\ u.shell = o.shell
    BY <2>1 DEF ShareStates
  <2> QED
    BY <1>6, <2>2, EmptyFacts DEF u, ShareMoved, ShareMay
<1>7. CASE o.ok /\ o.want = Empty
  <2>1. CASE a = "--to"
    <3>1. u = [o EXCEPT !.want = a, !.ok = o.email = Empty]
      BY <1>7, <2>1, EmptyFacts DEF ShareStep
    <3> HIDE DEF u
    <3>2. u.ok = (o.email = Empty) /\ u.want = a /\ u.email = o.email /\ u.port = o.port /\ u.shell = o.shell
      BY <3>1 DEF ShareStates
    <3> QED
      BY <1>7, <2>1, <3>2, EmptyFacts DEF u, ShareMoved, ShareMay
  <2>2. CASE a = "--port"
    <3>1. u = [o EXCEPT !.want = a, !.ok = o.port = 0]
      BY <1>7, <2>2, EmptyFacts DEF ShareStep
    <3> HIDE DEF u
    <3>2. u.ok = (o.port = 0) /\ u.want = a /\ u.email = o.email /\ u.port = o.port /\ u.shell = o.shell
      BY <3>1 DEF ShareStates
    <3> QED
      BY <1>7, <2>2, <3>2, EmptyFacts DEF u, ShareMoved, ShareMay
  <2>3. CASE a = "--shell"
    <3>1. u = [o EXCEPT !.shell = TRUE, !.ok = ~o.shell]
      BY <1>7, <2>3, EmptyFacts DEF ShareStep
    <3> HIDE DEF u
    <3>2. u.ok = (~o.shell) /\ u.want = Empty /\ u.email = o.email /\ u.port = o.port /\ u.shell = TRUE
      BY <1>7, <3>1 DEF ShareStates
    <3> QED
      BY <1>7, <2>3, <3>2, EmptyFacts DEF u, ShareMoved, ShareMay
  <2>4. CASE a \notin {"--to", "--port", "--shell"}
    <3>1. ~ShareStep(o, a).ok
      BY <1>7, <2>4, EmptyFacts DEF ShareStep, ShareStates
    <3> QED
      BY <1>7, <2>4, <3>1, EmptyFacts DEF ShareMoved, ShareMay
  <2> QED
    BY <2>1, <2>2, <2>3, <2>4
<1> QED
  BY <1>4, <1>5, <1>6, <1>7 DEF ShareStates

\* Of the numbers the ports are those from 1 to 65535.
LEMMA PortFacts ==
  /\ \A p \in Ports : p # 0
  /\ \A p \in Int : p \in Ports <=> p > 0 /\ p < 65536
<1>1. ASSUME NEW p \in Ports PROVE p # 0
  BY DEF Ports
<1>2. ASSUME NEW p \in Int PROVE p \in Ports <=> p > 0 /\ p < 65536
  BY DEF Ports
<1> QED
  BY <1>1, <1>2

\* How many arguments have been read, seen from what is kept.
ShareCount(o) ==
  (IF o.email = Empty THEN 0 ELSE 2) + (IF o.port = 0 THEN 0 ELSE 2) + (IF o.shell THEN 1 ELSE 0)
  + (IF o.want = Empty THEN 0 ELSE 1)
ShareGood(o) == (o.want = "--to" => o.email = Empty) /\ (o.want = "--port" => o.port = 0)

\* Every argument that is taken counts, none twice.
LEMMA ShareCounts ==
  ASSUME NEW o \in ShareStates, NEW a \in STRING, ShareStep(o, a).ok, ShareGood(o)
  PROVE  ShareGood(ShareStep(o, a)) /\ ShareCount(ShareStep(o, a)) = ShareCount(o) + 1
<1> DEFINE u == ShareStep(o, a)
<1>1. ShareMoved(o, a, u)
  BY ShareMoves
<1>2. u \in ShareStates
  BY ShareStepType
<1>3. parsePort(a) => Number(a) # 0
  BY PortFacts DEF parsePort
<1> HIDE DEF u
<1> QED
  <2>1. ShareGood(u) /\ ShareCount(u) = ShareCount(o) + 1
    BY <1>1, <1>2, <1>3, EmptyFacts DEF ShareMoved, ShareStates, ShareGood, ShareCount
  <2> QED
    BY <2>1 DEF u

\* So a reading that is not refused has kept all its arguments.
LEMMA ShareCounted ==
  ASSUME NEW t \in Seq(STRING), NEW st, ShareRead(t, st)
  PROVE  \A k \in 0..Len(t) : st[k].ok => ShareGood(st[k]) /\ ShareCount(st[k]) = k
<1> DEFINE n == Len(t)
           K == {k \in 0..n : st[k].ok => ShareGood(st[k]) /\ ShareCount(st[k]) = k}
<1>1. n \in Nat /\ \A k \in 1..n : t[k] \in STRING
  OBVIOUS
<1>2. 0 \in K
  BY <1>1, EmptyFacts DEF ShareRead, ShareStart, ShareGood, ShareCount
<1>3. ASSUME NEW k \in (0 + 1)..n, k - 1 \in K PROVE k \in K
  <2>1. k \in 1..n /\ k \in 0..n /\ k - 1 \in 0..n /\ k - 1 + 1 = k
    BY <1>1
  <2>2. st[k - 1] \in ShareStates /\ t[k] \in STRING /\ st[k] = ShareStep(st[k - 1], t[k])
    BY <1>1, <2>1 DEF ShareRead
  <2>3. ASSUME st[k].ok PROVE ShareGood(st[k]) /\ ShareCount(st[k]) = k
    <3>1. st[k - 1].ok
      BY <2>2, <2>3, ShareMoves
    <3>2. ShareGood(st[k - 1]) /\ ShareCount(st[k - 1]) = k - 1
      BY <1>3, <3>1
    <3> QED
      BY <2>1, <2>2, <2>3, <3>2, ShareCounts
  <2> QED
    BY <2>1, <2>3
<1> HIDE DEF K
<1>4. 0..n \subseteq K
  BY <1>1, <1>2, <1>3, Climb
<1> QED
  BY <1>4 DEF K

\* The rest of arguments that are not empty.
LEMMA Tails ==
  ASSUME NEW s \in Seq(STRING), s # <<>>
  PROVE  /\ Tail(s) \in Seq(STRING) /\ Len(Tail(s)) = Len(s) - 1 /\ Len(s) \in Nat \ {0}
         /\ \A i \in 1..(Len(s) - 1) : Tail(s)[i] = s[i + 1]
         /\ DOMAIN s = 1..Len(s) /\ \A i \in 1..Len(s) : s[i] \in STRING /\ s[i] \in ToSet(s)
BY DEF ToSet

\* Whether the words after the first argument of share are one of its four forms.
ShareForm(t) ==
  \/ Len(t) = 3 /\ t[1] = "--to" /\ t[2] # Empty /\ t[3] = "--shell"
  \/ Len(t) = 3 /\ t[1] = "--shell" /\ t[2] = "--to" /\ t[3] # Empty
  \/ Len(t) = 4 /\ t[1] = "--to" /\ t[2] # Empty /\ t[3] = "--port" /\ parsePort(t[4])
  \/ Len(t) = 4 /\ t[1] = "--port" /\ parsePort(t[2]) /\ t[3] = "--to" /\ t[4] # Empty

\* access.go: what parseShareOptions takes has one of the four forms.
LEMMA ShareForms ==
  ASSUME NEW t \in Seq(STRING), NEW st, ShareRead(t, st),
         st[Len(t)].ok, st[Len(t)].want = Empty, st[Len(t)].email # Empty,
         st[Len(t)].shell = (st[Len(t)].port = 0)
  PROVE  ShareForm(t)
<1> DEFINE n == Len(t)
<1>1. n \in Nat /\ \A k \in 1..n : t[k] \in STRING
  OBVIOUS
<1>2. \A k \in 0..n : st[k] \in ShareStates
  BY DEF ShareRead
<1>3. ASSUME NEW k \in 1..n, st[k].ok
      PROVE  st[k - 1].ok /\ ShareMoved(st[k - 1], t[k], st[k])
  <2>1. st[k - 1] \in ShareStates /\ t[k] \in STRING /\ st[k] = ShareStep(st[k - 1], t[k])
    BY <1>1, <1>2 DEF ShareRead
  <2> QED
    BY <1>3, <2>1, ShareMoves
<1>4. n \in {3, 4}
  <2>1. ShareCount(st[n]) = n /\ st[n] \in ShareStates
    BY <1>1, <1>2, ShareCounted
  <2> QED
    BY <2>1 DEF ShareCount, ShareStates
<1>5. st[0].want = Empty /\ st[0].email = Empty /\ st[0].port = 0 /\ ~st[0].shell
  BY DEF ShareRead, ShareStart
<1> HIDE DEF n
<1>6. CASE n = 3
  <2>1. /\ ShareMoved(st[0], t[1], st[1]) /\ ShareMoved(st[1], t[2], st[2])
        /\ ShareMoved(st[2], t[3], st[3])
    BY <1>3, <1>6 DEF n
  <2> QED
    BY <1>5, <1>6, <2>1, EmptyFacts DEF n, ShareMoved, ShareForm
<1>7. CASE n = 4
  <2>1. /\ ShareMoved(st[0], t[1], st[1]) /\ ShareMoved(st[1], t[2], st[2])
        /\ ShareMoved(st[2], t[3], st[3]) /\ ShareMoved(st[3], t[4], st[4])
    BY <1>3, <1>7 DEF n
  <2> QED
    BY <1>5, <1>7, <2>1, EmptyFacts DEF n, ShareMoved, ShareForm
<1> QED
  BY <1>4, <1>6, <1>7

\* access.go: parseShareOptions takes each of the four forms.
LEMMA ShareAccepts ==
  ASSUME NEW t \in Seq(STRING), NEW st, ShareRead(t, st), ShareForm(t)
  PROVE  /\ st[Len(t)].ok /\ st[Len(t)].want = Empty /\ st[Len(t)].email # Empty
         /\ st[Len(t)].shell = (st[Len(t)].port = 0)
<1> DEFINE n == Len(t)
<1>1. n \in Nat /\ \A k \in 1..n : t[k] \in STRING
  OBVIOUS
<1>2. \A k \in 0..n : st[k] \in ShareStates
  BY DEF ShareRead
<1>3. ASSUME NEW k \in 1..n, st[k - 1].ok, ShareMay(st[k - 1], t[k])
      PROVE  st[k].ok /\ ShareMoved(st[k - 1], t[k], st[k])
  <2>1. st[k - 1] \in ShareStates /\ t[k] \in STRING /\ st[k] = ShareStep(st[k - 1], t[k])
    BY <1>1, <1>2 DEF ShareRead
  <2>2. ShareStep(st[k - 1], t[k]).ok
    BY <1>3, <2>1, ShareMoves
  <2>3. ShareMoved(st[k - 1], t[k], ShareStep(st[k - 1], t[k]))
    BY <2>1, <2>2, ShareMoves
  <2> QED
    BY <2>1, <2>2, <2>3
<1>5. st[0].ok /\ st[0].want = Empty /\ st[0].email = Empty /\ st[0].port = 0 /\ ~st[0].shell
  BY DEF ShareRead, ShareStart
<1>6. \A a : parsePort(a) => Number(a) # 0
  BY PortFacts DEF parsePort
<1> HIDE DEF n
<1>7. CASE n = 3
  <2>1. ShareMay(st[0], t[1])
    BY <1>5, <1>7, EmptyFacts DEF n, ShareMay, ShareForm
  <2>2. st[1].ok /\ ShareMoved(st[0], t[1], st[1])
    BY <1>3, <1>5, <1>7, <2>1
  <2>3. ShareMay(st[1], t[2])
    BY <1>5, <1>7, <2>2, EmptyFacts DEF n, ShareMay, ShareMoved, ShareForm
  <2>4. st[2].ok /\ ShareMoved(st[1], t[2], st[2])
    BY <1>3, <1>7, <2>2, <2>3
  <2>5. ShareMay(st[2], t[3])
    BY <1>5, <1>7, <2>2, <2>4, EmptyFacts DEF n, ShareMay, ShareMoved, ShareForm
  <2>6. st[3].ok /\ ShareMoved(st[2], t[3], st[3])
    BY <1>3, <1>7, <2>4, <2>5
  <2>7. CASE t[1] = "--to" /\ t[2] # Empty /\ t[3] = "--shell"
    BY <1>5, <1>7, <2>2, <2>4, <2>6, <2>7, EmptyFacts DEF n, ShareMoved
  <2>8. CASE t[1] = "--shell" /\ t[2] = "--to" /\ t[3] # Empty
    BY <1>5, <1>7, <2>2, <2>4, <2>6, <2>8, EmptyFacts DEF n, ShareMoved
  <2> QED
    BY <1>7, <2>7, <2>8 DEF n, ShareForm
<1>8. CASE n = 4
  <2>1. ShareMay(st[0], t[1])
    BY <1>5, <1>8, EmptyFacts DEF n, ShareMay, ShareForm
  <2>2. st[1].ok /\ ShareMoved(st[0], t[1], st[1])
    BY <1>3, <1>5, <1>8, <2>1
  <2>3. ShareMay(st[1], t[2])
    BY <1>5, <1>8, <2>2, EmptyFacts DEF n, ShareMay, ShareMoved, ShareForm
  <2>4. st[2].ok /\ ShareMoved(st[1], t[2], st[2])
    BY <1>3, <1>8, <2>2, <2>3
  <2>5. ShareMay(st[2], t[3])
    BY <1>5, <1>8, <2>2, <2>4, EmptyFacts DEF n, ShareMay, ShareMoved, ShareForm
  <2>6. st[3].ok /\ ShareMoved(st[2], t[3], st[3])
    BY <1>3, <1>8, <2>4, <2>5
  <2>7. ShareMay(st[3], t[4])
    BY <1>5, <1>8, <2>2, <2>4, <2>6, EmptyFacts DEF n, ShareMay, ShareMoved, ShareForm
  <2>8. st[4].ok /\ ShareMoved(st[3], t[4], st[4])
    BY <1>3, <1>8, <2>6, <2>7
  <2>9. CASE t[1] = "--to" /\ t[2] # Empty /\ t[3] = "--port" /\ parsePort(t[4])
    <3>1. st[3].shell = FALSE /\ st[3].want = "--port" /\ st[3].email = t[2]
      BY <1>2, <1>5, <1>8, <2>2, <2>4, <2>6, <2>9, EmptyFacts DEF n, ShareMoved, ShareStates
    <3>2. st[4].shell = FALSE /\ st[4].want = Empty /\ st[4].email = t[2] /\ st[4].port = Number(t[4])
      BY <2>8, <3>1, EmptyFacts DEF ShareMoved
    <3>3. st[4].port # 0
      BY <1>6, <2>9, <3>2
    <3> QED
      BY <1>8, <2>8, <2>9, <3>2, <3>3 DEF n
  <2>10. CASE t[1] = "--port" /\ parsePort(t[2]) /\ t[3] = "--to" /\ t[4] # Empty
    <3>1. st[3].shell = FALSE /\ st[3].want = "--to" /\ st[3].port = Number(t[2])
      BY <1>2, <1>5, <1>8, <2>2, <2>4, <2>6, <2>10, EmptyFacts DEF n, ShareMoved, ShareStates
    <3>2. st[4].shell = FALSE /\ st[4].want = Empty /\ st[4].email = t[4] /\ st[4].port = Number(t[2])
      BY <2>8, <3>1, EmptyFacts DEF ShareMoved
    <3>3. st[4].port # 0
      BY <1>6, <2>10, <3>2
    <3> QED
      BY <1>8, <2>8, <2>10, <3>2, <3>3 DEF n
  <2> QED
    BY <1>8, <2>9, <2>10 DEF n, ShareForm
<1> QED
  BY <1>7, <1>8 DEF n, ShareForm

\* A port is no flag.
LEMMA NumberIsNoFlag ==
  ASSUME NEW p, Number(p) > 0
  PROVE  p \notin Dashed
<1>1. p \in {"80", "65535", "65536"}
  BY DEF Number
<1> QED
  BY <1>1 DEF Dashed

\* The arguments of a share of the shell, one by one.
LEMMA ShellSharesAre ==
  ASSUME NEW args \in Seq(STRING), NEW b, NEW e
  PROVE  args \in ShellShares(b, e) <=>
           Len(args) = 4 /\ args[1] = b /\ \/ args[2] = "--to" /\ args[3] = e /\ args[4] = "--shell"
                                           \/ args[2] = "--shell" /\ args[3] = "--to" /\ args[4] = e
<1>1. args = <<b, "--to", e, "--shell">> <=>
        Len(args) = 4 /\ args[1] = b /\ args[2] = "--to" /\ args[3] = e /\ args[4] = "--shell"
  OBVIOUS
<1>2. args = <<b, "--shell", "--to", e>> <=>
        Len(args) = 4 /\ args[1] = b /\ args[2] = "--shell" /\ args[3] = "--to" /\ args[4] = e
  OBVIOUS
<1>3. args \in ShellShares(b, e) <=> args = <<b, "--to", e, "--shell">> \/ args = <<b, "--shell", "--to", e>>
  BY DEF ShellShares
<1> QED
  BY <1>1, <1>2, <1>3

\* The arguments of a share of a port, one by one.
LEMMA PortSharesAre ==
  ASSUME NEW args \in Seq(STRING), NEW b, NEW e, NEW p
  PROVE  args \in PortShares(b, e, p) <=>
           Len(args) = 5 /\ args[1] = b
           /\ \/ args[2] = "--to" /\ args[3] = e /\ args[4] = "--port" /\ args[5] = p
              \/ args[2] = "--port" /\ args[3] = p /\ args[4] = "--to" /\ args[5] = e
<1>1. args = <<b, "--to", e, "--port", p>> <=>
        Len(args) = 5 /\ args[1] = b /\ args[2] = "--to" /\ args[3] = e /\ args[4] = "--port" /\ args[5] = p
  OBVIOUS
<1>2. args = <<b, "--port", p, "--to", e>> <=>
        Len(args) = 5 /\ args[1] = b /\ args[2] = "--port" /\ args[3] = p /\ args[4] = "--to" /\ args[5] = e
  OBVIOUS
<1>3. args \in PortShares(b, e, p) <=> args = <<b, "--to", e, "--port", p>> \/ args = <<b, "--port", p, "--to", e>>
  BY DEF PortShares
<1> QED
  BY <1>1, <1>2, <1>3

\* The synopsis of share, argument by argument.
LEMMA ShareFits ==
  ASSUME NEW args \in Seq(STRING)
  PROVE  ShareSynopsis(args) <=>
           /\ Len(args) \in {4, 5}
           /\ \A i \in 1..Len(args) : args[i] \in Dashed => args[i] \in {"--to", "--port", "--shell"}
           /\ \/ Len(args) = 4 /\ args[2] = "--to" /\ args[3] # Empty /\ args[4] = "--shell"
              \/ Len(args) = 4 /\ args[2] = "--shell" /\ args[3] = "--to" /\ args[4] # Empty
              \/ Len(args) = 5 /\ args[2] = "--to" /\ args[3] # Empty /\ args[4] = "--port" /\ parsePort(args[5])
              \/ Len(args) = 5 /\ args[2] = "--port" /\ parsePort(args[3]) /\ args[4] = "--to" /\ args[5] # Empty
<1> DEFINE Known(i) == args[i] \in Dashed => args[i] \in {"--to", "--port", "--shell"}
<1>1. ASSUME NEW p
      PROVE  parsePort(p) <=> Number(p) > 0 /\ Number(p) < 65536
  BY NumberType, PortFacts DEF parsePort
<1>2. \A i \in 1..Len(args) : args[i] \in ToSet(args)
  BY DEF ToSet
<1>3. ASSUME ShareSynopsis(args)
      PROVE  /\ Len(args) \in {4, 5} /\ \A i \in 1..Len(args) : Known(i)
             /\ \/ Len(args) = 4 /\ args[2] = "--to" /\ args[3] # Empty /\ args[4] = "--shell"
                \/ Len(args) = 4 /\ args[2] = "--shell" /\ args[3] = "--to" /\ args[4] # Empty
                \/ Len(args) = 5 /\ args[2] = "--to" /\ args[3] # Empty /\ args[4] = "--port" /\ parsePort(args[5])
                \/ Len(args) = 5 /\ args[2] = "--port" /\ parsePort(args[3]) /\ args[4] = "--to" /\ args[5] # Empty
  <2>1. PICK b \in ToSet(args), e \in ToSet(args) :
          /\ {b, e} \cap Dashed \subseteq {"--to", "--port", "--shell"} /\ e # Empty
          /\ \/ args \in ShellShares(b, e)
             \/ \E p \in ToSet(args) : Number(p) > 0 /\ Number(p) < 65536 /\ args \in PortShares(b, e, p)
    BY <1>3 DEF ShareSynopsis
  <2>2. /\ b \in Dashed => b \in {"--to", "--port", "--shell"}
        /\ e \in Dashed => e \in {"--to", "--port", "--shell"}
    BY <2>1
  <2>3. CASE args \in ShellShares(b, e)
    <3>1. Len(args) = 4 /\ args[1] = b /\ \/ args[2] = "--to" /\ args[3] = e /\ args[4] = "--shell"
                                          \/ args[2] = "--shell" /\ args[3] = "--to" /\ args[4] = e
      BY <2>3, ShellSharesAre
    <3>2. 1..Len(args) = {1, 2, 3, 4}
      BY <3>1
    <3>3. Known(1) /\ Known(2) /\ Known(3) /\ Known(4)
      BY <2>2, <3>1
    <3> HIDE DEF Known
    <3> QED
      BY <2>1, <3>1, <3>2, <3>3
  <2>4. ASSUME NEW p \in ToSet(args), Number(p) > 0, Number(p) < 65536, args \in PortShares(b, e, p)
        PROVE  /\ Len(args) \in {4, 5} /\ \A i \in 1..Len(args) : Known(i)
               /\ \/ Len(args) = 5 /\ args[2] = "--to" /\ args[3] # Empty /\ args[4] = "--port" /\ parsePort(args[5])
                  \/ Len(args) = 5 /\ args[2] = "--port" /\ parsePort(args[3]) /\ args[4] = "--to" /\ args[5] # Empty
    <3>1. /\ Len(args) = 5 /\ args[1] = b
          /\ \/ args[2] = "--to" /\ args[3] = e /\ args[4] = "--port" /\ args[5] = p
             \/ args[2] = "--port" /\ args[3] = p /\ args[4] = "--to" /\ args[5] = e
      BY <2>4, PortSharesAre
    <3>2. 1..Len(args) = {1, 2, 3, 4, 5}
      BY <3>1
    <3>3. parsePort(p) /\ p \notin Dashed
      BY <1>1, <2>4, NumberIsNoFlag
    <3>4. Known(1) /\ Known(2) /\ Known(3) /\ Known(4) /\ Known(5)
      BY <2>2, <3>1, <3>3
    <3> HIDE DEF Known
    <3> QED
      BY <2>1, <3>1, <3>2, <3>3, <3>4
  <2> HIDE DEF Known
  <2> QED
    BY <2>1, <2>3, <2>4
<1>4. ASSUME NEW b \in ToSet(args), NEW e \in ToSet(args), e # Empty,
             b \in Dashed => b \in {"--to", "--port", "--shell"},
             e \in Dashed => e \in {"--to", "--port", "--shell"},
             \/ args \in ShellShares(b, e)
             \/ \E p \in ToSet(args) : parsePort(p) /\ args \in PortShares(b, e, p)
      PROVE  ShareSynopsis(args)
  <2>1. {b, e} \cap Dashed \subseteq {"--to", "--port", "--shell"}
    BY <1>4
  <2> QED
    BY <1>1, <1>4, <2>1 DEF ShareSynopsis
<1>5. ASSUME Len(args) \in {4, 5}, \A i \in 1..Len(args) : Known(i),
             \/ Len(args) = 4 /\ args[2] = "--to" /\ args[3] # Empty /\ args[4] = "--shell"
             \/ Len(args) = 4 /\ args[2] = "--shell" /\ args[3] = "--to" /\ args[4] # Empty
             \/ Len(args) = 5 /\ args[2] = "--to" /\ args[3] # Empty /\ args[4] = "--port" /\ parsePort(args[5])
             \/ Len(args) = 5 /\ args[2] = "--port" /\ parsePort(args[3]) /\ args[4] = "--to" /\ args[5] # Empty
      PROVE  ShareSynopsis(args)
  <2>1. 1 \in 1..Len(args) /\ 3 \in 1..Len(args) /\ 4 \in 1..Len(args) /\ (Len(args) = 5 => 5 \in 1..Len(args))
    BY <1>5
  <2>2. CASE Len(args) = 4 /\ args[2] = "--to" /\ args[3] # Empty /\ args[4] = "--shell"
    <3>1. args \in ShellShares(args[1], args[3])
      BY <2>2, ShellSharesAre
    <3> QED
      BY <1>2, <1>4, <1>5, <2>1, <2>2, <3>1
  <2>3. CASE Len(args) = 4 /\ args[2] = "--shell" /\ args[3] = "--to" /\ args[4] # Empty
    <3>1. args \in ShellShares(args[1], args[4])
      BY <2>3, ShellSharesAre
    <3> QED
      BY <1>2, <1>4, <1>5, <2>1, <2>3, <3>1
  <2>4. CASE Len(args) = 5 /\ args[2] = "--to" /\ args[3] # Empty /\ args[4] = "--port" /\ parsePort(args[5])
    <3>1. args \in PortShares(args[1], args[3], args[5])
      BY <2>4, PortSharesAre
    <3> QED
      BY <1>2, <1>4, <1>5, <2>1, <2>4, <3>1
  <2>5. CASE Len(args) = 5 /\ args[2] = "--port" /\ parsePort(args[3]) /\ args[4] = "--to" /\ args[5] # Empty
    <3>1. args \in PortShares(args[1], args[5], args[3])
      BY <2>5, PortSharesAre
    <3> QED
      BY <1>2, <1>4, <1>5, <2>1, <2>5, <3>1
  <2> QED
    BY <1>5, <2>2, <2>3, <2>4, <2>5
<1> QED
  BY <1>3, <1>5

\* access.go:26: share and unshare take what their synopsis allows.
LEMMA ShareAgrees ==
  ASSUME NEW args \in Seq(STRING)
  PROVE  parseShareOptions(args) <=> ShareSynopsis(args)
<1>1. CASE args = <<>>
  <2>1. ~parseShareOptions(args)
    BY <1>1, Zenon DEF parseShareOptions
  <2>2. Len(args) \notin {4, 5}
    BY <1>1
  <2>3. ~ShareSynopsis(args)
    BY <2>2, ShareFits, Zenon
  <2> QED
    BY <2>1, <2>3
<1>2. CASE args # <<>>
  <2> DEFINE t == Tail(args)
             o == FoldLeft(ShareStep, ShareStart, t)
  <2>1. /\ t \in Seq(STRING) /\ Len(t) = Len(args) - 1 /\ Len(args) \in Nat \ {0}
        /\ \A i \in 1..(Len(args) - 1) : t[i] = args[i + 1]
        /\ DOMAIN args = 1..Len(args)
    BY <1>2, Tails
  <2>2. parseShareOptions(args) <=>
          /\ \A i \in 1..Len(args) : args[i] \in Dashed => args[i] \in {"--to", "--port", "--shell"}
          /\ o.ok /\ o.want = Empty /\ o.email # Empty /\ o.shell = (o.port = 0)
    BY <1>2, <2>1 DEF parseShareOptions, RejectUnknown
  <2>3. PICK st : ShareRead(t, st) /\ o = st[Len(t)]
    BY <2>1, ShareReads
  <2> HIDE DEF t, o
  <2>4. o.ok /\ o.want = Empty /\ o.email # Empty /\ o.shell = (o.port = 0) <=> ShareForm(t)
    BY <2>1, <2>3, ShareForms, ShareAccepts DEF ShareForm
  <2>5. ShareForm(t) <=>
          \/ Len(args) = 4 /\ args[2] = "--to" /\ args[3] # Empty /\ args[4] = "--shell"
          \/ Len(args) = 4 /\ args[2] = "--shell" /\ args[3] = "--to" /\ args[4] # Empty
          \/ Len(args) = 5 /\ args[2] = "--to" /\ args[3] # Empty /\ args[4] = "--port" /\ parsePort(args[5])
          \/ Len(args) = 5 /\ args[2] = "--port" /\ parsePort(args[3]) /\ args[4] = "--to" /\ args[5] # Empty
    BY <2>1 DEF ShareForm
  <2> QED
    BY <2>2, <2>4, <2>5, ShareFits
<1> QED
  BY <1>1, <1>2

\* What parseSSH keeps.
SSHStates == [ok : BOOLEAN, want : {Empty, "--identity"}, identity : Texts, remote : BOOLEAN]

\* What one argument does to it.
SSHMoved(o, a, u) ==
  /\ ~o.ok => ~u.ok
  /\ o.ok /\ o.remote => u.ok /\ u.remote
  /\ o.ok /\ ~o.remote /\ o.want # Empty =>
       u.want = Empty /\ u.identity = a /\ ~u.remote /\ (u.ok <=> a # Empty)
  /\ o.ok /\ ~o.remote /\ o.want = Empty /\ a = "--identity" =>
       u.want = a /\ u.identity = o.identity /\ ~u.remote /\ (u.ok <=> o.identity = Empty)
  /\ o.ok /\ ~o.remote /\ o.want = Empty /\ a = "--" => u.ok /\ u.remote
  /\ o.ok /\ ~o.remote /\ o.want = Empty /\ a \notin {"--identity", "--"} => ~u.ok

\* operations_commands.go: each argument does this, and leaves a state of the parser.
LEMMA SSHMoves ==
  ASSUME NEW o \in SSHStates, NEW a \in STRING
  PROVE  SSHStep(o, a) \in SSHStates /\ SSHMoved(o, a, SSHStep(o, a))
<1> DEFINE u == SSHStep(o, a)
<1>1. a \in Texts /\ Empty \in Texts /\ (a # Empty) \in BOOLEAN
  BY DEF Texts
<1>2. CASE ~o.ok
  <2>1. u = [o EXCEPT !.ok = FALSE]
    BY <1>2 DEF SSHStep
  <2> HIDE DEF u
  <2>2. u \in SSHStates /\ ~u.ok
    BY <2>1 DEF SSHStates
  <2> QED
    BY <1>2, <2>2 DEF u, SSHMoved
<1>3. CASE o.ok /\ o.remote
  <2>1. u = o
    BY <1>3 DEF SSHStep
  <2> QED
    BY <1>3, <2>1 DEF SSHMoved
<1>4. CASE o.ok /\ ~o.remote /\ o.want # Empty
  <2>1. u = [o EXCEPT !.want = Empty, !.identity = a, !.ok = a # Empty]
    BY <1>4, EmptyFacts DEF SSHStep
  <2> HIDE DEF u
  <2>2. u \in SSHStates /\ u.want = Empty /\ u.identity = a /\ ~u.remote /\ (u.ok <=> a # Empty)
    BY <1>1, <1>4, <2>1 DEF SSHStates
  <2> QED
    BY <1>4, <2>2 DEF u, SSHMoved
<1>5. CASE o.ok /\ ~o.remote /\ o.want = Empty
  <2>1. CASE a = "--identity"
    <3>1. u = [o EXCEPT !.want = a, !.ok = o.identity = Empty]
      BY <1>5, <2>1, EmptyFacts DEF SSHStep
    <3> HIDE DEF u
    <3>2. u \in SSHStates /\ u.want = a /\ u.identity = o.identity /\ ~u.remote /\ (u.ok <=> o.identity = Empty)
      BY <1>1, <1>5, <2>1, <3>1 DEF SSHStates
    <3> QED
      BY <1>5, <2>1, <3>2, EmptyFacts DEF u, SSHMoved
  <2>2. CASE a = "--"
    <3>1. u = [o EXCEPT !.remote = TRUE]
      BY <1>5, <2>2, EmptyFacts DEF SSHStep
    <3> HIDE DEF u
    <3>2. u \in SSHStates /\ u.ok /\ u.remote
      BY <1>5, <3>1 DEF SSHStates
    <3> QED
      BY <1>5, <2>2, <3>2, EmptyFacts DEF u, SSHMoved
  <2>3. CASE a \notin {"--identity", "--"}
    <3>1. u = [o EXCEPT !.ok = FALSE]
      BY <1>5, <2>3, EmptyFacts DEF SSHStep
    <3> HIDE DEF u
    <3>2. u \in SSHStates /\ ~u.ok
      BY <3>1 DEF SSHStates
    <3> QED
      BY <1>5, <2>3, <3>2, EmptyFacts DEF u, SSHMoved
  <2> QED
    BY <2>1, <2>2, <2>3
<1> QED
  BY <1>2, <1>3, <1>4, <1>5 DEF SSHStates

\* The states parseSSH passes through.
SSHRead(t, st) ==
  /\ st \in [0..Len(t) -> SSHStates] /\ st[0] = SSHStart
  /\ \A k \in 1..Len(t) : st[k] = SSHStep(st[k - 1], t[k])

\* The fold over the arguments of ssh comes to the last state of a reading.
LEMMA SSHReads ==
  ASSUME NEW t \in Seq(STRING)
  PROVE  \E st : SSHRead(t, st) /\ FoldLeft(SSHStep, SSHStart, t) = st[Len(t)]
<1> DEFINE n == Len(t)
           F == [q \in SSHStates \X (1..n) |-> SSHStep(q[1], t[q[2]])]
           Iter == CHOOSE iter : iter = [s \in SUBSET (DOMAIN t) |->
                     IF s = {} THEN SSHStart ELSE SSHStep(iter[s \ {Max(s)}], t[Max(s)])]
<1>1. n \in Nat /\ DOMAIN t = 1..n /\ \A k \in 1..n : t[k] \in STRING
  OBVIOUS
<1>2. FoldLeft(SSHStep, SSHStart, t) = Iter[DOMAIN t]
  BY DEF FoldLeft, MapThenFoldSet
<1>3. F \in [SSHStates \X (1..n) -> SSHStates]
  BY <1>1, SSHMoves
<1>4. SSHStart \in SSHStates
  BY DEF SSHStart, SSHStates, Texts
<1>5. \A o \in SSHStates, k \in 1..n : F[<<o, k>>] = SSHStep(o, t[k])
  OBVIOUS
<1> HIDE DEF F, n
<1>6. PICK g \in [SUBSET (1..n) -> SSHStates] : IsRun(g, n, SSHStart, F)
  BY <1>1, <1>3, <1>4, RunExists
<1>7. \A s \in SUBSET (1..n) : s # {} => s \ {Max(s)} \in SUBSET (1..n) /\ Max(s) \in 1..n
  BY <1>1, MaxOf
<1>8. \A s \in SUBSET (1..n) :
        g[s] = IF s = {} THEN SSHStart ELSE SSHStep(g[s \ {Max(s)}], t[Max(s)])
  BY <1>5, <1>6, <1>7 DEF IsRun
<1>9. g = [s \in SUBSET (DOMAIN t) |->
                     IF s = {} THEN SSHStart ELSE SSHStep(g[s \ {Max(s)}], t[Max(s)])]
  BY <1>1, <1>6, <1>8
<1>10. Iter = [s \in SUBSET (DOMAIN t) |->
                     IF s = {} THEN SSHStart ELSE SSHStep(Iter[s \ {Max(s)}], t[Max(s)])]
  BY <1>9
<1> HIDE DEF Iter
<1>11. Follows(Iter, SSHStates, n, SSHStart, F)
  BY <1>1, <1>5, <1>7, <1>10 DEF Follows
<1>12. PICK st \in [0..n -> SSHStates] : Reads(st, n, SSHStart, F, Iter)
  BY <1>1, <1>3, <1>4, <1>11, RunReads
<1>13. \A k \in 1..n : k - 1 \in 0..n
  BY <1>1
<1>14. SSHRead(t, st)
  BY <1>5, <1>12, <1>13 DEF Reads, SSHRead, n
<1>15. Iter[DOMAIN t] = st[Len(t)]
  BY <1>1, <1>12 DEF Reads, n
<1> QED
  BY <1>2, <1>14, <1>15

\* Once refused the arguments stay refused, and behind a -- none is read.
LEMMA SSHStays ==
  ASSUME NEW t \in Seq(STRING), NEW st, SSHRead(t, st), NEW m \in 0..Len(t)
  PROVE  /\ ~st[m].ok => ~st[Len(t)].ok
         /\ st[m].ok /\ st[m].remote => st[Len(t)].ok /\ st[Len(t)].remote
<1> DEFINE n == Len(t)
           Refused == {k \in 0..n : ~st[k].ok}
           Remote == {k \in 0..n : st[k].ok /\ st[k].remote}
<1>1. n \in Nat /\ m \in Nat /\ n \in m..n /\ m \in 0..n
  OBVIOUS
<1>2. ASSUME NEW k \in (m + 1)..n
      PROVE  k - 1 \in 0..n /\ k \in 0..n /\ SSHMoved(st[k - 1], t[k], st[k])
  <2>1. k - 1 \in 0..n /\ k \in 0..n /\ k \in 1..n /\ t[k] \in STRING
    BY <1>1
  <2> QED
    BY <2>1, SSHMoves DEF SSHRead
<1>3. ASSUME ~st[m].ok PROVE ~st[n].ok
  <2>1. m \in Refused
    BY <1>1, <1>3
  <2>2. \A k \in (m + 1)..n : k - 1 \in Refused => k \in Refused
    BY <1>2 DEF SSHMoved
  <2> HIDE DEF Refused
  <2>3. m..n \subseteq Refused
    BY <1>1, <2>1, <2>2, Climb
  <2> QED
    BY <1>1, <2>3 DEF Refused
<1>4. ASSUME st[m].ok, st[m].remote PROVE st[n].ok /\ st[n].remote
  <2>1. m \in Remote
    BY <1>1, <1>4
  <2>2. \A k \in (m + 1)..n : k - 1 \in Remote => k \in Remote
    BY <1>2 DEF SSHMoved
  <2> HIDE DEF Remote
  <2>3. m..n \subseteq Remote
    BY <1>1, <2>1, <2>2, Climb
  <2> QED
    BY <1>1, <2>3 DEF Remote
<1> QED
  BY <1>3, <1>4

\* Whether the words behind the biot are those of ssh.
SSHForm(t) ==
  \/ Len(t) = 0
  \/ Len(t) >= 1 /\ t[1] = "--"
  \/ Len(t) >= 2 /\ t[1] = "--identity" /\ t[2] # Empty /\ (Len(t) = 2 \/ t[3] = "--")

\* parseSSH goes through the words behind the biot if they are those of ssh.
LEMMA SSHForms ==
  ASSUME NEW t \in Seq(STRING), NEW st, SSHRead(t, st)
  PROVE  SSHForm(t) <=> st[Len(t)].ok /\ (st[Len(t)].want = Empty \/ st[Len(t)].remote)
<1> DEFINE n == Len(t)
           Taken == st[n].ok /\ (st[n].want = Empty \/ st[n].remote)
<1>1. n \in Nat /\ 0 \in 0..n /\ (n >= 1 => 1 \in 0..n) /\ (n >= 2 => 2 \in 0..n) /\ (n >= 3 => 3 \in 0..n)
  OBVIOUS
<1>2. ASSUME NEW k \in 1..n
      PROVE  SSHMoved(st[k - 1], t[k], st[k])
  <2>1. k - 1 \in 0..n /\ t[k] \in STRING
    OBVIOUS
  <2> QED
    BY <2>1, SSHMoves DEF SSHRead
<1>3. st[0].ok /\ st[0].want = Empty /\ st[0].identity = Empty /\ ~st[0].remote
  BY DEF SSHRead, SSHStart
<1>4. \A m \in 0..n : (~st[m].ok => ~Taken) /\ (st[m].ok /\ st[m].remote => Taken)
  BY SSHStays
<1> HIDE DEF n, Taken
<1>5. CASE n = 0
  BY <1>3, <1>5 DEF n, Taken, SSHForm
<1>6. ASSUME n >= 1
      PROVE  SSHMoved(st[0], t[1], st[1])
  BY <1>1, <1>2, <1>6
<1>7. CASE n >= 1 /\ t[1] = "--"
  <2>1. st[1].ok /\ st[1].remote
    BY <1>3, <1>6, <1>7 DEF SSHMoved
  <2> QED
    BY <1>1, <1>4, <1>7, <2>1 DEF n, Taken, SSHForm
<1>8. CASE n >= 1 /\ t[1] \notin {"--identity", "--"}
  <2>1. ~st[1].ok
    BY <1>3, <1>6, <1>8 DEF SSHMoved
  <2>2. ~Taken
    BY <1>1, <1>4, <1>8, <2>1
  <2> QED
    BY <1>1, <1>8, <2>2 DEF n, Taken, SSHForm
<1>9. CASE n >= 1 /\ t[1] = "--identity"
  <2>1. st[1].ok /\ st[1].want # Empty /\ st[1].identity = Empty /\ ~st[1].remote
    BY <1>3, <1>6, <1>9, EmptyFacts DEF SSHMoved
  <2>2. CASE n = 1
    BY <1>9, <2>1, <2>2 DEF n, Taken, SSHForm
  <2>3. ASSUME n >= 2
        PROVE  st[2].want = Empty /\ st[2].identity = t[2] /\ ~st[2].remote /\ (st[2].ok <=> t[2] # Empty)
    <3>1. SSHMoved(st[1], t[2], st[2])
      BY <1>1, <1>2, <2>3
    <3> QED
      BY <2>1, <3>1 DEF SSHMoved
  <2>4. CASE n >= 2 /\ t[2] = Empty
    <3>1. ~Taken
      BY <1>1, <1>4, <2>3, <2>4
    <3> QED
      BY <1>9, <2>4, <3>1 DEF n, Taken, SSHForm
  <2>5. CASE n = 2 /\ t[2] # Empty
    BY <1>9, <2>3, <2>5 DEF n, Taken, SSHForm
  <2>6. CASE n >= 3 /\ t[2] # Empty
    <3>1. SSHMoved(st[2], t[3], st[3])
      BY <1>1, <1>2, <2>6
    <3>2. st[3].ok <=> t[3] = "--"
      BY <1>1, <2>3, <2>6, <3>1 DEF SSHMoved
    <3>3. t[3] = "--" => st[3].remote
      BY <1>1, <2>3, <2>6, <3>1 DEF SSHMoved
    <3>4. Taken <=> t[3] = "--"
      BY <1>1, <1>4, <2>6, <3>2, <3>3
    <3> QED
      BY <1>9, <2>6, <3>4 DEF n, Taken, SSHForm
  <2> QED
    BY <1>1, <1>9, <2>2, <2>4, <2>5, <2>6
<1> QED
  BY <1>1, <1>5, <1>7, <1>8, <1>9

\* Where the first -- is, if there is one.
LEMMA Separator ==
  ASSUME NEW args \in Seq(STRING), NEW s, s = SelectInSeq(args, LAMBDA a : a = "--")
  PROVE  \/ s = 0 /\ \A i \in 1..Len(args) : args[i] # "--"
         \/ s \in 1..Len(args) /\ args[s] = "--" /\ \A i \in 1..(s - 1) : args[i] # "--"
<1> DEFINE I == {i \in 1..Len(args) : args[i] = "--"}
<1>1. s = IF I # {} THEN Min(I) ELSE 0
  BY DEF SelectInSeq
<1>2. CASE I = {}
  BY <1>1, <1>2
<1>3. CASE I # {}
  <2>1. I \subseteq Nat
    OBVIOUS
  <2>2. \E x \in I : \A y \in I : x <= y
    BY <1>3, <2>1, Least
  <2>3. Min(I) \in I /\ \A y \in I : Min(I) <= y
    BY <2>2 DEF Min
  <2>4. s \in 1..Len(args) /\ args[s] = "--" /\ \A y \in I : s <= y
    BY <1>1, <1>3, <2>3
  <2>5. \A i \in 1..(s - 1) : i \in 1..Len(args) /\ ~(s <= i)
    BY <2>4
  <2> QED
    BY <2>4, <2>5
<1> QED
  BY <1>2, <1>3

\* operations_commands.go:28: ssh takes what its synopsis allows.
LEMMA SSHAgrees ==
  ASSUME NEW args \in Seq(STRING)
  PROVE  parseSSH(args) <=> SSHSynopsis(args)
<1> DEFINE L == Len(args)
           t == Tail(args)
           o == FoldLeft(SSHStep, SSHStart, t)
           s == SelectInSeq(args, LAMBDA a : a = "--")
           local == IF s = 0 THEN args ELSE SubSeq(args, 1, s - 1)
<1>1. parseSSH(args) <=>
        RejectUnknown(local, {"--identity"}) /\ local # <<>> /\ o.ok /\ (o.want = Empty \/ o.remote)
  BY Zenon DEF parseSSH
<1>2. \/ s = 0 /\ \A i \in 1..L : args[i] # "--"
      \/ s \in 1..L /\ args[s] = "--" /\ \A i \in 1..(s - 1) : args[i] # "--"
  BY Separator
<1> HIDE DEF s, o
<1>3. L \in Nat /\ DOMAIN args = 1..L
  OBVIOUS
<1>4. /\ local # <<>> <=> args # <<>> /\ s # 1
      /\ DOMAIN local = {i \in 1..L : s = 0 \/ i < s}
      /\ \A i \in DOMAIN local : local[i] = args[i]
  <2>1. CASE s = 0
    BY <1>2, <1>3, <2>1
  <2>2. CASE s \in 1..L
    <3>1. /\ SubSeq(args, 1, s - 1) \in Seq(STRING) /\ Len(SubSeq(args, 1, s - 1)) = s - 1
          /\ \A i \in 1..(s - 1) : SubSeq(args, 1, s - 1)[i] = args[i]
      BY <2>2
    <3>2. local = SubSeq(args, 1, s - 1)
      BY <2>2
    <3>3. args # <<>> /\ s - 1 \in Nat
      BY <2>2
    <3> HIDE DEF local
    <3>4. DOMAIN local = 1..(s - 1) /\ (local # <<>> <=> s # 1)
      BY <3>1, <3>2, <3>3, <2>2
    <3> QED
      BY <2>2, <3>1, <3>2, <3>3, <3>4
  <2> QED
    BY <1>2, <2>1, <2>2
<1> HIDE DEF local, L
<1>5. parseSSH(args) <=>
        /\ args # <<>> /\ s # 1 /\ o.ok /\ (o.want = Empty \/ o.remote)
        /\ \A i \in 1..L : (s = 0 \/ i < s) /\ args[i] \in Dashed => args[i] = "--identity"
  BY <1>1, <1>4 DEF RejectUnknown
<1>6. SSHSynopsis(args) <=>
        \/ /\ L >= 1 /\ args[1] # "--" /\ (args[1] \in Dashed => args[1] = "--identity")
           /\ L = 1 \/ args[2] = "--"
        \/ /\ L >= 3 /\ args[1] # "--" /\ (args[1] \in Dashed => args[1] = "--identity")
           /\ args[2] = "--identity" /\ args[3] # Empty /\ (args[3] \in Dashed => args[3] \in {"--identity", "--"})
           /\ L = 3 \/ args[4] = "--"
  <2> DEFINE R(n) == RejectUnknown(SubSeq(args, 1, n), {"--identity", "--"})
             K(n) == \A i \in 1..n : args[i] \in Dashed => args[i] \in {"--identity", "--"}
  <2>1. ASSUME NEW n \in {1, 3}, n <= L
        PROVE  R(n) <=> K(n)
    <3>1. /\ SubSeq(args, 1, n) \in Seq(STRING) /\ Len(SubSeq(args, 1, n)) = n
          /\ \A i \in 1..n : SubSeq(args, 1, n)[i] = args[i]
      BY <2>1 DEF L
    <3>2. DOMAIN SubSeq(args, 1, n) = 1..n
      BY <3>1
    <3> QED
      BY <3>1, <3>2 DEF RejectUnknown
  <2>2. SSHSynopsis(args) <=>
          \E n \in {1, 3} \cap DOMAIN args :
            /\ n = 3 => args[2] = "--identity" /\ args[3] # Empty
            /\ args[1] # "--" /\ R(n)
            /\ n = L \/ args[n + 1] = "--"
    BY Zenon DEF SSHSynopsis, L
  <2>3. K(1) <=> (args[1] \in Dashed => args[1] \in {"--identity", "--"})
    <3>1. 1..1 = {1}
      OBVIOUS
    <3> QED
      BY <3>1
  <2>4. K(3) <=> /\ args[1] \in Dashed => args[1] \in {"--identity", "--"}
                 /\ args[2] \in Dashed => args[2] \in {"--identity", "--"}
                 /\ args[3] \in Dashed => args[3] \in {"--identity", "--"}
    <3>1. 1..3 = {1, 2, 3}
      OBVIOUS
    <3> QED
      BY <3>1
  <2> HIDE DEF R, K
  <2>5. SSHSynopsis(args) <=>
          \/ L >= 1 /\ args[1] # "--" /\ R(1) /\ (L = 1 \/ args[2] = "--")
          \/ L >= 3 /\ args[2] = "--identity" /\ args[3] # Empty /\ args[1] # "--" /\ R(3) /\ (L = 3 \/ args[4] = "--")
    BY <1>3, <2>2
  <2>6. (L >= 1 => (R(1) <=> K(1))) /\ (L >= 3 => (R(3) <=> K(3)))
    BY <1>3, <2>1
  <2> QED
    BY <2>3, <2>4, <2>5, <2>6
<1>7. CASE args = <<>>
  <2>1. L = 0
    BY <1>7 DEF L
  <2> QED
    BY <1>5, <1>6, <1>7, <2>1
<1>8. CASE args # <<>>
  <2>1. /\ t \in Seq(STRING) /\ Len(t) = L - 1 /\ L \in Nat \ {0}
        /\ \A i \in 1..(L - 1) : t[i] = args[i + 1]
    BY <1>8, Tails DEF L
  <2>2. PICK st : SSHRead(t, st) /\ o = st[Len(t)]
    BY <2>1, SSHReads DEF o
  <2> HIDE DEF t
  <2>3. SSHForm(t) <=> o.ok /\ (o.want = Empty \/ o.remote)
    BY <2>1, <2>2, SSHForms
  <2>4. SSHForm(t) <=>
          \/ L = 1
          \/ L >= 2 /\ args[2] = "--"
          \/ L >= 3 /\ args[2] = "--identity" /\ args[3] # Empty /\ (L = 3 \/ args[4] = "--")
    BY <2>1 DEF SSHForm
  <2>5. s # 1 <=> args[1] # "--"
    BY <1>2, <2>1
  <2>6. parseSSH(args) <=>
          /\ args[1] # "--"
          /\ \A i \in 1..L : (s = 0 \/ i < s) /\ args[i] \in Dashed => args[i] = "--identity"
          /\ \/ L = 1
             \/ L >= 2 /\ args[2] = "--"
             \/ L >= 3 /\ args[2] = "--identity" /\ args[3] # Empty /\ (L = 3 \/ args[4] = "--")
    BY <1>5, <1>8, <2>3, <2>4, <2>5
  <2>7. CASE args[1] # "--" /\ (L = 1 \/ (L >= 2 /\ args[2] = "--"))
    <3>1. \A i \in 1..L : (s = 0 \/ i < s) <=> (i = 1)
      BY <1>2, <2>1, <2>7
    <3> QED
      BY <1>6, <2>1, <2>6, <2>7, <3>1
  <2>8. CASE /\ args[1] # "--" /\ L >= 3 /\ args[2] = "--identity" /\ args[3] # Empty
             /\ L = 3 \/ args[4] = "--"
    <3>1. \A i \in 1..L : (s = 0 \/ i < s) <=> (i \in {1, 2} \/ (i = 3 /\ args[3] # "--"))
      BY <1>2, <2>1, <2>8
    <3> QED
      BY <1>6, <2>1, <2>6, <2>8, <3>1
  <2> QED
    BY <1>6, <2>1, <2>6, <2>7, <2>8
<1> QED
  BY <1>7, <1>8

\* What parseCreateOptions keeps.
CreateStates == [ok : BOOLEAN, want : {Empty} \cup CreateValued, repo : Texts, name : Texts,
                 values : Nat, stdin : BOOLEAN]

\* An option that is repeated overwrites its value.
SetTo(old, want, option, a) == IF want = option THEN a ELSE old

\* What one argument does to it.
CreateMoved(o, a, u) ==
  /\ ~o.ok => ~u.ok
  /\ o.ok /\ o.want # Empty =>
       /\ u.ok /\ u.want = Empty /\ (u.stdin <=> o.stdin)
       /\ u.repo = SetTo(o.repo, o.want, "--repo", a) /\ u.name = SetTo(o.name, o.want, "--name", a)
       /\ u.values = IF o.want \in {"--secret", "--fetch-credential"} THEN o.values + 1 ELSE o.values
  /\ o.ok /\ o.want = Empty /\ a = "--stdin" =>
       u.ok /\ u.want = Empty /\ u.stdin /\ u.repo = o.repo /\ u.name = o.name /\ u.values = o.values
  /\ o.ok /\ o.want = Empty /\ a \in CreateValued =>
       u.ok /\ u.want = a /\ (u.stdin <=> o.stdin) /\ u.repo = o.repo /\ u.name = o.name /\ u.values = o.values
  /\ o.ok /\ o.want = Empty /\ a \notin CreateValued \cup {"--stdin"} => ~u.ok

\* lifecycle.go: each argument does this, and leaves a state of the parser.
LEMMA CreateMoves ==
  ASSUME NEW o \in CreateStates, NEW a \in STRING
  PROVE  CreateStep(o, a) \in CreateStates /\ CreateMoved(o, a, CreateStep(o, a))
<1> DEFINE u == CreateStep(o, a)
<1>1. a \in Texts /\ Empty \in Texts /\ "--stdin" \notin CreateValued /\ Empty \notin CreateValued
  BY EmptyFacts DEF Texts, CreateValued
<1>2. CASE ~o.ok
  <2>1. u = [o EXCEPT !.ok = FALSE]
    BY <1>2 DEF CreateStep
  <2> HIDE DEF u
  <2>2. u \in CreateStates /\ ~u.ok
    BY <2>1 DEF CreateStates
  <2> QED
    BY <1>2, <2>2 DEF u, CreateMoved
<1>3. CASE o.ok /\ o.want # Empty
  <2>1. u = [o EXCEPT !.want = Empty, !.repo = SetTo(o.repo, o.want, "--repo", a),
                      !.name = SetTo(o.name, o.want, "--name", a),
                      !.values = IF o.want \in {"--secret", "--fetch-credential"} THEN o.values + 1 ELSE o.values]
    BY <1>3, EmptyFacts DEF CreateStep, SetTo
  <2> HIDE DEF u
  <2>2. /\ SetTo(o.repo, o.want, "--repo", a) \in Texts /\ SetTo(o.name, o.want, "--name", a) \in Texts
        /\ (IF o.want \in {"--secret", "--fetch-credential"} THEN o.values + 1 ELSE o.values) \in Nat
    BY <1>1 DEF SetTo, CreateStates
  <2>3. /\ u \in CreateStates /\ u.ok /\ u.want = Empty /\ (u.stdin <=> o.stdin)
        /\ u.repo = SetTo(o.repo, o.want, "--repo", a) /\ u.name = SetTo(o.name, o.want, "--name", a)
        /\ u.values = IF o.want \in {"--secret", "--fetch-credential"} THEN o.values + 1 ELSE o.values
    BY <1>3, <2>1, <2>2 DEF CreateStates
  <2> QED
    BY <1>3, <2>3 DEF u, CreateMoved
<1>4. CASE o.ok /\ o.want = Empty
  <2>1. CASE a = "--stdin"
    <3>1. u = [o EXCEPT !.stdin = TRUE]
      BY <1>1, <1>4, <2>1 DEF CreateStep
    <3> HIDE DEF u
    <3>2. u \in CreateStates /\ u.ok /\ u.want = Empty /\ u.stdin /\ u.repo = o.repo /\ u.name = o.name /\ u.values = o.values
      BY <1>4, <3>1 DEF CreateStates
    <3> QED
      BY <1>1, <1>4, <2>1, <3>2 DEF u, CreateMoved
  <2>2. CASE a \in CreateValued
    <3>1. u = [o EXCEPT !.want = a]
      BY <1>1, <1>4, <2>2 DEF CreateStep
    <3> HIDE DEF u
    <3>2. /\ u \in CreateStates /\ u.ok /\ u.want = a /\ (u.stdin <=> o.stdin)
          /\ u.repo = o.repo /\ u.name = o.name /\ u.values = o.values
      BY <1>4, <2>2, <3>1 DEF CreateStates
    <3> QED
      BY <1>1, <1>4, <2>2, <3>2 DEF u, CreateMoved
  <2>3. CASE a \notin CreateValued \cup {"--stdin"}
    <3>1. u = [o EXCEPT !.ok = FALSE]
      BY <1>1, <1>4, <2>3 DEF CreateStep
    <3> HIDE DEF u
    <3>2. u \in CreateStates /\ ~u.ok
      BY <3>1 DEF CreateStates
    <3> QED
      BY <1>1, <1>4, <2>3, <3>2 DEF u, CreateMoved
  <2> QED
    BY <2>1, <2>2, <2>3
<1> QED
  BY <1>2, <1>3, <1>4 DEF CreateStates

\* The states parseCreateOptions passes through.
CreateRead(t, st) ==
  /\ st \in [0..Len(t) -> CreateStates] /\ st[0] = CreateStart
  /\ \A k \in 1..Len(t) : st[k] = CreateStep(st[k - 1], t[k])

\* The fold over the arguments of create comes to the last state of a reading.
LEMMA CreateReads ==
  ASSUME NEW t \in Seq(STRING)
  PROVE  \E st : CreateRead(t, st) /\ FoldLeft(CreateStep, CreateStart, t) = st[Len(t)]
<1> DEFINE n == Len(t)
           F == [q \in CreateStates \X (1..n) |-> CreateStep(q[1], t[q[2]])]
           Iter == CHOOSE iter : iter = [s \in SUBSET (DOMAIN t) |->
                     IF s = {} THEN CreateStart ELSE CreateStep(iter[s \ {Max(s)}], t[Max(s)])]
<1>1. n \in Nat /\ DOMAIN t = 1..n /\ \A k \in 1..n : t[k] \in STRING
  OBVIOUS
<1>2. FoldLeft(CreateStep, CreateStart, t) = Iter[DOMAIN t]
  BY DEF FoldLeft, MapThenFoldSet
<1>3. F \in [CreateStates \X (1..n) -> CreateStates]
  BY <1>1, CreateMoves
<1>4. CreateStart \in CreateStates
  BY DEF CreateStart, CreateStates, Texts
<1>5. \A o \in CreateStates, k \in 1..n : F[<<o, k>>] = CreateStep(o, t[k])
  OBVIOUS
<1> HIDE DEF F, n
<1>6. PICK g \in [SUBSET (1..n) -> CreateStates] : IsRun(g, n, CreateStart, F)
  BY <1>1, <1>3, <1>4, RunExists
<1>7. \A s \in SUBSET (1..n) : s # {} => s \ {Max(s)} \in SUBSET (1..n) /\ Max(s) \in 1..n
  BY <1>1, MaxOf
<1>8. \A s \in SUBSET (1..n) :
        g[s] = IF s = {} THEN CreateStart ELSE CreateStep(g[s \ {Max(s)}], t[Max(s)])
  BY <1>5, <1>6, <1>7 DEF IsRun
<1>9. g = [s \in SUBSET (DOMAIN t) |->
                     IF s = {} THEN CreateStart ELSE CreateStep(g[s \ {Max(s)}], t[Max(s)])]
  BY <1>1, <1>6, <1>8
<1>10. Iter = [s \in SUBSET (DOMAIN t) |->
                     IF s = {} THEN CreateStart ELSE CreateStep(Iter[s \ {Max(s)}], t[Max(s)])]
  BY <1>9
<1> HIDE DEF Iter
<1>11. Follows(Iter, CreateStates, n, CreateStart, F)
  BY <1>1, <1>5, <1>7, <1>10 DEF Follows
<1>12. PICK st \in [0..n -> CreateStates] : Reads(st, n, CreateStart, F, Iter)
  BY <1>1, <1>3, <1>4, <1>11, RunReads
<1>13. \A k \in 1..n : k - 1 \in 0..n
  BY <1>1
<1>14. CreateRead(t, st)
  BY <1>5, <1>12, <1>13 DEF Reads, CreateRead, n
<1>15. Iter[DOMAIN t] = st[Len(t)]
  BY <1>1, <1>12 DEF Reads, n
<1> QED
  BY <1>2, <1>14, <1>15

\* The value that the last `option` of the first k arguments has, if it is among them.
LastGiven(args, S, option, k, v) ==
  \/ v = Empty /\ \A i \in ValuedOptions(args, S) : args[i] = option => ~(i + 1 <= k)
  \/ \E i \in ValuedOptions(args, S) :
       /\ args[i] = option /\ i + 1 <= k /\ v = args[i + 1]
       /\ \A j \in ValuedOptions(args, S) : args[j] = option /\ j + 1 <= k => j <= i

\* The inputs whose values are among the first k arguments.
Inputs(args, S, k) == {i \in InputOptions(args, S) : i + 1 <= k}
\* A count of the inputs that is right as far as 0, 1 and more go.
CountsInputs(args, S, k, v) ==
  \/ v = 0 /\ Inputs(args, S, k) = {}
  \/ v = 1 /\ \E i \in S : Inputs(args, S, k) = {i}
  \/ v > 1 /\ \E i, j \in Inputs(args, S, k) : i # j

\* Whether --stdin is among the first k arguments.
StdinGiven(args, S, k) == \E i \in S : i <= k /\ args[i] = "--stdin"

\* What the parser has kept of the first k arguments when S are the options among all of them.
CutAt(args, S, k, u) ==
  /\ u.ok /\ u.want = IF k \in ValuedOptions(args, S) THEN args[k] ELSE Empty
  /\ u.stdin <=> StdinGiven(args, S, k)
  /\ LastGiven(args, S, "--repo", k, u.repo) /\ LastGiven(args, S, "--name", k, u.name)
  /\ CountsInputs(args, S, k, u.values)

\* An argument that is no value of the option leaves the last one given.
LEMMA LastGivenKept ==
  ASSUME NEW args, NEW S, NEW k \in Nat \ {0}, S \subseteq Nat, NEW option, NEW v, LastGiven(args, S, option, k - 1, v),
         ~(k - 1 \in ValuedOptions(args, S) /\ args[k - 1] = option)
  PROVE  LastGiven(args, S, option, k, v)
<1>1. \A i \in ValuedOptions(args, S) : i \in Nat
  BY DEF ValuedOptions
<1>2. \A i \in ValuedOptions(args, S) : args[i] = option => (i + 1 <= k <=> i + 1 <= k - 1)
  BY <1>1
<1> QED
  BY <1>2 DEF LastGiven

\* One that is becomes the last one given.
LEMMA LastGivenNext ==
  ASSUME NEW args, NEW S, NEW k \in Nat \ {0}, S \subseteq Nat, NEW option,
         k - 1 \in ValuedOptions(args, S), args[k - 1] = option
  PROVE  LastGiven(args, S, option, k, args[k])
<1>1. \A i \in ValuedOptions(args, S) : i \in Nat
  BY DEF ValuedOptions
<1>2. k - 1 + 1 = k /\ \A i \in Nat : i + 1 <= k => i <= k - 1
  OBVIOUS
<1> QED
  BY <1>1, <1>2 DEF LastGiven

\* An argument that is no value of an input leaves the count.
LEMMA CountsKept ==
  ASSUME NEW args, NEW S, NEW k \in Nat \ {0}, S \subseteq Nat, NEW v, CountsInputs(args, S, k - 1, v),
         k - 1 \notin InputOptions(args, S)
  PROVE  CountsInputs(args, S, k, v)
<1>1. \A i \in InputOptions(args, S) : i \in Nat
  BY DEF InputOptions, ValuedOptions
<1>2. Inputs(args, S, k) = Inputs(args, S, k - 1)
  BY <1>1 DEF Inputs
<1> QED
  BY <1>2 DEF CountsInputs

\* One that is adds to it.
LEMMA CountsNext ==
  ASSUME NEW args, NEW S, NEW k \in Nat \ {0}, S \subseteq Nat, NEW v \in Nat, CountsInputs(args, S, k - 1, v),
         k - 1 \in InputOptions(args, S)
  PROVE  CountsInputs(args, S, k, v + 1)
<1>1. InputOptions(args, S) \subseteq S /\ \A i \in InputOptions(args, S) : i \in Nat
  BY DEF InputOptions, ValuedOptions
<1>2. Inputs(args, S, k) = Inputs(args, S, k - 1) \cup {k - 1} /\ k - 1 \notin Inputs(args, S, k - 1)
  BY <1>1 DEF Inputs
<1>3. CASE v = 0 /\ Inputs(args, S, k - 1) = {}
  <2>1. Inputs(args, S, k) = {k - 1} /\ k - 1 \in S
    BY <1>1, <1>2, <1>3
  <2> QED
    BY <1>3, <2>1 DEF CountsInputs
<1>4. CASE v = 1 /\ \E i \in S : Inputs(args, S, k - 1) = {i}
  <2>1. PICK i \in S : Inputs(args, S, k - 1) = {i}
    BY <1>4
  <2>2. i \in Inputs(args, S, k) /\ k - 1 \in Inputs(args, S, k) /\ i # k - 1
    BY <1>2, <2>1
  <2> QED
    BY <1>4, <2>2 DEF CountsInputs
<1>5. CASE v > 1 /\ \E i, j \in Inputs(args, S, k - 1) : i # j
  <2>1. \E i, j \in Inputs(args, S, k) : i # j
    BY <1>2, <1>5
  <2> QED
    BY <1>5, <2>1 DEF CountsInputs
<1> QED
  BY <1>3, <1>4, <1>5 DEF CountsInputs

\* --stdin is found where it is read as an option.
LEMMA StdinKept ==
  ASSUME NEW args, NEW S, NEW k \in Nat \ {0}, S \subseteq Nat
  PROVE  StdinGiven(args, S, k) <=> StdinGiven(args, S, k - 1) \/ (k \in S /\ args[k] = "--stdin")
<1>1. \A i \in S : i <= k <=> i <= k - 1 \/ i = k
  OBVIOUS
<1> QED
  BY <1>1 DEF StdinGiven

\* lifecycle.go: a step of the parser keeps what a cut says of it.
LEMMA CutStep ==
  ASSUME NEW args \in Seq(STRING), NEW S \in SUBSET DOMAIN args, IsCut(args, S),
         NEW k \in 1..Len(args), NEW o \in CreateStates, NEW u \in CreateStates,
         CreateMoved(o, args[k], u), CutAt(args, S, k - 1, o)
  PROVE  CutAt(args, S, k, u)
<1> DEFINE V == ValuedOptions(args, S)
<1>1. DOMAIN args = 1..Len(args) /\ S \subseteq Nat /\ k \in Nat \ {0} /\ k - 1 + 1 = k /\ k \in DOMAIN args
  OBVIOUS
<1>2. /\ \A i \in V : i \in S /\ args[i] # "--stdin" /\ i \in Nat /\ args[i] \in CreateValued
      /\ \A i \in S : i \in V \/ args[i] = "--stdin"
      /\ \A i \in DOMAIN args : i \notin S <=> \E j \in V : i = j + 1
  <2>1. V = {i \in S : args[i] # "--stdin"} /\ DOMAIN args \ S = {i + 1 : i \in V}
        /\ \A i \in S : args[i] \in CreateValued \cup {"--stdin"}
    BY DEF ValuedOptions, IsCut
  <2> HIDE DEF V
  <2> QED
    BY <1>1, <2>1
<1>3. k \notin S <=> k - 1 \in V
  <2>1. \A j \in V : k = j + 1 <=> j = k - 1
    BY <1>1, <1>2
  <2> HIDE DEF V
  <2> QED
    BY <1>1, <1>2, <2>1
<1>4. Empty \notin CreateValued /\ "--stdin" \notin CreateValued
  BY EmptyFacts DEF CreateValued
<1>5. InputOptions(args, S) = {i \in V : args[i] \in {"--secret", "--fetch-credential"}}
  BY DEF InputOptions
<1>6. /\ o.ok /\ o.want = IF k - 1 \in V THEN args[k - 1] ELSE Empty
      /\ o.stdin <=> StdinGiven(args, S, k - 1)
      /\ LastGiven(args, S, "--repo", k - 1, o.repo) /\ LastGiven(args, S, "--name", k - 1, o.name)
      /\ CountsInputs(args, S, k - 1, o.values)
  BY DEF CutAt
<1>7. StdinGiven(args, S, k) <=> StdinGiven(args, S, k - 1) \/ (k \in S /\ args[k] = "--stdin")
  BY <1>1, StdinKept
<1>8. o.values \in Nat
  BY DEF CreateStates
<1> HIDE DEF V
<1>9. CASE k - 1 \in V
  <2>1. o.want = args[k - 1] /\ o.want # Empty /\ k \notin S /\ k \notin V
    BY <1>2, <1>3, <1>4, <1>6, <1>9
  <2>2. /\ u.ok /\ u.want = Empty /\ (u.stdin <=> o.stdin)
        /\ u.repo = SetTo(o.repo, o.want, "--repo", args[k])
        /\ u.name = SetTo(o.name, o.want, "--name", args[k])
        /\ u.values = IF o.want \in {"--secret", "--fetch-credential"} THEN o.values + 1 ELSE o.values
    BY <1>6, <2>1 DEF CreateMoved
  <2>3. LastGiven(args, S, "--repo", k, u.repo)
    <3>1. CASE args[k - 1] = "--repo"
      BY <1>1, <1>9, <2>1, <2>2, <3>1, LastGivenNext DEF SetTo, V
    <3>2. CASE args[k - 1] # "--repo"
      BY <1>1, <1>6, <2>1, <2>2, <3>2, LastGivenKept DEF SetTo
    <3> QED
      BY <3>1, <3>2
  <2>4. LastGiven(args, S, "--name", k, u.name)
    <3>1. CASE args[k - 1] = "--name"
      BY <1>1, <1>9, <2>1, <2>2, <3>1, LastGivenNext DEF SetTo, V
    <3>2. CASE args[k - 1] # "--name"
      BY <1>1, <1>6, <2>1, <2>2, <3>2, LastGivenKept DEF SetTo
    <3> QED
      BY <3>1, <3>2
  <2>5. CountsInputs(args, S, k, u.values)
    <3>1. CASE args[k - 1] \in {"--secret", "--fetch-credential"}
      <4>1. k - 1 \in InputOptions(args, S) /\ u.values = o.values + 1
        BY <1>5, <1>9, <2>1, <2>2, <3>1
      <4> QED
        BY <1>1, <1>6, <1>8, <4>1, CountsNext
    <3>2. CASE args[k - 1] \notin {"--secret", "--fetch-credential"}
      <4>1. k - 1 \notin InputOptions(args, S) /\ u.values = o.values
        BY <1>5, <2>1, <2>2, <3>2
      <4> QED
        BY <1>1, <1>6, <4>1, CountsKept
    <3> QED
      BY <3>1, <3>2
  <2> QED
    BY <1>6, <1>7, <2>1, <2>2, <2>3, <2>4, <2>5 DEF CutAt, V
<1>10. CASE k - 1 \notin V
  <2>1. o.want = Empty /\ k \in S /\ k - 1 \notin InputOptions(args, S)
    BY <1>3, <1>5, <1>6, <1>10
  <2>2. /\ LastGiven(args, S, "--repo", k, o.repo) /\ LastGiven(args, S, "--name", k, o.name)
        /\ CountsInputs(args, S, k, o.values)
    BY <1>1, <1>6, <1>10, <2>1, LastGivenKept, CountsKept DEF V
  <2>3. CASE args[k] = "--stdin"
    <3>1. u.ok /\ u.want = Empty /\ u.stdin /\ u.repo = o.repo /\ u.name = o.name /\ u.values = o.values
      BY <1>6, <2>1, <2>3 DEF CreateMoved
    <3>2. k \notin V
      BY <1>2, <2>3
    <3> QED
      BY <1>7, <2>1, <2>2, <2>3, <3>1, <3>2 DEF CutAt, V
  <2>4. CASE args[k] # "--stdin"
    <3>1. k \in V /\ args[k] \in CreateValued
      BY <1>2, <2>1, <2>4
    <3>2. /\ u.ok /\ u.want = args[k] /\ (u.stdin <=> o.stdin)
          /\ u.repo = o.repo /\ u.name = o.name /\ u.values = o.values
      BY <1>6, <2>1, <3>1 DEF CreateMoved
    <3> QED
      BY <1>6, <1>7, <2>2, <2>4, <3>1, <3>2 DEF CutAt, V
  <2> QED
    BY <2>3, <2>4
<1> QED
  BY <1>9, <1>10

\* So the parser ends with what any cut of its arguments says.
LEMMA CutRuns ==
  ASSUME NEW args \in Seq(STRING), NEW S \in SUBSET DOMAIN args, IsCut(args, S), NEW st, CreateRead(args, st)
  PROVE  CutAt(args, S, Len(args), st[Len(args)])
<1> DEFINE n == Len(args)
           K == {k \in 0..n : CutAt(args, S, k, st[k])}
<1>1. n \in Nat /\ n \in 0..n /\ DOMAIN args = 1..n
  OBVIOUS
<1>2. CutAt(args, S, 0, st[0])
  <2>1. \A i \in S : i \in 1..n
    BY <1>1
  <2>2. ValuedOptions(args, S) \subseteq S /\ InputOptions(args, S) \subseteq S
    BY DEF ValuedOptions, InputOptions
  <2>3. \A i \in S : ~(i <= 0) /\ ~(i + 1 <= 0) /\ i # 0
    BY <1>1, <2>1
  <2>4. /\ st[0].ok /\ st[0].want = Empty /\ ~st[0].stdin /\ st[0].repo = Empty /\ st[0].name = Empty
        /\ st[0].values = 0
    BY DEF CreateRead, CreateStart
  <2> QED
    BY <2>2, <2>3, <2>4 DEF CutAt, LastGiven, CountsInputs, Inputs, StdinGiven
<1>3. ASSUME NEW k \in (0 + 1)..n, k - 1 \in K PROVE k \in K
  <2>1. k \in 0..n /\ k \in 1..n /\ k - 1 \in 0..n /\ args[k] \in STRING
    BY <1>1
  <2>2. st[k - 1] \in CreateStates /\ st[k] \in CreateStates /\ st[k] = CreateStep(st[k - 1], args[k])
    BY <2>1 DEF CreateRead
  <2>3. CreateMoved(st[k - 1], args[k], st[k])
    BY <2>1, <2>2, CreateMoves
  <2>4. CutAt(args, S, k - 1, st[k - 1])
    BY <1>3
  <2> QED
    BY <2>1, <2>2, <2>3, <2>4, CutStep
<1>4. 0 \in K
  BY <1>1, <1>2
<1> HIDE DEF K
<1>5. 0..n \subseteq K
  BY <1>1, <1>3, <1>4, Climb
<1> QED
  BY <1>1, <1>5 DEF K

\* The places where a reading expects an option.
OptionsRead(args, st) == {i \in 1..Len(args) : st[i - 1].want = Empty}

\* A reading that is not refused and wants no more values is a cut.
LEMMA CutOf ==
  ASSUME NEW args \in Seq(STRING), NEW st, CreateRead(args, st),
         st[Len(args)].ok, st[Len(args)].want = Empty
  PROVE  OptionsRead(args, st) \in SUBSET DOMAIN args /\ IsCut(args, OptionsRead(args, st))
<1> DEFINE n == Len(args)
           S == OptionsRead(args, st)
           V == ValuedOptions(args, S)
           Refused == {k \in 0..n : ~st[k].ok}
<1>1. n \in Nat /\ n \in 0..n /\ DOMAIN args = 1..n /\ \A i \in 1..n : i - 1 \in 0..n /\ i \in 0..n
  OBVIOUS
<1>2. ASSUME NEW k \in 1..n
      PROVE  CreateMoved(st[k - 1], args[k], st[k])
  <2>1. k - 1 \in 0..n /\ args[k] \in STRING
    BY <1>1
  <2> QED
    BY <2>1, CreateMoves DEF CreateRead
<1>3. \A k \in 0..n : st[k].ok
  <2> SUFFICES ASSUME NEW m \in 0..n, ~st[m].ok PROVE FALSE
    OBVIOUS
  <2>1. m \in Nat /\ m \in Refused /\ n \in m..n
    BY <1>1
  <2>2. \A k \in (m + 1)..n : k - 1 \in Refused => k \in Refused
    <3>1. \A k \in (m + 1)..n : k \in 1..n
      BY <1>1
    <3> QED
      BY <1>1, <1>2, <3>1 DEF CreateMoved
  <2> HIDE DEF Refused
  <2>3. m..n \subseteq Refused
    BY <1>1, <2>1, <2>2, Climb
  <2> QED
    BY <2>1, <2>3 DEF Refused
<1>4. st[0].want = Empty
  BY DEF CreateRead, CreateStart
<1>5. Empty \notin CreateValued /\ "--stdin" \notin CreateValued
  BY EmptyFacts DEF CreateValued
<1>6. ASSUME NEW k \in 1..n
      PROVE  /\ k \in S => args[k] \in CreateValued \cup {"--stdin"}
             /\ st[k].want # Empty <=> k \in V
  <2>1. st[k - 1].ok /\ st[k].ok /\ CreateMoved(st[k - 1], args[k], st[k]) /\ (k \in S <=> st[k - 1].want = Empty)
    BY <1>1, <1>2, <1>3 DEF OptionsRead
  <2>2. k \in V <=> k \in S /\ args[k] # "--stdin"
    BY DEF ValuedOptions
  <2> HIDE DEF S, V
  <2> QED
    BY <1>5, <2>1, <2>2 DEF CreateMoved
<1>7. DOMAIN args \ S = {i + 1 : i \in V}
  <2>1. \A i \in V : i \in 1..n
    BY DEF ValuedOptions, OptionsRead
  <2>2. \A i \in 1..n : i \in S <=> st[i - 1].want = Empty
    BY DEF OptionsRead
  <2> HIDE DEF S, V, n
  <2>3. ASSUME NEW k \in 1..n, k \notin S PROVE k \in {i + 1 : i \in V}
    <3>1. k # 1 /\ st[k - 1].want # Empty
      BY <1>4, <2>2, <2>3
    <3>2. k - 1 \in 1..n /\ (k - 1) + 1 = k
      BY <1>1, <3>1
    <3> QED
      BY <1>6, <3>1, <3>2
  <2>4. ASSUME NEW i \in V PROVE i + 1 \in DOMAIN args /\ i + 1 \notin S
    <3>1. i \in 1..n /\ st[i].want # Empty
      BY <1>6, <2>1
    <3>2. i # n
      BY <3>1 DEF n
    <3>3. i + 1 \in 1..n /\ (i + 1) - 1 = i
      BY <1>1, <3>1, <3>2
    <3> QED
      BY <1>1, <2>2, <3>1, <3>3
  <2> QED
    BY <1>1, <2>3, <2>4
<1>8. S \in SUBSET DOMAIN args /\ \A i \in S : i \in 1..n
  BY <1>1 DEF OptionsRead
<1> HIDE DEF S, n
<1>9. \A i \in S : args[i] \in CreateValued \cup {"--stdin"}
  BY <1>6, <1>8
<1>10. IsCut(args, S)
  BY <1>7, <1>9, Zenon DEF IsCut
<1> QED
  BY <1>8, <1>10 DEF S

\* What a cut says at the end is what the synopsis asks for.
LEMMA CutEnd ==
  ASSUME NEW args \in Seq(STRING), NEW S \in SUBSET DOMAIN args, IsCut(args, S), NEW u \in CreateStates,
         CutAt(args, S, Len(args), u)
  PROVE  /\ u.ok /\ u.want = Empty
         /\ u.repo # Empty <=> LastIsSet(args, S, "--repo")
         /\ u.name # Empty <=> LastIsSet(args, S, "--name")
         /\ (u.stdin => u.values = 1) <=> (ValuedOptions(args, S) # S => \E i \in S : InputOptions(args, S) = {i})
<1> DEFINE n == Len(args)
           V == ValuedOptions(args, S)
<1>1. n \in Nat /\ DOMAIN args = 1..n
  OBVIOUS
<1>2. /\ \A i \in V : i \in Int /\ i + 1 \in 1..n
      /\ V = {i \in S : args[i] # "--stdin"}
  <2>1. V = {i \in S : args[i] # "--stdin"}
    BY DEF ValuedOptions
  <2>2. \A i \in V : i + 1 \in DOMAIN args
    BY DEF IsCut
  <2> HIDE DEF V
  <2> QED
    BY <1>1, <2>1, <2>2
<1>3. \A i \in S : i \in 1..n
  BY <1>1
<1> HIDE DEF n, V
<1>4. \A i \in V : i + 1 <= n /\ i # n
  BY <1>1, <1>2
<1>5. u.ok /\ u.want = Empty
  BY <1>4 DEF CutAt, n, V
<1>6. ASSUME NEW option, NEW v, LastGiven(args, S, option, n, v)
      PROVE  v # Empty <=> LastIsSet(args, S, option)
  <2>1. CASE v = Empty /\ \A i \in V : args[i] = option => ~(i + 1 <= n)
    BY <1>4, <2>1 DEF LastIsSet, V
  <2>2. ASSUME NEW i \in V, args[i] = option, v = args[i + 1],
               \A j \in V : args[j] = option /\ j + 1 <= n => j <= i
        PROVE  v # Empty <=> LastIsSet(args, S, option)
    <3>1. \A j \in V : args[j] = option => j <= i
      BY <1>4, <2>2
    <3>2. ASSUME NEW j \in V, args[j] = option, \A m \in V : args[m] = option => m <= j
          PROVE  j = i
      BY <1>2, <2>2, <3>1, <3>2
    <3>3. ASSUME v # Empty PROVE LastIsSet(args, S, option)
      BY <2>2, <3>1, <3>3 DEF LastIsSet, V
    <3>4. ASSUME LastIsSet(args, S, option) PROVE v # Empty
      BY <2>2, <3>2, <3>4 DEF LastIsSet, V
    <3> QED
      BY <3>3, <3>4
  <2> QED
    BY <1>6, <2>1, <2>2 DEF LastGiven, V
<1>7. u.stdin <=> V # S
  BY <1>1, <1>2, <1>3 DEF CutAt, StdinGiven, n
<1>8. u.values = 1 <=> \E i \in S : InputOptions(args, S) = {i}
  <2>1. Inputs(args, S, n) = InputOptions(args, S)
    BY <1>4 DEF Inputs, InputOptions, V
  <2>2. CountsInputs(args, S, n, u.values)
    BY DEF CutAt, n
  <2>3. u.values \in Nat
    BY DEF CreateStates
  <2>4. CASE u.values # 1
    <3>1. Inputs(args, S, n) = {} \/ \E i, j \in Inputs(args, S, n) : i # j
      BY <2>2, <2>4 DEF CountsInputs
    <3>2. ASSUME NEW i, Inputs(args, S, n) = {i} PROVE FALSE
      BY <3>1, <3>2
    <3> QED
      BY <2>1, <2>4, <3>2
  <2>5. CASE u.values = 1
    BY <2>1, <2>2, <2>3, <2>5 DEF CountsInputs
  <2> QED
    BY <2>4, <2>5
<1> QED
  BY <1>5, <1>6, <1>7, <1>8 DEF CutAt, n, V

\* lifecycle.go:31: create takes what its synopsis allows.
LEMMA CreateAgrees ==
  ASSUME NEW args \in Seq(STRING)
  PROVE  parseCreateOptions(args) <=> CreateSynopsis(args)
<1> DEFINE o == FoldLeft(CreateStep, CreateStart, args)
           Known == RejectUnknown(args, CreateValued \cup {"--stdin"})
<1>1. parseCreateOptions(args) <=>
        Known /\ o.ok /\ o.want = Empty /\ o.repo # Empty /\ o.name # Empty /\ (o.stdin => o.values = 1)
  BY Zenon DEF parseCreateOptions
<1>2. CreateSynopsis(args) <=>
        \E S \in SUBSET DOMAIN args :
          /\ Known /\ IsCut(args, S) /\ LastIsSet(args, S, "--repo") /\ LastIsSet(args, S, "--name")
          /\ ValuedOptions(args, S) # S => \E i \in S : InputOptions(args, S) = {i}
  BY Zenon DEF CreateSynopsis
<1>3. PICK st : CreateRead(args, st) /\ o = st[Len(args)]
  BY CreateReads
<1>4. o \in CreateStates
  BY <1>3 DEF CreateRead
<1> HIDE DEF o, Known
<1>5. ASSUME NEW S \in SUBSET DOMAIN args, IsCut(args, S)
      PROVE  /\ o.ok /\ o.want = Empty
             /\ o.repo # Empty <=> LastIsSet(args, S, "--repo")
             /\ o.name # Empty <=> LastIsSet(args, S, "--name")
             /\ (o.stdin => o.values = 1) <=> (ValuedOptions(args, S) # S => \E i \in S : InputOptions(args, S) = {i})
  <2>1. CutAt(args, S, Len(args), o)
    BY <1>3, <1>5, CutRuns
  <2> QED
    BY <1>4, <1>5, <2>1, CutEnd
<1>6. o.ok /\ o.want = Empty => \E S \in SUBSET DOMAIN args : IsCut(args, S)
  BY <1>3, CutOf
<1> QED
  BY <1>1, <1>2, <1>5, <1>6

\* Sequences of names differ where they differ.
LEMMA Names ==
  /\ \A a : <<a>> # <<>>
  /\ \A a, b : <<a>> = <<b>> => a = b
  /\ \A a, b, c : <<a>> # <<b, c>>
<1>1. \A a : Len(<<a>>) = 1 /\ <<a>>[1] = a
  OBVIOUS
<1>2. \A b, c : Len(<<b, c>>) = 2
  OBVIOUS
<1>3. Len(<<>>) = 0
  OBVIOUS
<1> QED
  BY <1>1, <1>2, <1>3

\* access.go:26, lifecycle.go:31, operations_commands.go:28: whatever arguments create, share, unshare or
\* ssh is given, its parser takes them if and only if they have the form of its synopsis.  (The
\* other commands count their arguments, and their synopsis says no more.)
THEOREM TakesTheorem ==
  ASSUME NEW path, NEW args \in Seq(STRING)
  PROVE  Takes(path, args) <=> Synopsis(path, args)
<1> DEFINE share == <<"share">>
           unshare == <<"unshare">>
           create == <<"create">>
           ssh == <<"ssh">>
           secret == <<"secret", "set">>
           credential == <<"fetch-credential", "set">>
<1>1. /\ share # <<>> /\ unshare # <<>> /\ create # <<>> /\ ssh # <<>>
      /\ share # create /\ unshare # create /\ share # ssh /\ unshare # ssh /\ create # ssh
      /\ create \notin {secret, credential} /\ ssh \notin {secret, credential}
  BY Names
<1>2. CASE path \in {share, unshare}
  <2>1. Takes(path, args) <=> parseShareOptions(args)
    <3>1. CASE path = share
      BY <1>1, <3>1, Zenon DEF Takes
    <3>2. CASE path = unshare
      BY <1>1, <3>2, Zenon DEF Takes
    <3> QED
      BY <1>2, <3>1, <3>2
  <2>2. Synopsis(path, args) <=> ShareSynopsis(args)
    BY <1>1, <1>2, Zenon DEF Synopsis
  <2> QED
    BY <2>1, <2>2, ShareAgrees
<1>3. CASE path = create
  <2>1. Takes(path, args) <=> parseCreateOptions(args)
    BY <1>1, <1>3, Zenon DEF Takes
  <2>2. Synopsis(path, args) <=> CreateSynopsis(args)
    BY <1>1, <1>3, Zenon DEF Synopsis
  <2> QED
    BY <2>1, <2>2, CreateAgrees
<1>4. CASE path = ssh
  <2>1. Takes(path, args) <=> parseSSH(args)
    BY <1>1, <1>4, Zenon DEF Takes
  <2>2. Synopsis(path, args) <=> SSHSynopsis(args)
    BY <1>1, <1>4, Zenon DEF Synopsis
  <2> QED
    BY <2>1, <2>2, SSHAgrees
<1>5. CASE path \notin {share, unshare, create, ssh}
  BY <1>5, Zenon DEF Synopsis
<1> QED
  BY <1>2, <1>3, <1>4, <1>5


-----------------------------------------------------------------------------
(* The exit over misused arguments.                                        *)

\* What Execute leaves to a command is part of the arguments of the process.
LEMMA ExecuteArgs ==
  ASSUME NEW args \in Seq(STRING)
  PROVE  Execute(args).args \in Seq(STRING)
<1>1. ASSUME NEW path, NEW a \in Seq(STRING)
      PROVE  ExecuteLevel(path, a).args \in Seq(STRING)
  <2>1. \A kind, to, rest : Outcome(kind, to, rest).args = rest
    BY DEF Outcome
  <2>2. a # <<>> => Tail(a) \in Seq(STRING)
    OBVIOUS
  <2> QED
    BY <1>1, <2>1, <2>2 DEF ExecuteLevel
<1> QED
  BY <1>1 DEF Execute

Runs(p) == given[p] # NotGiven /\ Execute(given[p]).kind = "run"
Taken(p) == Takes(Path(p), Arguments(p))

\* A process passes its parser before anything else, and ends there over arguments that are not
\* taken; the prompt's goroutine starts later.
ParseInv ==
  /\ \A p \in Procs :
       /\ given[p] # NotGiven => given[p] \in Seq(STRING) /\ status[p] # "not run"
       /\ Runs(p) /\ status[p] = "usage" => ~Taken(p)
       /\ Runs(p) /\ status[p] \notin {"usage", "panic"} /\ ~At(p, "start") => Taken(p)
  /\ watcher # "none" => pc[T] # "start"

\* Nothing is parsed before a process begins.
LEMMA ParseStart == CommandLineInit => ParseInv
<1> SUFFICES ASSUME CommandLineInit PROVE ParseInv
  OBVIOUS
<1>1. PICK run \in Invocations : given = run.given
  BY DEF CommandLineInit
<1>2. \A p \in Procs : given[p] # NotGiven => given[p] \in Seq(STRING)
  BY <1>1, CommandLineConstants
<1> QED
  BY <1>2 DEF CommandLineInit, ParseInv, At, Runs

\* command.go: a process ends over its arguments if its command does not take them.
LEMMA BeginParses ==
  ASSUME Domains, ParseInv, NEW p \in Procs, Begin(p)
  PROVE  ParseInv'
<1>1. given' = given /\ watcher' = watcher /\ At(p, "start")
  BY DEF Begin, promptVars
<1>2. \A q \in Procs : (Runs(q)' <=> Runs(q)) /\ (Taken(q)' <=> Taken(q))
  BY <1>1 DEF Runs, Taken, Path, Arguments
<1>3. \A q \in Procs \ {p} : status'[q] = status[q] /\ pc'[q] = pc[q]
  BY DEF Begin, Goto, End, EndWith, Domains
<1>4. ASSUME Runs(p)
      PROVE  \/ status'[p] = "panic"
             \/ status'[p] = "usage" /\ ~Taken(p)
             \/ Taken(p) /\ status'[p] # "usage"
  BY <1>1, <1>4 DEF Begin, Goto, End, EndWith, Domains, Runs, Taken, Path, Arguments, At
<1>5. status'[p] # "not run" /\ (status'[p] = "running" => pc'[p] # "start")
  BY <1>1 DEF Begin, Goto, End, EndWith, Domains, At
<1>6. (watcher' # "none" => pc'[T] # "start")
  BY <1>1, <1>3, <1>5, CommandLineConstants DEF ParseInv, At, T, Begin
<1> QED
  BY <1>1, <1>2, <1>3, <1>4, <1>5, <1>6 DEF ParseInv, At

\* A process that is past its parser stays so, and does not end as misused.
Passed(p) ==
  /\ status[p] = "running" /\ pc[p] # "start" /\ pc'[p] # "start"
  /\ status'[p] \notin {"usage", "not run"}
  /\ \A q \in Procs \ {p} : status'[q] = status[q] /\ pc'[q] = pc[q]
  /\ UNCHANGED given

\* So it is with every later step of a process.
LEMMA LaterSteps ==
  ASSUME Domains, NEW p \in Procs,
         \/ AskServer(p) \/ ReadStdin(p) \/ NoTerminal(p) \/ Me(p)
         \/ CreateTemp(p) \/ WriteTemp(p) \/ Rename(p) \/ Exists(p) \/ RemoveConfig(p)
         \/ Load(p) \/ Request(p) \/ Deliver(p) \/ Killed(p)
  PROVE  Passed(p) /\ UNCHANGED watcher
<1> USE DEF Domains, Passed, At, Goto, End, EndWith, promptVars
<1>1. CASE AskServer(p) \/ ReadStdin(p) \/ NoTerminal(p) \/ Me(p)
  BY <1>1 DEF AskServer, ReadStdin, NoTerminal, Me, ValueRead
<1>2. CASE CreateTemp(p) \/ WriteTemp(p) \/ Rename(p) \/ Exists(p) \/ RemoveConfig(p)
  BY <1>2 DEF CreateTemp, WriteTemp, Rename, Exists, RemoveConfig
<1>3. CASE Load(p) \/ Request(p) \/ Deliver(p) \/ Killed(p)
  BY <1>3 DEF Load, Request, Deliver, Killed, Answered
<1> QED
  BY <1>1, <1>2, <1>3

\* And with every step of the prompt and its goroutine.
LEMMA PromptSteps ==
  ASSUME Domains, ParseInv, Prompt
  PROVE  Passed(T)
<1> USE CommandLineConstants DEF Domains, Passed, At, Goto, End, EndWith, fixedAtPrompt, T, Prompting
<1>1. CASE Notify \/ Watch \/ Hide \/ ReadPassword \/ Interrupt
  BY <1>1 DEF Notify, Watch, Hide, ReadPassword, Interrupt
<1>2. CASE Finish
  BY <1>2 DEF Finish, ValueRead
<1>3. CASE TakeInterrupt \/ Restore \/ ExitInterrupted
  BY <1>3 DEF TakeInterrupt, Restore, ExitInterrupted, ParseInv
<1> QED
  BY <1>1, <1>2, <1>3 DEF Prompt

\* Whatever a process does, it has been parsed first.
LEMMA ParseStep == Domains /\ ParseInv /\ [CommandLineNext]_vars => ParseInv'
<1> SUFFICES ASSUME Domains, ParseInv, [CommandLineNext]_vars PROVE ParseInv'
  OBVIOUS
<1>1. ASSUME NEW p \in Procs, Passed(p), watcher' = watcher \/ p = T PROVE ParseInv'
  <2>1. \A q \in Procs : (Runs(q)' <=> Runs(q)) /\ (Taken(q)' <=> Taken(q)) /\ given'[q] = given[q]
    BY <1>1 DEF Runs, Taken, Path, Arguments, Passed
  <2>2. watcher' # "none" => pc'[T] # "start"
    BY <1>1, CommandLineConstants DEF ParseInv, Passed, T
  <2> QED
    BY <1>1, <2>1, <2>2 DEF ParseInv, Passed, At
<1>2. ASSUME UNCHANGED vars PROVE ParseInv'
  BY <1>2 DEF vars, promptVars, ParseInv, Runs, Taken, Path, Arguments, At, T
<1>3. T \in Procs
  BY CommandLineConstants DEF T
<1> QED
  BY <1>1, <1>2, <1>3, BeginParses, LaterSteps, PromptSteps DEF CommandLineNext

\* access.go:26, lifecycle.go:31, operations_commands.go:28: whatever a process is given and whatever
\* it meets later, it exits as misused if and only if its arguments do not have the form of its
\* command's synopsis.
THEOREM SynopsisTheorem == CommandLineSpec => []ParsesAsSynopsis
<1>1. ParseInv => ParsesAsSynopsis
  <2> SUFFICES ASSUME ParseInv, NEW p \in Procs, Runs(p), status[p] \notin {"running", "panic"}
               PROVE  (status[p] = "usage") = ~Synopsis(Path(p), Arguments(p))
    BY DEF ParsesAsSynopsis, Runs
  <2>1. Arguments(p) \in Seq(STRING)
    BY ExecuteArgs DEF ParseInv, Runs, Arguments
  <2>2. Taken(p) <=> Synopsis(Path(p), Arguments(p))
    BY <2>1, TakesTheorem DEF Taken
  <2>3. (status[p] = "usage") <=> ~Taken(p)
    BY DEF ParseInv, At
  <2> QED
    BY <2>2, <2>3
<1>2. SessionInv => Domains
  BY DEF SessionInv
<1> QED
  BY <1>1, <1>2, ParseStart, ParseStep, SessionTheorem, PTL DEF CommandLineSpec
=============================================================================
