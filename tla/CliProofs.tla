------------------------------ MODULE CliProofs ------------------------------
(***************************************************************************)
(* One command of the client, for every set of commands, biots, names and  *)
(* changes of other clients, every page size and every number of values.   *)
(*                                                                         *)
(* A step of a command is a request of its program, so the proofs go by    *)
(* the place of each request in the programs (ProgramShape): what comes    *)
(* before a change, before the wait for a running biot, and before the     *)
(* start of a creation with values.  RequestFacts says what a request may  *)
(* change, and ListingInv that a listing passes nothing over.  What all of *)
(* it does to the rows is a behaviour of Lifecycle (ServedStep).           *)
(***************************************************************************)
EXTENDS Cli, LifecycleProofs, SequenceTheorems, FiniteSetTheorems

\* What a command may have been given.
Jobs ==
  [cmd : AllCommands, name : Names \cup {""}, id : Biots, credentials : 0..MaxValues,
   secrets : 0..MaxValues]

-----------------------------------------------------------------------------
(* The programs.                                                           *)

\* The commands whose success is that of an operation they wait for.
Readying == {"create", "restart"}

\* The requests programs are made of.
Phases ==
  {"create", "allocation", "credential", "prepared", "operation", "view", "secret", "start", "stop",
   "rebuild", "destroy", "running", "resolve", "latest", "list", "set", "read", "ssh", "failure"}

\* A program of n requests, from its requests.
Shape(j, program) ==
  /\ Len(program) \in Nat /\ Len(program) > 0
  /\ \A i \in 1..Len(program) :
       /\ program[i] \in Changing => i > 1 /\ j.cmd \notin Account
       /\ program[i] = "create" => i = 1 /\ j.cmd = "create"
       /\ program[i] = "list" => j.cmd = "list"
       /\ program[i] \in {"resolve", "latest"} => j.cmd # "create"
       /\ program[i] = "latest" => j.cmd = "wait"
       /\ program[i] = "resolve" => j.cmd # "list"
  /\ j.cmd \notin Account => program[1] \in {"create", "resolve"}
  /\ j.cmd = "list" => program[1] = "list" /\ Len(program) = 1
  /\ j.cmd = "wait" => program[Len(program)] = "operation"

\* A program that ends by waiting for a running biot waits for the operation just before.
Waits(program) ==
  /\ Len(program) \in Nat /\ Len(program) > 1
  /\ program[Len(program)] = "running"
  /\ program[Len(program) - 1] = "operation"
  /\ \A i \in 1..Len(program) : program[i] = "running" => i = Len(program)

\* What a sequence of requests is after another.
LEMMA Joined ==
  ASSUME NEW s \in Seq(Phases), NEW t \in Seq(Phases)
  PROVE  /\ s \o t \in Seq(Phases) /\ Len(s \o t) = Len(s) + Len(t)
         /\ \A i \in 1..Len(s) : (s \o t)[i] = s[i]
         /\ \A i \in 1..Len(t) : (s \o t)[Len(s) + i] = t[i]
<1>1. /\ s \o t \in Seq(Phases)
      /\ Len(s \o t) = Len(s) + Len(t)
      /\ \A i \in 1..(Len(s) + Len(t)) : (s \o t)[i] = IF i <= Len(s) THEN s[i] ELSE t[i - Len(s)]
  BY ConcatProperties
<1>2. Len(s) \in Nat /\ Len(t) \in Nat
  BY LenProperties
<1> DEFINE both == s \o t
<1> HIDE DEF both
<1>3. \A i \in 1..Len(s) : both[i] = s[i]
  BY <1>1, <1>2 DEF both
<1>4. \A i \in 1..Len(t) : both[Len(s) + i] = t[i]
  <2> SUFFICES ASSUME NEW i \in 1..Len(t) PROVE both[Len(s) + i] = t[i]
    OBVIOUS
  <2>1. Len(s) + i \in 1..(Len(s) + Len(t)) /\ ~(Len(s) + i <= Len(s)) /\ (Len(s) + i) - Len(s) = i
    BY <1>2
  <2> QED
    BY <1>1, <2>1 DEF both
<1> QED
  BY <1>1, <1>3, <1>4 DEF both

\* lifecycle.go:88-204: where each request of a creation with values stands in its program.
CreationShape(j, p) ==
  LET c == j.credentials
      s == j.secrets
  IN  /\ p \in Seq(Phases) /\ Len(p) = c + s + 7
      /\ p[1] = "create" /\ p[2] = "allocation"
      /\ \A i \in 1..c : p[2 + i] = "credential"
      /\ p[3 + c] \in {"prepared", "operation"} /\ p[4 + c] = "view"
      /\ \A i \in 1..s : p[4 + c + i] = "secret"
      /\ p[5 + c + s] = "start" /\ p[6 + c + s] = "operation" /\ p[7 + c + s] = "running"

\* lifecycle.go:88-204: the program of a creation with values has that shape.
LEMMA CreateProgram ==
  ASSUME NEW j \in Jobs, j.cmd = "create", j.credentials + j.secrets > 0
  PROVE  CreationShape(j, Program(j))
<1> DEFINE c == j.credentials
           s == j.secrets
           middle == IF c > 0 THEN <<"prepared">> ELSE <<"operation">>
           p1 == <<"create", "allocation">> \o Times(c, "credential")
           p2 == p1 \o middle
           p3 == p2 \o <<"view">>
           p4 == p3 \o Times(s, "secret")
           p5 == p4 \o <<"start", "operation", "running">>
<1>1. c \in Nat /\ s \in Nat /\ c + s > 0
  <2>1. j.credentials \in 0..MaxValues /\ j.secrets \in 0..MaxValues
    BY DEF Jobs
  <2>2. MaxValues \in Nat
    BY CliConstants
  <2> QED
    BY <2>1, <2>2
<1>10. j.credentials + j.secrets # 0
  BY <1>1
<1>2. Program(j) = runCreate(j)
  BY DEF Program
<1>3. Program(j) = p5
  BY <1>2, <1>10, Zenon DEF runCreate
<1>4. \A n \in Nat : \A phase \in Phases :
        /\ Times(n, phase) \in Seq(Phases) /\ Len(Times(n, phase)) = n
        /\ \A i \in 1..n : Times(n, phase)[i] = phase
  BY DEF Times
<1>5. /\ <<"create", "allocation">> \in Seq(Phases) /\ Len(<<"create", "allocation">>) = 2
      /\ <<"create", "allocation">>[1] = "create" /\ <<"create", "allocation">>[2] = "allocation"
  BY DEF Phases
<1>6. /\ middle \in Seq(Phases) /\ Len(middle) = 1 /\ middle[1] \in {"prepared", "operation"}
  <2>1. /\ <<"prepared">> \in Seq(Phases) /\ Len(<<"prepared">>) = 1
        /\ <<"prepared">>[1] = "prepared"
    BY DEF Phases
  <2>2. /\ <<"operation">> \in Seq(Phases) /\ Len(<<"operation">>) = 1
        /\ <<"operation">>[1] = "operation"
    BY DEF Phases
  <2>3. middle = <<"prepared">> \/ middle = <<"operation">>
    OBVIOUS
  <2> HIDE DEF middle
  <2> QED
    BY <2>1, <2>2, <2>3
<1>7. <<"view">> \in Seq(Phases) /\ Len(<<"view">>) = 1 /\ <<"view">>[1] = "view"
  BY DEF Phases
<1> DEFINE last == <<"start", "operation", "running">>
<1>8. /\ last \in Seq(Phases) /\ Len(last) = 3
      /\ last[1] = "start" /\ last[2] = "operation" /\ last[3] = "running"
  BY DEF Phases
<1> DEFINE tc == Times(c, "credential")
           ts == Times(s, "secret")
<1>9. /\ tc \in Seq(Phases) /\ Len(tc) = c /\ \A i \in 1..c : tc[i] = "credential"
      /\ ts \in Seq(Phases) /\ Len(ts) = s /\ \A i \in 1..s : ts[i] = "secret"
  <2>1. "credential" \in Phases /\ "secret" \in Phases
    BY DEF Phases
  <2> QED
    BY <1>1, <1>4, <2>1
<1> HIDE DEF c, s, middle, last, tc, ts, p1, p2, p3, p4, p5
<1>11. /\ p1 \in Seq(Phases) /\ Len(p1) = 2 + c
       /\ p1[1] = "create" /\ p1[2] = "allocation" /\ \A i \in 1..c : p1[2 + i] = "credential"
  <2>1. /\ p1 \in Seq(Phases) /\ Len(p1) = 2 + c
        /\ \A i \in 1..2 : p1[i] = <<"create", "allocation">>[i]
        /\ \A i \in 1..c : p1[2 + i] = tc[i]
    <3> DEFINE first == <<"create", "allocation">>
    <3>1. p1 = first \o tc
      BY DEF p1, tc
    <3>2. first \in Seq(Phases) /\ Len(first) = 2
      BY <1>5
    <3> HIDE DEF first
    <3>3. /\ p1 \in Seq(Phases) /\ Len(p1) = 2 + c
          /\ \A i \in 1..2 : p1[i] = first[i]
          /\ \A i \in 1..c : p1[2 + i] = tc[i]
      <4>1. /\ first \o tc \in Seq(Phases) /\ Len(first \o tc) = Len(first) + Len(tc)
            /\ \A i \in 1..Len(first) : (first \o tc)[i] = first[i]
            /\ \A i \in 1..Len(tc) : (first \o tc)[Len(first) + i] = tc[i]
        BY <1>9, <3>2, Joined
      <4> QED
        BY <1>9, <3>1, <3>2, <4>1
    <3> QED
      BY <3>3 DEF first
  <2> QED
    BY <1>5, <1>9, <2>1
<1>12. /\ p2 \in Seq(Phases) /\ Len(p2) = 3 + c
       /\ \A i \in 1..(2 + c) : p2[i] = p1[i]
       /\ p2[3 + c] \in {"prepared", "operation"}
  <2>1. /\ p2 \in Seq(Phases) /\ Len(p2) = (2 + c) + 1
        /\ \A i \in 1..(2 + c) : p2[i] = p1[i]
        /\ \A i \in 1..1 : p2[(2 + c) + i] = middle[i]
    <3>1. 2 + c \in Nat /\ 1 \in Nat
      BY <1>1
    <3> QED
      <4>1. /\ p1 \o middle \in Seq(Phases) /\ Len(p1 \o middle) = Len(p1) + Len(middle)
            /\ \A i \in 1..Len(p1) : (p1 \o middle)[i] = p1[i]
            /\ \A i \in 1..Len(middle) : (p1 \o middle)[Len(p1) + i] = middle[i]
        BY <1>6, <1>11, Joined
      <4> QED
        BY <1>6, <1>11, <3>1, <4>1 DEF p2
  <2> QED
    BY <1>1, <1>6, <2>1
<1>13. /\ p3 \in Seq(Phases) /\ Len(p3) = 4 + c
       /\ \A i \in 1..(3 + c) : p3[i] = p2[i]
       /\ p3[4 + c] = "view"
  <2>1. /\ p3 \in Seq(Phases) /\ Len(p3) = (3 + c) + 1
        /\ \A i \in 1..(3 + c) : p3[i] = p2[i]
        /\ \A i \in 1..1 : p3[(3 + c) + i] = <<"view">>[i]
    BY <1>1, <1>7, <1>12, Joined DEF p3
  <2> QED
    BY <1>1, <1>7, <2>1
<1>14. /\ p4 \in Seq(Phases) /\ Len(p4) = (4 + c) + s
       /\ \A i \in 1..(4 + c) : p4[i] = p3[i]
       /\ \A i \in 1..s : p4[(4 + c) + i] = "secret"
  BY <1>1, <1>9, <1>13, Joined DEF p4, ts
<1>15. /\ p5 \in Seq(Phases) /\ Len(p5) = ((4 + c) + s) + 3
       /\ \A i \in 1..((4 + c) + s) : p5[i] = p4[i]
       /\ \A i \in 1..3 : p5[((4 + c) + s) + i] = last[i]
  BY <1>1, <1>8, <1>14, Joined DEF p5, last
<1>16. p5[5 + c + s] = "start" /\ p5[6 + c + s] = "operation" /\ p5[7 + c + s] = "running"
  BY <1>1, <1>8, <1>15
<1>17. p5[1] = "create" /\ p5[2] = "allocation" /\ \A i \in 1..c : p5[2 + i] = "credential"
  BY <1>1, <1>11, <1>12, <1>13, <1>14, <1>15
<1>18. p5[3 + c] \in {"prepared", "operation"} /\ p5[4 + c] = "view"
  BY <1>1, <1>12, <1>13, <1>14, <1>15
<1>19. \A i \in 1..s : p5[4 + c + i] = "secret"
  <2> SUFFICES ASSUME NEW i \in 1..s PROVE p5[(4 + c) + i] = "secret"
    OBVIOUS
  <2>1. (4 + c) + i \in 1..((4 + c) + s)
    BY <1>1
  <2> QED
    BY <1>14, <1>15, <2>1
<1>20. p5 \in Seq(Phases) /\ Len(p5) = c + s + 7
  BY <1>1, <1>15
<1> QED
  BY <1>3, <1>16, <1>17, <1>18, <1>19, <1>20, Zenon DEF CreationShape, c, s

\* How many values a creation delivers.
LEMMA Counts ==
  ASSUME NEW j \in Jobs
  PROVE  j.credentials \in Nat /\ j.secrets \in Nat
<1>1. j.credentials \in 0..MaxValues /\ j.secrets \in 0..MaxValues
  BY DEF Jobs
<1>2. MaxValues \in Nat
  BY CliConstants
<1> QED
  BY <1>1, <1>2

\* commands.go:173-196, account_commands.go: a command that names no biot makes one request.
LEMMA AccountPrograms ==
  ASSUME NEW j, j.cmd \in Account
  PROVE  IF j.cmd = "list" THEN Program(j) = <<"list">>
         ELSE Program(j) = <<"read">> \/ Program(j) = <<"set">>
<1>1. CASE j.cmd = "list"
  <2>1. Program(j) = <<"list">>
    BY <1>1, Zenon DEF Program, runList
  <2> QED
    BY <1>1, <2>1
<1>2. CASE j.cmd = "ssh-key-add"
  <2>1. Program(j) = <<"set">>
    BY <1>2, Zenon DEF Program, runSSHKeyAdd
  <2> QED
    BY <1>2, <2>1
<1>3. CASE j.cmd = "ssh-key-rm"
  <2>1. Program(j) = <<"set">>
    BY <1>3, Zenon DEF Program, runSSHKeyRemove
  <2> QED
    BY <1>3, <2>1
<1>4. CASE j.cmd = "ssh-key-list"
  <2>1. Program(j) = <<"read">>
    BY <1>4, Zenon DEF Program, runSSHKeyList
  <2> QED
    BY <1>4, <2>1
<1>5. CASE j.cmd = "token-list"
  <2>1. Program(j) = <<"read">>
    BY <1>5, Zenon DEF Program, runTokenList
  <2> QED
    BY <1>5, <2>1
<1>6. CASE j.cmd = "token-revoke"
  <2>1. Program(j) = <<"set">>
    BY <1>6, Zenon DEF Program, runTokenRevoke
  <2> QED
    BY <1>6, <2>1
<1>7. CASE j.cmd = "nodes"
  <2>1. Program(j) = <<"read">>
    BY <1>7, Zenon DEF Program, runNodes
  <2> QED
    BY <1>7, <2>1
<1> QED
  BY <1>1, <1>2, <1>3, <1>4, <1>5, <1>6, <1>7 DEF Account

\* The requests of a command that names a biot: it is found, and then at most two more are made.
BiotShape(j, p) ==
  /\ Len(p) \in 1..3 /\ p[1] = "resolve"
  /\ Len(p) > 1 => \/ p[2] \in Changing \cup {"set", "read", "failure"}
                   \/ p[2] = "latest" /\ j.cmd = "wait"
  /\ Len(p) > 2 => p[3] \in {"operation", "set", "read", "ssh"}
  /\ j.cmd = "wait" => Len(p) = 3 /\ p[3] = "operation"

\* biot.go, operations_commands.go: the program of a command that names a biot has that shape.
LEMMA BiotPrograms ==
  ASSUME NEW j, j.cmd \in AllCommands \ (Readying \cup Account)
  PROVE  BiotShape(j, Program(j))
<1> USE DEF BiotShape, Changing
<1> DEFINE p == Program(j)
<1>1. CASE j.cmd = "start"
  <2>1. p = <<"resolve", "start">>
    BY <1>1, Zenon DEF Program, runLifecycle
  <2> QED
    BY <1>1, <2>1
<1>2. CASE j.cmd = "stop"
  <2>1. p = <<"resolve", "stop">>
    BY <1>2, Zenon DEF Program, runLifecycle
  <2> QED
    BY <1>2, <2>1
<1>3. CASE j.cmd = "rebuild"
  <2>1. p = <<"resolve", "rebuild">>
    BY <1>3, Zenon DEF Program, runRebuild
  <2> QED
    BY <1>3, <2>1
<1>4. CASE j.cmd = "destroy"
  <2>1. p = <<"resolve", "destroy">>
    BY <1>4, Zenon DEF Program, runDestroy
  <2> QED
    BY <1>4, <2>1
<1>5. CASE j.cmd = "wait"
  <2>1. p = <<"resolve", "latest", "operation">>
    BY <1>5, Zenon DEF Program, runWait
  <2> QED
    BY <1>5, <2>1
<1>6. CASE j.cmd = "show"
  <2>1. p = <<"resolve">>
    BY <1>6, Zenon DEF Program, runShow
  <2> QED
    BY <1>6, <2>1
<1>7. CASE j.cmd = "publish"
  <2>1. p = <<"resolve", "set">>
    BY <1>7, Zenon DEF Program, runPublicationChange
  <2> QED
    BY <1>7, <2>1
<1>8. CASE j.cmd = "unpublish"
  <2>1. p = <<"resolve", "set">>
    BY <1>8, Zenon DEF Program, runPublicationChange
  <2> QED
    BY <1>8, <2>1
<1>9. CASE j.cmd = "share"
  <2>1. p = <<"resolve", "read", "set">>
    BY <1>9, Zenon DEF Program, runShareChange
  <2> QED
    BY <1>9, <2>1
<1>10. CASE j.cmd = "unshare"
  <2>1. p = <<"resolve", "read", "set">>
    BY <1>10, Zenon DEF Program, runShareChange
  <2> QED
    BY <1>10, <2>1
<1>11. CASE j.cmd = "secret-set"
  <2>1. p = <<"resolve", "set">>
    BY <1>11, Zenon DEF Program, runSecretSet
  <2> QED
    BY <1>11, <2>1
<1>12. CASE j.cmd = "secret-rm"
  <2>1. p = <<"resolve", "set">>
    BY <1>12, Zenon DEF Program, runSecretRemove
  <2> QED
    BY <1>12, <2>1
<1>13. CASE j.cmd = "fetch-credential-set"
  <2>1. p = <<"resolve", "set">>
    BY <1>13, Zenon DEF Program, runFetchCredentialSet
  <2> QED
    BY <1>13, <2>1
<1>14. CASE j.cmd = "fetch-credential-rm"
  <2>1. p = <<"resolve", "set">>
    BY <1>14, Zenon DEF Program, runFetchCredentialRemove
  <2> QED
    BY <1>14, <2>1
<1>15. CASE j.cmd = "urls"
  <2>1. p = <<"resolve", "read">>
    BY <1>15, Zenon DEF Program, runURLs
  <2> QED
    BY <1>15, <2>1
<1>16. CASE j.cmd = "grants"
  <2>1. p = <<"resolve", "read">>
    BY <1>16, Zenon DEF Program, runGrants
  <2> QED
    BY <1>16, <2>1
<1>17. CASE j.cmd = "secret-list"
  <2>1. p = <<"resolve", "read">>
    BY <1>17, Zenon DEF Program, runSecretList
  <2> QED
    BY <1>17, <2>1
<1>18. CASE j.cmd = "diagnose"
  <2>1. p = <<"resolve", "failure", "read">>
    BY <1>18, Zenon DEF Program, runDiagnose
  <2> QED
    BY <1>18, <2>1
<1>19. CASE j.cmd = "logs"
  <2>1. p = <<"resolve", "read">>
    BY <1>19, Zenon DEF Program, runLogs
  <2> QED
    BY <1>19, <2>1
<1>20. CASE j.cmd = "ssh"
  <2>1. p = <<"resolve", "read", "ssh">>
    BY <1>20, Zenon DEF Program, runSSH
  <2> QED
    BY <1>20, <2>1
<1> QED
  BY <1>1, <1>2, <1>3, <1>4, <1>5, <1>6, <1>7, <1>8, <1>9, <1>10, <1>11, <1>12, <1>13, <1>14, <1>15, <1>16, <1>17, <1>18, <1>19, <1>20
     DEF AllCommands, Readying, Account, Setting, Removing, Reading

\* The first requests and the changing requests of a program, and what its last ones wait for.
LEMMA ProgramShape ==
  ASSUME NEW j \in Jobs
  PROVE  Shape(j, Program(j)) /\ (j.cmd \in Readying => Waits(Program(j)))
<1> USE DEF Account, Changing
<1> DEFINE p == Program(j)
           c == j.credentials
           s == j.secrets
<1>1. CASE j.cmd = "create" /\ c + s > 0
  <2>1. CreationShape(j, p)
    BY <1>1, CreateProgram
  <2>2. c \in Nat /\ s \in Nat
    BY Counts
  <2> HIDE DEF p
  <2>3. \A i \in 1..Len(p) :
          \/ i = 1 /\ p[i] = "create"
          \/ i > 1 /\ i < Len(p) /\ p[i] \in {"allocation", "credential", "prepared", "operation", "view",
                                           "secret", "start"}
          \/ i = Len(p) /\ p[i] = "running"
    <3> SUFFICES ASSUME NEW i \in 1..Len(p), i > 1, i < Len(p)
                 PROVE  p[i] \in {"allocation", "credential", "prepared", "operation", "view",
                                   "secret", "start"}
      BY <2>1, <2>2 DEF CreationShape
    <3> HIDE DEF c, s
    <3>1. CASE i \in 3..(2 + c)
      <4>1. i - 2 \in 1..c /\ 2 + (i - 2) = i
        BY <2>2, <3>1
      <4> QED
        BY <2>1, <2>2, <4>1 DEF CreationShape, c
    <3>2. CASE i \in (5 + c)..(4 + c + s)
      <4>1. i - 4 - c \in 1..s /\ (4 + c) + (i - 4 - c) = i
        BY <2>2, <3>2
      <4> QED
        BY <2>1, <2>2, <4>1 DEF CreationShape, c, s
    <3>3. CASE i \notin 3..(2 + c) /\ i \notin (5 + c)..(4 + c + s)
      <4>1. Len(p) = c + s + 7
        BY <2>1 DEF CreationShape, c, s
      <4>2. i = 2 \/ i = 3 + c \/ i = 4 + c \/ i = 5 + c + s \/ i = 6 + c + s
        BY <2>2, <3>3, <4>1
      <4> QED
        BY <2>1, <2>2, <4>2 DEF CreationShape, c, s
    <3> QED
      BY <3>1, <3>2, <3>3
  <2>4. Len(p) \in Nat /\ Len(p) > 1 /\ p[Len(p)] = "running" /\ p[Len(p) - 1] = "operation"
        /\ p[1] = "create"
    <3>1. /\ Len(p) = c + s + 7 /\ p[6 + c + s] = "operation" /\ p[7 + c + s] = "running"
          /\ p[1] = "create"
      BY <2>1 DEF CreationShape
    <3> HIDE DEF c, s
    <3>2. Len(p) \in Nat /\ Len(p) > 1 /\ Len(p) = 7 + c + s /\ Len(p) - 1 = 6 + c + s
      BY <2>2, <3>1
    <3> QED
      BY <3>1, <3>2
  <2>5. Shape(j, p)
    BY <1>1, <2>3, <2>4 DEF Shape
  <2>6. Waits(p)
    BY <2>3, <2>4 DEF Waits
  <2> QED
    BY <2>5, <2>6 DEF p
<1>2. CASE j.cmd = "create" /\ ~(c + s > 0)
  <2>1. j.credentials + j.secrets = 0
    BY <1>2, Counts
  <2>2. p = runCreate(j)
    BY <1>2 DEF Program
  <2>3. p = <<"create", "operation", "running">>
    BY <2>1, <2>2, Zenon DEF runCreate
  <2> HIDE DEF p
  <2>4. Len(p) = 3 /\ p[1] = "create" /\ p[2] = "operation" /\ p[3] = "running"
    BY <2>3
  <2>5. \A i \in 1..3 : i = 1 \/ i = 2 \/ i = 3
    OBVIOUS
  <2>6. Shape(j, p)
    BY <1>2, <2>4, <2>5 DEF Shape
  <2>7. Waits(p)
    BY <2>4, <2>5 DEF Waits
  <2> QED
    BY <2>6, <2>7 DEF p
<1>3. CASE j.cmd = "restart"
  <2>1. p = runRestart
    BY <1>3 DEF Program
  <2> HIDE DEF p
  <2>2. /\ Len(p) = 7 /\ p[1] = "resolve" /\ p[2] = "stop" /\ p[3] = "operation" /\ p[4] = "view"
        /\ p[5] = "start" /\ p[6] = "operation" /\ p[7] = "running"
    BY <2>1 DEF runRestart
  <2>3. \A i \in 1..7 : i = 1 \/ i = 2 \/ i = 3 \/ i = 4 \/ i = 5 \/ i = 6 \/ i = 7
    OBVIOUS
  <2>4. Shape(j, p)
    BY <1>3, <2>2, <2>3 DEF Shape
  <2>5. Waits(p)
    BY <2>2, <2>3 DEF Waits
  <2> QED
    BY <2>4, <2>5 DEF p
<1>4. CASE j.cmd \notin Readying
  <2>1. CASE j.cmd \in Account
    <3>1. IF j.cmd = "list" THEN p = <<"list">> ELSE p = <<"read">> \/ p = <<"set">>
      BY <2>1, AccountPrograms
    <3>2. Len(p) = 1 /\ IF j.cmd = "list" THEN p[1] = "list" ELSE p[1] \in {"read", "set"}
      BY <3>1
    <3> HIDE DEF p
    <3>3. Shape(j, p)
      BY <2>1, <3>2 DEF Shape
    <3> QED
      BY <1>4, <3>3 DEF p
  <2>2. CASE j.cmd \notin Account
    <3>1. BiotShape(j, p)
      BY <1>4, <2>2, BiotPrograms DEF Jobs
    <3> HIDE DEF p
    <3>2. \A i \in 1..Len(p) : i = 1 \/ i = 2 \/ i = 3
      <4>1. Len(p) \in 1..3
        BY <3>1 DEF BiotShape
      <4>2. \A n \in 1..3 : \A i \in 1..n : i = 1 \/ i = 2 \/ i = 3
        OBVIOUS
      <4> QED
        BY <4>1, <4>2
    <3>3. Shape(j, p)
      BY <1>4, <2>2, <3>1, <3>2 DEF Shape, BiotShape, Readying
    <3> QED
      BY <1>4, <3>3 DEF p
  <2> QED
    BY <2>1, <2>2
<1> QED
  BY <1>1, <1>2, <1>3, <1>4 DEF Readying

-----------------------------------------------------------------------------
(* The command and the server's rows.                                      *)

\* A command that has not been given has done nothing; one that runs is inside its program; and it
\* has found its biot, unless it names none or has made no request yet.
CommandInv ==
  /\ job = NoJob \/ job \in Jobs
  /\ job = NoJob => /\ step = 0 /\ listed = <<>> /\ begun = {} /\ view = NoView /\ operation = 0
                    /\ delivered = 0 /\ said = ""
  /\ job \in Jobs /\ said = "" => step \in 0..(Len(Program(job)) - 1)
  /\ view.id \in Biots \/ (view.id = 0 /\ (step = 0 \/ job.cmd \in Account))

\* A command does not begin twice.
LEMMA NoJobIsNone == NoJob \notin Jobs /\ \A j \in Jobs : j.cmd # "none"
<1>1. "none" \notin AllCommands
  BY DEF AllCommands, Changing, Setting, Removing, Reading
<1> QED
  BY <1>1 DEF Jobs, NoJob

\* What a step leaves of the server's rows: the invariant, the operations that have ended, and
\* every biot that had been created.
RowsKept ==
  LifecycleInv' /\ EndedStay /\ \A b \in Biots : Created(b) => Created(b)'

\* A creation keeps the rows.
LEMMA CreateRows ==
  ASSUME LifecycleInv, NEW b \in Biots, NEW initial \in {"running", "stopped"}, NEW env \in Envs,
         Create(b, initial, env)
  PROVE  RowsKept
<1>1. LifecycleInv'
  BY CreateKeepsInv
<1>2. EndedStay
  BY CreateKeepsEnded
<1>3. \A c \in Biots : Created(c) => Created(c)'
  BY DEF Create, Created, LifecycleInv, LifecycleTypeOK
<1> QED
  BY <1>1, <1>2, <1>3 DEF RowsKept

\* A change keeps the rows.
LEMMA ChangeRows ==
  ASSUME LifecycleInv, NEW b \in Biots, NEW change \in Changes, Change(b, change)
  PROVE  RowsKept /\ biot[b].revision + 1 \in Revisions
<1>1. LifecycleInv'
  BY ChangeKeepsInv
<1>2. EndedStay
  BY ChangeKeepsEnded
<1>3. biot[b].revision \in 0..MaxRevision /\ biot[b].revision < MaxRevision
  BY DEF Change, LifecycleInv, LifecycleTypeOK
<1>4. \A c \in Biots : Created(c) => Created(c)'
  <2>1. biot' = [biot EXCEPT ![b] = Transition(biot[b], change)]
    BY DEF Change
  <2>2. Transition(biot[b], change).revision = biot[b].revision + 1
    BY DEF Transition
  <2> QED
    BY <1>3, <2>1, <2>2 DEF Created, LifecycleInv, LifecycleTypeOK
<1> QED
  BY <1>1, <1>2, <1>3, <1>4, LifecycleConstants DEF RowsKept, Revisions

\* An enrollment keeps the rows.
LEMMA ReloadRows ==
  ASSUME LifecycleInv, Reload
  PROVE  RowsKept
<1>1. LifecycleInv'
  BY ReloadKeepsInv
<1>2. EndedStay
  BY ReloadKeepsEnded
<1>3. biot' = biot
  BY DEF Reload, Omit, Enroll
<1> QED
  BY <1>1, <1>2, <1>3 DEF RowsKept, Created

\* A report keeps the rows.
LEMMA ObserveRows ==
  ASSUME LifecycleInv, NEW b \in Biots, NEW report \in ReportsHeard, Observe(b, report)
  PROVE  RowsKept
<1>1. report \in Reports
  BY LifecycleConstants
<1>2. LifecycleInv'
  BY <1>1, ObserveKeepsInv
<1>3. EndedStay
  BY ObserveKeepsEnded
<1>4. biot' = biot
  BY DEF Observe
<1> QED
  BY <1>2, <1>3, <1>4 DEF RowsKept, Created

\* A step that writes no row keeps them.
LEMMA SameRows ==
  ASSUME LifecycleInv, UNCHANGED lifecycleVars
  PROVE  RowsKept
<1>1. LifecycleInv'
  BY LifecycleStep
<1> QED
  BY <1>1 DEF RowsKept, EndedStay, Created, lifecycleVars

\* What other clients, the operator and the node do keeps the rows and is none of the command's.
LEMMA OthersRows ==
  ASSUME LifecycleInv, Others \/ NodeReports
  PROVE  RowsKept /\ UNCHANGED command /\ said = ""
<1>1. ASSUME NEW b \in Biots, NEW initial \in InitialStates, NEW env \in Envs,
             Create(b, initial, env)
      PROVE  RowsKept
  BY <1>1, CreateRows, LifecycleConstants
<1>2. ASSUME NEW b \in Biots, NEW change \in OthersAsk[b],
             IF change.kind = "destroy" THEN Change(b, change)
                                        ELSE ChangeLifecycle(b, biot[b].revision, change)
      PROVE  RowsKept
  <2>1. change \in Changes
    BY CliConstants
  <2>2. Change(b, change)
    BY <1>2 DEF ChangeLifecycle
  <2> QED
    BY <2>1, <2>2, ChangeRows
<1>3. CASE Others
  BY <1>1, <1>2, <1>3, ReloadRows DEF Others
<1>4. CASE NodeReports
  <2>1. PICK b \in Reported, report \in ReportsHeard : Observe(b, report)
    BY <1>4 DEF NodeReports
  <2>2. b \in Biots
    BY CliConstants
  <2>3. RowsKept
    BY <2>1, <2>2, ObserveRows
  <2> QED
    BY <1>4, <2>3 DEF NodeReports
<1> QED
  BY <1>3, <1>4

-----------------------------------------------------------------------------
(* What a request does to the command.                                     *)

Phase == Program(job)[step + 1]

\* A request that is answered, one that leaves the command where it is, and one that ends it.
Moved == Proceed \/ (step' = step /\ said' = "") \/ (step' = step /\ said' \notin {"", "ready", "done"})

\* What a request of each kind may change.
Effects ==
  /\ Phase \notin {"resolve", "create"} => view'.id = view.id
  /\ Phase = "create" => view'.id = job.id
  /\ Phase \notin Changing \cup {"create", "latest"} => operation' = operation
  /\ Phase = "create" => operation' \in {operation, 1}
  /\ Phase \in Changing => operation' \in {0, operation} \cup Revisions /\ view.id \in Biots
  /\ Phase \in Changing => operation' = operation \/ Proceed
  /\ Phase \notin {"resolve", "list"} => listed' = listed
  /\ delivered' = IF Phase \in {"credential", "secret"} THEN delivered + 1 ELSE delivered
  /\ Phase \in {"credential", "secret"} => Proceed \/ said' = "failed"
  /\ Phase = "operation" => ops' = ops
  /\ Phase = "operation" /\ step' # step =>
       operation = 0 \/ ops[view.id][operation].outcome = "succeeded"
  /\ Phase = "list" => List
  /\ Phase = "resolve" => ResolveId \/ ResolveName

RequestFacts ==
  /\ job.cmd # "none" /\ said = "" /\ job' = job /\ begun' = begun
  /\ Moved /\ Effects /\ RowsKept

\* An answer that ends the command.
LEMMA EndMoves ==
  ASSUME NEW why \in {"failed", "not-found", "ambiguous", "no-failure", "refused", "status",
                      "operation-failed", "superseded", "waiting", "failure"},
         End(why)
  PROVE  Moved /\ step' = step
BY DEF End, Moved

\* client.go, biot.go: a request that only reads.
LEMMA ReadingFacts ==
  ASSUME LifecycleInv,
         List \/ ResolveId \/ ResolveName \/ ReadView \/ Read \/ Failure \/ Latest \/ RunSSH
  PROVE  RequestFacts
<1>1. RowsKept
  BY SameRows DEF List, ResolveId, ResolveName, ReadView, Read, Failure, Latest, RunSSH, serverVars
<1>2. CASE List
  BY <1>1, <1>2 DEF List, RequestFacts, At, Phase, Moved, Effects, Changing
<1>3. CASE ResolveId
  BY <1>1, <1>3, EndMoves DEF ResolveId, RequestFacts, At, Phase, Moved, Effects, Changing
<1>4. CASE ResolveName
  BY <1>1, <1>4, EndMoves DEF ResolveName, RequestFacts, At, Phase, Moved, Effects, Changing
<1>5. CASE ReadView
  BY <1>1, <1>5 DEF ReadView, RequestFacts, At, Phase, Moved, Effects, Changing, BiotView
<1>6. CASE Read
  BY <1>1, <1>6 DEF Read, RequestFacts, At, Phase, Moved, Effects, Changing
<1>7. CASE Failure
  BY <1>1, <1>7, EndMoves DEF Failure, RequestFacts, At, Phase, Moved, Effects, Changing
<1>8. CASE Latest
  BY <1>1, <1>8 DEF Latest, RequestFacts, At, Phase, Moved, Effects, Changing
<1>9. CASE RunSSH
  BY <1>1, <1>9, EndMoves DEF RunSSH, RequestFacts, At, Phase, Moved, Effects, Changing
<1> QED
  BY <1>2, <1>3, <1>4, <1>5, <1>6, <1>7, <1>8, <1>9

\* lifecycle.go:414-517: a poll.
LEMMA PollFacts ==
  ASSUME LifecycleInv,
         \/ PollOperation \/ PollWaiting
         \/ \E phase \in {"allocation", "prepared", "running"} : PollBiot(phase)
  PROVE  RequestFacts
<1>1. RowsKept
  BY SameRows DEF PollOperation, PollWaiting, PollBiot, serverVars
<1>2. CASE PollOperation
  <2>1. ops' = ops
    BY <1>2 DEF PollOperation, serverVars, lifecycleVars
  <2> QED
    BY <1>1, <1>2, <2>1, EndMoves
       DEF PollOperation, OutcomeEnds, RequestFacts, At, Phase, Moved, Effects, Changing
<1>3. CASE PollWaiting
  <2>1. ops' = ops
    BY <1>3 DEF PollWaiting, serverVars, lifecycleVars
  <2> QED
    BY <1>1, <1>3, <2>1, EndMoves DEF PollWaiting, RequestFacts, At, Phase, Moved, Effects, Changing
<1>4. ASSUME NEW phase \in {"allocation", "prepared", "running"}, PollBiot(phase)
      PROVE  RequestFacts
  BY <1>1, <1>4, EndMoves DEF PollBiot, RequestFacts, At, Phase, Moved, Effects, Changing
<1> QED
  BY <1>2, <1>3, <1>4

\* client.go:409-442, 481-557: a delivery, and a setting.
LEMMA SettingFacts ==
  ASSUME LifecycleInv, Deliver \/ Set
  PROVE  RequestFacts
<1>1. RowsKept
  BY SameRows DEF Deliver, Set, serverVars
<1>2. CASE Deliver
  <2>1. Proceed \/ said' = "failed"
    BY <1>2 DEF Deliver, End
  <2> QED
    BY <1>1, <1>2, <2>1, EndMoves DEF Deliver, RequestFacts, At, Phase, Moved, Effects, Changing
<1>3. CASE Set
  BY <1>1, <1>3, EndMoves DEF Set, RequestFacts, At, Phase, Moved, Effects, Changing
<1> QED
  BY <1>2, <1>3

\* client.go:376-401: a creation and a change, on the biot that the command has found.
LEMMA ChangingFacts ==
  ASSUME LifecycleInv, CommandInv, CreateBiot \/ \E phase \in Changing : Submit(phase)
  PROVE  RequestFacts
<1>1. job \in Jobs
  <2>1. job.cmd # "none"
    BY DEF CreateBiot, Submit, At
  <2>2. NoJob.cmd = "none"
    BY DEF NoJob
  <2> QED
    BY <2>1, <2>2 DEF CommandInv
<1>2. CASE CreateBiot
  <2>1. RowsKept
    <3>1. job.id \in Biots
      BY <1>1 DEF Jobs
    <3>2. CASE UNCHANGED lifecycleVars
      BY <3>2, SameRows
    <3>3. CASE \E env \in Envs :
                 Create(job.id, IF job.credentials + job.secrets > 0 THEN "stopped" ELSE "running", env)
      BY <3>1, <3>3, CreateRows
    <3> QED
      BY <1>2, <3>2, <3>3 DEF CreateBiot
  <2>2. view'.id = job.id
    BY <1>2 DEF CreateBiot, NoView
  <2> QED
    BY <1>2, <2>1, <2>2, EndMoves DEF CreateBiot, Answered, RequestFacts, At, Phase, Moved, Effects, Changing
<1>3. ASSUME NEW phase \in Changing, Submit(phase)
      PROVE  RequestFacts
  <2>1. view.id \in Biots
    <3>1. step \in 0..(Len(Program(job)) - 1) /\ Program(job)[step + 1] = phase
      BY <1>1, <1>3 DEF Submit, At, CommandInv
    <3>2. Shape(job, Program(job))
      BY <1>1, ProgramShape
    <3>3. step + 1 > 1 /\ job.cmd \notin Account
      BY <1>3, <3>1, <3>2 DEF Shape
    <3> QED
      <4>1. Len(Program(job)) \in Nat
        BY <3>2 DEF Shape
      <4>2. step # 0
        BY <3>1, <3>3, <4>1
      <4> QED
        BY <3>3, <4>2 DEF CommandInv
  <2>2. PICK change \in Asked(phase) :
       \/ /\ IF phase = "destroy" THEN Change(view.id, change)
                                 ELSE ChangeLifecycle(view.id, view.revision, change)
          /\ Answered(biot[view.id].revision + 1)
       \/ /\ operation' = 0 /\ Proceed /\ UNCHANGED lifecycleVars
       \/ End("refused") /\ UNCHANGED <<lifecycleVars, operation>>
    BY <1>3 DEF Submit
  <2>3. change \in Changes
    BY <1>3, <2>2 DEF Asked, Changes, Changing
  <2>4. CASE Change(view.id, change) /\ Answered(biot[view.id].revision + 1)
    <3>1. RowsKept /\ biot[view.id].revision + 1 \in Revisions
      BY <2>1, <2>3, <2>4, ChangeRows
    <3>2. Moved /\ operation' \in {operation} \cup Revisions /\ (operation' = operation \/ Proceed)
      BY <2>4, <3>1, EndMoves DEF Answered, Moved
    <3> QED
      BY <1>3, <2>1, <3>1, <3>2 DEF Submit, RequestFacts, At, Phase, Effects, Changing
  <2>5. CASE UNCHANGED lifecycleVars /\ operation' \in {0, operation} /\ Moved
             /\ (operation' = operation \/ Proceed)
    <3>1. RowsKept
      BY <2>5, SameRows
    <3> QED
      BY <1>3, <2>1, <2>5, <3>1 DEF Submit, RequestFacts, At, Phase, Effects, Changing
  <2> QED
    BY <2>2, <2>4, <2>5, EndMoves DEF ChangeLifecycle, Moved
<1> QED
  BY <1>2, <1>3

-----------------------------------------------------------------------------
(* The pages of a listing.                                                 *)

\* The elements of a finite set of numbers stand at the places from 1 to its size, in their order.
LEMMA Places ==
  ASSUME NEW set, set \subseteq Nat, IsFiniteSet(set)
  PROVE  /\ Cardinality(set) \in Nat
         /\ \A b \in set : Place(b, set) \in 1..Cardinality(set)
         /\ \A a, b \in set : a < b => Place(a, set) < Place(b, set)
         /\ \A i \in 1..Cardinality(set) : \E b \in set : Place(b, set) = i
<1> DEFINE n == Cardinality(set)
           Below(b) == {c \in set : c <= b}
           place == [b \in set |-> Place(b, set)]
<1>1. n \in Nat
  BY FS_CardinalityType
<1>2. \A b \in set : IsFiniteSet(Below(b)) /\ Cardinality(Below(b)) \in Nat /\ Cardinality(Below(b)) <= n
  <2> SUFFICES ASSUME NEW b \in set
               PROVE  IsFiniteSet(Below(b)) /\ Cardinality(Below(b)) \in Nat /\ Cardinality(Below(b)) <= n
    OBVIOUS
  <2>1. Below(b) \in SUBSET set
    OBVIOUS
  <2> HIDE DEF Below
  <2>2. IsFiniteSet(Below(b)) /\ Cardinality(Below(b)) <= n
    BY <2>1, FS_Subset
  <2> QED
    BY <2>2, FS_CardinalityType
<1>3. \A b \in set : Place(b, set) \in 1..n
  <2> SUFFICES ASSUME NEW b \in set PROVE Place(b, set) \in 1..n
    OBVIOUS
  <2>1. Below(b) # {}
    <3>1. b \in Nat /\ b <= b
      OBVIOUS
    <3> QED
      BY <3>1
  <2> DEFINE below == Below(b)
  <2>2. Place(b, set) = Cardinality(below)
    BY DEF Place
  <2>3. IsFiniteSet(below) /\ Cardinality(below) \in Nat /\ Cardinality(below) <= n
    BY <1>2
  <2> HIDE DEF below
  <2>4. Cardinality(below) # 0
    BY <2>1, <2>3, FS_EmptySet DEF below
  <2> QED
    BY <1>1, <2>2, <2>3, <2>4
<1>4. \A a, b \in set : a < b => Place(a, set) < Place(b, set)
  <2> SUFFICES ASSUME NEW a \in set, NEW b \in set, a < b
               PROVE  Place(a, set) < Place(b, set)
    OBVIOUS
  <2> DEFINE lower == Below(a)
             higher == Below(b)
  <2>1. lower \in SUBSET higher /\ b \in higher /\ b \notin lower
    <3>1. a \in Nat /\ b \in Nat
      OBVIOUS
    <3>2. \A c \in lower : c \in higher
      BY <3>1
    <3>3. b <= b /\ ~(b <= a)
      BY <3>1
    <3> QED
      BY <3>2, <3>3
  <2>2. Place(a, set) = Cardinality(lower) /\ Place(b, set) = Cardinality(higher)
    BY DEF Place
  <2>3. IsFiniteSet(higher) /\ Cardinality(higher) \in Nat /\ Cardinality(lower) \in Nat
    BY <1>2
  <2> HIDE DEF lower, higher
  <2>4. Cardinality(lower) <= Cardinality(higher) /\ Cardinality(lower) # Cardinality(higher)
    BY <2>1, <2>3, FS_Subset
  <2> QED
    BY <2>2, <2>3, <2>4
<1>5. \A i \in 1..n : \E b \in set : Place(b, set) = i
  <2>1. place \in [set -> 1..n]
    BY <1>3
  <2>2. \A a, b \in set : a # b => place[a] # place[b]
    BY <1>3, <1>4
  <2>3. IsFiniteSet(1..n) /\ Cardinality(1..n) = n
    BY <1>1, FS_Interval
  <2> HIDE DEF place
  <2>4. place \in Injection(set, 1..n)
    BY <2>1, <2>2 DEF Injection, IsInjective
  <2>5. place \in Surjection(set, 1..n)
    BY <2>3, <2>4, FS_Injection
  <2>6. \A i \in 1..n : \E b \in set : place[b] = i
    BY <2>5 DEF Surjection
  <2> QED
    BY <2>6 DEF place
<1> QED
  BY <1>1, <1>3, <1>4, <1>5

\* The elements of a sequence, and a sequence in the order of the ids.
Elements(s) == {s[i] : i \in DOMAIN s}
Views(s) == s \in Seq(Elements(s)) /\ \A i \in 1..Len(s) : s[i].id \in Biots
Ascending(s) == \A i, j \in 1..Len(s) : i < j => s[i].id < s[j].id
Holding(s, b) == \E i \in 1..Len(s) : s[i].id = b

\* Two sequences of views make one, which holds what they hold.
LEMMA JoinedViews ==
  ASSUME NEW s, NEW t, Views(s), Views(t)
  PROVE  /\ Views(s \o t) /\ Len(s \o t) = Len(s) + Len(t)
         /\ Len(s) \in Nat /\ Len(t) \in Nat
         /\ \A i \in 1..Len(s) : (s \o t)[i] = s[i]
         /\ \A i \in 1..Len(t) : (s \o t)[Len(s) + i] = t[i]
         /\ \A i \in 1..(Len(s) + Len(t)) :
              i \in 1..Len(s) \/ (i - Len(s) \in 1..Len(t) /\ (s \o t)[i] = t[i - Len(s)])
<1> DEFINE all == Elements(s) \cup Elements(t)
           both == s \o t
<1>1. s \in Seq(all) /\ t \in Seq(all)
  <2>1. Elements(s) \subseteq all /\ Elements(t) \subseteq all
    OBVIOUS
  <2>2. s \in Seq(Elements(s)) /\ t \in Seq(Elements(t))
    BY DEF Views
  <2> HIDE DEF all
  <2> QED
    BY <2>1, <2>2, SeqMonotonic
<1> HIDE DEF all
<1>2. /\ both \in Seq(all) /\ Len(both) = Len(s) + Len(t)
      /\ \A i \in 1..(Len(s) + Len(t)) : both[i] = IF i <= Len(s) THEN s[i] ELSE t[i - Len(s)]
  BY <1>1, ConcatProperties
<1>3. Len(s) \in Nat /\ Len(t) \in Nat
  BY <1>1, LenProperties
<1> HIDE DEF both
<1>4. \A i \in 1..Len(s) : both[i] = s[i]
  BY <1>2, <1>3
<1>5. \A i \in 1..Len(t) : both[Len(s) + i] = t[i]
  <2> SUFFICES ASSUME NEW i \in 1..Len(t) PROVE both[Len(s) + i] = t[i]
    OBVIOUS
  <2>1. Len(s) + i \in 1..(Len(s) + Len(t)) /\ ~(Len(s) + i <= Len(s)) /\ (Len(s) + i) - Len(s) = i
    BY <1>3
  <2> QED
    BY <1>2, <2>1
<1>6. \A i \in 1..(Len(s) + Len(t)) :
        i \in 1..Len(s) \/ (i - Len(s) \in 1..Len(t) /\ both[i] = t[i - Len(s)])
  BY <1>2, <1>3
<1>7. Views(both)
  <2>1. \A i \in 1..Len(both) : both[i].id \in Biots
    BY <1>2, <1>3, <1>4, <1>6 DEF Views
  <2>2. both \in [1..Len(both) -> all] /\ DOMAIN both = 1..Len(both) /\ Len(both) \in Nat
    BY <1>2, LenProperties
  <2>3. both \in [1..Len(both) -> Elements(both)]
    BY <2>2 DEF Elements
  <2>4. both \in Seq(Elements(both))
    BY <2>2, <2>3, SeqDef
  <2> QED
    BY <2>1, <2>4 DEF Views
<1> QED
  BY <1>2, <1>3, <1>4, <1>5, <1>6, <1>7 DEF both

\* queries/biots.ex:76-112: a page holds the first biots behind the cursor, in order, and all of them
\* when it is not full.
LEMMA PageIs ==
  ASSUME NEW after \in Nat
  PROVE  /\ Views(Page(after)) /\ Ascending(Page(after))
         /\ Len(Page(after)) \in Nat
         /\ \A i \in 1..Len(Page(after)) : Page(after)[i].id \in Behind(after)
         /\ \A b \in Behind(after) :
              Len(Page(after)) > 0 /\ b <= Page(after)[Len(Page(after))].id =>
                Holding(Page(after), b)
         /\ Len(Page(after)) < PageSize => \A b \in Behind(after) : Holding(Page(after), b)
<1> DEFINE set == Behind(after)
           n == PageLength(after)
           page == Page(after)
           At2(i) == CHOOSE b \in set : Place(b, set) = i
<1>1. set \subseteq Nat /\ set \subseteq Biots /\ IsFiniteSet(set)
  <2>1. set \in SUBSET Biots
    BY DEF Behind
  <2> QED
    BY <2>1, FS_Subset, LifecycleConstants, CliConstants
<1> HIDE DEF set
<1>2. /\ Cardinality(set) \in Nat
      /\ \A b \in set : Place(b, set) \in 1..Cardinality(set)
      /\ \A a, b \in set : a < b => Place(a, set) < Place(b, set)
      /\ \A i \in 1..Cardinality(set) : \E b \in set : Place(b, set) = i
  BY <1>1, Places
<1>3. n \in Nat /\ n <= Cardinality(set) /\ (n < PageSize => n = Cardinality(set))
  BY <1>2, CliConstants DEF PageLength, set
<1> HIDE DEF n
<1>4. page = [i \in 1..n |-> BiotView(At2(i))]
  BY DEF Page, n, set
<1>5. \A i \in 1..n : At2(i) \in set /\ Place(At2(i), set) = i
  <2> SUFFICES ASSUME NEW i \in 1..n PROVE At2(i) \in set /\ Place(At2(i), set) = i
    OBVIOUS
  <2>1. \E b \in set : Place(b, set) = i
    BY <1>2, <1>3
  <2> QED
    BY <2>1
<1> HIDE DEF page, At2
<1>6. Len(page) = n /\ DOMAIN page = 1..n
  BY <1>3, <1>4
<1>7. \A i \in 1..n : page[i].id = At2(i)
  BY <1>4 DEF BiotView
<1>8. Views(page)
  <2>1. page \in [1..n -> Elements(page)]
    BY <1>4, <1>6 DEF Elements
  <2>2. page \in Seq(Elements(page))
    BY <1>3, <2>1, SeqDef
  <2> QED
    BY <1>1, <1>5, <1>6, <1>7, <2>2 DEF Views
<1>9. Ascending(page)
  <2> SUFFICES ASSUME NEW i \in 1..n, NEW j \in 1..n, i < j
               PROVE  At2(i) < At2(j)
    BY <1>6, <1>7 DEF Ascending
  <2>1. /\ At2(i) \in set /\ At2(j) \in set
        /\ Place(At2(i), set) = i /\ Place(At2(j), set) = j
    BY <1>5
  <2>2. At2(j) < At2(i) => j < i
    BY <1>2, <2>1
  <2>3. At2(i) \in Nat /\ At2(j) \in Nat /\ At2(i) # At2(j)
    <3>1. At2(i) \in Nat /\ At2(j) \in Nat
      BY <1>1, <2>1
    <3>2. i # j
      BY <1>3
    <3> QED
      BY <2>1, <3>1, <3>2
  <2> QED
    BY <1>3, <2>2, <2>3
<1>10. \A b \in set : Place(b, set) <= n => Holding(page, b)
  <2> SUFFICES ASSUME NEW b \in set, Place(b, set) <= n PROVE Holding(page, b)
    OBVIOUS
  <2> DEFINE i == Place(b, set)
  <2>1. i \in 1..n
    BY <1>2, <1>3
  <2>2. At2(i) \in set /\ Place(At2(i), set) = i
    BY <1>5, <2>1
  <2>3. At2(i) = b
    <3>1. b \in Nat /\ At2(i) \in Nat
      BY <1>1, <2>2
    <3>2. ~(b < At2(i))
      <4>1. b < At2(i) => Place(b, set) < Place(At2(i), set)
        BY <1>2, <2>2
      <4> QED
        BY <1>3, <2>1, <2>2, <4>1
    <3>3. ~(At2(i) < b)
      <4>1. At2(i) < b => Place(At2(i), set) < Place(b, set)
        BY <1>2, <2>2
      <4> QED
        BY <1>3, <2>1, <2>2, <4>1
    <3> QED
      BY <3>1, <3>2, <3>3
  <2> QED
    BY <1>6, <1>7, <2>1, <2>3 DEF Holding
<1>11. \A b \in set : n > 0 /\ b <= page[n].id => Holding(page, b)
  <2> SUFFICES ASSUME NEW b \in set, n > 0, b <= page[n].id PROVE Holding(page, b)
    OBVIOUS
  <2>1. page[n].id = At2(n) /\ At2(n) \in set /\ Place(At2(n), set) = n
    BY <1>3, <1>5, <1>7
  <2>2. b \in Nat /\ At2(n) \in Nat
    BY <1>1, <2>1
  <2>3. Place(b, set) <= n
    <3>1. CASE b < At2(n)
      BY <1>2, <1>3, <2>1, <3>1
    <3>2. CASE b = At2(n)
      BY <1>2, <1>3, <2>1, <3>2
    <3> QED
      BY <2>1, <2>2, <3>1, <3>2
  <2> QED
    BY <1>10, <2>3
<1>12. n < PageSize => \A b \in set : Holding(page, b)
  BY <1>2, <1>3, <1>10
<1>13. \A i \in 1..n : page[i].id \in set
  BY <1>5, <1>7
<1> QED
  BY <1>3, <1>6, <1>8, <1>9, <1>11, <1>12, <1>13 DEF page, set

\* The cursor that a listing leads to.
CursorOf(s) == IF s = <<>> THEN 0 ELSE Last(s).id

\* A listing holds every biot, of those there were when it began, up to its cursor.
Covers(s) == \A b \in begun : b <= CursorOf(s) => Holding(s, b)

\* A listing is in order, nothing that there was is gone, and nothing was passed over.
ListingInv ==
  /\ Views(listed) /\ Ascending(listed) /\ Covers(listed)
  /\ begun \subseteq {b \in Biots : Created(b)}
  /\ job.cmd = "list" /\ said = "done" => \A b \in begun : Holding(listed, b)

\* The cursor is the id of the last view.
LEMMA CursorIs ==
  ASSUME NEW s, Views(s)
  PROVE  /\ CursorOf(s) \in Nat /\ Len(s) \in Nat
         /\ Len(s) = 0 => CursorOf(s) = 0
         /\ Len(s) > 0 => CursorOf(s) = s[Len(s)].id
<1>1. s \in Seq(Elements(s)) /\ \A i \in 1..Len(s) : s[i].id \in Biots
  BY DEF Views
<1>2. Len(s) \in Nat /\ (s # <<>> => Len(s) \in Nat \ {0})
  BY <1>1, LenProperties, EmptySeq
<1>3. s = <<>> => Len(s) = 0
  BY EmptySeq
<1>4. CASE s = <<>>
  BY <1>3, <1>4 DEF CursorOf
<1>5. CASE s # <<>>
  <2>1. Len(s) > 0 /\ Len(s) \in 1..Len(s)
    BY <1>2, <1>5
  <2>2. CursorOf(s) = s[Len(s)].id
    BY <1>5 DEF CursorOf, Last
  <2> QED
    <3>1. s[Len(s)].id \in Nat
      BY <1>1, <2>1, CliConstants
    <3> QED
      BY <1>2, <2>1, <2>2, <3>1
<1> QED
  BY <1>4, <1>5

\* client.go:339-362: another page keeps a listing in order and passes nothing over, and a page that
\* is not full completes it.
LEMMA PageKeeps ==
  ASSUME ListingInv
  PROVE  /\ Views(listed \o Page(Cursor)) /\ Ascending(listed \o Page(Cursor))
         /\ Covers(listed \o Page(Cursor))
         /\ LastPage => \A b \in begun : Holding(listed \o Page(Cursor), b)
<1> DEFINE page == Page(Cursor)
           new == listed \o page
<1>1. Cursor = CursorOf(listed)
  BY DEF Cursor, CursorOf
<1>2. /\ Cursor \in Nat /\ Len(listed) \in Nat
      /\ Len(listed) = 0 => Cursor = 0
      /\ Len(listed) > 0 => Cursor = listed[Len(listed)].id
  BY <1>1, CursorIs DEF ListingInv
<1>3. /\ Views(page) /\ Ascending(page) /\ Len(page) \in Nat
      /\ \A i \in 1..Len(page) : page[i].id \in Behind(Cursor)
      /\ \A b \in Behind(Cursor) :
           Len(page) > 0 /\ b <= page[Len(page)].id => Holding(page, b)
      /\ Len(page) < PageSize => \A b \in Behind(Cursor) : Holding(page, b)
  BY <1>2, PageIs
<1>4. /\ Views(new) /\ Len(new) = Len(listed) + Len(page)
      /\ \A i \in 1..Len(listed) : new[i] = listed[i]
      /\ \A i \in 1..Len(page) : new[Len(listed) + i] = page[i]
      /\ \A i \in 1..(Len(listed) + Len(page)) :
           i \in 1..Len(listed) \/ (i - Len(listed) \in 1..Len(page) /\ new[i] = page[i - Len(listed)])
  BY <1>3, JoinedViews DEF ListingInv
<1>5. LastPage <=> Len(page) < PageSize
  BY DEF LastPage
<1> HIDE DEF new, page
<1>6. \A i \in 1..Len(listed) : listed[i].id \in Nat /\ listed[i].id <= Cursor
  <2> SUFFICES ASSUME NEW i \in 1..Len(listed)
               PROVE  listed[i].id \in Nat /\ listed[i].id <= Cursor
    OBVIOUS
  <2>1. Len(listed) > 0 /\ Len(listed) \in 1..Len(listed)
    BY <1>2
  <2>2. listed[i].id \in Biots /\ listed[Len(listed)].id \in Biots
    BY <2>1 DEF ListingInv, Views
  <2>3. listed[i].id \in Nat /\ Cursor \in Nat
    BY <1>2, <2>2, CliConstants
  <2>4. CASE i < Len(listed)
    <3>1. listed[i].id < listed[Len(listed)].id
      BY <2>1, <2>4 DEF ListingInv, Ascending
    <3> QED
      BY <1>2, <2>1, <2>3, <3>1
  <2>5. CASE i = Len(listed)
    BY <1>2, <2>1, <2>3, <2>5
  <2> QED
    BY <1>2, <2>4, <2>5
<1>7. \A i \in 1..Len(page) : page[i].id \in Nat /\ page[i].id > Cursor
  <2>1. \A b \in Behind(Cursor) : b \in Nat /\ b > Cursor
    BY CliConstants DEF Behind
  <2> QED
    BY <1>3, <2>1
<1>8. Ascending(new)
  <2> SUFFICES ASSUME NEW i \in 1..Len(new), NEW j \in 1..Len(new), i < j
               PROVE  new[i].id < new[j].id
    BY DEF Ascending
  <2> USE <1>2, <1>3
  <2>1. CASE j \in 1..Len(listed)
    <3>1. i \in 1..Len(listed)
      BY <1>4, <2>1
    <3> QED
      BY <1>4, <2>1, <3>1 DEF ListingInv, Ascending
  <2>2. CASE i \in 1..Len(listed) /\ j \notin 1..Len(listed)
    <3>1. j - Len(listed) \in 1..Len(page) /\ new[j] = page[j - Len(listed)]
      BY <1>4, <2>2
    <3>2. new[i].id <= Cursor /\ new[j].id > Cursor /\ new[i].id \in Nat /\ new[j].id \in Nat
      BY <1>4, <1>6, <1>7, <2>2, <3>1
    <3> QED
      BY <3>2
  <2>3. CASE i \notin 1..Len(listed)
    <3>1. i - Len(listed) \in 1..Len(page) /\ new[i] = page[i - Len(listed)]
      BY <1>4, <2>3
    <3>2. j - Len(listed) \in 1..Len(page) /\ new[j] = page[j - Len(listed)]
      BY <1>4, <2>3
    <3>3. i - Len(listed) < j - Len(listed)
      BY <1>4
    <3> QED
      BY <3>1, <3>2, <3>3 DEF Ascending
  <2> QED
    BY <2>1, <2>2, <2>3
<1>9. \A b \in begun : Holding(listed, b) => Holding(new, b)
  <2> SUFFICES ASSUME NEW b \in begun, NEW i \in 1..Len(listed), listed[i].id = b
               PROVE  Holding(new, b)
    BY DEF Holding
  <2>1. i \in 1..Len(new) /\ new[i].id = b
    BY <1>2, <1>3, <1>4
  <2> QED
    BY <2>1 DEF Holding
<1>10. \A b \in begun : Holding(page, b) => Holding(new, b)
  <2> SUFFICES ASSUME NEW b \in begun, NEW i \in 1..Len(page), page[i].id = b
               PROVE  Holding(new, b)
    BY DEF Holding
  <2>1. Len(listed) + i \in 1..Len(new) /\ new[Len(listed) + i].id = b
    BY <1>2, <1>3, <1>4
  <2> QED
    BY <2>1 DEF Holding
<1>11. \A b \in begun : b \in Nat /\ (b <= Cursor \/ b \in Behind(Cursor))
  <2>1. \A b \in begun : b \in Nat /\ b \in Biots /\ Created(b)
    BY CliConstants DEF ListingInv
  <2> QED
    BY <1>2, <2>1 DEF Behind
<1>12. \A b \in begun : b <= Cursor => Holding(new, b)
  BY <1>1, <1>9 DEF ListingInv, Covers
<1>13. Covers(new)
  <2> SUFFICES ASSUME NEW b \in begun, b <= CursorOf(new), ~(b <= Cursor)
               PROVE  Holding(new, b)
    BY <1>12 DEF Covers
  <2>1. /\ CursorOf(new) \in Nat /\ Len(new) \in Nat
        /\ Len(new) = 0 => CursorOf(new) = 0
        /\ Len(new) > 0 => CursorOf(new) = new[Len(new)].id
    BY <1>4, CursorIs
  <2>2. b \in Behind(Cursor) /\ b \in Nat
    BY <1>11
  <2>3. CASE Len(page) = 0
    <3>1. Len(new) = Len(listed)
      BY <1>2, <1>4, <2>3
    <3>2. CursorOf(new) = Cursor
      BY <1>2, <1>4, <2>1, <3>1
    <3> QED
      BY <3>2
  <2>4. CASE Len(page) > 0
    <3>1. Len(page) \in 1..Len(page) /\ Len(new) > 0
      BY <1>2, <1>3, <1>4, <2>4
    <3>2. CursorOf(new) = page[Len(page)].id
      BY <1>4, <2>1, <3>1
    <3> QED
      BY <1>3, <1>10, <2>2, <2>4, <3>2
  <2> QED
    BY <1>3, <2>3, <2>4
<1>14. LastPage => \A b \in begun : Holding(new, b)
  BY <1>3, <1>5, <1>10, <1>11, <1>12
<1> QED
  BY <1>4, <1>8, <1>13, <1>14 DEF new, page

-----------------------------------------------------------------------------
(* Every step keeps the command inside its program and its listing whole.  *)

CliInv == LifecycleInv /\ CommandInv /\ ListingInv

\* A listing begins empty.
LEMMA EmptyListing ==
  ASSUME begun \subseteq Biots
  PROVE  Views(<<>>) /\ Ascending(<<>>) /\ Covers(<<>>)
<1>1. <<>> \in Seq(Elements(<<>>)) /\ Len(<<>>) = 0
  BY EmptySeq
<1>2. CursorOf(<<>>) = 0
  BY DEF CursorOf
<1>3. \A b \in begun : ~(b <= 0)
  BY CliConstants
<1> QED
  BY <1>1, <1>2, <1>3 DEF Views, Ascending, Covers

\* The server and the client start with nothing.
LEMMA CliStart == CliInit => CliInv
<1> SUFFICES ASSUME CliInit PROVE CliInv
  OBVIOUS
<1>1. LifecycleInv
  BY LifecycleStart DEF CliInit
<1>2. CommandInv
  BY NoJobIsNone DEF CliInit, CommandInv, NoView
<1>3. ListingInv
  <2>1. begun \subseteq Biots /\ begun = {} /\ listed = <<>> /\ said = ""
    BY DEF CliInit
  <2> QED
    BY <2>1, EmptyListing DEF ListingInv
<1> QED
  BY <1>1, <1>2, <1>3 DEF CliInv

\* A request of a command is one of those its program makes.
LEMMA RequestStep ==
  ASSUME CliInv, CliStep
  PROVE  RequestFacts /\ job \in Jobs /\ step \in 0..(Len(Program(job)) - 1)
<1>1. RequestFacts
  BY ReadingFacts, PollFacts, SettingFacts, ChangingFacts DEF CliInv, CliStep
<1>2. job \in Jobs
  <2>1. job.cmd # "none" /\ NoJob.cmd = "none"
    BY <1>1 DEF RequestFacts, NoJob
  <2> QED
    BY <2>1 DEF CliInv, CommandInv
<1> QED
  BY <1>1, <1>2 DEF CliInv, CommandInv, RequestFacts

\* What a command is given is one of its jobs, and nothing has been done for it.
LEMMA GiveFacts ==
  ASSUME CliInv, Give
  PROVE  /\ job = NoJob /\ job' \in Jobs /\ begun' = {b \in Biots : Created(b)}
         /\ UNCHANGED <<lifecycleVars, step, listed, view, operation, delivered, said>>
         /\ step = 0 /\ listed = <<>> /\ view = NoView /\ operation = 0 /\ delivered = 0 /\ said = ""
<1>1. job' \in Jobs
  <2>1. PICK cmd \in Commands, b \in Biots, name \in Names \cup {""},
             credentials \in 0..MaxValues, secrets \in 0..MaxValues :
          job' = [cmd |-> cmd, name |-> name, id |-> b, credentials |-> credentials,
                  secrets |-> secrets]
    BY DEF Give
  <2>2. cmd \in AllCommands
    BY CommandConstants
  <2> QED
    BY <2>1, <2>2 DEF Jobs
<1> QED
  BY <1>1 DEF Give, serverVars, CliInv, CommandInv

\* A request that fails ends the command.
LEMMA FailFacts ==
  ASSUME RequestFails
  PROVE  /\ said' = "failed" /\ said = "" /\ job # NoJob
         /\ UNCHANGED <<lifecycleVars, job, step, listed, begun, view, operation, delivered>>
BY DEF RequestFails, End, serverVars

\* A listing stays whole.
LEMMA ListingStep ==
  ASSUME CliInv, [CliNext]_cliVars
  PROVE  ListingInv'
<1>1. \A b \in begun : b \in Biots /\ Created(b)
  BY DEF CliInv, ListingInv
<1>2. ASSUME UNCHANGED <<listed, begun>>, \A b \in Biots : Created(b) => Created(b)',
             job'.cmd = "list" /\ said' = "done" => \A b \in begun : Holding(listed, b)
      PROVE  ListingInv'
  <2>1. begun' \subseteq {b \in Biots : Created(b)'}
    BY <1>1, <1>2
  <2> QED
    BY <1>2, <2>1 DEF CliInv, ListingInv, Covers, Created
<1>3. CASE Give
  <2>1. /\ job' \in Jobs /\ begun' = {b \in Biots : Created(b)} /\ listed' = <<>> /\ said' = ""
        /\ biot' = biot
    BY <1>3, GiveFacts DEF lifecycleVars
  <2>2. \A b \in begun' : ~(b <= 0)
    <3>1. \A b \in Biots : ~(b <= 0)
      BY CliConstants
    <3> QED
      BY <2>1, <3>1
  <2>3. Views(<<>>) /\ Ascending(<<>>)
    BY <1>1, EmptyListing
  <2>4. CursorOf(<<>>) = 0
    BY DEF CursorOf
  <2>5. (Views(listed) /\ Ascending(listed) /\ Covers(listed))'
    BY <2>1, <2>2, <2>3, <2>4 DEF Covers
  <2> QED
    BY <2>1, <2>5 DEF ListingInv, Created
<1>4. CASE RequestFails
  BY <1>2, <1>4, FailFacts DEF lifecycleVars, Created
<1>5. CASE Others \/ NodeReports
  <2>1. RowsKept /\ UNCHANGED command /\ said = ""
    BY <1>5, OthersRows DEF CliInv
  <2> QED
    BY <1>2, <2>1 DEF RowsKept, command
<1>6. CASE UNCHANGED cliVars
  BY <1>2, <1>6 DEF cliVars, serverVars, lifecycleVars, Created, CliInv, ListingInv
<1>7. CASE CliStep
  <2>1. RequestFacts /\ job \in Jobs /\ step \in 0..(Len(Program(job)) - 1)
    BY <1>7, RequestStep
  <2>2. Shape(job, Program(job))
    BY <2>1, ProgramShape
  <2>3. /\ job' = job /\ begun' = begun /\ \A b \in Biots : Created(b) => Created(b)'
        /\ said = "" /\ Moved /\ Effects
    BY <2>1 DEF RequestFacts, RowsKept
  <2>4. begun' \subseteq {b \in Biots : Created(b)'}
    BY <1>1, <2>3
  <2>5. ASSUME NEW s, listed' = s, Views(s), Ascending(s), Covers(s),
               job.cmd = "list" /\ said' = "done" => \A b \in begun : Holding(s, b)
        PROVE  ListingInv'
    <3>1. Views(listed') /\ Ascending(listed') /\ (Covers(listed))'
      BY <2>3, <2>5 DEF Covers
    <3> QED
      BY <2>3, <2>4, <2>5, <3>1 DEF ListingInv, Views, Ascending, Created
  <2>6. Len(Program(job)) \in Nat /\ step + 1 \in 1..Len(Program(job))
    BY <2>1, <2>2 DEF Shape
  <2>7. CASE Phase = "list"
    <3>1. List
      BY <2>3, <2>7 DEF Effects
    <3>2. listed' = listed \o Page(Cursor)
      BY <3>1 DEF List, NextPage
    <3>3. said' = "done" => LastPage
      BY <2>3, <3>1 DEF List
    <3> QED
      BY <2>5, <3>2, <3>3, PageKeeps DEF CliInv
  <2>8. CASE Phase = "resolve"
    <3>1. job.cmd # "list"
      BY <2>2, <2>6, <2>8 DEF Shape, Phase
    <3>2. listed' \in {listed, listed \o Page(Cursor), <<>>}
      BY <2>3, <2>8 DEF Effects, ResolveId, ResolveName, NextPage
    <3>3. Views(<<>>) /\ Ascending(<<>>) /\ Covers(<<>>)
      BY <1>1, EmptyListing
    <3> QED
      BY <2>5, <3>1, <3>2, <3>3, PageKeeps DEF CliInv, ListingInv
  <2>9. CASE Phase \notin {"list", "resolve"}
    <3>1. listed' = listed
      BY <2>3, <2>9 DEF Effects
    <3>2. job.cmd # "list"
      <4>1. job.cmd = "list" => Program(job)[1] = "list" /\ Len(Program(job)) = 1
        BY <2>2 DEF Shape
      <4>2. job.cmd = "list" => step + 1 = 1
        <5> SUFFICES ASSUME job.cmd = "list" PROVE step + 1 = 1
          OBVIOUS
        <5>1. step + 1 \in 1..1
          BY <2>6, <4>1
        <5>2. \A i \in 1..1 : i = 1
          OBVIOUS
        <5> QED
          BY <5>1, <5>2
      <4> QED
        BY <2>9, <4>1, <4>2 DEF Phase
    <3> QED
      BY <2>5, <3>1, <3>2 DEF CliInv, ListingInv
  <2> QED
    BY <2>7, <2>8, <2>9
<1> QED
  BY <1>3, <1>4, <1>5, <1>6, <1>7 DEF CliNext

\* biot.go:15-41: the view that a reference is resolved to is one of a biot, and, when the reference is
\* a name, the only one of that name among the biots there were.
LEMMA ResolvedView ==
  ASSUME CliInv, job \in Jobs, ResolveId \/ ResolveName
  PROVE  \/ step' = step /\ view' = view
         \/ /\ view'.id \in Biots
            /\ job.name # "" => \A b \in begun : NameOf[b] = job.name => b = view'.id
<1>1. CASE ResolveId
  <2>1. job.id \in Biots
    BY DEF Jobs
  <2>2. BiotView(job.id).id = job.id
    BY DEF BiotView
  <2>3. job.name = "" /\ (view' = BiotView(job.id) \/ (step' = step /\ view' = view))
    BY <1>1 DEF ResolveId, End
  <2> QED
    BY <2>1, <2>2, <2>3
<1>2. CASE ResolveName
  <2> DEFINE views == listed \o Page(Cursor)
             matches == Named(views, job.name)
  <2>1. CASE ~LastPage
    BY <1>2, <2>1 DEF ResolveName
  <2>2. CASE LastPage
    <3>1. Views(views) /\ \A b \in begun : Holding(views, b)
      BY <2>2, PageKeeps DEF CliInv
    <3>2. \/ step' = step /\ view' = view
          \/ \E i \in matches : matches = {i} /\ view' = views[i]
      BY <1>2, <2>2 DEF ResolveName, End
    <3> HIDE DEF views
    <3>3. ASSUME NEW i \in matches, matches = {i}, view' = views[i]
          PROVE  /\ view'.id \in Biots
                 /\ \A b \in begun : NameOf[b] = job.name => b = view'.id
      <4>1. views \in Seq(Elements(views)) /\ \A k \in 1..Len(views) : views[k].id \in Biots
        BY <3>1 DEF Views
      <4>2. DOMAIN views = 1..Len(views)
        BY <4>1, LenProperties
      <4>3. i \in 1..Len(views)
        BY <4>2 DEF Named
      <4>4. ASSUME NEW b \in begun, NameOf[b] = job.name
            PROVE  b = view'.id
        <5>1. PICK k \in 1..Len(views) : views[k].id = b
          BY <3>1 DEF Holding
        <5>2. k \in matches
          BY <4>2, <4>4, <5>1 DEF Named
        <5> QED
          BY <3>3, <5>1, <5>2
      <4> QED
        BY <3>3, <4>1, <4>3, <4>4
    <3> QED
      BY <3>2, <3>3
  <2> QED
    BY <2>1, <2>2
<1> QED
  BY <1>1, <1>2

\* An answer leads to the next request of the program or ends it.
LEMMA MovedStep ==
  ASSUME Len(Program(job)) \in Nat, step \in 0..(Len(Program(job)) - 1), Moved, job' = job
  PROVE  /\ said' = "" => step' \in 0..(Len(Program(job)) - 1)
         /\ step' # step => step' = step + 1 /\ Proceed
         /\ said' \in {"ready", "done"} => step + 1 = Len(Program(job)) /\ Proceed
<1> DEFINE n == Len(Program(job))
<1>3. n \in Nat /\ step \in 0..(n - 1)
  OBVIOUS
<1>1. CASE Proceed
  <2>1. /\ step' = step + 1
        /\ said' = IF step + 1 < n THEN ""
                   ELSE IF job.cmd \in {"create", "restart"} THEN "ready" ELSE "done"
    BY <1>1 DEF Proceed
  <2>5. step' = step + 1
    BY <2>1
  <2> HIDE DEF n
  <2>4. step \in Nat /\ step <= n - 1
    BY <1>3
  <2>2. CASE step + 1 < n
    <3>1. step' \in 0..(n - 1)
      BY <1>3, <2>2, <2>4, <2>5
    <3>2. said' = ""
      BY <2>1, <2>2
    <3> QED
      BY <1>1, <2>5, <3>1, <3>2 DEF n
  <2>3. CASE ~(step + 1 < n)
    <3>1. step + 1 = n /\ step' # step
      BY <1>3, <2>3, <2>4, <2>5
    <3>2. said' # ""
      BY <2>1, <2>3
    <3> QED
      BY <1>1, <2>5, <3>1, <3>2 DEF n
  <2> QED
    BY <2>2, <2>3
<1>2. CASE step' = step /\ said' \notin {"ready", "done"}
  BY <1>2
<1> QED
  BY <1>1, <1>2 DEF Moved

\* The command stays inside its program, on the biot it has found.
LEMMA CommandStep ==
  ASSUME CliInv, [CliNext]_cliVars
  PROVE  CommandInv'
<1>1. CASE Give
  <2>1. /\ job' \in Jobs /\ step' = 0 /\ view' = NoView
    BY <1>1, GiveFacts
  <2>2. job' # NoJob
    BY <2>1, NoJobIsNone
  <2>3. Len(Program(job')) \in Nat /\ Len(Program(job')) > 0
    BY <2>1, ProgramShape DEF Shape
  <2>4. step' \in 0..(Len(Program(job')) - 1)
    BY <2>1, <2>3
  <2> QED
    BY <2>1, <2>2, <2>4 DEF CommandInv, NoView
<1>2. CASE RequestFails
  BY <1>2, FailFacts DEF CliInv, CommandInv
<1>3. CASE Others \/ NodeReports
  BY <1>3, OthersRows DEF CliInv, CommandInv, command
<1>4. CASE UNCHANGED cliVars
  BY <1>4 DEF cliVars, CliInv, CommandInv
<1>5. CASE CliStep
  <2>1. RequestFacts /\ job \in Jobs /\ step \in 0..(Len(Program(job)) - 1)
    BY <1>5, RequestStep
  <2>2. Shape(job, Program(job))
    BY <2>1, ProgramShape
  <2>3. Len(Program(job)) \in Nat /\ Len(Program(job)) > 0
    BY <2>2 DEF Shape
  <2>4. /\ said' = "" => step' \in 0..(Len(Program(job)) - 1)
        /\ step' # step => step' = step + 1 /\ Proceed
    BY <2>1, <2>3, MovedStep DEF RequestFacts
  <2>5. job' = job /\ job # NoJob /\ Effects
    BY <2>1, NoJobIsNone DEF RequestFacts
  <2>6. view'.id \in Biots \/ (view'.id = 0 /\ (step' = 0 \/ job.cmd \in Account))
    <3>1. CASE Phase = "create"
      BY <2>1, <2>5, <3>1 DEF Effects, Jobs
    <3>2. CASE Phase = "resolve"
      <4>1. ResolveId \/ ResolveName
        BY <2>5, <3>2 DEF Effects
      <4>2. (step' = step /\ view' = view) \/ view'.id \in Biots
        BY <2>1, <4>1, ResolvedView
      <4>3. view.id \in Biots \/ (view.id = 0 /\ (step = 0 \/ job.cmd \in Account))
        BY DEF CliInv, CommandInv
      <4> QED
        BY <4>2, <4>3
    <3>3. CASE Phase \notin {"create", "resolve"}
      <4>1. view'.id = view.id
        BY <2>5, <3>3 DEF Effects
      <4>2. CASE view.id \in Biots \/ job.cmd \in Account
        BY <4>1, <4>2 DEF CliInv, CommandInv
      <4>3. CASE step = 0 /\ job.cmd \notin Account
        <5>1. Program(job)[1] \in {"create", "resolve"}
          BY <2>2, <4>3 DEF Shape
        <5> QED
          BY <3>3, <4>3, <5>1 DEF Phase
      <4> QED
        BY <4>2, <4>3 DEF CliInv, CommandInv
    <3> QED
      BY <3>1, <3>2, <3>3
  <2> QED
    BY <2>1, <2>4, <2>5, <2>6 DEF CommandInv
<1> QED
  BY <1>1, <1>2, <1>3, <1>4, <1>5 DEF CliNext

\* Whatever a command, other clients, the operator and the node do, the rows are kept.
LEMMA RowsStep ==
  ASSUME CliInv, [CliNext]_cliVars
  PROVE  RowsKept
<1>1. CASE Give
  BY <1>1, GiveFacts, SameRows DEF CliInv
<1>2. CASE RequestFails
  BY <1>2, FailFacts, SameRows DEF CliInv
<1>3. CASE Others \/ NodeReports
  BY <1>3, OthersRows DEF CliInv
<1>4. CASE UNCHANGED cliVars
  BY <1>4, SameRows DEF CliInv, cliVars, serverVars
<1>5. CASE CliStep
  BY <1>5, RequestStep DEF RequestFacts
<1> QED
  BY <1>1, <1>2, <1>3, <1>4, <1>5 DEF CliNext

\* Every step keeps the rows, the command inside its program and its listing whole.
LEMMA CliInvStep == CliInv /\ [CliNext]_cliVars => CliInv'
<1> SUFFICES ASSUME CliInv, [CliNext]_cliVars PROVE CliInv'
  OBVIOUS
<1>1. LifecycleInv'
  BY RowsStep DEF RowsKept
<1>2. CommandInv'
  BY CommandStep
<1>3. ListingInv'
  BY ListingStep
<1> QED
  BY <1>1, <1>2, <1>3 DEF CliInv

-----------------------------------------------------------------------------
(* Names.                                                                  *)

\* biot.go:15-41: a step keeps a name resolved to the only biot of that name.
LEMMA ResolvedStep == CliInv /\ ResolvesUniquely /\ [CliNext]_cliVars => ResolvesUniquely'
<1> SUFFICES ASSUME CliInv, ResolvesUniquely, [CliNext]_cliVars PROVE ResolvesUniquely'
  OBVIOUS
<1>1. CASE Give
  <2>1. view' = NoView
    BY <1>1, GiveFacts
  <2>2. NoView.id = 0
    BY DEF NoView
  <2> QED
    BY <2>1, <2>2 DEF ResolvesUniquely
<1>2. CASE RequestFails
  BY <1>2, FailFacts DEF ResolvesUniquely
<1>3. CASE Others \/ NodeReports
  BY <1>3, OthersRows DEF CliInv, ResolvesUniquely, command
<1>4. CASE UNCHANGED cliVars
  BY <1>4 DEF cliVars, ResolvesUniquely
<1>5. CASE CliStep
  <2>1. RequestFacts /\ job \in Jobs /\ step \in 0..(Len(Program(job)) - 1)
    BY <1>5, RequestStep
  <2>2. Shape(job, Program(job))
    BY <2>1, ProgramShape
  <2>3. job' = job /\ begun' = begun /\ Effects
    BY <2>1 DEF RequestFacts
  <2>4. Len(Program(job)) \in Nat /\ step + 1 \in 1..Len(Program(job))
    BY <2>1, <2>2 DEF Shape
  <2>5. CASE Phase = "create"
    <3>1. job.cmd = "create"
      BY <2>2, <2>4, <2>5 DEF Shape, Phase
    <3> QED
      BY <2>3, <3>1 DEF ResolvesUniquely
  <2>6. CASE Phase = "resolve"
    <3>1. ResolveId \/ ResolveName
      BY <2>3, <2>6 DEF Effects
    <3>2. \/ view' = view
          \/ job.name # "" => \A b \in begun : NameOf[b] = job.name => b = view'.id
      BY <2>1, <3>1, ResolvedView
    <3> QED
      BY <2>3, <3>2 DEF ResolvesUniquely
  <2>7. CASE Phase \notin {"create", "resolve"}
    <3>1. view'.id = view.id
      BY <2>3, <2>7 DEF Effects
    <3> QED
      BY <2>3, <3>1 DEF ResolvesUniquely
  <2> QED
    BY <2>5, <2>6, <2>7
<1> QED
  BY <1>1, <1>2, <1>3, <1>4, <1>5 DEF CliNext

-----------------------------------------------------------------------------
(* Success.                                                                *)

\* A command that waits for a running biot, or has ended with one, has seen its operation succeed;
\* so has a wait that is done.
EarnedInv ==
  /\ job.cmd \in Readying /\ operation # 0 => operation \in Revisions /\ view.id \in Biots
  /\ job.cmd \in Readying /\ said = "" /\ Phase = "running" /\ operation # 0 =>
       ops[view.id][operation].outcome = "succeeded"
  /\ SuccessIsEarned

\* An operation that has succeeded has succeeded for good.
LEMMA SucceededStays ==
  ASSUME EndedStay, NEW b \in Biots, NEW r \in Revisions, ops[b][r].outcome = "succeeded"
  PROVE  ops'[b][r].outcome = "succeeded"
BY DEF EndedStay, Terminal

\* lifecycle.go:414-442: a request keeps success earned.
LEMMA EarnedRequest ==
  ASSUME CliInv, EarnedInv, CliStep
  PROVE  EarnedInv'
<1> DEFINE p == Program(job)
           n == Len(p)
<1>1. RequestFacts /\ job \in Jobs /\ step \in 0..(n - 1)
  BY RequestStep
<1>2. Shape(job, p) /\ (job.cmd \in Readying => Waits(p))
  BY <1>1, ProgramShape
<1>3. job' = job /\ Moved /\ Effects /\ EndedStay /\ said = ""
  BY <1>1 DEF RequestFacts, RowsKept
<1>4. n \in Nat /\ n > 0
  BY <1>2 DEF Shape
<1>5. /\ step' # step => step' = step + 1 /\ Proceed
      /\ said' \in {"ready", "done"} => step + 1 = n /\ Proceed
      /\ said' = "" => step' \in 0..(n - 1)
  BY <1>1, <1>3, <1>4, MovedStep
<1>6. step \in Nat /\ step + 1 \in 1..n /\ step + 1 # step
  BY <1>1, <1>4
<1> HIDE DEF n
<1>7. Phase \in {"create"} \cup Changing => Phase # "running" /\ Phase # "operation"
  BY DEF Changing
<1>8. ASSUME job.cmd \in Readying, operation' # 0
      PROVE  operation' \in Revisions /\ view'.id \in Biots
  <2>1. Phase # "latest"
    BY <1>2, <1>6, <1>8 DEF Shape, Phase, n, Readying
  <2>2. CASE Phase = "create"
    <3>1. operation' \in {operation, 1} /\ view'.id = job.id
      BY <1>3, <2>2 DEF Effects
    <3>2. 1 \in Revisions
      BY LifecycleConstants DEF Revisions
    <3>3. job.id \in Biots
      BY <1>1 DEF Jobs
    <3> QED
      BY <1>8, <3>1, <3>2, <3>3 DEF EarnedInv
  <2>3. CASE Phase \in Changing
    <3>1. operation' \in {0, operation} \cup Revisions /\ view.id \in Biots
      BY <1>3, <2>3 DEF Effects
    <3>2. view'.id = view.id
      BY <1>3, <2>3 DEF Effects, Changing
    <3> QED
      BY <1>8, <3>1, <3>2 DEF EarnedInv
  <2>4. CASE Phase = "resolve"
    <3>1. operation' = operation
      BY <1>3, <2>4 DEF Effects, Changing
    <3>2. ResolveId \/ ResolveName
      BY <1>3, <2>4 DEF Effects
    <3>3. view' = view \/ view'.id \in Biots
      BY <1>1, <3>2, ResolvedView
    <3> QED
      BY <1>8, <3>1, <3>3 DEF EarnedInv
  <2>5. CASE Phase \notin Changing \cup {"create", "latest", "resolve"}
    <3>1. operation' = operation /\ view'.id = view.id
      BY <1>3, <2>5 DEF Effects
    <3> QED
      BY <1>8, <3>1 DEF EarnedInv
  <2> QED
    BY <2>1, <2>2, <2>3, <2>4, <2>5
<1>9. Phase \in {"operation", "running"} => operation' = operation /\ view'.id = view.id
  BY <1>3 DEF Effects, Changing
<1>10. ASSUME job.cmd \in Readying, Phase = "running", operation' # 0
       PROVE  ops'[view'.id][operation'].outcome = "succeeded"
  <2>1. operation' = operation /\ view'.id = view.id
    BY <1>9, <1>10
  <2>2. operation \in Revisions /\ view.id \in Biots /\ ops[view.id][operation].outcome = "succeeded"
    BY <1>3, <1>10, <2>1 DEF EarnedInv
  <2> QED
    BY <1>3, <2>1, <2>2, SucceededStays
<1>11. ASSUME job.cmd \in Readying, said' = "", Phase' = "running", operation' # 0
       PROVE  ops'[view'.id][operation'].outcome = "succeeded"
  <2>1. Waits(p)
    BY <1>2, <1>11
  <2>2. CASE step' = step
    <3>1. Phase = "running"
      BY <1>3, <1>11, <2>2 DEF Phase
    <3> QED
      BY <1>10, <1>11, <3>1
  <2>3. CASE step' # step
    <3>1. step' = step + 1
      BY <1>5, <2>3
    <3>2. p[(step + 1) + 1] = "running"
      BY <1>3, <1>11, <3>1 DEF Phase
    <3>3. step' \in 0..(n - 1)
      BY <1>5, <1>11
    <3>4. (step + 1) + 1 \in 1..n
      BY <1>4, <1>6, <3>1, <3>3
    <3>5. (step + 1) + 1 = n
      BY <2>1, <3>2, <3>4 DEF Waits, n
    <3>6. step + 1 = n - 1
      BY <1>4, <1>6, <3>5
    <3>7. Phase = "operation"
      BY <2>1, <3>6 DEF Waits, Phase, n
    <3>8. operation' = operation /\ view'.id = view.id /\ ops' = ops
      BY <1>3, <1>9, <3>7 DEF Effects
    <3>9. operation = 0 \/ ops[view.id][operation].outcome = "succeeded"
      BY <1>3, <2>3, <3>7 DEF Effects
    <3> QED
      BY <1>11, <3>8, <3>9
  <2> QED
    BY <2>2, <2>3
<1>12. ASSUME said' = "ready", operation' # 0
       PROVE  ops'[view'.id][operation'].outcome = "succeeded"
  <2>1. step + 1 = n /\ Proceed
    BY <1>5, <1>12
  <2>2. job.cmd \in Readying
    BY <1>12, <2>1 DEF Proceed, Readying
  <2>3. Phase = "running"
    BY <1>2, <2>1, <2>2 DEF Waits, Phase, n
  <2> QED
    BY <1>10, <1>12, <2>2, <2>3
<1>13. ASSUME job.cmd = "wait", said' = "done", operation' # 0
       PROVE  ops'[view'.id][operation'].outcome = "succeeded"
  <2>1. step + 1 = n /\ step' = step + 1
    BY <1>5, <1>13 DEF Proceed
  <2>2. Phase = "operation"
    BY <1>2, <1>13, <2>1 DEF Shape, Phase, n
  <2>3. operation' = operation /\ view'.id = view.id /\ ops' = ops
    BY <1>3, <1>9, <2>2 DEF Effects
  <2>4. operation = 0 \/ ops[view.id][operation].outcome = "succeeded"
    BY <1>3, <1>6, <2>1, <2>2 DEF Effects
  <2> QED
    BY <1>13, <2>3, <2>4
<1>14. SuccessIsEarned'
  BY <1>3, <1>12, <1>13 DEF SuccessIsEarned
<1> QED
  BY <1>3, <1>8, <1>11, <1>14 DEF EarnedInv

\* A step keeps success earned.
LEMMA EarnedStep == CliInv /\ EarnedInv /\ [CliNext]_cliVars => EarnedInv'
<1> SUFFICES ASSUME CliInv, EarnedInv, [CliNext]_cliVars PROVE EarnedInv'
  OBVIOUS
<1>1. CASE Give
  BY <1>1, GiveFacts DEF EarnedInv, SuccessIsEarned
<1>2. CASE RequestFails
  <2>1. said' = "failed" /\ UNCHANGED <<job, view, operation>>
    BY <1>2, FailFacts
  <2> QED
    BY <2>1 DEF EarnedInv, SuccessIsEarned
<1>3. CASE Others \/ NodeReports
  <2>1. EndedStay /\ UNCHANGED command /\ said = ""
    BY <1>3, OthersRows DEF CliInv, RowsKept
  <2>2. UNCHANGED <<job, step, view, operation, said>>
    BY <2>1 DEF command
  <2>3. Phase' = Phase
    BY <2>2 DEF Phase
  <2>4. ASSUME job.cmd \in Readying, Phase = "running", operation # 0
        PROVE  ops'[view.id][operation].outcome = "succeeded"
    BY <2>1, <2>4, SucceededStays DEF EarnedInv
  <2> QED
    BY <2>1, <2>2, <2>3, <2>4 DEF EarnedInv, SuccessIsEarned
<1>4. CASE UNCHANGED cliVars
  BY <1>4 DEF cliVars, serverVars, lifecycleVars, EarnedInv, SuccessIsEarned, Phase
<1>5. CASE CliStep
  BY <1>5, EarnedRequest
<1> QED
  BY <1>1, <1>2, <1>3, <1>4, <1>5 DEF CliNext

-----------------------------------------------------------------------------
(* Values.                                                                 *)

\* The values that a creation has delivered when it has made k requests.
DeliveredAfter(j, k) ==
  IF k <= 2 THEN 0
  ELSE IF k <= 2 + j.credentials THEN k - 2
  ELSE IF k <= 4 + j.credentials THEN j.credentials
  ELSE IF k <= 4 + j.credentials + j.secrets THEN k - 4
  ELSE j.credentials + j.secrets

\* A creation has delivered what its requests so far deliver, and until its start the only operation
\* it knows is the creation's.
ValuesInv ==
  job.cmd = "create" =>
    LET total == job.credentials + job.secrets
    IN  /\ operation \in {0, 1} \/ delivered = total
        /\ total = 0 => operation \in {0, 1}
        /\ total > 0 /\ said = "" =>
             /\ delivered = DeliveredAfter(job, step)
             /\ step <= 4 + total => operation \in {0, 1}

\* A creation without values is not followed by a start.
LEMMA PlainCreation ==
  ASSUME NEW j \in Jobs, j.cmd = "create", j.credentials + j.secrets = 0
  PROVE  /\ Len(Program(j)) = 3
         /\ \A i \in 1..3 : Program(j)[i] \in {"create", "operation", "running"}
<1>1. Program(j) = runCreate(j)
  BY DEF Program
<1>2. Program(j) = <<"create", "operation", "running">>
  BY <1>1, Zenon DEF runCreate
<1>3. \A i \in 1..3 : i = 1 \/ i = 2 \/ i = 3
  OBVIOUS
<1>4. Len(Program(j)) = 3 /\ Program(j)[1] = "create" /\ Program(j)[2] = "operation"
      /\ Program(j)[3] = "running"
  BY <1>2
<1> QED
  BY <1>3, <1>4

\* Where a creation with values delivers them, and where it starts the biot.
LEMMA CreationPlaces ==
  ASSUME NEW j \in Jobs, j.cmd = "create", j.credentials + j.secrets > 0,
         NEW k \in Nat, k < Len(Program(j))
  PROVE  LET phase == Program(j)[k + 1]
         IN  /\ phase \in {"credential", "secret"} =>
                  /\ DeliveredAfter(j, k + 1) = DeliveredAfter(j, k) + 1
                  /\ k <= 3 + j.credentials + j.secrets
             /\ phase \notin {"credential", "secret"} =>
                  DeliveredAfter(j, k + 1) = DeliveredAfter(j, k)
             /\ phase \in Changing =>
                  /\ k = 4 + j.credentials + j.secrets
                  /\ DeliveredAfter(j, k) = j.credentials + j.secrets
<1> DEFINE c == j.credentials
           s == j.secrets
           p == Program(j)
<1>1. c \in Nat /\ s \in Nat /\ CreationShape(j, p)
  BY Counts, CreateProgram
<1>2. /\ Len(p) = c + s + 7
      /\ p[1] = "create" /\ p[2] = "allocation"
      /\ \A i \in 1..c : p[2 + i] = "credential"
      /\ p[3 + c] \in {"prepared", "operation"} /\ p[4 + c] = "view"
      /\ \A i \in 1..s : p[4 + c + i] = "secret"
      /\ p[5 + c + s] = "start" /\ p[6 + c + s] = "operation" /\ p[7 + c + s] = "running"
  BY <1>1 DEF CreationShape
<1>3. k < c + s + 7
  BY <1>2
<1> DEFINE d(m) == IF m <= 2 THEN 0 ELSE IF m <= 2 + c THEN m - 2 ELSE IF m <= 4 + c THEN c
                   ELSE IF m <= 4 + c + s THEN m - 4 ELSE c + s
<1>4. DeliveredAfter(j, k) = d(k) /\ DeliveredAfter(j, k + 1) = d(k + 1)
  BY DEF DeliveredAfter
<1> HIDE DEF c, s, p
<1> SUFFICES /\ p[k + 1] \in {"credential", "secret"} => d(k + 1) = d(k) + 1 /\ k <= 3 + c + s
             /\ p[k + 1] \notin {"credential", "secret"} => d(k + 1) = d(k)
             /\ p[k + 1] \in Changing => k = 4 + c + s /\ d(k) = c + s
  BY <1>4 DEF c, s, p
<1> USE DEF Changing
<1>5. CASE k + 1 \in 1..2
  BY <1>1, <1>2, <1>5
<1>6. CASE k + 1 \in 3..(2 + c)
  <2>1. (k + 1) - 2 \in 1..c /\ 2 + ((k + 1) - 2) = k + 1
    BY <1>1, <1>6
  <2>2. p[k + 1] = "credential"
    BY <1>2, <2>1
  <2> QED
    BY <1>1, <1>6, <2>2
<1>7. CASE k + 1 \in (3 + c)..(4 + c)
  <2>1. p[k + 1] \in {"prepared", "operation", "view"}
    <3>1. k + 1 = 3 + c \/ k + 1 = 4 + c
      BY <1>1, <1>7
    <3> QED
      BY <1>2, <3>1
  <2> QED
    BY <1>1, <1>7, <2>1
<1>8. CASE k + 1 \in (5 + c)..(4 + c + s)
  <2>1. (k + 1) - (4 + c) \in 1..s /\ 4 + c + ((k + 1) - (4 + c)) = k + 1
    BY <1>1, <1>8
  <2>2. p[k + 1] = "secret"
    BY <1>2, <2>1
  <2> QED
    BY <1>1, <1>8, <2>2
<1>9. CASE k + 1 \in (5 + c + s)..(7 + c + s)
  <2>1. k + 1 = 5 + c + s \/ k + 1 = 6 + c + s \/ k + 1 = 7 + c + s
    BY <1>1, <1>9
  <2>2. d(k + 1) = d(k) /\ d(k) = c + s
    BY <1>1, <1>9
  <2>3. p[k + 1] \in {"start", "operation", "running"} /\ (p[k + 1] = "start" => k + 1 = 5 + c + s)
    BY <1>1, <1>2, <2>1
  <2> QED
    BY <1>1, <2>2, <2>3
<1> QED
  BY <1>1, <1>3, <1>5, <1>6, <1>7, <1>8, <1>9

\* lifecycle.go:143-189: a request of a creation delivers what it is due, and the start comes after the
\* last value.
LEMMA ValuesRequest ==
  ASSUME CliInv, ValuesInv, CliStep, job.cmd = "create"
  PROVE  ValuesInv'
<1> DEFINE total == job.credentials + job.secrets
           giving == Phase \in {"credential", "secret"}
           n == Len(Program(job))
<1>1. RequestFacts /\ job \in Jobs /\ step \in 0..(n - 1)
  BY RequestStep
<1>2. Shape(job, Program(job))
  BY <1>1, ProgramShape
<1>3. n \in Nat
  BY <1>2 DEF Shape
<1>4. step \in Nat /\ step < n /\ step + 1 \in 1..n
  BY <1>1, <1>3
<1>5. job' = job /\ said = "" /\ Moved /\ Effects
  BY <1>1 DEF RequestFacts
<1>6. total \in Nat /\ job.credentials \in Nat /\ job.secrets \in Nat
  BY <1>1, Counts
<1>7. Phase \notin {"resolve", "latest"}
  BY <1>2, <1>4 DEF Shape, Phase
<1>8. delivered' = IF giving THEN delivered + 1 ELSE delivered
  BY <1>5 DEF Effects
<1>9. giving => step' = step + 1 \/ said' = "failed"
  BY <1>5 DEF Effects, Proceed
<1>10. operation' # operation => (Phase = "create" /\ operation' = 1) \/ (Phase \in Changing /\ step' = step + 1)
  BY <1>5, <1>7 DEF Effects, Proceed
<1>11. said' = "" => step' \in {step, step + 1}
  BY <1>5 DEF Moved, Proceed
<1>12. Phase = "create" => Phase \notin Changing
  BY DEF Changing
<1>13. CASE total = 0
  <2>1. n = 3 /\ \A i \in 1..3 : Program(job)[i] \in {"create", "operation", "running"}
    BY <1>1, <1>13, PlainCreation
  <2>2. Phase \in {"create", "operation", "running"}
    BY <1>4, <2>1 DEF Phase
  <2>3. Phase \notin Changing
    BY <2>2 DEF Changing
  <2>4. operation \in {0, 1}
    BY <1>13 DEF ValuesInv
  <2>5. operation' \in {0, 1}
    BY <1>10, <2>3, <2>4
  <2>6. ~(total > 0)
    BY <1>13
  <2> HIDE DEF total
  <2> QED
    BY <1>5, <2>5, <2>6, Zenon DEF ValuesInv, total
<1>14. CASE total > 0
  <2>1. delivered = DeliveredAfter(job, step) /\ (step <= 4 + total => operation \in {0, 1})
    BY <1>5, <1>14 DEF ValuesInv
  <2>2. operation \in {0, 1} \/ delivered = total
    BY DEF ValuesInv
  <2>3. /\ giving => DeliveredAfter(job, step + 1) = DeliveredAfter(job, step) + 1 /\ step <= 3 + total
        /\ ~giving => DeliveredAfter(job, step + 1) = DeliveredAfter(job, step)
        /\ Phase \in Changing => step = 4 + total /\ DeliveredAfter(job, step) = total
    <3>1. /\ giving =>
               /\ DeliveredAfter(job, step + 1) = DeliveredAfter(job, step) + 1
               /\ step <= 3 + job.credentials + job.secrets
          /\ ~giving => DeliveredAfter(job, step + 1) = DeliveredAfter(job, step)
          /\ Phase \in Changing =>
               /\ step = 4 + job.credentials + job.secrets
               /\ DeliveredAfter(job, step) = job.credentials + job.secrets
      BY <1>1, <1>4, <1>14, CreationPlaces, Zenon DEF Phase
    <3> HIDE DEF giving
    <3> QED
      BY <1>6, <3>1
  <2>4. Phase \in Changing => ~giving
    BY DEF Changing
  <2> HIDE DEF giving, total, n
  <2>5. operation' \in {0, 1} \/ delivered' = total
    BY <1>4, <1>6, <1>8, <1>10, <2>1, <2>2, <2>3, <2>4
  <2>6. ASSUME said' = ""
        PROVE  /\ delivered' = DeliveredAfter(job, step')
               /\ step' <= 4 + total => operation' \in {0, 1}
    <3>1. step' \in {step, step + 1} /\ (giving => step' = step + 1)
      <4>1. giving => step' = step + 1
        BY <1>9, <2>6
      <4> QED
        BY <1>11, <2>6, <4>1
    <3>2. delivered' = DeliveredAfter(job, step')
      <4>1. CASE giving
        BY <1>8, <2>1, <2>3, <3>1, <4>1
      <4>2. CASE ~giving
        BY <1>8, <2>1, <2>3, <3>1, <4>2
      <4> QED
        BY <4>1, <4>2
    <3>3. ASSUME step' <= 4 + total PROVE operation' \in {0, 1}
      <4>1. step <= 4 + total
        BY <1>4, <1>6, <3>1, <3>3
      <4>2. operation' = operation \/ operation' = 1
        BY <1>4, <1>6, <1>10, <2>3, <3>3
      <4> QED
        BY <2>1, <4>1, <4>2
    <3> QED
      BY <3>2, <3>3
  <2>7. total # 0
    BY <1>14, <1>6
  <2> QED
    BY <1>5, <2>5, <2>6, <2>7 DEF ValuesInv, total
<1> QED
  BY <1>6, <1>13, <1>14

\* A step keeps a creation's values in step with its requests.
LEMMA ValuesStep == CliInv /\ ValuesInv /\ [CliNext]_cliVars => ValuesInv'
<1> SUFFICES ASSUME CliInv, ValuesInv, [CliNext]_cliVars PROVE ValuesInv'
  OBVIOUS
<1>1. CASE Give
  <2>1. /\ job' \in Jobs /\ step' = 0 /\ operation' = 0 /\ delivered' = 0
    BY <1>1, GiveFacts
  <2>2. DeliveredAfter(job', 0) = 0
    BY DEF DeliveredAfter
  <2> QED
    BY <2>1, <2>2 DEF ValuesInv
<1>2. CASE RequestFails
  <2>1. said' # "" /\ UNCHANGED <<job, operation, delivered>>
    BY <1>2, FailFacts
  <2> QED
    BY <2>1 DEF ValuesInv
<1>3. CASE Others \/ NodeReports
  <2>1. UNCHANGED <<job, step, operation, delivered, said>>
    BY <1>3, OthersRows DEF CliInv, command
  <2> QED
    BY <2>1 DEF ValuesInv, DeliveredAfter
<1>4. CASE UNCHANGED cliVars
  BY <1>4 DEF cliVars, ValuesInv, DeliveredAfter
<1>5. CASE CliStep
  <2>1. job' = job
    BY <1>5, RequestStep DEF RequestFacts
  <2>2. CASE job.cmd = "create"
    BY <1>5, <2>2, ValuesRequest
  <2>3. CASE job.cmd # "create"
    BY <2>1, <2>3 DEF ValuesInv
  <2> QED
    BY <2>2, <2>3
<1> QED
  BY <1>1, <1>2, <1>3, <1>4, <1>5 DEF CliNext

-----------------------------------------------------------------------------
(* The results.                                                            *)

\* What a command begins with, before it is given.
LEMMA FirstStart == CliInit => ResolvesUniquely /\ EarnedInv /\ ValuesInv
<1> SUFFICES ASSUME CliInit PROVE ResolvesUniquely /\ EarnedInv /\ ValuesInv
  OBVIOUS
<1>1. job.cmd = "none" /\ view.id = 0 /\ operation = 0
  BY DEF CliInit, NoJob, NoView
<1>2. job.cmd # "create"
  BY <1>1
<1> QED
  BY <1>1, <1>2 DEF ResolvesUniquely, EarnedInv, SuccessIsEarned, ValuesInv

\* The rows keep their invariant under the requests of a command, whatever is carried out without
\* being answered; the command stays inside its program, and its listing in order.
THEOREM CliInvTheorem == CliSpec => []CliInv
<1>1. CliInit => CliInv
  BY CliStart
<1>2. CliInv /\ [CliNext]_cliVars => CliInv'
  BY CliInvStep
<1> QED
  BY <1>1, <1>2, PTL DEF CliSpec

\* client.go:339-362: a listing holds every biot there was when it began, once, for every page size and
\* whatever is created between its pages.
THEOREM ListingTheorem == CliSpec => []ListingComplete
<1>1. CliInv => ListingComplete
  <2> SUFFICES ASSUME CliInv PROVE ListingComplete
    OBVIOUS
  <2>1. Views(listed) /\ Ascending(listed)
    BY DEF CliInv, ListingInv
  <2>2. DOMAIN listed = 1..Len(listed) /\ Len(listed) \in Nat
    BY <2>1, LenProperties DEF Views
  <2>3. \A i \in DOMAIN listed : listed[i].id \in Nat
    BY <2>1, <2>2, CliConstants DEF Views
  <2>4. \A i, j \in DOMAIN listed : listed[i].id = listed[j].id => i = j
    <3> SUFFICES ASSUME NEW i \in DOMAIN listed, NEW j \in DOMAIN listed,
                        listed[i].id = listed[j].id
                 PROVE  i = j
      OBVIOUS
    <3>1. i \in Nat /\ j \in Nat
      BY <2>2
    <3>2. ~(i < j)
      BY <2>1, <2>2, <2>3 DEF Ascending
    <3>3. ~(j < i)
      BY <2>1, <2>2, <2>3 DEF Ascending
    <3> QED
      BY <3>1, <3>2, <3>3
  <2>5. job.cmd = "list" /\ said = "done" => begun \subseteq {listed[i].id : i \in DOMAIN listed}
    BY <2>2 DEF CliInv, ListingInv, Holding
  <2> QED
    BY <2>4, <2>5 DEF ListingComplete
<1> QED
  BY <1>1, CliInvTheorem, PTL

\* biot.go:15-41: a command that was given a name acts on the only biot of that name there was.
THEOREM ResolvesTheorem == CliSpec => []ResolvesUniquely
<1>1. CliInit => ResolvesUniquely
  BY FirstStart
<1>2. CliInv /\ ResolvesUniquely /\ [CliNext]_cliVars => ResolvesUniquely'
  BY ResolvedStep
<1> QED
  BY <1>1, <1>2, CliInvTheorem, PTL DEF CliSpec

\* lifecycle.go:414-442: a command that reports success over an operation has seen it succeed.
THEOREM EarnedTheorem == CliSpec => []SuccessIsEarned
<1>1. CliInit => EarnedInv
  BY FirstStart
<1>2. CliInv /\ EarnedInv /\ [CliNext]_cliVars => EarnedInv'
  BY EarnedStep
<1>3. EarnedInv => SuccessIsEarned
  BY DEF EarnedInv
<1> QED
  BY <1>1, <1>2, <1>3, CliInvTheorem, PTL DEF CliSpec

\* lifecycle.go:143-189: create asks for a start only when it has delivered every value, for any number
\* of values.
THEOREM StartsTheorem == CliSpec => []StartsWithValues
<1>1. CliInit => ValuesInv
  BY FirstStart
<1>2. CliInv /\ ValuesInv /\ [CliNext]_cliVars => ValuesInv'
  BY ValuesStep
<1>3. ValuesInv => StartsWithValues
  <2> SUFFICES ASSUME ValuesInv, job.cmd = "create", operation > 1
               PROVE  delivered = job.credentials + job.secrets
    BY DEF StartsWithValues
  <2>1. operation \notin {0, 1}
    OBVIOUS
  <2> QED
    BY <2>1, Zenon DEF ValuesInv
<1> QED
  BY <1>1, <1>2, <1>3, CliInvTheorem, PTL DEF CliSpec

\* biots.ex:257-265, nodes.ex:164-180: whatever commands ask, answered or not, at most one operation of a
\* biot waits, it targets the revision in force, and nothing waits for an abandoned node.
THEOREM CommandRowsTheorem == CliSpec => [](OneLiveOperation /\ NothingAwaitsAbandonedNode)
<1>1. CliInv => OneLiveOperation /\ NothingAwaitsAbandonedNode
  BY DEF CliInv, LifecycleInv
<1> QED
  BY <1>1, CliInvTheorem, PTL

\* reports.ex:268-270: an operation that a command has seen end stays as it ended, through every request
\* of this command, change of another client, enrollment and report.
THEOREM CommandEndedTheorem == CliSpec => EndedOperationsStay
<1>1. CliInv /\ [CliNext]_cliVars
        => [\A b \in Biots, r \in Revisions :
              ops[b][r].outcome \in Terminal => ops'[b][r] = ops[b][r]]_ops
  BY RowsStep DEF RowsKept, EndedStay
<1> QED
  BY <1>1, CliInvTheorem, PTL DEF CliSpec, EndedOperationsStay


-----------------------------------------------------------------------------
(* Cli implements Lifecycle: a command's requests, and what everybody else  *)
(* does, are transactions of the server, each at most one.                 *)

Server == INSTANCE Lifecycle WITH ChangesAsked <- Changes, InitialStates <- {"running", "stopped"}

\* What both modules read alike.
LEMMA ServerOps ==
  /\ Server!Revisions = Revisions /\ Server!Live = Live /\ Server!NoOp = NoOp /\ Server!NoReport = NoReport
  /\ Server!DestroyChange = DestroyChange /\ Server!Statuses = Statuses
  /\ Server!NewOutcome = NewOutcome /\ (Server!Room <=> Room)
  /\ Server!MayHoldAllocations <=> MayHoldAllocations
<1>1. Server!Live = Live /\ Server!NoOp = NoOp /\ Server!NoReport = NoReport
  BY Zenon DEF Server!Live, Live, Server!NoOp, NoOp, Server!NoReport, NoReport
<1>2. Server!Revisions = Revisions /\ Server!DestroyChange = DestroyChange /\ Server!Statuses = Statuses
  BY Zenon DEF Server!Revisions, Revisions, Server!DestroyChange, DestroyChange, Server!Statuses, Statuses
<1>3. Server!NewOutcome = NewOutcome
  BY Zenon DEF Server!NewOutcome, NewOutcome
<1>4. \A b : Server!Created(b) <=> Created(b)
  BY Zenon DEF Server!Created, Created
<1>5. \A b : Server!Holds(b) <=> Holds(b)
  BY <1>1, <1>4, Zenon DEF Server!Holds, Holds
<1>6. Server!Room <=> Room
  <2>1. {b \in Biots : Server!Holds(b)} = {b \in Biots : Holds(b)}
    BY <1>5
  <2>2. Server!Cardinality({b \in Biots : Holds(b)}) = Cardinality({b \in Biots : Holds(b)})
    BY Zenon DEF Server!Cardinality, Cardinality
  <2> QED
    BY <2>1, <2>2, Zenon DEF Server!Room, Room
<1>7. Server!MayHoldAllocations <=> MayHoldAllocations
  BY <1>1, <1>4 DEF Server!MayHoldAllocations, MayHoldAllocations
<1> QED
  BY <1>1, <1>2, <1>3, <1>6, <1>7

\* The server's commands write the same rows in both.
LEMMA ServerCommand ==
  /\ \A b, initial, env : Server!Create(b, initial, env) <=> Create(b, initial, env)
  /\ \A b, change : Server!Change(b, change) <=> Change(b, change)
<1>1. \A b : Server!Created(b) <=> Created(b)
  BY Zenon DEF Server!Created, Created
<1>2. ASSUME NEW b, NEW initial, NEW env
      PROVE  Server!Create(b, initial, env) <=> Create(b, initial, env)
  <2>1. Server!NameAvailable(b) <=> NameAvailable(b)
    BY <1>1, Zenon DEF Server!NameAvailable, NameAvailable
  <2> QED
    BY <1>1, <2>1, ServerOps, Zenon DEF Server!Create, Create
<1>3. ASSUME NEW b, NEW change
      PROVE  Server!Change(b, change) <=> Change(b, change)
  <2>1. Server!Changed(biot[b], change) <=> Changed(biot[b], change)
    BY Zenon DEF Server!Changed, Changed
  <2>2. Server!Transition(biot[b], change) = Transition(biot[b], change)
    BY Zenon DEF Server!Transition, Transition, Server!NewState, NewState
  <2>3. ASSUME NEW rows, NEW target, NEW row
        PROVE  Server!Recorded(rows, target, row) = Recorded(rows, target, row)
    BY ServerOps, Zenon DEF Server!Recorded, Recorded
  <2> QED
    BY <1>1, <2>1, <2>2, <2>3, ServerOps, Zenon DEF Server!Change, Change
<1> QED
  BY <1>2, <1>3

\* So does the enrollment file.
LEMMA ServerReload == Server!Reload <=> Reload
<1>1. ASSUME NEW rows PROVE Server!FailOperations(rows) = FailOperations(rows)
  BY ServerOps, Zenon DEF Server!FailOperations, FailOperations
<1>2. ASSUME NEW status, NEW max PROVE Server!Enroll(status, max) <=> Enroll(status, max)
  BY <1>1, ServerOps, Zenon DEF Server!Enroll, Enroll
<1>3. Server!Omit <=> Omit
  BY Zenon DEF Server!Omit, Omit
<1> QED
  BY <1>2, <1>3, ServerOps, Zenon DEF Server!Reload, Reload

\* So does a report.
LEMMA ServerHear == \A b, report : Server!Observe(b, report) <=> Observe(b, report)
<1>1. ASSUME NEW kind, NEW revision, NEW desired, NEW report
      PROVE  Server!Decide(kind, revision, desired, report) = Decide(kind, revision, desired, report)
  <2>1. Server!Completed(kind, desired, report) <=> Completed(kind, desired, report)
    BY Zenon DEF Server!Completed, Completed, Server!RunningWithEnvironment, RunningWithEnvironment
  <2> QED
    BY <2>1, Zenon DEF Server!Decide, Decide
<1>2. ASSUME NEW b, NEW report
      PROVE  Server!OperationOutcome(b, report) = OperationOutcome(b, report)
  BY <1>1, ServerOps, Zenon DEF Server!OperationOutcome, OperationOutcome, Server!Terminal, Terminal
<1>3. ASSUME NEW b, NEW report PROVE Server!Observe(b, report) <=> Observe(b, report)
  <2>1. Server!Created(b) <=> Created(b)
    BY Zenon DEF Server!Created, Created
  <2> QED
    BY <1>2, <2>1, Zenon DEF Server!Observe, Observe
<1> QED
  BY <1>3

\* The server starts with no rows.
LEMMA ServerStart == LifecycleInit => Server!LifecycleInit
  BY ServerOps, Zenon DEF LifecycleInit, Server!LifecycleInit, Server!NotCreated, NotCreated

\* A change of a biot's rows, on whatever revision it was asked.
LEMMA ServedChange ==
  ASSUME LifecycleInv, NEW b \in Biots, NEW change \in Changes, Change(b, change),
         change.kind # "destroy" => node.status # "abandoned"
  PROVE  Server!LifecycleNext
<1>1. CASE change.kind = "destroy"
  <2>1. change = DestroyChange
    BY <1>1 DEF Changes, DestroyChange
  <2> QED
    BY <2>1, ServerCommand, ServerOps, Zenon DEF Server!LifecycleNext, Server!Command, Server!Destroy
<1>2. CASE change.kind # "destroy"
  <2>1. biot[b].revision \in Revisions
    BY DEF LifecycleInv, LifecycleTypeOK, Change, Created, Revisions
  <2>2. Server!ChangeLifecycle(b, biot[b].revision, change)
    BY <1>2, ServerCommand, Zenon DEF Server!ChangeLifecycle
  <2> QED
    BY <2>1, <2>2, ServerOps, Zenon DEF Server!LifecycleNext, Server!Command
<1> QED
  BY <1>1, <1>2

\* A creation.
LEMMA ServedCreate ==
  ASSUME NEW b \in Biots, NEW initial \in {"running", "stopped"}, NEW env \in Envs, Create(b, initial, env)
  PROVE  Server!LifecycleNext
BY ServerCommand, Zenon DEF Server!LifecycleNext, Server!Command

\* client.go, biots.ex: the requests that change rows.
LEMMA ServedRequest ==
  ASSUME CliInv, CreateBiot \/ \E phase \in Changing : Submit(phase)
  PROVE  Server!LifecycleNext \/ UNCHANGED lifecycleVars
<1>1. RequestFacts /\ job \in Jobs
  BY RequestStep DEF CliStep
<1>2. CASE CreateBiot
  <2>1. job.id \in Biots
    BY <1>1 DEF Jobs
  <2> QED
    BY <1>2, <2>1, ServedCreate DEF CreateBiot
<1>3. ASSUME NEW phase \in Changing, Submit(phase)
      PROVE  Server!LifecycleNext \/ UNCHANGED lifecycleVars
  <2>1. view.id \in Biots
    BY <1>1, <1>3 DEF RequestFacts, Effects, Submit, At, Phase
  <2>2. PICK change \in Asked(phase) :
          \/ IF phase = "destroy" THEN Change(view.id, change)
                                  ELSE ChangeLifecycle(view.id, view.revision, change)
          \/ UNCHANGED lifecycleVars
    BY <1>3 DEF Submit
  <2>3. change \in Changes /\ (change.kind # "destroy" => phase # "destroy")
    BY <1>3, <2>2 DEF Asked, Changes, Changing
  <2>4. CASE Change(view.id, change) /\ (change.kind # "destroy" => node.status # "abandoned")
    BY <2>1, <2>3, <2>4, ServedChange DEF CliInv
  <2> QED
    BY <2>2, <2>3, <2>4 DEF ChangeLifecycle
<1> QED
  BY <1>2, <1>3

\* Every other request leaves the rows.
LEMMA OtherRequests ==
  ASSUME CliStep, ~CreateBiot, ~\E phase \in Changing : Submit(phase)
  PROVE  UNCHANGED lifecycleVars
BY DEF CliStep, List, ResolveId, ResolveName, ReadView, Read, Failure, Latest, Deliver, Set, RunSSH,
   PollOperation, PollWaiting, PollBiot, serverVars

\* Every step is a transaction of the server, or leaves its rows.
LEMMA ServedStep == CliInv /\ [CliNext]_cliVars => [Server!LifecycleNext]_(Server!lifecycleVars)
<1> SUFFICES ASSUME CliInv, [CliNext]_cliVars
             PROVE  Server!LifecycleNext \/ UNCHANGED lifecycleVars
  BY Zenon DEF Server!lifecycleVars, lifecycleVars
<1>1. LifecycleInv
  BY DEF CliInv
<1>2. CASE Give \/ RequestFails \/ UNCHANGED cliVars
  BY <1>2, GiveFacts, FailFacts DEF cliVars, serverVars
<1>3. CASE Others
  <2>1. ASSUME NEW b \in Biots, NEW initial \in InitialStates, NEW env \in Envs, Create(b, initial, env)
        PROVE  Server!LifecycleNext
    BY <2>1, ServedCreate, LifecycleConstants
  <2>2. ASSUME NEW b \in Biots, NEW change \in OthersAsk[b],
               IF change.kind = "destroy" THEN Change(b, change)
                                          ELSE ChangeLifecycle(b, biot[b].revision, change)
        PROVE  Server!LifecycleNext
    <3>1. change \in Changes
      BY CliConstants
    <3> QED
      BY <1>1, <2>2, <3>1, ServedChange DEF ChangeLifecycle
  <2>3. ASSUME Reload PROVE Server!LifecycleNext
    BY <2>3, ServerReload, Zenon DEF Server!LifecycleNext
  <2> QED
    BY <1>3, <2>1, <2>2, <2>3 DEF Others
<1>4. CASE NodeReports
  <2>1. PICK b \in Reported, report \in ReportsHeard : Observe(b, report)
    BY <1>4 DEF NodeReports
  <2>2. b \in Biots
    BY CliConstants
  <2> QED
    BY <2>1, <2>2, ServerHear, Zenon DEF Server!LifecycleNext, Server!Hear
<1>5. CASE CliStep
  BY <1>5, ServedRequest, OtherRequests
<1> QED
  BY <1>2, <1>3, <1>4, <1>5 DEF CliNext

\* client.go, biots.ex:257-265: whatever requests lose their answers or are made on a view that is old by
\* then, a command does to the server's rows only what Lifecycle lets a client do, one transaction a request.
THEOREM ServedTheorem == CliSpec => Server!LifecycleSpec
<1>1. CliInit => Server!LifecycleInit
  BY ServerStart DEF CliInit
<1> QED
  BY <1>1, ServedStep, CliInvTheorem, PTL DEF CliSpec, Server!LifecycleSpec
=============================================================================
