---------------------------- MODULE AgentRequest ----------------------------
(***************************************************************************)
(* protocol.ReadRequest: what the agent makes of the line that opens a      *)
(* connection.  A line is [read, fields]: whether a whole line arrived, and *)
(* the members of its JSON object, or NoObject.  A JSON value is [json,     *)
(* number, text, list]: its type and the value it has for that type.       *)
(***************************************************************************)
EXTENDS Naturals, Sequences

Value(type, number, text, list) == [json |-> type, number |-> number, text |-> text, list |-> list]
Number(n) == Value("number", n, "", <<>>)
String(s) == Value("string", 0, s, <<>>)
List(s) == Value("list", 0, "", s)
Null == Value("null", 0, "", <<>>)

\* A value has nothing but what its type gives it.
IsValue(v) == v \in {Null, Number(v.number), String(v.text), List(v.list)}

NoObject == [member \in {"not an object"} |-> Null]

WithNul == "a string with a NUL"

\* json.Unmarshal into a uint16 and into a string.  null leaves the zero value in place.
MaxUint16 == 65535
IsUint16(v) == v = Null \/ (v.json = "number" /\ v.number \in 0..MaxUint16)
IsText(v) == v = Null \/ v.json = "string"

\* Mutant of HasExactFields: members nobody asked for pass.
HasFields(fields, names) == names \subseteq DOMAIN fields

HasExactFields(fields, names) == DOMAIN fields = names

ParsePort(fields) ==
  /\ HasExactFields(fields, {"target", "port"})
  /\ IsUint16(fields["port"]) /\ fields["port"].number # 0

\* A command is null or a list of at least one argument; a null among them is an empty one.
ParseCommand(v) ==
  \/ v = Null
  \/ /\ v.json = "list" /\ v.list # <<>>
     /\ \A i \in DOMAIN v.list : IsText(v.list[i]) /\ v.list[i].text # WithNul

ParseShell(fields) ==
  /\ HasExactFields(fields, {"target", "term", "cols", "rows", "command"})
  /\ IsText(fields["term"]) /\ fields["term"].text \notin {"", WithNul}
  /\ \A size \in {"cols", "rows"} : IsUint16(fields[size]) /\ fields[size].number # 0
  /\ ParseCommand(fields["command"])

Target(fields) ==
  IF "target" \in DOMAIN fields /\ IsText(fields["target"]) THEN fields["target"].text ELSE ""

\* The outcomes of ReadRequest.  A line that does not fit the reader, or does not end, is an
\* error of the reader and not an invalid request.
Request(line) ==
  CASE line.read # "line" -> "unread"
    [] line.read = "line" /\ Target(line.fields) = "port" /\ ParsePort(line.fields) -> "port"
    [] line.read = "line" /\ Target(line.fields) = "shell" /\ ParseShell(line.fields) -> "shell"
    [] OTHER -> "invalid"

-----------------------------------------------------------------------------
(* The request lines of docs/model.md:1787-1789, with the sizes its frames *)
(* allow.                                                                  *)
Positive(v) == v.json = "number" /\ v.number \in 1..MaxUint16
Word(v) == v.json = "string" /\ v.text # WithNul
Words(v) == v.json = "list" /\ v.list # <<>> 
            /\ \A i \in DOMAIN v.list : Word(v.list[i]) \/ v.list[i] = Null

PortLine(fields) ==
  /\ DOMAIN fields = {"target", "port"}
  /\ fields.target = String("port") /\ Positive(fields.port)

ShellLine(fields) ==
  /\ DOMAIN fields = {"target", "term", "cols", "rows", "command"}
  /\ fields.target = String("shell")
  /\ Word(fields.term) /\ fields.term # String("")
  /\ Positive(fields.cols) /\ Positive(fields.rows)
  /\ fields.command = Null \/ Words(fields.command)
=============================================================================
