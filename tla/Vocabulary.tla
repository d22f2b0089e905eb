----------------------------- MODULE Vocabulary -----------------------------
(***************************************************************************)
(* The error vocabulary that is embedded in the client: what its start     *)
(* refuses, and what it makes of an error answer.  An artifact is a         *)
(* sequence of lines [parts, name, kind, limit, sentence, remedy]; of a     *)
(* sentence the model keeps whether it is empty, blank or text, and its     *)
(* placeholders: [text, holes, stray], stray for braces around no name.     *)
(***************************************************************************)
EXTENDS Integers, Sequences, FiniteSets

CONSTANT Rank   \* the byte order of names

-----------------------------------------------------------------------------
(* Starting.  A check that fails is a panic before main.                   *)

Ascending(lines) ==
  \A i \in DOMAIN lines : i > 1 => Rank[lines[i - 1].name] < Rank[lines[i].name]

ParsedLine(line) ==
  /\ line.parts = 5 /\ line.name # "" /\ line.kind # "" /\ line.sentence.text # "empty"
  /\ line.kind \in {"field", "command"}
  /\ line.limit >= 0
  /\ line.remedy \in {"none", "required"}

\* parseVocabulary.
Parses(lines) ==
  /\ lines # <<>>
  /\ \A i \in DOMAIN lines : ParsedLine(lines[i])
  /\ Ascending(lines)

NamesOf(lines) == {lines[i].name : i \in DOMAIN lines}
EntryOf(lines, name) == lines[CHOOSE i \in DOMAIN lines : lines[i].name = name]
VocabularyOf(lines) == [name \in NamesOf(lines) |-> EntryOf(lines, name)]

\* parseFieldLabels.
ParsesLabels(labels) ==
  /\ labels # <<>>
  /\ \A i \in DOMAIN labels : labels[i].parts = 2 /\ labels[i].name # ""
  /\ Ascending(labels)

\* The case of the first letter of each remedy the client knows.
clientRemedies ==
  [name \in {"unauthenticated", "revision_conflict", "publication_not_active"} |->
     IF name = "publication_not_active" THEN "lower" ELSE "upper"]

expectedPlaceholders(name) == IF name = "revision_conflict" THEN <<"revision">> ELSE <<>>

\* Mutant of validatePlaceholders: only the number of placeholders is compared.
validatePlaceholdersCounted(name, sentence) ==
  /\ ~sentence.stray
  /\ Len(sentence.holes) = Len(expectedPlaceholders(name))

validatePlaceholders(name, sentence) ==
  /\ ~sentence.stray
  /\ sentence.holes = expectedPlaceholders(name)

\* Of the remedies: the entries say which there are, and a field's goes on with its sentence.
RemedyCovered(name, entry) ==
  /\ (entry.remedy = "required") = (name \in DOMAIN clientRemedies)
  /\ entry.remedy = "required" =>
       clientRemedies[name] = (IF entry.kind = "field" THEN "lower" ELSE "upper")

\* init, and the limit that package input asks for.
Starts(lines) ==
  LET v == VocabularyOf(lines) IN
  /\ Parses(lines)
  /\ \A name \in DOMAIN v :
       /\ v[name].sentence.text # "blank"
       /\ RemedyCovered(name, v[name])
       /\ validatePlaceholders(name, v[name].sentence)
  /\ \A name \in DOMAIN clientRemedies : name \in DOMAIN v /\ v[name].remedy = "required"
  /\ /\ "secret_value_too_large" \in DOMAIN v
     /\ v["secret_value_too_large"].kind = "field" /\ v["secret_value_too_large"].limit > 0

-----------------------------------------------------------------------------
(* Rendering.  A message is the reasons it states, in order, with what is   *)
(* left to fill in; Panic is one that cannot be rendered.                   *)

\* parseError: an answer that is no error object is told by its status.
ErrorTag(answer) ==
  IF answer.body # "garbage" /\ answer.tag # "" THEN answer.tag
  ELSE IF answer.status = 401 THEN "unauthenticated" ELSE "internal"

IsUnauthenticated(answer) == ErrorTag(answer) = "unauthenticated"

Sentence(name, remedy, holes) == [name |-> name, remedy |-> remedy, holes |-> holes]
Panic == <<Sentence("", FALSE, <<"panic">>)>>

IsCommand(v, tag) == tag \in DOMAIN v /\ v[tag].kind = "command"

\* sentenceWithRemedy.
WithRemedy(name, holes) == <<Sentence(name, name \in DOMAIN clientRemedies, holes)>>

\* commandSentence and renderCommandSentence.
commandSentence(v, tag) == IF IsCommand(v, tag) THEN <<Sentence(tag, FALSE, v[tag].sentence.holes)>> ELSE Panic
renderCommandSentence(v, tag, filled) ==
  IF IsCommand(v, tag) /\ \A i \in DOMAIN v[tag].sentence.holes : v[tag].sentence.holes[i] \in filled
    THEN WithRemedy(tag, <<>>) ELSE Panic

\* fieldReasonSentence and reasonText: a reason the client does not know has its own sentence.
FieldSentence(v, reason) ==
  IF reason \in DOMAIN v /\ v[reason].kind = "field"
    THEN WithRemedy(reason, v[reason].sentence.holes)
    ELSE WithRemedy(reason, <<>>)

\* invalidInputMessage: the fields in the order of their labels.  A field has at most one reason
\* in this model.
invalidInputMessage(v, fields) ==
  LET given == {f \in DOMAIN fields : fields[f] # "none"}
  IN  IF given = {} THEN commandSentence(v, "invalid_input")
      ELSE LET order == CHOOSE s \in [1..Cardinality(given) -> given] :
                          \A i, j \in DOMAIN s : i < j => Rank[s[i]] < Rank[s[j]]
           IN  [i \in DOMAIN order |-> FieldSentence(v, fields[order[i]])[1]]

\* Error.Error.
Message(v, answer) ==
  LET tag == ErrorTag(answer) IN
  CASE tag = "revision_conflict" -> renderCommandSentence(v, tag, {"revision"})
    [] tag = "invalid_input" -> invalidInputMessage(v, answer.fields)
    [] tag = "internal" -> <<Sentence(tag, FALSE, <<>>)>>
    [] OTHER -> IF IsCommand(v, tag) THEN renderCommandSentence(v, tag, {})
                                     ELSE <<Sentence("unknown", FALSE, <<>>)>>
=============================================================================
