------------------------------ MODULE SecLang ------------------------------
(***************************************************************************)
(* The SecLang parser and printer of the API server (apisrv/pkg/seclang):  *)
(* ParseRule, AddAction and ToModSecurityRule, as operators.               *)
(*                                                                         *)
(* A text is a sequence of tokens: a character the code looks at is a      *)
(* token of its own, and what is between two of them is a word.  A word is *)
(* known by what the code asks about it: whether it starts with an @,      *)
(* whether isActionsLikePart takes it for an action, whether it has a      *)
(* character that needsQuoting lists, whether its last character takes     *)
(* more than one byte.                                                     *)
(***************************************************************************)
EXTENDS Naturals, Sequences, SequencesExt, FiniteSetsExt

Blank == {" ", "\t", "\n"}
AtWords == {"@rx", "@eq"}

\* Words that isActionsLikePart takes for an action when a colon follows, and
\* words that start with one of its patterns without a colon.
ColonWords == {"id", "msg", "t"}
BareWords == {"pass", "passwd", "deny", "log"}

\* A word with a character of needsQuoting's list, and a word that ends with a
\* character of several bytes.
SpecialWords == {"/login"}
WideWords == {"cafe-acute"}

Special == Blank \cup {",", "\"", "'", "|", "\\"} \cup SpecialWords

Action(name, parameter) == [Name |-> name, Parameter |-> parameter]

NoRule == [Variables |-> <<>>,
           Operator |-> [Type |-> <<>>, Parameter |-> <<>>, Negated |-> FALSE],
           Actions |-> <<>>]

\* What ParseRule gives back: "rule", "error", or "panic" where a slice
\* expression is out of range.
Result(kind, rule) == [kind |-> kind, rule |-> rule]

-----------------------------------------------------------------------------
\* A loop over the characters of t.  It is FoldLeft(Body, first, t) in linear time.
Loop(Body(_, _), first, t) ==
  LET after[i \in 0..Len(t)] == IF i = 0 THEN first ELSE Body(after[i - 1], t[i])
  IN after[Len(t)]

\* strings.TrimSpace, strings.Split, strings.Join, strings.SplitN(t, sep, 2).
TrimSpace(t) ==
  LET solid == {i \in DOMAIN t : t[i] \notin Blank}
  IN IF solid = {} THEN <<>> ELSE SubSeq(t, Min(solid), Max(solid))

Split(t, sep) ==
  LET Step(parts, c) == IF c = sep THEN Append(parts, <<>>)
                        ELSE [parts EXCEPT ![Len(parts)] = Append(@, c)]
  IN Loop(Step, << <<>> >>, t)

Join(parts, sep) ==
  FlattenSeq([i \in DOMAIN parts |-> IF i = 1 THEN parts[i] ELSE <<sep>> \o parts[i]])

Before(t, sep) == SubSeq(t, 1, SelectInSeq(t, LAMBDA c : c = sep) - 1)
After(t, sep) == SubSeq(t, SelectInSeq(t, LAMBDA c : c = sep) + 1, Len(t))

NonEmpty(parts) == SelectSeq(parts, LAMBDA t : t # <<>>)
TrimAll(parts) == [i \in DOMAIN parts |-> TrimSpace(parts[i])]

StartsWith(t, c) == t # <<>> /\ Head(t) = c
Enclosed(t, q) == StartsWith(t, q) /\ Last(t) = q

\* t[1 : len(t)-1] of a text that is enclosed in quotes; a lone quote is
\* enclosed, and slicing it panics.
Unquote(t, q) == IF Enclosed(t, q) THEN SubSeq(t, 2, Len(t) - 1) ELSE t
LoneQuote(t, q) == t = <<q>>

cleanLineContinations(t) ==
  LET Clean(line) == IF line # <<>> /\ Last(line) = "\\"
                     THEN TrimSpace(Front(line)) ELSE line
      lines == TrimAll(Split(t, "\n"))
  IN Join(NonEmpty([i \in DOMAIN lines |-> Clean(lines[i])]), " ")

-----------------------------------------------------------------------------
(***************************************************************************)
(* splitRuleIntoComponents.  Its position in the code is the mode: in      *)
(* plain text, inside quotes that belong to a part, skipping the spaces    *)
(* after a part, or collecting a quoted string that follows such spaces.   *)
(* A string without closing quote is dropped.                              *)
(***************************************************************************)
SplitStep(s, c) ==
  CASE s.mode = "string" /\ c = "\"" ->
         [mode |-> "plain", cur |-> <<>>, parts |-> Append(s.parts, Append(s.cur, c))]
    [] s.mode = "gap" /\ c = " " -> s
    [] s.mode = "gap" /\ c = "\"" -> [s EXCEPT !.mode = "string", !.cur = <<c>>]
    [] s.mode = "gap" /\ c \notin {" ", "\""} -> [s EXCEPT !.mode = "plain", !.cur = <<c>>]
    [] s.mode = "plain" /\ c = " " /\ s.cur = <<>> -> s
    [] s.mode = "plain" /\ c = " " /\ s.cur # <<>> ->
         [mode |-> "gap", cur |-> <<>>, parts |-> Append(s.parts, s.cur)]
    [] s.mode = "plain" /\ c = "\"" -> [s EXCEPT !.mode = "quotes", !.cur = Append(@, c)]
    [] s.mode = "quotes" /\ c = "\"" -> [s EXCEPT !.mode = "plain", !.cur = Append(@, c)]
    [] OTHER -> [s EXCEPT !.cur = Append(@, c)]

splitRuleIntoComponents(t) ==
  LET s == Loop(SplitStep, [mode |-> "plain", cur |-> <<>>, parts |-> <<>>], t)
  IN IF s.cur = <<>> \/ s.mode = "string" THEN s.parts ELSE Append(s.parts, s.cur)

isActionsLikePart(t) ==
  /\ t # <<>>
  /\ Head(t) \in BareWords \/ (Head(t) \in ColonWords /\ Len(t) > 1 /\ t[2] = ":")

\* The index of the actions among the parts.  The search starts at the third
\* part; an actions-like third part is taken for none found, and then the last
\* part is the actions.
actionsStartIndex(parts) ==
  LET like == {i \in 3..Len(parts) : isActionsLikePart(TrimSpace(parts[i]))}
  IN IF Len(parts) <= 3 THEN 3
     ELSE IF like = {} \/ 3 \in like THEN Len(parts)
     ELSE Min(like)

operatorStr(parts) ==
  IF Len(parts) <= 3 THEN TrimSpace(parts[2])
  ELSE Join(SubSeq(parts, 2, actionsStartIndex(parts) - 1), " ")

parseVariables(t) ==
  LET names == NonEmpty(TrimAll(Split(t, "|")))
      Variable(v) == IF Contains(v, ":") THEN [Name |-> Before(v, ":"), Collection |-> v]
                     ELSE [Name |-> v, Collection |-> <<>>]
  IN [i \in DOMAIN names |-> Variable(names[i])]

parseOperator(t, negated) ==
  IF Head(t) \notin AtWords
  THEN [Type |-> <<"@rx">>, Parameter |-> t, Negated |-> negated]
  ELSE IF Contains(t, " ")
  THEN [Type |-> Before(t, " "), Parameter |-> TrimSpace(After(t, " ")), Negated |-> negated]
  ELSE [Type |-> t, Parameter |-> <<>>, Negated |-> negated]

\* Splitting at the commas outside quotes.  The last part is taken when the loop
\* is at the last byte, which it never is when the last character is wide.
splitActions(t) ==
  LET Step(s, c) ==
        CASE c \in {"'", "\""} /\ s.quote = "none" -> [s EXCEPT !.quote = c, !.cur = Append(@, c)]
          [] c = s.quote -> [s EXCEPT !.quote = "none", !.cur = Append(@, c)]
          [] c = "," /\ s.quote = "none" -> [s EXCEPT !.cur = <<>>, !.parts = Append(@, s.cur)]
          [] OTHER -> [s EXCEPT !.cur = Append(@, c)]
      end == Loop(Step, [quote |-> "none", cur |-> <<>>, parts |-> <<>>], t)
  IN NonEmpty(IF Last(t) \in WideWords THEN end.parts ELSE Append(end.parts, end.cur))

parameterStr(t) == TrimSpace(After(t, ":"))

parseAction(t) ==
  IF Contains(t, ":")
  THEN Action(TrimSpace(Before(t, ":")), Unquote(parameterStr(t), "'"))
  ELSE Action(t, <<>>)

actionParts(t) == IF t = <<>> THEN <<>> ELSE NonEmpty(TrimAll(splitActions(t)))

parseRuleComponents(t) ==
  LET parts == splitRuleIntoComponents(t)
      variables == parseVariables(TrimSpace(parts[1]))
      op == operatorStr(parts)
      negated == StartsWith(op, "!")
      positive == IF negated THEN TrimSpace(Tail(op)) ELSE op
      operator == Unquote(positive, "\"")
      start == actionsStartIndex(parts)
      actions == IF Len(parts) < start THEN <<>> ELSE TrimSpace(parts[start])
      acts == actionParts(Unquote(actions, "\""))
      lone == \/ LoneQuote(actions, "\"")
              \/ \E i \in DOMAIN acts :
                   Contains(acts[i], ":") /\ LoneQuote(parameterStr(acts[i]), "'")
  IN IF Len(parts) < 2 THEN Result("error", NoRule)
     ELSE IF variables = <<>> THEN Result("error", NoRule)
     ELSE IF LoneQuote(positive, "\"") THEN Result("panic", NoRule)
     ELSE IF operator = <<>> THEN Result("error", NoRule)
     ELSE IF lone THEN Result("panic", NoRule)
     ELSE Result("rule", [Variables |-> variables,
                          Operator |-> parseOperator(operator, negated),
                          Actions |-> [i \in DOMAIN acts |-> parseAction(acts[i])]])

ParseRule(ruleText) ==
  LET text == cleanLineContinations(TrimSpace(ruleText))
  IN parseRuleComponents(IF StartsWith(text, "SecRule") THEN TrimSpace(Tail(text)) ELSE text)

-----------------------------------------------------------------------------
needsQuoting(t) == \E i \in DOMAIN t : t[i] \in Special

Escaped(t) == FlattenSeq([i \in DOMAIN t |-> IF t[i] = "'" THEN <<"\\", "'">> ELSE <<t[i]>>])

\* Mutant: a parameter is never quoted.
toModSecurityStringBare(a) ==
  IF a.Parameter = <<>> THEN a.Name ELSE a.Name \o <<":">> \o a.Parameter

toModSecurityString(a) ==
  CASE a.Parameter = <<>> -> a.Name
    [] needsQuoting(a.Parameter) -> a.Name \o <<":", "'">> \o Escaped(a.Parameter) \o <<"'">>
    [] OTHER -> a.Name \o <<":">> \o a.Parameter

\* An operator with a parameter has a space, and is quoted.
buildOperatorString(op) ==
  LET text == IF op.Parameter = <<>> THEN op.Type ELSE op.Type \o <<" ">> \o op.Parameter
  IN (IF op.Negated THEN <<"!">> ELSE <<>>)
       \o (IF needsQuoting(text) THEN <<"\"">> \o text \o <<"\"">> ELSE text)

VariableString(v) == IF v.Collection # <<>> THEN v.Collection ELSE v.Name

ToModSecurityRule(rule) ==
  LET variables == [i \in DOMAIN rule.Variables |-> VariableString(rule.Variables[i])]
      actions == [i \in DOMAIN rule.Actions |-> toModSecurityString(rule.Actions[i])]
  IN <<"SecRule", " ">> \o Join(variables, "|") \o <<" ">> \o buildOperatorString(rule.Operator)
       \o (IF actions = <<>> THEN <<>> ELSE <<" ", "\"">> \o Join(actions, ",") \o <<"\"">>)

\* The first action of that name is overwritten, else the action is appended.
AddAction(rule, a) ==
  LET i == SelectInSeq(rule.Actions, LAMBDA b : b.Name = a.Name)
  IN [rule EXCEPT !.Actions = IF i = 0 THEN Append(@, a) ELSE [@ EXCEPT ![i] = a]]

-----------------------------------------------------------------------------
\* What the notation can say of a rule: printing escapes a single quote, which
\* parsing does not undo; nothing escapes a double quote; blanks around an
\* operator's parameter are trimmed; an action without name and parameter, which
\* a lone colon gives, prints as nothing; the last character of the actions is
\* not a wide one.
Plain(t) == ~Contains(t, "'") /\ ~Contains(t, "\"")

Sayable(rule) ==
  /\ \A i \in DOMAIN rule.Variables : Plain(VariableString(rule.Variables[i]))
  /\ Plain(rule.Operator.Type) /\ Plain(rule.Operator.Parameter)
  /\ TrimSpace(rule.Operator.Parameter) = rule.Operator.Parameter
  /\ \A i \in DOMAIN rule.Actions :
       /\ Plain(rule.Actions[i].Name) /\ Plain(rule.Actions[i].Parameter)
       /\ rule.Actions[i] # Action(<<>>, <<>>)
       /\ i = Len(rule.Actions) => Last(toModSecurityString(rule.Actions[i])) \notin WideWords

SameAfterPrinting(rule) ==
  ParseRule(ToModSecurityRule(rule)) = Result("rule", rule)
=============================================================================
