------------------------------- MODULE MCCrs -------------------------------
(* Small instances of Crs and SecLang.                                     *)
EXTENDS Crs

CONSTANTS c1, c2, main

MCCallers == {c1, c2}
Handlers == Permutations(MCCallers)
MCProfileFiles == [full |-> {"setup", "custom"}, empty |-> {"custom"}]

MCFileContent ==
  [custom |-> <<"#", " ", "id", ":", "3">>,
   setup  |-> <<"SecAction", " ", "\"", "id", ":", "'", "7", "'", "\"">>]

MCRuleText ==
  [bare   |-> <<"SecRule", " ", "ARGS", " ", "@rx", " ", "a">>,
   withId |-> <<"ARGS", " ", "\"", "a", "\"", " ", "\"", "id", ":", "9", ",",
                "msg", ":", "'", "x", " ", "y", "'", "\"">>,
   lone   |-> <<"ARGS", " ", "!", "\"">>,
   huge   |-> <<"ARGS", " ", "a", " ", "id", ":", "1", ",", "id", ":", HugeNumber>>]

MCAsked == {<<"bare", "withId">>, <<"bare", "lone">>, <<"huge">>}

-----------------------------------------------------------------------------
TextsOf(alphabet, n) == UNION {[1..m -> alphabet] : m \in 0..n}

Marks == {" ", "\"", "'", ",", ":", "!", "@rx", "id", "a", "|"}
Rest == {"\\", "\n", "pass", "/login", "cafe-acute"}

\* Whatever follows the variables, and whatever is in the quotes of the actions.
AfterVariables == TextsOf(Marks, 3) \cup TextsOf(Marks \cup Rest, 2)
InQuotes == TextsOf({" ", "'", ",", ":", "id", "a"}, 4)
            \cup TextsOf({",", ":", "@rx", "a"} \cup Rest, 2)

Texts ==
  {<<"ARGS", " ">> \o t : t \in AfterVariables}
  \cup {<<"ARGS", "|", "XML", ":", "a", " ", "!", "@rx", " ", "\"">> \o t \o <<"\"">> :
         t \in InQuotes}

\* The rules the texts have, also with the id CreateRule gives them.
Rules ==
  LET parsed == {r.rule : r \in {q \in {ParseRule(t) : t \in Texts} : q.kind = "rule"}}
      sayable == {rule \in parsed : Sayable(rule)}
  IN sayable \cup {AddAction(rule, IdAction(9)) : rule \in sayable}

AllSurvive == \A rule \in Rules : SameAfterPrinting(rule)

\* TestRoundTripParsing: "parsing a rule and then converting it back produces
\* equivalent rule".  Whatever text a server that takes requests is sent, if its
\* rule can be said at all, the line of the rule says the same rule, and so does
\* the line with the id CreateRule gives it.
RoundTrip == Serving => AllSurvive
=============================================================================
