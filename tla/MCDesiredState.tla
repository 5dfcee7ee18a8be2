--------------------------- MODULE MCDesiredState ---------------------------
(***************************************************************************)
(* The requests DesiredState is checked with.  The parts of a request are  *)
(* merged one by one, so a request sets one part; one with Waf sets the    *)
(* trusted hops too, which the panic over Waf loses.                       *)
(***************************************************************************)
EXTENDS DesiredState, SequencesExt

CONSTANT MaxList    \* bound: elements of a list of a request

NoRequest ==
    [waf |-> Nil, hops |-> Nil, allowToRemove |-> <<>>, allowToAdd |-> <<>>,
     blockToRemove |-> <<>>, blockToAdd |-> <<>>, basicAuth |-> Nil,
     tokenAuth |-> Nil, antiBot |-> Nil]

NoAuthRequest ==
    [enabled |-> Nil, header |-> Nil, pathsToRemove |-> <<>>, pathsToAdd |-> <<>>,
     toRemove |-> <<>>, toAdd |-> <<>>]

PathRequests ==
    {[NoAuthRequest EXCEPT !.pathsToRemove = rm, !.pathsToAdd = add] :
        rm, add \in BoundedSeq(Paths, MaxList)}

EntryRequests ==
    {[NoAuthRequest EXCEPT !.toRemove = rm, !.toAdd = add] :
        rm \in BoundedSeq(Names, MaxList), add \in BoundedSeq(Entry, 1)}

SettingRequests ==
    {[NoAuthRequest EXCEPT !.enabled = TRUE, !.header = h] : h \in Opt(Vals)}

RuleRequests ==
    {[NoRequest EXCEPT !.allowToRemove = rm, !.allowToAdd = add] :
        rm, add \in BoundedSeq(CIDRs, MaxList)}
    \cup {[NoRequest EXCEPT !.blockToRemove = rm, !.blockToAdd = add] :
        rm, add \in BoundedSeq(CIDRs, MaxList)}

AntiBotRequests ==
    {[NoRequest EXCEPT !.antiBot = [enabled |-> e, options |-> o, captcha |-> c]] :
        e \in Opt({TRUE}), o \in Opt(Vals),
        c \in {Nil} \cup [enabled : Opt({TRUE}), url : {Nil}, keys : {Nil}]}

WafRequests == {[NoRequest EXCEPT !.waf = w, !.hops = w] : w \in Vals}

BasicRequests == {[NoRequest EXCEPT !.basicAuth = a] : a \in EntryRequests}

TokenRequests ==
    {[NoRequest EXCEPT !.tokenAuth = a] :
        a \in PathRequests \cup EntryRequests \cup SettingRequests}

AllRequests ==
    TokenRequests \cup BasicRequests \cup RuleRequests \cup AntiBotRequests
    \cup WafRequests

Symmetry == Permutations(Handlers) \cup Permutations(Names) \cup Permutations(Paths)
            \cup Permutations(Vals)

=============================================================================
