---------------------------- MODULE DesiredState ----------------------------
(***************************************************************************)
(* The desired state of one protection and the PUT requests that are       *)
(* merged into it: ProtectionRepository.UpdateProtection selects the row,  *)
(* ProtectionDesiredState.Merge changes the copy in memory, the copy is    *)
(* validated and written back, with no transaction around the two          *)
(* statements.  UpsertProtection, which selects the row and saves it with  *)
(* the mode changed, writes the desired state it read back too.            *)
(*                                                                         *)
(* Users of basic auth and tokens of token auth are entries [key, val]; a  *)
(* val stands for the password, or for the three optional fields of a      *)
(* token, and is Nil where the request leaves it out.  A nil object of     *)
(* the stored state and an object without any field are the same here,     *)
(* except for Waf, whose nil pointer the code dereferences.  A panic of    *)
(* the handler ends the request and nothing is written.                    *)
(***************************************************************************)
EXTENDS Naturals, Sequences, Functions

CONSTANTS
    Handlers,   \* handlers of the API server that serve requests at a time
    Requests,   \* the PutProtectionRequests that are sent
    Paths, Names, Vals, CIDRs,  \* what requests are made of
    BadCIDRs,   \* the addresses net.ParseCIDR refuses
    MaxPuts,    \* bound: requests of one behaviour
    Nil,        \* nil, a field a request leaves out
    Default,    \* the default of an option
    Panic       \* the handler panics

VARIABLES
    state,      \* protections.desired_state of the row
    pending,    \* pending[c]: what handler c has read and is to merge
    puts        \* requests so far

putVars == <<state, pending, puts>>

Opt(S) == S \cup {Nil}

Entry == [key : Names, val : Opt(Vals)]

CaptchaV2 == [enabled : Opt(BOOLEAN), url : Opt(Vals \cup {Default}), keys : Opt(Vals)]

AntiBot == [enabled : Opt(BOOLEAN), options : Opt(Vals \cup {Default}), captcha : CaptchaV2]

AuthPutRequest ==
    [enabled : Opt(BOOLEAN), header : Opt(Vals), pathsToRemove : Seq(Paths),
     pathsToAdd : Seq(Paths), toRemove : Seq(Names), toAdd : Seq(Entry)]

PutProtectionRequest ==
    [waf : Opt(Vals), hops : Opt(Vals),
     allowToRemove : Seq(CIDRs), allowToAdd : Seq(CIDRs),
     blockToRemove : Seq(CIDRs), blockToAdd : Seq(CIDRs),
     basicAuth : Opt(AuthPutRequest), tokenAuth : Opt(AuthPutRequest),
     antiBot : Opt([enabled : Opt(BOOLEAN), options : Opt(Vals), captcha : Opt(CaptchaV2)])]

ASSUME RequestsAssumption ==
    /\ Requests \subseteq PutProtectionRequest
    /\ BadCIDRs \subseteq CIDRs
    /\ MaxPuts \in Nat
    /\ Default # Nil

KeysOf(entries) == [i \in DOMAIN entries |-> entries[i].key]

NoAuth == [enabled |-> FALSE, header |-> Nil, paths |-> <<>>, entries |-> <<>>]

NoCaptcha == [enabled |-> Nil, url |-> Nil, keys |-> Nil]

NoAntiBot == [enabled |-> Nil, options |-> Nil, captcha |-> NoCaptcha]

PutInit ==
    /\ state = [waf |-> Nil, hops |-> Nil, allow |-> <<>>, block |-> <<>>,
                basicAuth |-> NoAuth, tokenAuth |-> NoAuth, antiBot |-> NoAntiBot]
    /\ pending = [c \in Handlers |-> Nil]
    /\ puts = 0

-----------------------------------------------------------------------------
(***************************************************************************)
(* The merge                                                               *)
(***************************************************************************)

\* A request overwrites a field it sets.
overwrite(current, req) == IF req = Nil THEN current ELSE req

\* for _, x := range list { s = step(s, x) }
Loop(step(_, _), start, list) ==
    LET after[n \in 0..Len(list)] ==
            IF n = 0 THEN start ELSE step(after[n - 1], list[n])
    IN  after[Len(list)]

\* The positions to remove: one for every pair of a current element and an
\* element of the request that are equal, in the order of the current list.
removeAt(current, toRemove) ==
    LET found(s, i) == Loop(LAMBDA t, x : IF x = current[i] THEN Append(t, i) ELSE t,
                            s, toRemove)
    IN  Loop(found, <<>>, [i \in DOMAIN current |-> i])

\* The elements at those positions are cut out one after the other; each cut
\* moves what follows, and a position behind the end is out of range.
cut(list, positions) ==
    Loop(LAMBDA s, i : IF s = Panic \/ i > Len(s) THEN Panic
                       ELSE SubSeq(s, 1, i - 1) \o SubSeq(s, i + 1, Len(s)),
         list, positions)

addPaths(current, toAdd) ==
    Loop(LAMBDA s, p : IF p \in Range(s) THEN s ELSE Append(s, p), current, toAdd)

\* A user that is there already is left alone: the loop variable the new
\* password is assigned to is a copy of the element.
addUser(users, u) == IF u.key \in Range(KeysOf(users)) THEN users ELSE Append(users, u)

\* Mutant: the fields of a token that is there already stay as they are.
addTokenCopy(tokens, t) ==
    IF t.key \in Range(KeysOf(tokens)) THEN tokens ELSE Append(tokens, t)

\* A token that is there already gets the fields the request sets.
addToken(tokens, t) ==
    IF t.key \in Range(KeysOf(tokens))
    THEN [i \in DOMAIN tokens |->
             IF tokens[i].key = t.key
             THEN [tokens[i] EXCEPT !.val = overwrite(@, t.val)] ELSE tokens[i]]
    ELSE Append(tokens, t)

\* All of a merge that comes before the entries are added.
mergeAuth(auth, req) ==
    LET paths == cut(auth.paths, removeAt(auth.paths, req.pathsToRemove))
        kept == cut(auth.entries, removeAt(KeysOf(auth.entries), req.toRemove))
    IN  IF paths = Panic \/ kept = Panic THEN Panic
        ELSE [enabled |-> overwrite(auth.enabled, req.enabled),
              header  |-> overwrite(auth.header, req.header),
              paths   |-> addPaths(paths, req.pathsToAdd),
              entries |-> kept]

mergeBasicAuth(auth, req) ==
    IF req = Nil THEN auth
    ELSE LET merged == mergeAuth(auth, req)
         IN  IF merged = Panic THEN Panic
             ELSE [merged EXCEPT !.entries = Loop(addUser, @, req.toAdd)]

\* Mutant: enabled is taken from a request that does not set it.
mergeTokenAuthBlind(auth, req) ==
    IF req = Nil THEN auth
    ELSE LET merged == mergeAuth(auth, req)
         IN  IF merged = Panic THEN Panic
             ELSE [merged EXCEPT !.entries = Loop(addToken, @, req.toAdd),
                                 !.enabled = req.enabled]

mergeTokenAuth(auth, req) ==
    IF req = Nil THEN auth
    ELSE LET merged == mergeAuth(auth, req)
         IN  IF merged = Panic THEN Panic
             ELSE [merged EXCEPT !.entries = Loop(addToken, @, req.toAdd)]

removeIPs(current, fromReq) ==
    Loop(LAMBDA s, ip : IF ip \in Range(fromReq) THEN s ELSE Append(s, ip), <<>>, current)

\* Mutant: what is there already is appended again.
addIPsTwice(current, fromReq) == current \o fromReq

addIPs(current, fromReq) == addPaths(removeIPs(current, fromReq), fromReq)

\* Mutant: the addresses to add are added before the others are removed.
mergeIPsAddFirst(current, toRemove, toAdd) == removeIPs(addIPs(current, toAdd), toRemove)

mergeIPs(current, toRemove, toAdd) == addIPs(removeIPs(current, toRemove), toAdd)

mergeCaptcha(captcha, req) ==
    IF req = Nil THEN captcha
    ELSE IF req.enabled = Nil /\ captcha.enabled = Nil THEN Panic
    ELSE [enabled |-> overwrite(captcha.enabled, req.enabled),
          url     |-> overwrite(overwrite(Default, captcha.url), req.url),
          keys    |-> overwrite(captcha.keys, req.keys)]

\* Mutant: an option that neither the state nor the request sets stays unset.
mergeAntiBotUnset(antiBot, req) ==
    IF req = Nil THEN antiBot
    ELSE LET captcha == mergeCaptcha(antiBot.captcha, req.captcha)
         IN  IF captcha = Panic \/ (req.enabled = Nil /\ antiBot.enabled = Nil)
             THEN Panic
             ELSE [enabled |-> overwrite(antiBot.enabled, req.enabled),
                   options |-> overwrite(antiBot.options, req.options),
                   captcha |-> captcha]

mergeAntiBot(antiBot, req) ==
    IF req = Nil THEN antiBot
    ELSE LET captcha == mergeCaptcha(antiBot.captcha, req.captcha)
         IN  IF captcha = Panic \/ (req.enabled = Nil /\ antiBot.enabled = Nil)
             THEN Panic
             ELSE [enabled |-> overwrite(antiBot.enabled, req.enabled),
                   options |-> overwrite(overwrite(Default, antiBot.options), req.options),
                   captcha |-> captcha]

\* Waf is written through its pointer, which is nil until Waf has been set.
Merge(s, req) ==
    LET waf == IF req.waf = Nil THEN s.waf ELSE IF s.waf = Nil THEN Panic ELSE req.waf
        basicAuth == mergeBasicAuth(s.basicAuth, req.basicAuth)
        tokenAuth == mergeTokenAuth(s.tokenAuth, req.tokenAuth)
        antiBot == mergeAntiBot(s.antiBot, req.antiBot)
    IN  IF waf = Panic \/ basicAuth = Panic \/ tokenAuth = Panic \/ antiBot = Panic
        THEN Panic
        ELSE [waf |-> waf, hops |-> overwrite(s.hops, req.hops),
              allow |-> mergeIPs(s.allow, req.allowToRemove, req.allowToAdd),
              block |-> mergeIPs(s.block, req.blockToRemove, req.blockToAdd),
              basicAuth |-> basicAuth, tokenAuth |-> tokenAuth, antiBot |-> antiBot]

\* IPRules.Validate looks at the blocked addresses.
Validate(s) == \A i \in DOMAIN s.block : s.block[i] \notin BadCIDRs

-----------------------------------------------------------------------------
(***************************************************************************)
(* The handlers                                                            *)
(***************************************************************************)

\* UpdateProtection selects the row.
Select(c, req) ==
    /\ pending[c] = Nil /\ puts < MaxPuts
    /\ puts' = puts + 1
    /\ pending' = [pending EXCEPT ![c] = [op |-> "put", req |-> req, read |-> state]]
    /\ UNCHANGED state

\* What UpdateProtection makes of the state it read and its request.
Merged(c) == Merge(pending[c].read, pending[c].req)

Accepted(c) ==
    /\ pending[c] # Nil /\ pending[c].op = "put"
    /\ Merged(c) # Panic /\ Validate(Merged(c))

\* UpdateProtection merges, validates and updates the row.
Update(c) ==
    /\ pending[c] # Nil /\ pending[c].op = "put"
    /\ state' = IF Accepted(c) THEN Merged(c) ELSE state
    /\ pending' = [pending EXCEPT ![c] = Nil]
    /\ UNCHANGED puts

\* UpsertProtection finds the row that exists ...
First(c) ==
    /\ pending[c] = Nil /\ puts < MaxPuts
    /\ puts' = puts + 1
    /\ pending' = [pending EXCEPT ![c] = [op |-> "upsert", req |-> Nil, read |-> state]]
    /\ UNCHANGED state

\* ... and saves every column of it.
Save(c) ==
    /\ pending[c] # Nil /\ pending[c].op = "upsert"
    /\ state' = pending[c].read
    /\ pending' = [pending EXCEPT ![c] = Nil]
    /\ UNCHANGED puts

PutNext ==
    \E c \in Handlers :
        \/ \E req \in Requests : Select(c, req)
        \/ Update(c)
        \/ First(c)
        \/ Save(c)

PutSpec == PutInit /\ [][PutNext]_putVars

-----------------------------------------------------------------------------
(***************************************************************************)
(* Properties                                                              *)
(***************************************************************************)

Auth == [enabled : BOOLEAN, header : Opt(Vals), paths : Seq(Paths), entries : Seq(Entry)]

ProtectionDesiredState ==
    [waf : Opt(Vals), hops : Opt(Vals), allow : Seq(CIDRs), block : Seq(CIDRs),
     basicAuth : Auth, tokenAuth : Auth, antiBot : AntiBot]

\* The stored state, and every copy of it a handler holds, is a desired state:
\* Merge never stores what the JSON column could not hold, nor a panic.
PutTypeOK ==
    /\ state \in ProtectionDesiredState
    /\ \A c \in Handlers :
          pending[c] # Nil =>
              /\ pending[c].op \in {"put", "upsert"}
              /\ pending[c].op = "put" => pending[c].req \in Requests
              /\ pending[c].read \in ProtectionDesiredState
    /\ puts \in 0..MaxPuts

\* No list of the stored state holds an element twice, whatever requests were
\* merged and whichever of two concurrent ones was lost: BasicAuth.Merge,
\* TokenAuth.Merge and addIPs look for what they add.
EntriesUnique ==
    /\ IsInjective(state.allow) /\ IsInjective(state.block)
    /\ \A auth \in {state.basicAuth, state.tokenAuth} :
          IsInjective(auth.paths) /\ IsInjective(KeysOf(auth.entries))

Complete(antiBot) ==
    /\ (antiBot.enabled = Nil) <=> (antiBot.options = Nil)
    /\ (antiBot.captcha.enabled = Nil) <=> (antiBot.captcha.url = Nil)
    /\ antiBot.enabled = Nil => antiBot.captcha = NoCaptcha

\* The anti-bot settings are complete or absent: AntiBot.Merge gives every
\* option a value as soon as one request sets any of them, and CaptchaV2.Merge
\* a redirect URL, and later requests never unset one.
AntiBotComplete == Complete(state.antiBot)

\* The step in which the request of handler c is written.
Writes(c) == Accepted(c) /\ pending'[c] = Nil

\* A list after a request, as a set: what was there and is not removed, and
\* what is added.
SetMerged(before, toRemove, toAdd, after) ==
    Range(after) = (Range(before) \ Range(toRemove)) \cup Range(toAdd)

\* The address rules after an accepted request are those it was merged with,
\* less the ones to remove, and the ones to add (IPRules.Merge): an address in
\* both lists of the request stays.
RulesMergedAsAsked ==
    [][\A c \in Handlers : Writes(c) =>
          LET r == pending[c].req
              read == pending[c].read
          IN  /\ SetMerged(read.allow, r.allowToRemove, r.allowToAdd, state'.allow)
              /\ SetMerged(read.block, r.blockToRemove, r.blockToAdd, state'.block)]_putVars

\* The entry with key k: its val, or nothing.
Lookup(entries, k) == {entries[i].val : i \in {j \in DOMAIN entries : entries[j].key = k}}

\* The same after toRemove and toAdd: the last val the request gives, else the
\* one the entry had if it was not removed.
LookupMerged(before, toRemove, toAdd, k) ==
    LET old == IF k \in Range(toRemove) THEN {} ELSE Lookup(before, k)
        given == {i \in DOMAIN toAdd : toAdd[i].key = k /\ toAdd[i].val # Nil}
    IN  IF given # {} THEN {toAdd[CHOOSE i \in given : \A j \in given : j <= i].val}
        ELSE IF old = {} /\ k \in Range(KeysOf(toAdd)) THEN {Nil}
        ELSE old

\* A request that removes at most one path and one token leaves exactly the
\* paths and the tokens it asks for, every token with the fields last given
\* for it (TokenAuth.Merge: "do not duplicate the token, but do update the
\* fields").
TokensMergedAsAsked ==
    [][\A c \in Handlers : Writes(c) /\ pending[c].req.tokenAuth # Nil =>
          LET r == pending[c].req.tokenAuth
              before == pending[c].read.tokenAuth
              after == state'.tokenAuth
          IN  /\ Len(removeAt(before.paths, r.pathsToRemove)) <= 1 =>
                    SetMerged(before.paths, r.pathsToRemove, r.pathsToAdd, after.paths)
              /\ Len(removeAt(KeysOf(before.entries), r.toRemove)) <= 1 =>
                    \A k \in Names :
                        Lookup(after.entries, k)
                            = LookupMerged(before.entries, r.toRemove, r.toAdd, k)]_putVars

-----------------------------------------------------------------------------
(***************************************************************************)
(* The inductive invariant: what holds of the row also holds of every copy *)
(* a handler has read and may yet save or merge into.                      *)
(***************************************************************************)

WellMerged(s) ==
    /\ s \in ProtectionDesiredState
    /\ IsInjective(s.allow) /\ IsInjective(s.block)
    /\ IsInjective(s.basicAuth.paths) /\ IsInjective(KeysOf(s.basicAuth.entries))
    /\ IsInjective(s.tokenAuth.paths) /\ IsInjective(KeysOf(s.tokenAuth.entries))
    /\ Complete(s.antiBot)

PutInv ==
    /\ WellMerged(state)
    /\ pending = [c \in Handlers |-> pending[c]]
    /\ \A c \in Handlers :
          pending[c] # Nil =>
              /\ pending[c].op \in {"put", "upsert"}
              /\ pending[c].op = "put" => pending[c].req \in Requests
              /\ WellMerged(pending[c].read)
    /\ puts \in 0..MaxPuts

=============================================================================
