-------------------------------- MODULE Crs --------------------------------
(***************************************************************************)
(* The CRS rules of the API server: the profiles seedCrsProfiles inserts   *)
(* when the server starts, the versions and rule sets of the protections,  *)
(* and the handlers of CrsService, which are several SQL statements        *)
(* without a transaction around them.  Handlers run at the same time; a    *)
(* statement may fail, which ends the handler, and the server may crash    *)
(* and start again.                                                        *)
(*                                                                         *)
(* The content of a rule set is the file it was cloned from, followed by   *)
(* lines for the rules that were added, each known by the rule that was    *)
(* asked for and the id it was given.  What they say is in the tokens of   *)
(* SecLang.  The template of a file is present by the desired state it is  *)
(* executed with.  Requests carry no id for a new version.                 *)
(***************************************************************************)
EXTENDS SecLang, FiniteSets, TLC

CONSTANTS
  Callers,        \* handlers that run at a time
  Main,           \* NewDb at the start of the server
  ProfileFiles,   \* ProfileFiles[profile]: the files embedded in the server
  FileContent,    \* FileContent[f]: what file f says
  RuleText,       \* RuleText[r]: the text of rule r
  Asked,          \* the rules of a CreateRule request, each a sequence
  None, Clash,    \* see ActiveRuleSets
  MaxProtections, MaxVersions, MaxRuleSets,  \* bounds: rows
  MaxRequests,    \* bound: CreateRule requests, those that fail aside
  MaxRuleId,      \* bound: rule ids
  MaxFaults       \* bound: failing statements and crashes

VARIABLES
  profiles,     \* profiles[name][f]: rows of crs_profiles
  seeded,       \* the variable of that name
  protections,  \* protections[id]: its desired state
  versions,     \* crs_versions, by id
  ruleSets,     \* crs_rule_sets, by id
  calls,        \* calls[c]: what handler c has read and is to do
  added,        \* history: added[s]: the rules of answered requests for rule set s
  raced,        \* history: rule sets written by a handler whose copy was stale
  spoiled,      \* history: versions cloned into by several handlers, or not to the end
  torn,         \* history: profiles several handlers were at, or not seeded to the end
  faults

vars == <<profiles, seeded, protections, versions, ruleSets, calls, added, raced,
          spoiled, torn, faults>>

Profiles == <<"full", "empty">>     \* in the order of seeding
DefaultCRSProfileName == "empty"
Names == {"full", "empty"}
Files == DOMAIN FileContent
ACTIVE == "ACTIVE"
Statuses == {ACTIVE, "INACTIVE"}
Tags == {"default", "tuned"}
DesiredStates == {"d0", "d1"}

ASSUME CrsAssumption ==
  /\ Main \notin Callers
  /\ ProfileFiles \in [Names -> SUBSET Files \ {{}}]
  /\ Asked \subseteq Seq(DOMAIN RuleText)

Line == [rule : DOMAIN RuleText, id : 1..MaxRuleId]

Idle == [op |-> "idle"]
Ready == [op |-> "ready"]      \* db() has returned
Seeding(k, left) == [op |-> "seed", k |-> k, left |-> left]
\* known: how many rule sets the version has as far as the handler knows.
Cloning(v, left, known) == [op |-> "clone", version |-> v, left |-> left, known |-> known]
Adding(s, base, rules, id) ==
  [op |-> "rule", set |-> s, base |-> base, rules |-> rules, id |-> id]

Procs == Callers \cup {Main}

Init ==
  /\ profiles = [n \in Names |-> [f \in Files |-> 0]]
  /\ seeded = FALSE
  /\ protections = <<>> /\ versions = <<>> /\ ruleSets = <<>>
  /\ calls = [c \in Procs |-> IF c = Main THEN Seeding(1, {}) ELSE Idle]
  /\ added = <<>> /\ raced = {} /\ spoiled = {} /\ torn = {}
  /\ faults = 0

Serving == calls[Main] = Ready
Becomes(c, call) == calls' = [calls EXCEPT ![c] = call]

\* db() goes on whether it had to seed or not, and whether that worked or not.
HasDb(c) == Serving /\ c # Main /\ (calls[c] = Ready \/ (calls[c] = Idle /\ seeded))

crsTables == <<versions, ruleSets, added, raced, spoiled>>

-----------------------------------------------------------------------------
\* Seeding, by NewDb and, as long as it has not succeeded, by every db().
db(c) ==
  /\ Serving /\ calls[c] = Idle /\ ~seeded
  /\ Becomes(c, Seeding(1, {}))
  /\ UNCHANGED <<profiles, seeded, protections, crsTables, torn, faults>>

\* A request that only reads, or that is refused, needs db() as well.
Reads(c) ==
  /\ Serving /\ c # Main /\ calls[c] = Ready
  /\ Becomes(c, Idle)
  /\ UNCHANGED <<profiles, seeded, protections, crsTables, torn, faults>>

\* The rows of a profile, in some order.
GetProfileRulesByName(n) ==
  LET Add(f, rows) == rows \o [i \in 1..profiles[n][f] |-> f]
  IN FoldSet(Add, <<>>, Files)

OtherSeeds(c, k) ==
  \E d \in Procs \ {c} : calls[d].op = "seed" /\ calls[d].k = k /\ calls[d].left # {}

\* Mutant: a profile that has rows ends the seeding.
seedCrsProfilesReturns(c) ==
  /\ calls[c].op = "seed" /\ calls[c].left = {}
  /\ LET k == calls[c].k
     IN \/ /\ k > Len(Profiles) \/ GetProfileRulesByName(Profiles[k]) # <<>>
           /\ seeded' = TRUE /\ Becomes(c, Ready) /\ UNCHANGED torn
        \/ /\ k <= Len(Profiles) /\ UNCHANGED seeded
           /\ torn' = IF OtherSeeds(c, k) THEN torn \cup {Profiles[k]} ELSE torn
           /\ GetProfileRulesByName(Profiles[k]) = <<>>
           /\ Becomes(c, Seeding(k, ProfileFiles[Profiles[k]]))
  /\ UNCHANGED <<profiles, protections, crsTables, faults>>

\* The next profile is looked at; one that has rows is passed over.
seedCrsProfiles(c) ==
  /\ calls[c].op = "seed" /\ calls[c].left = {}
  /\ LET k == calls[c].k
     IN \/ /\ k > Len(Profiles)
           /\ seeded' = TRUE /\ Becomes(c, Ready) /\ UNCHANGED torn
        \/ /\ k <= Len(Profiles) /\ UNCHANGED seeded
           /\ torn' = IF OtherSeeds(c, k) THEN torn \cup {Profiles[k]} ELSE torn
           /\ Becomes(c, IF GetProfileRulesByName(Profiles[k]) # <<>> THEN Seeding(k + 1, {})
                         ELSE Seeding(k, ProfileFiles[Profiles[k]]))
  /\ UNCHANGED <<profiles, protections, crsTables, faults>>

CreateCrsProfile(c) ==
  /\ calls[c].op = "seed"
  /\ \E f \in calls[c].left :
       LET k == calls[c].k
           rest == calls[c].left \ {f}
       IN /\ profiles' = [profiles EXCEPT ![Profiles[k]][f] = @ + 1]
          /\ Becomes(c, Seeding(IF rest = {} THEN k + 1 ELSE k, rest))
          /\ torn' = IF OtherSeeds(c, k) THEN torn \cup {Profiles[k]} ELSE torn
  /\ UNCHANGED <<seeded, protections, crsTables, faults>>

-----------------------------------------------------------------------------
\* The rows of a profile as rule sets of version v.
Cloned(files, v) ==
  [i \in DOMAIN files |-> [version |-> v, file |-> files[i], lines |-> <<>>]]

\* Mutant: AfterCreate leaves the default version without rule sets.
CreateProtectionBare(c) ==
  /\ HasDb(c) /\ Len(protections) < MaxProtections /\ Len(versions) < MaxVersions
  /\ protections' = Append(protections, "d0")
  /\ versions' = Append(versions, [protection |-> Len(protections) + 1,
                                   tag |-> "default", status |-> ACTIVE])
  /\ Becomes(c, Idle)
  /\ UNCHANGED <<profiles, seeded, ruleSets, added, raced, spoiled, torn, faults>>

\* The INSERT of a protection, with AfterCreate in its transaction.
CreateProtection(c) ==
  LET files == GetProfileRulesByName(DefaultCRSProfileName)
      v == Len(versions) + 1
  IN /\ HasDb(c) /\ Len(protections) < MaxProtections
     /\ Len(versions) < MaxVersions /\ Len(ruleSets) + Len(files) <= MaxRuleSets
     /\ files # <<>>
     /\ protections' = Append(protections, "d0")
     /\ versions' = Append(versions, [protection |-> Len(protections) + 1,
                                      tag |-> "default", status |-> ACTIVE])
     /\ ruleSets' = ruleSets \o Cloned(files, v)
     /\ added' = added \o [i \in DOMAIN files |-> <<>>]
     /\ Becomes(c, Idle)
     /\ UNCHANGED <<profiles, seeded, raced, spoiled, torn, faults>>

\* The desired state changes (see DesiredState).
UpdateProtection(p, d) ==
  /\ Serving /\ d # protections[p]
  /\ protections' = [protections EXCEPT ![p] = d]
  /\ UNCHANGED <<profiles, seeded, crsTables, calls, torn, faults>>

\* Tags are unique per protection.
CreateCrsVersion(c, p, tag, status) ==
  LET row == [protection |-> p, tag |-> tag, status |-> status]
  IN /\ HasDb(c) /\ Len(versions) < MaxVersions
     /\ p \in DOMAIN protections
     /\ \A v \in DOMAIN versions : versions[v].protection = p => versions[v].tag # tag
     /\ versions' = Append(versions, row)
     /\ Becomes(c, Idle)
     /\ UNCHANGED <<profiles, seeded, protections, ruleSets, added, raced, spoiled, torn, faults>>

RuleSetsOf(v) == SelectSeq(ruleSets, LAMBDA row : row.version = v)

\* Mutant: the check is left out.
CloneUnchecked(c, profileName, v) ==
  LET files == GetProfileRulesByName(profileName)
  IN /\ HasDb(c)
     /\ files # <<>>
     /\ Becomes(c, Cloning(v, files, Len(RuleSetsOf(v))))
     /\ UNCHANGED <<profiles, seeded, protections, crsTables, torn, faults>>

\* Nothing is done for a version that has rule sets.  The version need not exist.
CloneCrsProfileToCrsRuleSet(c, profileName, v) ==
  LET files == GetProfileRulesByName(profileName)
  IN /\ HasDb(c)
     /\ RuleSetsOf(v) = <<>>
     /\ files # <<>>
     /\ Becomes(c, Cloning(v, files, Len(RuleSetsOf(v))))
     /\ UNCHANGED <<profiles, seeded, protections, crsTables, torn, faults>>

\* Mutant: crs_version_id has no foreign key.
CreateCrsRuleSetUnkeyed(c) ==
  /\ calls[c].op = "clone" /\ Len(ruleSets) < MaxRuleSets
  /\ LET call == calls[c]
     IN /\ ruleSets' = ruleSets \o Cloned(<<Head(call.left)>>, call.version)
        /\ added' = Append(added, <<>>)
        /\ Becomes(c, IF Len(call.left) = 1 THEN Idle
                      ELSE Cloning(call.version, Tail(call.left), call.known + 1))
  /\ UNCHANGED <<profiles, seeded, protections, versions, raced, spoiled, torn, faults>>

\* One INSERT, which the foreign key refuses when there is no such version.
CreateCrsRuleSet(c) ==
  /\ calls[c].op = "clone"
  /\ LET call == calls[c]
         v == call.version
         alone == Len(RuleSetsOf(v)) = call.known
     IN IF v \notin DOMAIN versions
        THEN Becomes(c, Idle) /\ UNCHANGED <<ruleSets, added, spoiled>>
        ELSE /\ Len(ruleSets) < MaxRuleSets
             /\ ruleSets' = ruleSets \o Cloned(<<Head(call.left)>>, v)
             /\ added' = Append(added, <<>>)
             /\ Becomes(c, IF Len(call.left) = 1 THEN Idle
                           ELSE Cloning(v, Tail(call.left), call.known + 1))
             /\ spoiled' = IF alone THEN spoiled ELSE spoiled \cup {v}
  /\ UNCHANGED <<profiles, seeded, protections, versions, raced, torn, faults>>

-----------------------------------------------------------------------------
Numbers == {ToString(n) : n \in 0..MaxRuleId}
NumberOf == [w \in Numbers |-> CHOOSE n \in 0..MaxRuleId : ToString(n) = w]

\* A number that is out of range for strconv.Atoi.
HugeNumber == "99999999999999999999"

\* The words regular expression id:\s*(\d+) finds a number after: those that end
\* in "id".
IdWords == {"id", "grid"}

Matches(text) ==
  LET colons == {i \in 2..Len(text) : text[i] = ":" /\ text[i - 1] \in IdWords}
      Follows(i, j) == i < j /\ \A k \in i + 1 .. j - 1 : text[k] \in Blank
  IN {text[j] : j \in {k \in DOMAIN text : /\ text[k] \in Numbers \cup {HugeNumber}
                                           /\ \E i \in colons : Follows(i, k)}}

IdAction(id) == Action(<<"id">>, <<ToString(id)>>)
Parsed(text) == ParseRule(text).rule

\* The line for a rule and an id.
LineText(r, id) == ToModSecurityRule(AddAction(Parsed(RuleText[r]), IdAction(id)))

Parseable == {r \in DOMAIN RuleText : ParseRule(RuleText[r]).kind = "rule"}
FileMatches == [f \in Files |-> Matches(FileContent[f])]
LineTexts == [r \in Parseable, id \in 1..MaxRuleId |-> LineText(r, id)]

RowMatches(row) ==
  LET appended == {LineTexts[l.rule, l.id] : l \in ToSet(row.lines)}
  IN FileMatches[row.file] \cup UNION {Matches(text) : text \in appended}

\* Mutant: the counter is not increased.
nextRuleIdSame(row) ==
  IF HugeNumber \in RowMatches(row) THEN 0
  ELSE Max({1} \cup {NumberOf[w] : w \in RowMatches(row)})

\* 0 where the code returns an error.
nextRuleId(row) ==
  IF HugeNumber \in RowMatches(row) THEN 0
  ELSE 1 + Max({0} \cup {NumberOf[w] : w \in RowMatches(row)})

\* The SELECT of CreateRule, and what it does with the row in memory.  A rule
\* that cannot be parsed ends the request, and so does a panic of the parser.
CreateRule(c, p, s, rules) ==
  /\ HasDb(c)
  /\ s \in DOMAIN ruleSets /\ versions[ruleSets[s].version].protection = p
  /\ Len(FlattenSeq(added)) + Cardinality({d \in Callers : calls[d].op = "rule"}) < MaxRequests
  /\ ToSet(rules) \subseteq Parseable
  /\ \E ruleId \in {nextRuleId(ruleSets[s])} \ {0} :
       Becomes(c, Adding(s, ruleSets[s], rules, ruleId))
  /\ UNCHANGED <<profiles, seeded, protections, crsTables, torn, faults>>

\* Mutant: the last rule replaces the one before it.
SaveLast(c) ==
  /\ calls[c].op = "rule"
  /\ LET call == calls[c]
         s == call.set
         line == [rule |-> Last(call.rules), id |-> call.id]
     IN /\ ruleSets' = [ruleSets EXCEPT ![s].lines = Append(call.base.lines, line)]
        /\ added' = [added EXCEPT ![s] = Append(@, call.rules)]
        /\ raced' = IF ruleSets[s] = call.base THEN raced ELSE raced \cup {s}
  /\ Becomes(c, Idle)
  /\ UNCHANGED <<profiles, seeded, protections, versions, spoiled, torn, faults>>

\* The UPDATE of CreateRule: every column of the row as it was read, with the
\* rules appended; all rules of a request get the same id.
Save(c) ==
  /\ calls[c].op = "rule"
  /\ LET call == calls[c]
         s == call.set
         lines == [k \in DOMAIN call.rules |-> [rule |-> call.rules[k], id |-> call.id]]
     IN /\ ruleSets' = [ruleSets EXCEPT ![s].lines = call.base.lines \o lines]
        /\ added' = [added EXCEPT ![s] = Append(@, call.rules)]
        /\ raced' = IF ruleSets[s] = call.base THEN raced ELSE raced \cup {s}
  /\ Becomes(c, Idle)
  /\ UNCHANGED <<profiles, seeded, protections, versions, spoiled, torn, faults>>

-----------------------------------------------------------------------------
\* What is left undone when the handlers C stop where they are.
LeavesClone(C) ==
  {calls[c].version : c \in {d \in C : calls[d].op = "clone" /\ calls[d].known > 0}}
LeavesProfile(C) ==
  {Profiles[calls[c].k] : c \in {d \in C : calls[d].op = "seed" /\ calls[d].left # {}}}

\* A statement fails.  The handler answers with the error; NewDb logs it, and
\* the server goes on.
StatementFails(c) ==
  /\ calls[c].op \in {"seed", "clone", "rule"} /\ faults < MaxFaults
  /\ Becomes(c, IF calls[c].op = "seed" THEN Ready ELSE Idle)
  /\ spoiled' = spoiled \cup LeavesClone({c})
  /\ torn' = torn \cup LeavesProfile({c})
  /\ faults' = faults + 1
  /\ UNCHANGED <<profiles, seeded, protections, versions, ruleSets, added, raced>>

Crash ==
  /\ faults < MaxFaults
  /\ calls' = [c \in Procs |-> IF c = Main THEN Seeding(1, {}) ELSE Idle]
  /\ seeded' = FALSE
  /\ spoiled' = spoiled \cup LeavesClone(Procs)
  /\ torn' = torn \cup LeavesProfile(Procs)
  /\ faults' = faults + 1
  /\ UNCHANGED <<profiles, protections, versions, ruleSets, added, raced>>

Next ==
  \/ \E c \in Procs : seedCrsProfiles(c) \/ CreateCrsProfile(c) \/ StatementFails(c)
  \/ \E c \in Callers :
       \/ db(c) \/ Reads(c) \/ CreateProtection(c) \/ CreateCrsRuleSet(c) \/ Save(c)
       \/ \E p \in 1..MaxProtections, tag \in Tags, status \in Statuses :
            CreateCrsVersion(c, p, tag, status)
       \/ \E n \in Names, v \in 1..MaxVersions : CloneCrsProfileToCrsRuleSet(c, n, v)
       \/ \E p \in 1..MaxProtections, s \in 1..MaxRuleSets, rules \in Asked :
            CreateRule(c, p, s, rules)
  \/ \E p \in DOMAIN protections, d \in DesiredStates : UpdateProtection(p, d)
  \/ Crash

Spec == Init /\ [][Next]_vars

-----------------------------------------------------------------------------
(* What a ruleset watcher gets.                                            *)

\* The desired state of the first protection, whichever the version belongs to.
ProtectionDesiredState == protections[1]

Render(row) == [file |-> row.file, lines |-> row.lines, data |-> ProtectionDesiredState]

\* GetProtection with the active rules, as the watcher counts its versions.
Active(p) ==
  LET vs == {v \in DOMAIN versions : versions[v].protection = p /\ versions[v].status = ACTIVE}
      rows == RuleSetsOf(CHOOSE v \in vs : TRUE)
  IN CASE p \notin DOMAIN protections -> None
       [] p \in DOMAIN protections /\ Cardinality(vs) # 1 -> Clash
       [] OTHER -> [i \in DOMAIN rows |-> Render(rows[i])]

Watched ==
  INSTANCE ActiveRuleSets
  WITH Protections <- 1..MaxProtections,
       RuleSets <- Seq([file : Files, lines : Seq(Line), data : DesiredStates]) \ {<<>>},
       active <- [p \in 1..MaxProtections |-> Active(p)]

-----------------------------------------------------------------------------
(* What the CRS rules must provide.                                        *)

\* The tables are well formed: a rule set is of a version and a version of a
\* protection that exist, and every handler is at a statement it can execute.
TypeOK ==
  /\ profiles \in [Names -> [Files -> 0..Cardinality(Procs)]]
  /\ seeded \in BOOLEAN
  /\ protections \in Seq(DesiredStates)
  /\ \A v \in DOMAIN versions :
       /\ versions[v].protection \in DOMAIN protections
       /\ versions[v].tag \in Tags /\ versions[v].status \in Statuses
  /\ \A s \in DOMAIN ruleSets :
       /\ ruleSets[s].version \in DOMAIN versions /\ ruleSets[s].file \in Files
       /\ ruleSets[s].lines \in Seq(Line)
  /\ DOMAIN added = DOMAIN ruleSets /\ raced \subseteq DOMAIN ruleSets
  /\ spoiled \subseteq DOMAIN versions /\ torn \subseteq Names
  /\ \A c \in Procs : calls[c].op = "rule" => calls[c].id \in 1..MaxRuleId

\* CreateRule: the rules of every answered request are in the file, in order,
\* unless two requests for the rule set overlapped.
AnsweredRulesKept ==
  \A s \in DOMAIN ruleSets \ raced :
    LET lines == ruleSets[s].lines
    IN [k \in DOMAIN lines |-> lines[k].rule] = FlattenSeq(added[s])

\* nextRuleId: however requests overlap, ids grow along a file, start above every
\* id its profile has, and the rules that share one are those of one request.
RuleIdsOfOneRequest ==
  \A s \in DOMAIN ruleSets :
    LET lines == ruleSets[s].lines
        With(id) == SelectSeq(lines, LAMBDA l : l.id = id)
    IN \A k \in DOMAIN lines :
         /\ \A w \in FileMatches[ruleSets[s].file] : NumberOf[w] < lines[k].id
         /\ \A l \in DOMAIN lines : k < l => lines[k].id <= lines[l].id
         /\ LET same == With(lines[k].id) IN [i \in DOMAIN same |-> same[i].rule] \in Asked

\* seedCrsProfiles: once a seeding has come to its end no profile is without
\* files, and one whose seeding was neither cut short nor done twice at a time
\* has each of its files once.
ProfilesSeeded ==
  seeded => \A n \in Names :
              /\ GetProfileRulesByName(n) # <<>>
              /\ n \notin torn
                   => profiles[n] = [f \in Files |-> IF f \in ProfileFiles[n] THEN 1 ELSE 0]

\* "clone can be done only once": outside clones that overlap or stop midway, a
\* version has no rule sets or those of one profile.
ClonedOnce ==
  torn = {} =>
    \A v \in DOMAIN versions \ spoiled :
      LET rows == RuleSetsOf(v)
          files == [i \in DOMAIN rows |-> rows[i].file]
      IN \/ \E c \in Callers : calls[c].op = "clone" /\ calls[c].version = v
         \/ files = <<>> \/ \E n \in Names : files = GetProfileRulesByName(n)

\* The active rule sets change as the ruleset watcher counts on: a protection
\* has rules from the start, and only a second active version takes them away.
ImplementsActiveRuleSets == Watched!Spec
=============================================================================
