------------------------------ MODULE Settings ------------------------------
(***************************************************************************)
(* CSettingsFile (SettingsFile.cpp) and the SIGHUP handler that reloads it *)
(* (Main.cpp:54-59) while the server may be in the middle of Get or GetInt.*)
(*                                                                         *)
(* The settings are a function from pairs of a section and a key to values.*)
(* Get looks for the section, for the key and then for the value; a reload *)
(* may come between any two of these looks, and operator[] inserts what it *)
(* does not find any more.  A reload inside of a look finds a std::map, or *)
(* the heap, in the middle of a change: `fault', and the model stops.      *)
(*                                                                         *)
(* LoadConfig never returns from a file with a line of more characters     *)
(* than getline takes: failbit is set, so nothing is read any more, and    *)
(* eof is not reached.                                                     *)
(***************************************************************************)
EXTENDS Integers, Sequences, SequencesExt

CONSTANTS
  Char,       \* the characters
  Limit,      \* the characters getline takes of a line: 498 in the code
  Probes,     \* files, in the first place searched, that nobody edits
  Edits,      \* files that may be anywhere, and take each other's place
  Places,     \* where these may be: directories, "nowhere"
  Wanted      \* the pairs of a section and a key the server asks for

Space == "_"

\* A line, a name or a value is a sequence of characters.
Text == Seq(Char)

ASSUME CharAssumption == {Space, "#", "[", "]", "="} \subseteq Char
ASSUME LimitAssumption == Limit \in Nat \ {0}
ASSUME FilesAssumption == Probes \cup Edits \subseteq Seq(Text)
ASSUME WantedAssumption == Wanted \subseteq Text \X Text
ASSUME PlacesAssumption == Places \subseteq {"initial", "home", "etc", "arg", "nowhere"}

VARIABLES
  place,      \* where the file is: a directory, or "nowhere"
  disk,       \* its lines
  path,       \* m_szConfigPath, "" before it is found
  settings,   \* m_Settings
  loaded,     \* history: the lines of the last file loaded
  running,    \* the handler is installed: main has loaded the settings
  hung,       \* LoadConfig is in its loop for ever
  step,       \* the next look of Get: "idle", "section", "key", "value"
  asked,      \* the section, the key and the type asked for
  answer,     \* what the last Get returned
  seen,       \* history: the right answers at some time during the Get
  fault       \* the undefined behaviour reached, if any

diskVars == <<place, disk>>
getVars  == <<step, asked, answer, seen>>
vars == <<diskVars, path, settings, loaded, running, hung, getVars, fault>>

-----------------------------------------------------------------------------
(* Lines.                                                                  *)

Least(I) == CHOOSE i \in I : \A j \in I : i =< j
Most(I)  == CHOOSE i \in I : \A j \in I : i >= j

Where(s, C) == {i \in 1..Len(s) : s[i] \in C}
Inked(s) == {i \in 1..Len(s) : s[i] # Space}

TrimLeft(s) == IF Inked(s) = {} THEN <<>> ELSE SubSeq(s, Least(Inked(s)), Len(s))

\* A string of spaces keeps the first one.
TrimRight(s) == IF s = <<>> THEN s ELSE SubSeq(s, 1, Most(Inked(s) \cup {1}))

Trim(s) == TrimRight(TrimLeft(s))

\* The name in a line that begins with a bracket.
SectionName(s) ==
  Trim(IF Where(s, {"]"}) = {} THEN Tail(s)
       ELSE SubSeq(s, 2, Least(Where(s, {"]"})) - 1))

\* Variant: the value begins at the last equals sign.
LastSign(s) == Most(Where(s, {"="}))

Sign(s) == Least(Where(s, {"="}))
KeyOf(s) == TrimRight(SubSeq(s, 1, Sign(s) - 1))
ValueOf(s) == Trim(SubSeq(s, Sign(s) + 1, Len(s)))

Put(m, s, k, v) ==
  [p \in DOMAIN m \cup {<<s, k>>} |-> IF p = <<s, k>> THEN v ELSE m[p]]

NoSettings == [p \in {} |-> <<>>]

\* Variant: the line is trimmed after the test.
IsCommentUntrimmed(line) == line # <<>> /\ line[1] = "#"

IsComment(line) == TrimLeft(line) # <<>> /\ TrimLeft(line)[1] = "#"

\* One turn of LoadConfig's loop with the line it has read: acc has the
\* settings and the section so far.
LoadLine(acc, line) ==
  LET s == TrimLeft(line) IN
  CASE s = <<>> \/ IsComment(line) -> acc
    [] s # <<>> /\ ~IsComment(line) /\ s[1] = "[" ->
         IF SectionName(s) = <<>> THEN acc
         ELSE [acc EXCEPT !.section = SectionName(s)]
    [] OTHER ->
         IF \/ acc.section = <<>>
            \/ Where(s, {"="}) = {}
            \/ KeyOf(s) = <<>>
            \/ ValueOf(s) = <<>>
         THEN acc
         ELSE [acc EXCEPT !.map = Put(@, acc.section, KeyOf(s), ValueOf(s))]

TooLong(file) == {i \in 1..Len(file) : Len(file[i]) > Limit}

\* Variant: the settings of the last file stay.
OnTopOf(old) == old

\* m_Settings.clear().
Cleared(old) == NoSettings

\* Of a line that is too long, and is the last one to be read, the beginning
\* counts.
LinesRead(file) ==
  IF TooLong(file) = {} THEN file
  ELSE LET n == Least(TooLong(file)) IN
       Append(SubSeq(file, 1, n - 1), SubSeq(file[n], 1, Limit))

\* The loop: the settings and the section after n of the lines.
Turns(old, lines) ==
  LET turn[n \in 0..Len(lines)] ==
        IF n = 0 THEN [section |-> <<>>, map |-> Cleared(old)]
        ELSE LoadLine(turn[n - 1], lines[n])
  IN turn

Load(old, file) ==
  LET lines == LinesRead(file) IN Turns(old, lines)[Len(lines)].map

-----------------------------------------------------------------------------
(* SaveConfig, as far as what it writes; nobody calls it.                  *)

SectionsOf(m) == {p[1] : p \in DOMAIN m}

\* The lines of section s.  The order of the keys is of no consequence.
SectionLines(m, s) ==
  <<<<"[">> \o s \o <<"]">>>> \o
  SetToSeq({p[2] \o <<"=">> \o m[p] : p \in {r \in DOMAIN m : r[1] = s}})

\* The loop: what is written after n of the sections, a line between two.
Written(m, sections) ==
  LET lines[n \in 0..Len(sections)] ==
        IF n = 0 THEN <<>>
        ELSE lines[n - 1] \o (IF n = 1 THEN <<>> ELSE <<<<>>>>)
               \o SectionLines(m, sections[n])
  IN lines

Saved(m) ==
  LET sections == SetToSeq(SectionsOf(m)) IN
  Written(m, sections)[Len(sections)]

-----------------------------------------------------------------------------
(* LoadConfig.                                                             *)

Searched == {"initial", "home", "etc"}

\* SearchForConfigFile, if the path is not set: the file is in one place.
PathFound ==
  IF path = "" /\ place \in Searched THEN place ELSE path

\* Behind the first place the search frees the string getenv gave it.
FreesHome == path = "" /\ place # "initial"

LoadConfig ==
  /\ path' = PathFound
  /\ IF PathFound # "" /\ place = PathFound
     THEN /\ settings' = Load(settings, disk)
          /\ loaded' = disk
          /\ hung' = (TooLong(disk) # {})
     ELSE UNCHANGED <<settings, loaded, hung>>

\* main's own LoadConfig, before the handler is installed.
Start ==
  /\ ~running
  /\ running' = TRUE
  /\ \/ LoadConfig /\ UNCHANGED fault
     \/ /\ FreesHome
        /\ fault' = "freedHome"
        /\ UNCHANGED <<path, settings, loaded, hung>>
  /\ UNCHANGED <<diskVars, getVars>>

\* The right answer for a pair in the settings m, "default" if it has none.
Default == <<"default">>
IsInt(v) == \A i \in 1..Len(v) : v[i] = "1"

\* GetInt takes a value only if strtol takes all of it; an empty one is 0.
Answer(type, v) == IF type = "int" /\ ~IsInt(v) THEN Default ELSE v

Right(m, ask) ==
  IF ask.pair \in DOMAIN m THEN Answer(ask.type, m[ask.pair]) ELSE Default

OnSIGHUP ==
  /\ running
  /\ LoadConfig
  /\ seen' = IF step = "idle" THEN seen ELSE seen \cup {Right(settings', asked)}
  /\ UNCHANGED <<diskVars, running, step, asked, answer, fault>>

\* The handler's search frees the environment, or it comes inside of a look.
SIGHUPFaults ==
  /\ running
  /\ \/ FreesHome /\ fault' = "freedHome"
     \/ step # "idle" /\ fault' = "tornMap"
  /\ UNCHANGED <<diskVars, path, settings, loaded, running, hung, getVars>>

-----------------------------------------------------------------------------
(* The administrator, external.                                            *)

Edit ==
  /\ disk \in Edits
  /\ disk' \in Edits
  /\ place' \in Places
  /\ UNCHANGED <<path, settings, loaded, running, hung, getVars, fault>>

-----------------------------------------------------------------------------
(* Get and GetInt.                                                         *)

CallGet(pair, type) ==
  /\ running /\ step = "idle"
  /\ step' = "section"
  /\ asked' = [pair |-> pair, type |-> type]
  /\ seen' = {Right(settings, asked')}
  /\ UNCHANGED <<diskVars, path, settings, loaded, running, hung, answer, fault>>

Return(v) == step' = "idle" /\ answer' = v

CountSection ==
  /\ step = "section"
  /\ IF asked.pair[1] \in SectionsOf(settings)
     THEN step' = "key" /\ UNCHANGED answer
     ELSE Return(Default)
  /\ UNCHANGED <<diskVars, path, settings, loaded, running, hung, asked, seen,
                 fault>>

CountKey ==
  /\ step = "key"
  /\ IF asked.pair \in DOMAIN settings
     THEN step' = "value" /\ UNCHANGED answer
     ELSE Return(Default)
  /\ UNCHANGED <<diskVars, path, settings, loaded, running, hung, asked, seen,
                 fault>>

\* Variant: the key is looked for by itself, in any section.
AnySection(m, pair) ==
  LET like == {p \in DOMAIN m : p[2] = pair[2]} IN
  IF like = {} THEN <<>> ELSE m[CHOOSE p \in like : TRUE]

\* operator[]: an empty value where there is none.
Found(m, pair) == IF pair \in DOMAIN m THEN m[pair] ELSE <<>>

\* ... which stays in the map.
FetchValue ==
  /\ step = "value"
  /\ LET v == Found(settings, asked.pair) IN
     /\ settings' = Put(settings, asked.pair[1], asked.pair[2], v)
     /\ Return(Answer(asked.type, v))
  /\ UNCHANGED <<diskVars, path, loaded, running, hung, asked, seen, fault>>

-----------------------------------------------------------------------------
Init ==
  /\ \/ disk \in Probes /\ place = "initial" /\ path = ""
     \/ /\ disk \in Edits
        /\ place \in Places
        /\ path \in {"", "arg"}          \* --config-path
  /\ settings = NoSettings
  /\ loaded = <<>>
  /\ running = FALSE
  /\ hung = FALSE
  /\ step = "idle"
  /\ asked = [pair |-> <<<<>>, <<>>>>, type |-> "string"]
  /\ answer = Default
  /\ seen = {Default}
  /\ fault = "none"

Next ==
  /\ fault = "none" /\ ~hung
  /\ \/ Start \/ OnSIGHUP \/ SIGHUPFaults \/ Edit
     \/ \E pair \in Wanted, type \in {"string", "int"} : CallGet(pair, type)
     \/ CountSection \/ CountKey \/ FetchValue

Spec == Init /\ [][Next]_vars

-----------------------------------------------------------------------------
(* What a file means, without the loop.                                    *)

Blank(l, I) == \A i \in I : l[i] = Space
Solid(l, a, b) == a =< b /\ l[a] # Space /\ l[b] # Space

\* l is a key from a to b, an equals sign at e, and a value from c to d.
IsPair(l, a, b, e, c, d) ==
  /\ Solid(l, a, b) /\ Solid(l, c, d)
  /\ b < e /\ e < c
  /\ l[e] = "=" /\ \A i \in a..b : l[i] # "="
  /\ l[a] \notin {"#", "["}
  /\ Blank(l, (1..Len(l)) \ (a..b \cup {e} \cup c..d))

\* l is a bracket at a, a name from b to c, and then a bracket or nothing.
IsSection(l, a, b, c) ==
  /\ l[a] = "[" /\ a < b
  /\ Solid(l, b, c) /\ \A i \in b..c : l[i] # "]"
  /\ Blank(l, 1..(a - 1) \cup (a + 1)..(b - 1))
  /\ \E e \in (c + 1)..(Len(l) + 1) :
       Blank(l, (c + 1)..(e - 1)) /\ (e =< Len(l) => l[e] = "]")

Pairs(l) ==
  LET N == 1..Len(l) IN
  {<<SubSeq(l, p[1], p[2]), SubSeq(l, p[4], p[5])>> :
     p \in {n \in N \X N \X N \X N \X N :
            IsPair(l, n[1], n[2], n[3], n[4], n[5])}}

Sections(l) ==
  LET N == 1..Len(l) IN
  {SubSeq(l, p[2], p[3]) :
     p \in {n \in N \X N \X N : IsSection(l, n[1], n[2], n[3])}}

\* Line j of the file gives the key of section s the value v.
Gives(file, j, pair, v) ==
  /\ <<pair[2], v>> \in Pairs(file[j])
  /\ \E i \in 1..(j - 1) :
       /\ pair[1] \in Sections(file[i])
       /\ \A h \in (i + 1)..(j - 1) : Sections(file[h]) = {}

GivesAny(file, j, pair) == \E w \in Pairs(file[j]) : Gives(file, j, pair, w[2])

Given(file) ==
  LET N == 1..Len(file) IN
  {p \in UNION {{<<s, w[1]>> : s \in Sections(file[i]), w \in Pairs(file[j])} :
                 i \in N, j \in N} :
     \E j \in N : GivesAny(file, j, p)}

\* The last line that gives a key a value counts.
Meaning(file) ==
  [p \in Given(file) |->
     LET j == Most({i \in 1..Len(file) : GivesAny(file, i, p)}) IN
     CHOOSE v \in {w[2] : w \in Pairs(file[j])} : Gives(file, j, p, v)]

-----------------------------------------------------------------------------
(* Properties.                                                             *)

NotEmptied == {p \in DOMAIN settings : settings[p] # <<>>}

\* The settings are those of the last file that was loaded, whole: each key
\* of a section has the value of the last line that gives it one, and there
\* is nothing else; a file that cannot be opened takes nothing away.
SettingsAreTheFile ==
  step = "idle" /\ ~hung => [p \in NotEmptied |-> settings[p]] = Meaning(loaded)

\* What Get and GetInt return was right at some time during the call; or it
\* is empty, which GetInt takes for 0, where the default was right: a reload
\* has taken the key away between two looks.
GetIsCurrent ==
  step = "idle" => answer \in seen \/ (answer = <<>> /\ Default \in seen)

\* What SaveConfig writes, LoadConfig reads back the same; only the name of
\* a section may get too long, by the bracket the file could do without.
SavedIsLoaded ==
  LET m    == [p \in NotEmptied |-> settings[p]]
      file == Saved(m) IN
  ~hung =>
    IF \E s \in SectionsOf(m) : Len(s) + 2 > Limit THEN TooLong(file) # {}
    ELSE TooLong(file) = {} /\ Load(settings, file) = m
=============================================================================
