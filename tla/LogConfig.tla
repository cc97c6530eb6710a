----------------------------- MODULE LogConfig -----------------------------
(***************************************************************************)
(* How the loggers are set up from the configuration and written back      *)
(* (src/src/log.cc): LogIniter converts the texts under "logs" to LogDefs  *)
(* and gives each to LoggerMgr::fromYaml; toYamlString goes the other way. *)
(* A logger is known by its name; names are numbers in the order of the    *)
(* map m_loggers, and 0 is the empty name.                                 *)
(***************************************************************************)
EXTENDS Naturals, Sequences, FiniteSets, SequencesExt

CONSTANTS
    Names,   \* names of loggers
    Texts,   \* level texts in the configuration, in any case
    Paths,   \* file names
    MaxDefs, \* bound: loggers in the configuration
    MaxApps  \* bound: appenders of one logger

\* LogLevel::Level and its names, as LogLevel::ToString spells them.
Level == 0..5
LevelName == <<"DEBUG", "INFO", "WARN", "ERROR", "FATAL">>
LevelToString(level) == IF level \in 1..5 THEN LevelName[level] ELSE "UNKNOW"

\* std::transform(..., ::tolower) on the words that matter.
LowerCase == [DEBUG |-> "debug", INFO |-> "info", WARN |-> "warn", ERROR |-> "error",
              FATAL |-> "fatal", UNKNOW |-> "unknow"]
tolower(text) == IF text \in DOMAIN LowerCase THEN LowerCase[text] ELSE text

\* FromString compares the text in lower case with the names in upper case.
FromString(text) ==
    LET found == {l \in 1..5 : LevelName[l] = tolower(text)} IN
    IF found = {} THEN 0 ELSE CHOOSE l \in found : TRUE

\* What is in the file; NoText and 0 stand for a key that is not there.
NoText == ""
AppText == [type : {0, 1}, level : Texts \cup {NoText}, path : Paths \cup {NoText}]
LogText == [name : Names \cup {0}, level : Texts \cup {NoText},
            appends : UNION {[1..n -> AppText] : n \in 0..MaxApps}]

VARIABLES
    file,      \* the configuration read by LogIniter
    k,         \* the entry LogIniter is at
    m_loggers, \* for each known name, its level and its appenders in order
    written,   \* result of the last toYamlString, and the loggers it was for
    phase      \* "init", "up", or "crashed"

vars == <<file, k, m_loggers, written, phase>>

Init ==
    /\ file \in UNION {[1..n -> LogText] : n \in 0..MaxDefs}
    /\ k = 1
    /\ m_loggers = << >>
    /\ written = [loggers |-> << >>, text |-> << >>]
    /\ phase = "init"

-----------------------------------------------------------------------------
\* getLogger: the logger of that name, created if there is none.
getLogger(loggers, name) ==
    [n \in DOMAIN loggers \cup {name} |->
        IF n \in DOMAIN loggers THEN loggers[n] ELSE [level |-> 0, appends |-> << >>]]

\* TADPOLE_FIND_LOGGER: other files' static objects use it before LogIniter or
\* after it, since their order is not specified, and so do programs later.
findLogger(name) ==
    /\ (phase = "init" /\ k = 1) \/ phase = "up"
    /\ m_loggers' = getLogger(m_loggers, name)
    /\ UNCHANGED <<file, k, written, phase>>

\* Conversion of one appender's text and the appender fromYaml makes of it.
LogAppDef(app) ==
    [type |-> app.type,
     level |-> FromString(app.level),
     path |-> IF app.type = 1 THEN app.path ELSE NoText]

\* Faulty variant: a logger that is configured again starts anew.
fromYamlAnew ==
    /\ phase = "init"
    /\ k <= Len(file)
    /\ LET log == file[k] IN
       m_loggers' = IF log.name = 0 THEN m_loggers
                    ELSE (log.name :> [level |-> FromString(log.level),
                             appends |-> [j \in DOMAIN log.appends |-> LogAppDef(log.appends[j])]])
                         @@ m_loggers
    /\ k' = k + 1
    /\ UNCHANGED <<file, written, phase>>

\* fromYaml for one entry: set the level, add the appenders.  An entry without
\* a name is left out.  A file appender without a path is never created and
\* the null pointer is used.
fromYaml ==
    /\ phase = "init"
    /\ k <= Len(file)
    /\ LET log == file[k]
           apps == [j \in DOMAIN log.appends |-> LogAppDef(log.appends[j])]
           loggers == getLogger(m_loggers, log.name)
       IN  IF log.name = 0 THEN UNCHANGED <<m_loggers, phase>>
           ELSE IF \E j \in DOMAIN apps : apps[j].type = 1 /\ apps[j].path = NoText
           THEN phase' = "crashed" /\ UNCHANGED m_loggers
           ELSE /\ m_loggers' = [loggers EXCEPT ![log.name] =
                        [level |-> FromString(log.level), appends |-> @.appends \o apps]]
                /\ UNCHANGED phase
    /\ k' = k + 1
    /\ UNCHANGED <<file, written>>

LogIniter ==
    /\ phase = "init"
    /\ k > Len(file)
    /\ phase' = "up"
    /\ UNCHANGED <<file, k, m_loggers, written>>

\* LexicalCast<LogDef, string>: of several appenders of one type the last one
\* takes the others' place.
LogDefText(def) ==
    LET apps == def.appends
        last == {n \in DOMAIN apps : \A j \in DOMAIN apps : apps[j].type = apps[n].type => j <= n}
    IN  [name |-> def.name, level |-> LevelToString(def.level),
         appends |-> {[apps[n] EXCEPT !.level = LevelToString(@)] : n \in last}]

\* The names of the known loggers in the order of the map.
InOrder ==
    CHOOSE names \in [1..Cardinality(DOMAIN m_loggers) -> DOMAIN m_loggers] :
        \A a, b \in DOMAIN names : a < b => names[a] < names[b]

\* toYamlString makes as many LogDefs as there are loggers, but i stays 0: the
\* first gets the name and level of the last logger and everyone's appenders.
toYamlString ==
    /\ phase = "up"
    /\ LET names == InOrder
           n == Len(names)
           appends == FlattenSeq([j \in 1..n |-> m_loggers[names[j]].appends])
           vec == [j \in 1..n |->
                     IF j = 1 THEN [name |-> names[n], level |-> m_loggers[names[n]].level,
                                    appends |-> appends]
                              ELSE [name |-> 0, level |-> 0, appends |-> << >>]]
       IN  written' = [loggers |-> m_loggers, text |-> [j \in 1..n |-> LogDefText(vec[j])]]
    /\ UNCHANGED <<file, k, m_loggers, phase>>

Next ==
    \/ fromYaml
    \/ LogIniter
    \/ toYamlString
    \/ \E name \in Names : findLogger(name)
Spec == Init /\ [][Next]_vars

-----------------------------------------------------------------------------
\* Type invariant.
TypeOK ==
    /\ k \in 1..(Len(file) + 1)
    /\ DOMAIN m_loggers \subseteq Names
    /\ \A name \in DOMAIN m_loggers :
         /\ m_loggers[name].level \in Level
         /\ m_loggers[name].appends \in Seq([type : {0, 1}, level : Level, path : Paths \cup {NoText}])
    /\ phase \in {"init", "up", "crashed"}

\* What the first n entries of the file give to this logger, one after the other.
Wanted(name, n) ==
    FlattenSeq([j \in 1..n |-> IF file[j].name = name THEN file[j].appends ELSE << >>])

\* These are the appenders that the texts ask for: as many, in this order, of
\* this kind, and in files with this path.
AsTexts(apps, texts) ==
    /\ Len(apps) = Len(texts)
    /\ \A n \in DOMAIN apps :
         /\ apps[n].type = texts[n].type
         /\ apps[n].type = 1 => apps[n].path = texts[n].path /\ apps[n].path # NoText

\* Once the loggers are up, every logger, whoever asked for it first, has the
\* appenders of all its entries, in the order of the file, with their kinds
\* and paths (none if it has no entry), and no file appender lacks its path.
AppendersAsConfigured ==
    phase = "up" =>
        /\ {file[n].name : n \in DOMAIN file} \ {0} \subseteq DOMAIN m_loggers
        /\ \A name \in DOMAIN m_loggers :
             AsTexts(m_loggers[name].appends, Wanted(name, Len(file)))

=============================================================================
