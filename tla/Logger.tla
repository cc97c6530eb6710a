------------------------------- MODULE Logger -------------------------------
(* Logger::log and the appenders (src/log.cc), used by several threads        *)
(* without a lock.  The end of a logging statement destroys its EventWrap,    *)
(* whose destructor walks the vector of appenders and has each one write.     *)
(* Meanwhile another thread may log to the same appender or the same stream,  *)
(* set levels and formats, or change the vector.                              *)
EXTENDS Naturals, Sequences, SequencesExt

CONSTANTS
    Threads,
    Appenders,
    Stdout,       \* those that are StdoutLogAppenders
    Levels,       \* of messages, loggers and appenders
    MaxAppenders  \* bound: length of the vector

VARIABLES
    m_level,         \* the logger's level
    appLevel,        \* each appender's
    m_logAppenders,
    at,              \* where each thread is: "idle", or in log(): "walk", "write"
    event,           \* the message of a thread that is in log(), see NewEvent
    raced,           \* the streams that two threads have written to at once
    undefined        \* a thread used what another one was changing

vars == <<m_level, appLevel, m_logAppenders, at, event, raced, undefined>>

\* Where an appender writes: std::cout is one for all, a file appender has a
\* stream of its own.
StreamOf(a) == IF a \in Stdout THEN "cout" ELSE a

\* A message has its level and the number of appenders that are behind it.  For
\* the properties it also has the vector at its start and the levels its
\* appenders have had since, the appenders that wrote its text, and whether the
\* text is damaged in a stream, all the streams were clean at the start (nobody
\* had raced for them), another thread was in log() at the same time (alone), or
\* changed the vector (calm).
NoEvent == [level |-> 0, n |-> 0, due |-> <<>>, levels |-> [a \in Appenders |-> {}], wrote |-> <<>>,
            damaged |-> FALSE, clean |-> TRUE, alone |-> TRUE, calm |-> TRUE]
InLog(t) == at[t] # "idle"
NewEvent(l) ==
    [NoEvent EXCEPT !.level = l, !.due = m_logAppenders,
                    !.levels = [a \in Appenders |->
                                   IF a \in ToSet(m_logAppenders) THEN {appLevel[a]} ELSE {}],
                    !.clean = \A a \in ToSet(m_logAppenders) : StreamOf(a) \notin raced,
                    !.alone = \A u \in Threads : ~InLog(u)]

Init ==
    /\ m_level \in Levels
    /\ appLevel \in [Appenders -> Levels]
    /\ m_logAppenders \in {<<>>} \cup {<<a>> : a \in Appenders}
    /\ at = [t \in Threads |-> "idle"]
    /\ event = [t \in Threads |-> NoEvent]
    /\ raced = {}
    /\ undefined = FALSE

----------------------------------------------------------------------------
\* ~EventWrap and the start of log().  A message below the logger's level goes
\* no further.
EventWrap(t, level) ==
    /\ ~InLog(t)
    /\ level >= m_level
    /\ at' = [at EXCEPT ![t] = "walk"]
    /\ event' = [u \in Threads |-> CASE u = t -> NewEvent(level)
                                     [] InLog(u) -> [event[u] EXCEPT !.alone = FALSE]
                                     [] OTHER -> NoEvent]
    /\ UNCHANGED <<m_level, appLevel, m_logAppenders, raced, undefined>>

Leave(t) == at' = [at EXCEPT ![t] = "idle"] /\ event' = [event EXCEPT ![t] = NoEvent]

\* The appender a thread is writing to.
Target(t) == event[t].due[event[t].n]

\* format() begins on the appender's stream.  Nothing keeps another thread from
\* being at the same stream, whose buffer both change.
Begin(t, s) ==
    raced' = raced \cup {x \in {s} : \E u \in Threads \ {t} : at[u] = "write" /\ StreamOf(Target(u)) = s}

\* Faulty variant: the loop ends at the first appender that refuses the level.
walkStops(t) ==
    /\ at[t] = "walk" /\ event[t].calm
    /\ LET n == event[t].n + 1 IN
       IF n > Len(m_logAppenders) \/ event[t].level < appLevel[m_logAppenders[n]]
       THEN Leave(t) /\ UNCHANGED raced
       ELSE /\ event' = [event EXCEPT ![t].n = n]
            /\ at' = [at EXCEPT ![t] = "write"]
            /\ Begin(t, StreamOf(m_logAppenders[n]))
    /\ UNCHANGED <<m_level, appLevel, m_logAppenders, undefined>>

\* The loop of log() comes to its next appender, or ends.
walk(t) ==
    /\ at[t] = "walk" /\ event[t].calm
    /\ LET n == event[t].n + 1 IN
       IF n > Len(m_logAppenders) THEN Leave(t) /\ UNCHANGED raced
       ELSE /\ event' = [event EXCEPT ![t].n = n]
            /\ IF event[t].level >= appLevel[m_logAppenders[n]]
               THEN at' = [at EXCEPT ![t] = "write"] /\ Begin(t, StreamOf(m_logAppenders[n]))
               ELSE UNCHANGED <<at, raced>>
    /\ UNCHANGED <<m_level, appLevel, m_logAppenders, undefined>>

\* The loop goes on with iterators of a vector that has changed since.  What
\* it reads is undefined: it may end, or do anything at all.
walkOn(t) ==
    /\ InLog(t) /\ ~event[t].calm
    /\ \/ Leave(t) /\ UNCHANGED undefined
       \/ undefined' = TRUE /\ UNCHANGED <<at, event>>
    /\ UNCHANGED <<m_level, appLevel, m_logAppenders, raced>>

\* The streams a message has been written to, the current one included.
Written(u) ==
    {StreamOf(event[u].wrote[j]) : j \in DOMAIN event[u].wrote} \cup
    {StreamOf(a) : a \in IF at[u] = "write" THEN {Target(u)} ELSE {}}

\* The end of format(): the text is in the stream, once and whole, unless two
\* threads have been at this stream at once.  Then its buffer may have lost or
\* torn the text of any message that went there (hit), this one's or another's.
format(t, hit) ==
    LET s == StreamOf(Target(t)) IN
    /\ at[t] = "write" /\ event[t].calm
    /\ hit # {} => s \in raced /\ \A u \in hit : InLog(u) /\ s \in Written(u)
    /\ event' = [u \in Threads |->
           [event[u] EXCEPT !.wrote = IF u = t THEN Append(@, Target(t)) ELSE @,
                            !.damaged = @ \/ u \in hit]]
    /\ at' = [at EXCEPT ![t] = "walk"]
    /\ UNCHANGED <<m_level, appLevel, m_logAppenders, raced, undefined>>

\* A change of the vector disturbs every message on its way.  Of such a message
\* nothing is claimed; all that is left of it is the appender it is writing to.
Disturbed(u) ==
    [NoEvent EXCEPT !.calm = FALSE, !.n = 1,
                    !.due = IF at[u] = "write" THEN <<Target(u)>> ELSE <<>>]
Disturb == event' = [u \in Threads |-> IF InLog(u) THEN Disturbed(u) ELSE event[u]]

addAppender(a) ==
    /\ Len(m_logAppenders) < MaxAppenders
    /\ m_logAppenders' = Append(m_logAppenders, a)
    /\ Disturb
    /\ UNCHANGED <<m_level, appLevel, at, raced, undefined>>

\* delAppender erases the first occurrence; without one nothing happens.
delAppender(a) ==
    /\ a \in ToSet(m_logAppenders)
    /\ m_logAppenders' = RemoveFirst(m_logAppenders, a)
    /\ Disturb
    /\ UNCHANGED <<m_level, appLevel, at, raced, undefined>>

clearAppender ==
    /\ m_logAppenders # <<>>
    /\ m_logAppenders' = <<>>
    /\ Disturb
    /\ UNCHANGED <<m_level, appLevel, at, raced, undefined>>

\* Logger::setLevel: a word that log() reads once.
setLevel(level) ==
    /\ m_level' = level
    /\ UNCHANGED <<appLevel, m_logAppenders, at, event, raced, undefined>>

\* LogAppender::setLevel: a word that each log() reads when it comes there.
setAppenderLevel(a, level) ==
    /\ appLevel' = [appLevel EXCEPT ![a] = level]
    /\ event' = [u \in Threads |->
           IF InLog(u) /\ event[u].levels[a] # {}
           THEN [event[u] EXCEPT !.levels[a] = @ \cup {level}] ELSE event[u]]
    /\ UNCHANGED <<m_level, m_logAppenders, at, raced, undefined>>

\* LogAppender::setFormat: the shared pointer to the formatter is replaced while
\* a thread may be reading it.  (Otherwise it changes only how lines look.)
setFormat(a) ==
    /\ \E t \in Threads : at[t] = "write" /\ Target(t) = a
    /\ undefined' = TRUE
    /\ UNCHANGED <<m_level, appLevel, m_logAppenders, at, event, raced>>

Next ==
    /\ ~undefined
    /\ \/ \E t \in Threads : \/ \E level \in Levels : EventWrap(t, level)
                             \/ walk(t) \/ walkOn(t)
                             \/ \E hit \in SUBSET Threads : format(t, hit)
       \/ \E a \in Appenders : addAppender(a) \/ delAppender(a) \/ setFormat(a)
       \/ clearAppender
       \/ \E level \in Levels : setLevel(level) \/ \E a \in Appenders : setAppenderLevel(a, level)

Spec == Init /\ [][Next]_vars

----------------------------------------------------------------------------
\* Type invariant.
TypeOK ==
    /\ m_level \in Levels /\ appLevel \in [Appenders -> Levels]
    /\ m_logAppenders \in Seq(Appenders) /\ Len(m_logAppenders) <= MaxAppenders
    /\ at \in [Threads -> {"idle", "walk", "write"}]
    /\ \A t \in Threads : event[t].n <= MaxAppenders

\* The texts of a message went to the first n places of the vector as it was at
\* the message's start, in the order of the places: one to each place whose
\* appender let the message pass all the time, none to one that never did.
Delivered(e, n) ==
    \E place \in [DOMAIN e.wrote -> 1..n] :
        /\ \A j, l \in DOMAIN place : j < l => place[j] < place[l]
        /\ \A j \in DOMAIN place : e.wrote[j] = e.due[place[j]]
        /\ \A p \in 1..n :
              IF \E j \in DOMAIN place : place[j] = p
              THEN \E l \in e.levels[e.due[p]] : e.level >= l
              ELSE \E l \in e.levels[e.due[p]] : e.level < l

\* A message during which nobody changed the vector is written once for each
\* place in it of an appender whose level lets it pass, in the order of the
\* vector, however many other threads log or set levels meanwhile.  Its text is
\* lost or torn only if one of them was in log() at the same time, or if two
\* threads had been at one of its streams at once before.
DeliveredExactly ==
    [][\A t \in Threads : InLog(t) /\ at'[t] = "idle" /\ event[t].calm =>
          /\ Delivered(event[t], Len(event[t].due))
          /\ event[t].alone /\ event[t].clean => ~event[t].damaged]_vars

=============================================================================
