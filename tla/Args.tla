-------------------------------- MODULE Args --------------------------------
(***************************************************************************)
(* read_commandline: the options are read in their order, -c reads a file  *)
(* line by line.  A line is the sequence of its words, as split makes it.  *)
(***************************************************************************)
EXTENDS IpAddress

CONSTANTS
    UINT_MAX,    \* the largest ping_tries
    HostWords,   \* words that begin with "host"
    Macs,        \* words that ether_aton_r understands
    IfaceWords,  \* words that interfaces and hosts may be named
    tokens,      \* the tokens of a word that may be an address
    Inputs       \* the command lines and the files there are with each

\* On the command line "h" and "s" are these options, the name of a file is an
\* option -c; files are lines, lines are words.
ASSUME InputsAssumption ==
    \A input \in Inputs :
        /\ input.given \in Seq(STRING)
        /\ {"h", "s"} \cap DOMAIN input.files = {}
        /\ \A name \in DOMAIN input.files : input.files[name] \in Seq(Seq(STRING))

VARIABLES
    given,      \* the command line
    phase,      \* what read_commandline does now, or how it ended
    options,    \* options that getopt_long has not returned yet
    files,      \* what the configuration files contain; one that cannot be
                \* opened has no lines
    lines,      \* what is left of the file being read
    section,    \* the local variables of read_args
    ret_val,    \* the Args read so far
    to_syslog   \* the global flag; every Args refers to it

vars == <<phase, given, options, files, lines, section, ret_val, to_syslog>>

NewSection ==
    [interface |-> "lo", address |-> <<>>, port |-> <<>>, mac |-> "01:12:34:45:67:89",
     name |-> "", ping_tries |-> "5", wol_method |-> "ethernet"]

Listed == {"address", "port"}

\* Starts(line, content): with this command line and these files.
Starts(line, content) ==
    /\ phase = "options" /\ given = line /\ options = line /\ files = content
    /\ lines = <<>> /\ section = NewSection /\ ret_val = <<>> /\ to_syslog = FALSE

Init == \E input \in Inputs : Starts(input.given, input.files)

IsHost(line) == line # <<>> /\ line[1] \in HostWords

\* One line of read_args; what is not a pair of a known name and a value is
\* skipped.
Apply(sec, line) ==
    IF Len(line) # 2 \/ line[1] \notin DOMAIN sec THEN sec
    ELSE [sec EXCEPT ![line[1]] = IF line[1] \in Listed THEN Append(@, line[2]) ELSE line[2]]

WithDefaults(sec) ==
    [sec EXCEPT !.address = IF @ = <<>> THEN <<"10.0.0.1/16", "fe80::123/64">> ELSE @,
                !.port    = IF @ = <<>> THEN <<"12345", "23456">> ELSE @]

\* The results of the parser for all items: one exception is one for all.
parse_items(parsed) ==
    IF Threw \in Range(parsed) THEN Threw ELSE <<[i \in DOMAIN parsed |-> parsed[i][1]]>>

\* The constructor of Args.
Args(sec) ==
    LET address    == parse_items([i \in DOMAIN sec.address |-> parse_ip(tokens[sec.address[i]])])
        ports      == parse_items([i \in DOMAIN sec.port |-> str_to_integral(65535, chars[sec.port[i]])])
        ping_tries == str_to_integral(UINT_MAX, chars[sec.ping_tries])
    IN  IF \/ Threw \in {address, ports, ping_tries}
           \/ sec.interface \notin IfaceWords \/ sec.name \notin IfaceWords \cup {""}
           \/ sec.mac \notin Macs \/ sec.wol_method \notin {"ethernet", "udp"}
        THEN Threw
        ELSE <<[sec EXCEPT !.address = address[1], !.port = ports[1], !.ping_tries = ping_tries[1]]>>

----------------------------------------------------------------------------
Option ==
    /\ phase = "options" /\ options # <<>>
    /\ options' = Tail(options)
    /\ CASE Head(options) = "h" ->
                phase' = "exited" /\ UNCHANGED <<lines, ret_val, to_syslog>>
         [] Head(options) = "s" ->
                to_syslog' = TRUE /\ UNCHANGED <<phase, lines, ret_val>>
         [] Head(options) \in DOMAIN files ->
                /\ phase' = "file" /\ lines' = files[Head(options)] /\ ret_val' = <<>>
                /\ UNCHANGED to_syslog
         [] OTHER -> UNCHANGED <<phase, lines, ret_val, to_syslog>>
    /\ UNCHANGED <<given, files, section>>

NoOption ==
    /\ phase = "options" /\ options = <<>>
    /\ phase' = "returned"
    /\ UNCHANGED <<given, options, files, lines, section, ret_val, to_syslog>>

\* read_file skips what comes before the first host.
SkipLine ==
    /\ phase = "file"
    /\ IF lines = <<>> THEN phase' = "options" /\ UNCHANGED <<lines, section>>
       ELSE /\ lines' = Tail(lines)
            /\ IF IsHost(Head(lines)) THEN phase' = "section" /\ section' = NewSection
               ELSE UNCHANGED <<phase, section>>
    /\ UNCHANGED <<given, options, files, ret_val, to_syslog>>

LineOfSection == lines # <<>> /\ ~IsHost(Head(lines))

ReadLine ==
    /\ phase = "section" /\ LineOfSection
    /\ section' = Apply(section, Head(lines))
    /\ lines' = Tail(lines)
    /\ UNCHANGED <<phase, given, options, files, ret_val, to_syslog>>

\* Mutant: the lists of the last host are kept for the next one.
EndSectionKeeps ==
    /\ phase = "section" /\ ~LineOfSection
    /\ LET args == Args(WithDefaults(section))
       IN  IF args = Threw THEN phase' = "threw" /\ UNCHANGED <<lines, ret_val>>
           ELSE /\ ret_val' = Append(ret_val, args[1])
                /\ IF lines = <<>> THEN phase' = "options" /\ UNCHANGED lines
                   ELSE lines' = Tail(lines) /\ UNCHANGED phase
    /\ UNCHANGED <<given, options, files, section, to_syslog>>

\* read_args has met the end of the file or the next host, and constructs.
EndSection ==
    /\ phase = "section" /\ ~LineOfSection
    /\ LET args == Args(WithDefaults(section))
       IN  IF args = Threw THEN phase' = "threw" /\ UNCHANGED <<lines, section, ret_val>>
           ELSE /\ ret_val' = Append(ret_val, args[1])
                /\ section' = NewSection
                /\ IF lines = <<>> THEN phase' = "options" /\ UNCHANGED lines
                   ELSE lines' = Tail(lines) /\ UNCHANGED phase
    /\ UNCHANGED <<given, options, files, to_syslog>>

Ended == phase \in {"returned", "exited", "threw"} /\ UNCHANGED vars

Next == Option \/ NoOption \/ SkipLine \/ ReadLine \/ EndSection \/ Ended

Spec == Init /\ [][Next]_vars

----------------------------------------------------------------------------
(* What a file says, read as a whole: a line belongs to the last host line *)
(* before it, the last value given for a name counts, or all values given  *)
(* for a list.                                                             *)

HostLines(content) == {i \in DOMAIN content : IsHost(content[i])}

\* The lines of the k-th host.
Body(content, k) ==
    {i \in DOMAIN content : ~IsHost(content[i]) /\ Rank(HostLines(content), i) = k}

Pairs(content, body, name) ==
    {i \in body : Len(content[i]) = 2 /\ content[i][1] = name}

Values(content, body, name) ==
    LET pairs == Pairs(content, body, name)
    IN  [n \in 1 .. Cardinality(pairs) |-> content[Nth(pairs, n)][2]]

Said(content, body) ==
    [name \in DOMAIN NewSection |->
        LET values == Values(content, body, name)
        IN  IF name \in Listed THEN values
            ELSE IF Pairs(content, body, name) = {} THEN NewSection[name]
            ELSE values[Cardinality(Pairs(content, body, name))]]

Meant(content, body) == Args(WithDefaults(Said(content, body)))

MeantBy(content) ==
    [k \in 1 .. Cardinality(HostLines(content)) |-> Meant(content, Body(content, k))]

Valid(content) == \A k \in DOMAIN MeantBy(content) : MeantBy(content)[k] # Threw

Hosts(content) == [k \in DOMAIN MeantBy(content) |-> MeantBy(content)[k][1]]

\* How many options are taken, and which of them were files.
Taken == Len(given) - Len(options)
FilesRead == {i \in 1 .. Taken : given[i] \in DOMAIN files}

\* read_commandline returns the hosts of the last file given, each from the
\* lines of its own section, with all of them valid in every file read; it
\* throws only for a file with an invalid section, and logs to syslog exactly
\* if -s was given before it ended.
ConfigUnderstood ==
    /\ phase = "returned" =>
           /\ \A i \in FilesRead : Valid(files[given[i]])
           /\ ret_val = IF FilesRead = {} THEN <<>> ELSE Hosts(files[given[Max(FilesRead)]])
    /\ phase = "threw" => \E i \in FilesRead : ~Valid(files[given[i]])
    /\ to_syslog <=> \E i \in 1 .. Taken : given[i] = "s"
=============================================================================
