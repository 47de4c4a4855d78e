---------------------------- MODULE ServerConfig ----------------------------
(***************************************************************************)
(* Server::ServerConfig: defaults, then the lines of a file, then the      *)
(* environment, and the libpq connection string made of the result.  Text  *)
(* is a sequence of characters; a name or a number is one character here,  *)
(* and a blank stands for all white space.                                 *)
(***************************************************************************)
EXTENDS Integers, Sequences, SequencesExt

CONSTANTS None,
          Files,         \* files: sequences of lines as their author means them
          Environments,  \* environments: field -> value of its CC_ variable
          PasswordFile   \* what the default password file holds

VARIABLES file, environment,  \* the input
          config,             \* the fields of the ServerConfig
          phase,              \* "file", "environment", "ready" or "failed"
          line,               \* the line of the file that is read next
          connection          \* what libpq understands, once it is asked

vars == <<file, environment, config, phase, line, connection>>

\* The fields, by their key in the file, with their defaults.
Defaults ==
  [host |-> <<"0.0.0.0">>, port |-> <<"5555">>, worker_threads |-> <<"4">>,
   max_message_size |-> <<"65536">>, log_file |-> <<"server.log">>,
   database_host |-> <<"localhost">>, database_port |-> <<"5432">>,
   database_name |-> <<"console_calculator">>, database_user |-> <<"admin">>,
   database_password |-> <<>>, database_password_file |-> <<"cc_db_password">>,
   database_connection_string |-> <<>>]
Fields == DOMAIN Defaults
Numeric == {"port", "worker_threads", "max_message_size", "database_port"}

Ports == {"port", "database_port"}

\* The numbers that occur, as text.
Number == "-1" :> -1 @@ "4" :> 4 @@ "5432" :> 5432 @@ "5555" :> 5555 @@ "65535" :> 65535 @@ "65536" :> 65536

-----------------------------------------------------------------------------
(* Text.                                                                   *)

Trim(value) ==
  LET solid == SelectInSeq(value, LAMBDA ch : ch # " ")
  IN  SubSeq(value, IF solid = 0 THEN 1 ELSE solid, SelectLastInSeq(value, LAMBDA ch : ch # " "))

\* Mutant: every quote at an end goes.
Unquote_EachEnd(value) ==
  LET v == Trim(value)
      quote(i) == i \in DOMAIN v /\ v[i] \in {"\"", "'"}
  IN  SubSeq(v, IF quote(1) THEN 2 ELSE 1, IF quote(Len(v)) THEN Len(v) - 1 ELSE Len(v))

Unquote(value) ==
  LET v == Trim(value)
  IN  IF Len(v) >= 2 /\ v[1] = v[Len(v)] /\ v[1] \in {"\"", "'"} THEN SubSeq(v, 2, Len(v) - 1) ELSE v

\* Mutant: only quotes are escaped.
LibpqEscapeValue_QuotesOnly(value) ==
  <<"'">> \o FoldLeft(LAMBDA escaped, ch : escaped \o (IF ch = "'" THEN <<"\\", ch>> ELSE <<ch>>),
                      <<>>, value) \o <<"'">>

LibpqEscapeValue(value) ==
  <<"'">> \o FoldLeft(LAMBDA escaped, ch :
                        escaped \o (IF ch \in {"\\", "'"} THEN <<"\\", ch>> ELSE <<ch>>),
                      <<>>, value) \o <<"'">>

\* The number a text begins with, None if with none: std::stoul, stoi and stoull
\* skip the blanks before it and ignore what comes after it.
Leading(value) ==
  LET v == Trim(value)
  IN  IF v # <<>> /\ v[1] \in DOMAIN Number THEN v[1] ELSE None

\* No conversion throws.  A negative number is a large one to std::stoul, so
\* parse_uint16 refuses it.
Accepts(key, value) ==
  key \in Numeric => /\ Leading(value) # None
                     /\ key \in Ports => Number[Leading(value)] \in 0 .. 65535

\* What is put into the field: a number has lost the text around it.
Converted(key, value) == IF key \in Numeric THEN <<Leading(value)>> ELSE value

\* The line as it stands in the file: bare, or between quotes.
Written(l) == <<l.key, " ", "=", " ">> \o l.quote \o l.value \o l.quote \o <<" ", "#", "comment">>

\* from_file's reading of a line: what is before '#', then the key and the
\* value around the first '='.  A line without '=' gives no key.
ReadLine(text) ==
  LET hash == SelectInSeq(text, LAMBDA ch : ch = "#")
      body == Trim(IF hash = 0 THEN text ELSE SubSeq(text, 1, hash - 1))
      separator == SelectInSeq(body, LAMBDA ch : ch = "=")
  IN  IF separator = 0 THEN [key |-> <<>>, value |-> <<>>]
      ELSE [key |-> Trim(SubSeq(body, 1, separator - 1)),
            value |-> Unquote(SubSeq(body, separator + 1, Len(body)))]

\* libpq's parser: keyword = value pairs, a value between quotes with
\* backslashes, or bare up to a blank.  None for what it rejects.
ConnInfo(text) ==
  LET parse[i \in 1 .. Len(text) + 3] ==
        LET body[j \in 1 .. Len(text) + 2] ==    \* a quoted value from j on
              IF j > Len(text) THEN [ok |-> FALSE, value |-> <<>>, next |-> j]
              ELSE IF text[j] = "'" THEN [ok |-> TRUE, value |-> <<>>, next |-> j + 1]
              ELSE LET k == IF text[j] = "\\" /\ j < Len(text) THEN j + 1 ELSE j
                       rest == body[k + 1]
                   IN  [rest EXCEPT !.value = <<text[k]>> \o @]
        IN  IF i > Len(text) THEN {}
            ELSE IF text[i] = " " THEN parse[i + 1]
            ELSE IF i + 2 > Len(text) \/ text[i + 1] # "=" THEN {None}
            ELSE IF text[i + 2] = "'"
            THEN IF body[i + 3].ok THEN {<<text[i], body[i + 3].value>>} \cup parse[body[i + 3].next]
                 ELSE {None}
            ELSE {<<text[i], <<text[i + 2]>>>>} \cup parse[i + 3]
  IN  parse[1]

-----------------------------------------------------------------------------
Init ==
  /\ file \in Files /\ environment \in Environments
  /\ config = Defaults /\ phase = "file" /\ line = 1 /\ connection = None

\* apply_key_value; an unknown key is ignored.
ApplyKeyValue(key, value) ==
  IF key \in Fields THEN [config EXCEPT ![key] = Converted(key, value)] ELSE config

\* from_file: one line, or the end of the file (or no file).
FromFile ==
  /\ phase = "file"
  /\ IF line > Len(file)
     THEN phase' = "environment" /\ UNCHANGED <<config, line>>
     ELSE LET l == ReadLine(Written(file[line]))
              key == IF Len(l.key) = 1 THEN l.key[1] ELSE ""
          IN  IF Accepts(key, l.value)
              THEN /\ config' = ApplyKeyValue(key, l.value) /\ line' = line + 1
                   /\ UNCHANGED phase
              ELSE phase' = "failed" /\ UNCHANGED <<config, line>>
  /\ UNCHANGED <<file, environment, connection>>

\* environment_value: the variable of the field is set and not empty.
EnvironmentValue(field) == field \in DOMAIN environment /\ environment[field] # <<>>

\* from_environment_and_file after from_file.
FromEnvironment ==
  /\ phase = "environment"
  /\ IF \A f \in Fields : EnvironmentValue(f) => Accepts(f, environment[f])
     THEN /\ config' = [f \in Fields |-> IF EnvironmentValue(f) THEN Converted(f, environment[f])
                                         ELSE config[f]]
          /\ phase' = "ready"
     ELSE phase' = "failed" /\ UNCHANGED config
  /\ UNCHANGED <<file, environment, line, connection>>

\* read_text_file of the password file: only the default one exists.
ReadTextFile(path) == IF path = Defaults.database_password_file THEN Trim(PasswordFile) ELSE <<>>

Password ==
  IF config.database_password = <<>> /\ config.database_password_file # <<>>
  THEN ReadTextFile(config.database_password_file) ELSE config.database_password

DatabaseConnectionString ==
  IF config.database_connection_string # <<>> THEN config.database_connection_string
  ELSE <<"host", "=">> \o LibpqEscapeValue(config.database_host)
         \o <<" ", "port", "=">> \o config.database_port
         \o <<" ", "dbname", "=">> \o LibpqEscapeValue(config.database_name)
         \o <<" ", "user", "=">> \o LibpqEscapeValue(config.database_user)
         \o (IF Password = <<>> THEN <<>> ELSE <<" ", "password", "=">> \o LibpqEscapeValue(Password))

\* StorageWorker is given the string and libpq parses it.
Connect ==
  /\ phase = "ready" /\ connection = None
  /\ connection' = ConnInfo(DatabaseConnectionString)
  /\ UNCHANGED <<file, environment, config, phase, line>>

Next == FromFile \/ FromEnvironment \/ Connect
Spec == Init /\ [][Next]_vars

-----------------------------------------------------------------------------
\* What the file, as its author means it, says of a field.
Says(f) == SelectLastInSeq(file, LAMBDA l : l.key = f)

\* A text means itself; where a number is wanted it means its first word.
Meant(f, value) == IF f \in Numeric THEN SubSeq(Trim(value), 1, 1) ELSE value

Fits(word) == word # <<>> /\ word[1] \in DOMAIN Number /\ Number[word[1]] \in 0 .. 65535

\* Every field is what the environment says, else what the last line about it
\* in the file says, else its default; quotes in the file protect blanks, '='
\* and other quotes; a number that fits is never refused, and a port that does
\* not fit never accepted (apply_key_value, from_environment_and_file).
FieldsAreAsConfigured ==
  /\ phase = "ready" => \A f \in Fields :
       config[f] = IF f \in DOMAIN environment /\ environment[f] # <<>> THEN Meant(f, environment[f])
                   ELSE IF Says(f) # 0 THEN Meant(f, file[Says(f)].value) ELSE Defaults[f]
  /\ phase = "ready" => \A f \in Ports : Fits(config[f])
  /\ phase = "failed" =>
       \E f \in Numeric :
         \/ \E i \in DOMAIN file : file[i].key = f /\ ~Fits(Meant(f, file[i].value))
         \/ f \in DOMAIN environment /\ environment[f] # <<>> /\ ~Fits(Meant(f, environment[f]))

\* libpq reads out of the string the very values of the fields, whatever
\* quotes, backslashes and blanks they hold, and nothing else.
ConnectionIsAsConfigured ==
  connection # None /\ config.database_connection_string = <<>> =>
    connection =
      {<<"host", config.database_host>>, <<"port", config.database_port>>,
       <<"dbname", config.database_name>>, <<"user", config.database_user>>}
      \cup (IF Password = <<>> THEN {} ELSE {<<"password", Password>>})

\* The keyword under which libpq gets a field.
Keyword == [database_host |-> "host", database_port |-> "port", database_name |-> "dbname",
            database_user |-> "user", database_password |-> "password"]

\* Every database variable of the environment has its effect on the
\* connection, unless CC_DB_CONNECTION_STRING overrides them all.
EnvironmentOverrides ==
  connection # None /\ ~EnvironmentValue("database_connection_string") =>
    /\ \A f \in DOMAIN Keyword :
         EnvironmentValue(f) => <<Keyword[f], Meant(f, environment[f])>> \in connection
    /\ EnvironmentValue("database_password_file") /\ ~EnvironmentValue("database_password") =>
         LET secret == ReadTextFile(environment.database_password_file)
         IN  secret # <<>> => <<"password", secret>> \in connection
=============================================================================
