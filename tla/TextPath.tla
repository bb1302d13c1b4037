------------------------------ MODULE TextPath ------------------------------
(***************************************************************************)
(* What a typed line goes through: main of the client takes it apart and   *)
(* builds a request in 256 bytes, the server copies the text into 255 and  *)
(* the name into 9, builds what it answers and announces in 256 and 1024,  *)
(* and the clients copy again.  The sizes are those of the source.         *)
(*                                                                         *)
(* One user of the repository's client, the thread that serves it, and one *)
(* other user, to whom it is announced.  Each stream holds one message, or *)
(* several that will be read together and so are no JSON; what others send *)
(* may come in between.  What several users do, and full streams, is in    *)
(* Circe.                                                                  *)
(*                                                                         *)
(* A text is how long it is, plain and inside JSON, whether it is UTF-8,   *)
(* how many words it has, whether it is the name of a status, in small     *)
(* letters or in capitals, and whether somebody typed it.                  *)
(***************************************************************************)
EXTENDS Integers

CONSTANTS
  Lines,  \* what the user may type: no blanks around it, never empty
  Stray,  \* what memory may hold that nobody has written, or not terminated
  LineAt, \* where the line lies from command on: at 64 in the makefile's build
  None,   \* no message
  Joint   \* several

Text == [bytes : Nat, escaped : Nat, utf8 : BOOLEAN, words : Nat,
         status : {"no", "small", "capital"}, typed : BOOLEAN]

Empty == [bytes |-> 0, escaped |-> 0, utf8 |-> TRUE, words |-> 0,
          status |-> "no", typed |-> TRUE]

\* JSON writes a byte as itself, as two, or as \u and four digits.
Measured(t) == t.bytes <= t.escaped /\ t.escaped <= 6 * t.bytes

Verbs == {"text", "\\login", "\\logout", "\\status", "\\other"}

\* A line: its first word, which is a command or not, and the rest.
Line == [verb : Verbs, first : Text, rest : Text]

NoLine == [verb |-> "text", first |-> Empty, rest |-> Empty]

Types == {"IDENTIFY", "DISCONNECT", "STATUS", "PUBLIC_TEXT", "SUCCESS",
          "USER_ALREADY_EXISTS", "NEW_USER", "PUBLIC_TEXT_FROM"}

ASSUME TextAssumption ==
  /\ Lines \subseteq Line
  /\ \A l \in Lines : Measured(l.first) /\ Measured(l.rest) /\ l.first.typed /\ l.rest.typed
  /\ Stray \subseteq {t \in Text : Measured(t) /\ ~t.typed}
  /\ LineAt \in Nat
  /\ {None, Joint} \cap [type : Types, name : Text, text : Text, typed : Text,
                        own : BOOLEAN] = {}
  /\ None # Joint

\* char command[16]; the client's and the server's json_str[256]; the json_str
\* of a broadcast; and the sizes of json_utils.h.
COMMAND == 16
JSON == 256
BROADCAST == 1024
MAX_INPUT_MSG == 255
USER_MAX_LENGHT == 9

\* The bytes of each message around its texts.
Around == [IDENTIFY |-> 33, DISCONNECT |-> 21, STATUS |-> 29, PUBLIC_TEXT |-> 32,
           SUCCESS |-> 72, USER_ALREADY_EXISTS |-> 84,
           NEW_USER |-> 33, PUBLIC_TEXT_FROM |-> 51]

VARIABLES
  at,         \* main: "prompt", "parsed", or "aborted"
  line,       \* the line main works on, or NoLine
  command,    \* main's variables
  msg,
  fresh,      \* main has not yet come to the end of a line
  kept,       \* it has refused one since
  logged_in,  \* Client.logged_in
  request,    \* on its way to the server, None or Joint
  username,   \* UserInfo.username at the server; Empty before it is set
  freed,      \* its memory has been freed
  answer,     \* on its way back, None or Joint
  relay,      \* on its way to the other user, None or Joint
  shown       \* what the other user is shown by this step, or None

mainVars == <<at, line, command, msg, fresh, kept>>
nameVars == <<username, freed>>
textVars == <<mainVars, logged_in, request, nameVars, answer, relay, shown>>

TextInit ==
  /\ at = "prompt"
  /\ line = NoLine
  /\ command \in Stray /\ msg \in Stray
  /\ fresh = TRUE /\ kept = FALSE
  /\ logged_in = FALSE
  /\ username = Empty /\ freed = FALSE
  /\ request = None /\ answer = None /\ relay = None /\ shown = None

-----------------------------------------------------------------------------
(* Strings.                                                                *)

\* What a copy of t into n bytes reads as: with no room for its end, t is
\* followed by whatever comes next.
strncpy(t, n) == IF t.bytes < n THEN {t} ELSE {s \in Stray : s.bytes >= n}

\* The server cuts the name once more, and ends it.
CutName(t) ==
  IF t.bytes < USER_MAX_LENGHT THEN {t} ELSE {s \in Stray : s.bytes = USER_MAX_LENGHT - 1}

\* strcat of a blank and of b.
Joined(a, b) ==
  [bytes |-> a.bytes + 1 + b.bytes, escaped |-> a.escaped + 1 + b.escaped,
   utf8 |-> a.utf8 /\ b.utf8, words |-> a.words + b.words,
   status |-> "no", typed |-> a.typed /\ b.typed]

\* jansson takes UTF-8 only, and the result with its end must fit.
build_json_response(type, name, text, size) ==
  name.utf8 /\ text.utf8 /\ Around[type] + name.escaped + text.escaped < size

\* A message.  For the properties only: typed is what the user had typed, the
\* blanks after its first word made one; own is whether all of it comes from
\* that line, and the name from memory that is not freed.
Message(type, name, text, typed, own) ==
  [type |-> type, name |-> name, text |-> text, typed |-> typed, own |-> own]

-----------------------------------------------------------------------------
(* The client's main.                                                      *)

\* get_input and sscanf, which leaves msg alone when there is no rest.  A word
\* that does not fit command runs over what lies behind it: variables that are
\* no longer needed, and then the line, behind the place sscanf reads.
Scanned(l) ==
  /\ at = "prompt"
  /\ command' = l.first
  /\ msg' = IF l.rest = Empty THEN msg ELSE l.rest
  /\ UNCHANGED <<fresh, logged_in, request, nameVars, answer, relay>>
  /\ shown' = None

\* The end of the first word fell on the first byte of the line, which seems
\* to be empty.
Emptied(l) == l.verb = "text" /\ l.first.bytes = LineAt

parse_command ==
  \E l \in Lines :
    /\ Scanned(l) /\ ~Emptied(l)
    /\ at' = "parsed" /\ line' = l
    /\ UNCHANGED kept

\* The continue leaves command and msg as they are (client.c:65-67).
invalid_input ==
  \E l \in Lines :
    /\ Scanned(l) /\ Emptied(l)
    /\ line' = NoLine /\ kept' = TRUE
    /\ UNCHANGED at

\* Mutant: msg keeps the rest of the line.
EndOfLine_kept ==
  /\ at' = "prompt"
  /\ line' = NoLine /\ command' = Empty /\ fresh' = FALSE /\ kept' = FALSE
  /\ UNCHANGED msg

EndOfLine ==
  /\ at' = "prompt"
  /\ line' = NoLine /\ command' = Empty /\ msg' = Empty
  /\ fresh' = FALSE /\ kept' = FALSE

\* What a stream holds once m is written to it: main and the server wait for
\* no reader.
Behind(stream, m) == IF stream = None THEN m ELSE Joint

\* Sends when the JSON can be built, and otherwise only logs that it cannot.
Sends(type, name, text, typed, size) ==
  request' = IF build_json_response(type, name, text, size)
             THEN Behind(request, Message(type, name, text, typed, ~kept))
             ELSE request

\* Mutant: the length is not tested.
handle_login_any ==
  /\ at = "parsed" /\ line.verb = "\\login"
  /\ IF ~logged_in /\ msg.words = 1
     THEN Sends("IDENTIFY", msg, Empty, Empty, JSON)
     ELSE UNCHANGED request
  /\ EndOfLine
  /\ UNCHANGED <<logged_in, nameVars, answer, relay>>
  /\ shown' = None

\* handle_login and identify_client.
handle_login ==
  /\ at = "parsed" /\ line.verb = "\\login"
  /\ IF ~logged_in /\ msg.words = 1 /\ 2 < msg.bytes /\ msg.bytes < 9
     THEN Sends("IDENTIFY", msg, Empty, Empty, JSON)
     ELSE UNCHANGED request
  /\ EndOfLine
  /\ UNCHANGED <<logged_in, nameVars, answer, relay>>
  /\ shown' = None

\* handle_logout, de_identify_client and login_client.
handle_logout ==
  /\ at = "parsed" /\ line.verb = "\\logout"
  /\ IF logged_in THEN Sends("DISCONNECT", Empty, Empty, Empty, JSON) ELSE UNCHANGED request
  /\ logged_in' = FALSE
  /\ EndOfLine
  /\ UNCHANGED <<nameVars, answer, relay>>
  /\ shown' = None

\* handle_status_client and update_status: sent whether or not it is one.
handle_status_client ==
  /\ at = "parsed" /\ line.verb = "\\status"
  /\ Sends("STATUS", Empty, msg, msg, JSON)
  /\ EndOfLine
  /\ UNCHANGED <<logged_in, nameVars, answer, relay>>
  /\ shown' = None

\* \help, \echo and words that are no command.
handle_unknown ==
  /\ at = "parsed" /\ line.verb = "\\other"
  /\ EndOfLine
  /\ UNCHANGED <<logged_in, request, nameVars, answer, relay>>
  /\ shown' = None

\* Mutant: the JSON of a text is built in as many bytes as that of a broadcast.
send_public_text_large ==
  /\ at = "parsed" /\ line.verb = "text" /\ logged_in
  /\ Sends("PUBLIC_TEXT", Empty, Joined(command, msg), Joined(line.first, line.rest),
           BROADCAST)
  /\ EndOfLine
  /\ UNCHANGED <<logged_in, nameVars, answer, relay>>
  /\ shown' = None

\* A line of text: strcat onto command, send_public_text, and print_my_msg
\* whether or not it was sent.
send_public_text ==
  /\ at = "parsed" /\ line.verb = "text" /\ logged_in
  /\ Sends("PUBLIC_TEXT", Empty, Joined(command, msg), Joined(line.first, line.rest), JSON)
  /\ EndOfLine
  /\ UNCHANGED <<logged_in, nameVars, answer, relay>>
  /\ shown' = None

\* A strcat that checks its bounds, as compilers may put in its place.
strcat_aborts ==
  /\ at = "parsed" /\ line.verb = "text" /\ logged_in
  /\ Joined(command, msg).bytes >= COMMAND
  /\ at' = "aborted"
  /\ UNCHANGED <<line, command, msg, fresh, kept, logged_in, request, nameVars,
                 answer, relay>>
  /\ shown' = None

login_first ==
  /\ at = "parsed" /\ line.verb = "text" /\ ~logged_in
  /\ EndOfLine
  /\ UNCHANGED <<logged_in, request, nameVars, answer, relay>>
  /\ shown' = None

-----------------------------------------------------------------------------
(* The server's thread.                                                    *)

ServerTakes(type) ==
  /\ request \notin {None, Joint} /\ request.type = type
  /\ request' = None
  /\ UNCHANGED <<mainVars, logged_in>>
  /\ shown' = None

\* What is read together is no JSON and dropped (server.c:104-106).
server_listener_drops ==
  /\ request = Joint
  /\ request' = None
  /\ UNCHANGED <<mainVars, logged_in, nameVars, answer, relay>>
  /\ shown' = None

\* Something another thread broadcasts may come before or after it.
Writes(stream, m) == {Behind(stream, m), Joint}

Replies(type, name) ==
  IF build_json_response(type, name, Empty, JSON)
  THEN answer' \in Writes(answer, Message(type, name, Empty, Empty, TRUE))
  ELSE UNCHANGED answer

\* Mutant: the JSON of a broadcast is built in as many bytes as an answer.
Announces_small(type, name, text, typed, own) ==
  IF build_json_response(type, name, text, JSON)
  THEN relay' \in Writes(relay, Message(type, name, text, typed, own))
  ELSE UNCHANGED relay

Announces(type, name, text, typed, own) ==
  IF build_json_response(type, name, text, BROADCAST)
  THEN relay' \in Writes(relay, Message(type, name, text, typed, own))
  ELSE UNCHANGED relay

\* What UserInfo.username reads as.
Reads(name, is_freed) == IF is_freed THEN Stray \cup {name} ELSE {name}

\* parse_user; the name is then taken, or free.  When another user has the same
\* name entered first, the insert frees it (server.c:437).
handle_identify ==
  /\ ServerTakes("IDENTIFY")
  /\ \E user \in strncpy(request.name, USER_MAX_LENGHT) : \E n \in CutName(user) :
       \/ /\ Replies("USER_ALREADY_EXISTS", n)
          /\ UNCHANGED <<nameVars, relay>>
       \/ /\ username' = n /\ freed' \in BOOLEAN
          /\ \E extra \in Reads(n, freed') : Replies("SUCCESS", extra)
          /\ \E name \in Reads(n, freed') :
               Announces("NEW_USER", name, Empty, request.name, ~freed')

\* Taking the name out of the table frees it, when it is there (server.c:442).
handle_disconnect ==
  /\ ServerTakes("DISCONNECT")
  /\ freed' \in {freed, TRUE}
  /\ UNCHANGED <<username, answer, relay>>

\* The thread of another user, whose own name has been freed and reads as this
\* one, takes it out.
other_thread_frees ==
  /\ username # Empty
  /\ freed' = TRUE
  /\ UNCHANGED <<mainVars, logged_in, request, username, answer, relay>>
  /\ shown' = None

handle_status ==
  /\ ServerTakes("STATUS")
  /\ \E status \in strncpy(request.text, MAX_INPUT_MSG) :
       IF status.status = "small"
       THEN Announces("STATUS", Empty, status, request.typed, request.own)
       ELSE UNCHANGED relay
  /\ UNCHANGED <<nameVars, answer>>

handle_public_text ==
  /\ ServerTakes("PUBLIC_TEXT")
  /\ \E text \in strncpy(request.text, MAX_INPUT_MSG) :
     \E name \in Reads(username, freed) :
       Announces("PUBLIC_TEXT_FROM", name, text, request.typed, request.own)
  /\ UNCHANGED <<nameVars, answer>>

-----------------------------------------------------------------------------
(* The listeners of the two clients.                                       *)

\* Mutant: extra is extracted first.  It has 9 bytes and is given 32, so its
\* padding empties value.
handle_identify_response_extra ==
  /\ answer \notin {None, Joint}
  /\ answer' = None
  /\ UNCHANGED <<mainVars, logged_in, request, nameVars, relay>>
  /\ shown' = None

\* value is tested before extra is extracted and overwrites it.
handle_identify_response ==
  /\ answer \notin {None, Joint}
  /\ answer' = None
  /\ logged_in' = (logged_in \/ answer.type = "SUCCESS")
  /\ UNCHANGED <<mainVars, request, nameVars, relay>>
  /\ shown' = None

\* handle_public_text_from and handle_client_new_user; a STATUS is dropped.
handle_public_text_from ==
  /\ relay \notin {None, Joint}
  /\ relay' = None
  /\ IF relay.type = "STATUS" THEN shown' = None
     ELSE \E n \in strncpy(relay.name, USER_MAX_LENGHT) :
          \E t \in strncpy(relay.text, MAX_INPUT_MSG) :
            shown' = Message(relay.type, n, t, relay.typed, relay.own)
  /\ UNCHANGED <<mainVars, logged_in, request, nameVars, answer>>

\* What is read together is dropped, in either client (client.c:114-117).
client_listener_drops ==
  /\ \/ answer = Joint /\ answer' = None /\ UNCHANGED relay
     \/ relay = Joint /\ relay' = None /\ UNCHANGED answer
  /\ UNCHANGED <<mainVars, logged_in, request, nameVars>>
  /\ shown' = None

-----------------------------------------------------------------------------
MainStep ==
  \/ parse_command \/ invalid_input
  \/ handle_login \/ handle_logout \/ handle_status_client \/ handle_unknown
  \/ send_public_text \/ strcat_aborts \/ login_first

ServerStep ==
  \/ handle_identify \/ handle_disconnect \/ handle_status \/ handle_public_text
  \/ server_listener_drops

ListenerStep ==
  handle_identify_response \/ handle_public_text_from \/ client_listener_drops

TextNext == MainStep \/ ServerStep \/ other_thread_frees \/ ListenerStep

TextSpec == TextInit /\ [][TextNext]_textVars

\* The server's thread and both listeners run; the user is free to stop.
LiveTextSpec ==
  /\ TextSpec
  /\ WF_textVars(ServerStep)
  /\ WF_textVars(handle_identify_response)
  /\ WF_textVars(handle_public_text_from)

-----------------------------------------------------------------------------
(* Properties.                                                             *)

\* The messages of each stream.
Asks == [type : {"IDENTIFY"}, name : {t \in Text : t.bytes \in 3 .. 8}, text : {Empty},
         typed : {Empty}, own : BOOLEAN]
Bodies == [type : {"DISCONNECT", "STATUS", "PUBLIC_TEXT"}, name : {Empty}, text : Text,
           typed : Text, own : BOOLEAN]
Answers == [type : {"SUCCESS", "USER_ALREADY_EXISTS"}, name : Text, text : {Empty},
            typed : {Empty}, own : BOOLEAN]
Relays == [type : {"NEW_USER", "PUBLIC_TEXT_FROM", "STATUS"}, name : Text, text : Text,
           typed : Text, own : BOOLEAN]

\* Types.  Only names of 3 to 8 bytes are asked for, none of them cut.
TextTypeOK ==
  /\ at \in {"prompt", "parsed", "aborted"}
  /\ line \in Lines \cup {NoLine}
  /\ command \in Text /\ msg \in Text
  /\ fresh \in BOOLEAN /\ kept \in BOOLEAN /\ logged_in \in BOOLEAN
  /\ username \in Text /\ freed \in BOOLEAN
  /\ request \in {None, Joint} \cup Asks \cup Bodies
  /\ answer \in {None, Joint} \cup Answers
  /\ relay \in {None, Joint} \cup Relays
  /\ shown \in {None} \cup Relays

\* A text another user sees consists of what was typed, never of memory nobody
\* has written, and of its own line alone, unless the line before was refused:
\* then a single word comes with the rest of that one.  A name is seen as it
\* was asked for, unless the server had freed it.  No copy on the way loses its
\* end, since what fits the client's 256 bytes fits 255 without the JSON, and
\* the user logs in on an earlier line than the text (client.c:25, 65-72;
\* json_utils.c:85; server.c:246).
ShownAsTyped ==
  shown # None =>
    /\ shown.type = "NEW_USER" /\ shown.own => shown.name = shown.typed
    /\ shown.type = "PUBLIC_TEXT_FROM" =>
         shown.text.typed /\ (shown.own => shown.text = shown.typed)

\* The argument of a command is the rest of its own line, but for two cases: on
\* the first line, a command without one gets what the stack held, and after a
\* line that was refused, its rest (client.c:25, 65-67, 340).
ArgumentsFresh == at = "parsed" /\ ~fresh /\ ~kept => msg = line.rest

\* What a client of this repository could put into its 256 bytes the server
\* can put into its own: while the memory of the name is not freed, every login
\* that is read by itself is answered, and every name and text that is read by
\* itself announced, under a name (server.c:316-356).
NothingUnbuilt ==
  [][(request \notin {None, Joint} /\ request' = None /\ ~freed') =>
       /\ request.type = "IDENTIFY" =>
            /\ answer = None => answer' # None
            /\ username' # username /\ relay = None => relay' # None
       /\ request.type = "PUBLIC_TEXT" =>
            username # Empty /\ (relay = None => relay' # None)]_textVars

\* A user who asks for a name the client accepts is logged in or told that it
\* is taken, although extra is written beyond its end (client.c:470-482), if
\* the request and its answer are each read by themselves and the name is not
\* freed.
LoginAnswered ==
  (request \notin {None, Joint} /\ request.type = "IDENTIFY")
    ~> \/ logged_in
       \/ answer \notin {None, Joint} /\ answer.type = "USER_ALREADY_EXISTS"
       \/ request = Joint \/ answer = Joint \/ freed

-----------------------------------------------------------------------------
(* What makes these inductive.                                             *)

NameFits(n) == Measured(n) /\ n.utf8 /\ n.bytes < USER_MAX_LENGHT

TextFits(t) == Measured(t) /\ t.utf8 /\ Around.PUBLIC_TEXT + t.escaped < JSON

\* What main's variables hold between two lines.
MainHeld ==
  /\ Measured(msg)
  /\ ~fresh => msg.typed
  /\ at = "prompt" /\ ~fresh /\ ~kept => msg = Empty
  /\ at = "parsed" => line \in Lines /\ command = line.first

\* What the messages on their way carry.
RequestHeld ==
  request \notin {None, Joint} =>
    /\ request.type = "IDENTIFY" => NameFits(request.name)
    /\ request.type = "PUBLIC_TEXT" =>
         /\ TextFits(request.text) /\ request.text.typed
         /\ request.own => request.text = request.typed
         /\ username # Empty

RelayHeld ==
  relay \notin {None, Joint} =>
    /\ relay.type = "NEW_USER" /\ relay.own =>
         NameFits(relay.name) /\ relay.name = relay.typed
    /\ relay.type = "PUBLIC_TEXT_FROM" =>
         /\ TextFits(relay.text) /\ relay.text.typed
         /\ relay.own => relay.text = relay.typed

Held ==
  /\ MainHeld /\ RequestHeld /\ RelayHeld
  /\ NameFits(username)
  /\ request # None => ~fresh
  /\ logged_in \/ (answer \notin {None, Joint} /\ answer.type = "SUCCESS")
       => ~fresh /\ username # Empty

TextInv == TextTypeOK /\ ArgumentsFresh /\ Held /\ ShownAsTyped

-----------------------------------------------------------------------------
(* What the documentation says.                                            *)

\* README.md:58, "<no command> - Sends a message to the main chat room": a
\* line that main prints as the user's own message was sent.
TextSent ==
  [][(at = "parsed" /\ at' = "prompt" /\ line.verb = "text" /\ logged_in)
       => request' # request \/ request = Joint]_textVars

\* README.md:57 and client.c:379, "\status ACTIVE/AWAY/BUSY - change the
\* current status": a status named like that is announced.
StatusUnderstood ==
  [][(request \notin {None, Joint} /\ request.type = "STATUS" /\ request' = None)
       => (request.text.status = "capital" => relay' # None)]_textVars
=============================================================================
