----------------------------- MODULE TextProofs -----------------------------
(***************************************************************************)
(* Theorems about TextPath, for any lines a user may type and anything     *)
(* memory may hold.                                                        *)
(***************************************************************************)
EXTENDS TextPath, TLAPS

LEMMA EmptyText ==
  Empty \in Text /\ Measured(Empty) /\ Empty.utf8 /\ Empty.bytes = 0 /\ Empty.typed
BY DEF Empty, Text, Measured

\* The pieces of a line are texts somebody typed.
LEMMA Pieces ==
  ASSUME NEW l \in Lines
  PROVE  /\ l.verb \in Verbs /\ l.first \in Text /\ l.rest \in Text
         /\ Measured(l.first) /\ Measured(l.rest) /\ l.first.typed /\ l.rest.typed
BY TextAssumption DEF Line

LEMMA StrayText == \A s \in Stray : s \in Text /\ Measured(s)
BY TextAssumption

\* strcat of two texts is a text; escaping still at most doubles each byte
\* three times.
LEMMA JoinedText ==
  ASSUME NEW a \in Text, NEW b \in Text, Measured(a), Measured(b)
  PROVE  /\ Joined(a, b) \in Text /\ Measured(Joined(a, b))
         /\ a.typed /\ b.typed => Joined(a, b).typed
BY DEF Text, Joined, Measured

\* A message is neither none nor several.
LEMMA NotNone ==
  ASSUME NEW type \in Types, NEW n \in Text, NEW t \in Text, NEW u \in Text,
         NEW own \in BOOLEAN
  PROVE  Message(type, n, t, u, own) \notin {None, Joint}
BY TextAssumption DEF Message

\* What a message is made of.
LEMMA Fields ==
  ASSUME NEW type, NEW n, NEW t, NEW u, NEW own
  PROVE  /\ Message(type, n, t, u, own).type = type
         /\ Message(type, n, t, u, own).name = n
         /\ Message(type, n, t, u, own).text = t
         /\ Message(type, n, t, u, own).typed = u
         /\ Message(type, n, t, u, own).own = own
BY DEF Message

LEMMA AnAsk ==
  ASSUME NEW n \in Text, n.bytes \in 3 .. 8, NEW own \in BOOLEAN
  PROVE  Message("IDENTIFY", n, Empty, Empty, own) \in Asks
BY DEF Message, Asks

LEMMA AnAnswer ==
  ASSUME NEW type \in {"SUCCESS", "USER_ALREADY_EXISTS"}, NEW n \in Text, NEW own \in BOOLEAN
  PROVE  Message(type, n, Empty, Empty, own) \in Answers
BY DEF Message, Answers

LEMMA ARelay ==
  ASSUME NEW type \in {"NEW_USER", "PUBLIC_TEXT_FROM", "STATUS"}, NEW n \in Text,
         NEW t \in Text, NEW u \in Text, NEW own \in BOOLEAN
  PROVE  Message(type, n, t, u, own) \in Relays
BY DEF Message, Relays

\* A copy that has room for its end is exact.
LEMMA CopyExact ==
  /\ \A t \in Text, n \in Nat : t.bytes < n => strncpy(t, n) = {t}
  /\ \A t \in Text : t.bytes < USER_MAX_LENGHT => CutName(t) = {t}
BY DEF strncpy, CutName

\* Every copy is some text.
LEMMA CopyText ==
  /\ \A t \in Text, n \in Nat : strncpy(t, n) \subseteq Text
  /\ \A t \in Text : CutName(t) \subseteq Text
BY StrayText DEF strncpy, CutName

-----------------------------------------------------------------------------
\* What a stream holds after something was sent.
LEMMA SendsOne ==
  ASSUME NEW type, NEW n, NEW t, NEW u, NEW size, Sends(type, n, t, u, size)
  PROVE  \/ request' = request
         \/ request # None /\ request' = Joint
         \/ /\ request' = Message(type, n, t, u, ~kept)
            /\ build_json_response(type, n, t, size)
BY DEF Sends, Behind

\* A step that does not change the server and shows nothing to the other user.
ServerStays == UNCHANGED <<nameVars, answer, relay>> /\ shown' = None

\* The end of a line: main's variables are empty, and what is on its way to the
\* server is as before, lost, or fine.
LEMMA LineEnds ==
  ASSUME TextInv, EndOfLine, ServerStays, at = "parsed",
         logged_in' \in BOOLEAN, logged_in' => logged_in,
         \/ request' = request
         \/ request' = Joint
         \/ /\ request' \in Asks \cup Bodies /\ request' \notin {None, Joint}
            /\ request'.type = "IDENTIFY" => NameFits(request'.name)
            /\ request'.type = "PUBLIC_TEXT" =>
                 /\ TextFits(request'.text) /\ request'.text.typed
                 /\ request'.own => request'.text = request'.typed
                 /\ username # Empty
  PROVE  TextInv'
<1> USE DEF ServerStays, nameVars
<1>1. TextTypeOK'
  BY EmptyText DEF TextInv, TextTypeOK, EndOfLine
<1>2. ArgumentsFresh'
  BY DEF ArgumentsFresh, EndOfLine
<1>3. ShownAsTyped'
  BY DEF ShownAsTyped
<1>4. Held'
  <2>1. MainHeld'
    BY EmptyText DEF MainHeld, EndOfLine, Measured
  <2>2. RequestHeld'
    BY DEF TextInv, Held, RequestHeld, NameFits, TextFits, Measured
  <2>3. RelayHeld'
    BY DEF TextInv, Held, RelayHeld, NameFits, TextFits, Measured
  <2>4. NameFits(username)' /\ ~fresh'
    BY DEF TextInv, Held, EndOfLine, NameFits, Measured
  <2>5. (logged_in \/ (answer \notin {None, Joint} /\ answer.type = "SUCCESS"))'
          => username' # Empty
    BY DEF TextInv, Held
  <2> QED BY <2>1, <2>2, <2>3, <2>4, <2>5 DEF Held
<1> QED BY <1>1, <1>2, <1>3, <1>4 DEF TextInv

\* A step that leaves main and what is on its way as they are.
LEMMA OthersKeep ==
  ASSUME TextInv, UNCHANGED <<mainVars, logged_in, username, relay>>, freed' \in BOOLEAN,
         request' \in {request, None, Joint},
         answer' \in {answer, None, Joint}, shown' \in {None, shown},
         request' = Joint => request # None
  PROVE  TextInv'
<1> USE DEF mainVars
<1>1. TextTypeOK'
  BY DEF TextInv, TextTypeOK
<1>2. ArgumentsFresh' /\ ShownAsTyped'
  BY DEF TextInv, ArgumentsFresh, ShownAsTyped
<1>3. MainHeld' /\ RequestHeld' /\ RelayHeld'
  BY DEF TextInv, Held, MainHeld, RequestHeld, RelayHeld, NameFits, TextFits, Measured
<1>4. Held'
  BY <1>3 DEF TextInv, Held, NameFits, Measured
<1> QED BY <1>1, <1>2, <1>4 DEF TextInv

LEMMA MainKeeps == TextInv /\ MainStep => TextInv'
<1> SUFFICES ASSUME TextInv, MainStep PROVE TextInv'
  OBVIOUS
<1> USE DEF ServerStays
<1>k. (~kept) \in BOOLEAN
  BY DEF TextInv, TextTypeOK
<1>1. CASE parse_command
  <2>1. PICK l \in Lines : /\ Scanned(l) /\ at' = "parsed" /\ line' = l /\ UNCHANGED kept
    BY <1>1 DEF parse_command
  <2> USE <2>1 DEF Scanned, nameVars
  <2>2. /\ line' \in Lines /\ command' = line'.first /\ command' \in Text
        /\ msg' \in Text /\ Measured(msg') /\ (~fresh => msg'.typed)
        /\ (~fresh /\ ~kept => msg' = l.rest)
    BY Pieces DEF TextInv, Held, MainHeld, TextTypeOK
  <2>3. TextTypeOK'
    BY <2>2 DEF TextInv, TextTypeOK
  <2>4. ArgumentsFresh' /\ ShownAsTyped'
    BY <2>2 DEF ArgumentsFresh, ShownAsTyped
  <2>5. MainHeld' /\ RequestHeld' /\ RelayHeld'
    BY <2>2 DEF TextInv, Held, MainHeld, RequestHeld, RelayHeld, NameFits, TextFits, Measured
  <2>6. Held'
    BY <2>5 DEF TextInv, Held, NameFits, Measured
  <2> QED BY <2>3, <2>4, <2>6 DEF TextInv
<1>9. CASE invalid_input
  <2>1. PICK l \in Lines : Scanned(l) /\ line' = NoLine /\ kept' = TRUE /\ UNCHANGED at
    BY <1>9 DEF invalid_input
  <2> USE <2>1 DEF Scanned, nameVars
  <2>2. /\ command' \in Text /\ at' = "prompt"
        /\ msg' \in Text /\ Measured(msg') /\ (~fresh => msg'.typed)
    BY Pieces DEF TextInv, Held, MainHeld, TextTypeOK
  <2>3. TextTypeOK'
    BY <2>2 DEF TextInv, TextTypeOK
  <2>4. ArgumentsFresh' /\ ShownAsTyped'
    BY <2>2 DEF ArgumentsFresh, ShownAsTyped
  <2>5. MainHeld' /\ RequestHeld' /\ RelayHeld'
    BY <2>2 DEF TextInv, Held, MainHeld, RequestHeld, RelayHeld, NameFits, TextFits, Measured
  <2>6. Held'
    BY <2>5 DEF TextInv, Held, NameFits, Measured
  <2> QED BY <2>3, <2>4, <2>6 DEF TextInv
<1>2. CASE handle_login
  <2>1. CASE request' \in {request, Joint}
    BY <1>2, <2>1, LineEnds DEF handle_login, TextInv, TextTypeOK
  <2>2. CASE request' \notin {request, Joint}
    <3>1. /\ request' = Message("IDENTIFY", msg, Empty, Empty, ~kept)
          /\ build_json_response("IDENTIFY", msg, Empty, JSON)
          /\ 2 < msg.bytes /\ msg.bytes < 9
      BY <1>2, <2>2, SendsOne DEF handle_login
    <3>2. msg \in Text /\ Measured(msg)
      BY DEF TextInv, TextTypeOK, Held, MainHeld
    <3>3. request' \in Asks /\ request' \notin {None, Joint}
      <4>1. msg.bytes \in 3 .. 8
        BY <3>1, <3>2 DEF Text
      <4> QED BY <3>1, <3>2, <4>1, <1>k, EmptyText, AnAsk, NotNone DEF Types
    <3>4. request'.type = "IDENTIFY" /\ NameFits(request'.name)
      BY <3>1, <3>2 DEF Message, NameFits, build_json_response, USER_MAX_LENGHT
    <3> QED BY <1>2, <3>3, <3>4, LineEnds DEF handle_login, TextInv, TextTypeOK
  <2> QED BY <2>1, <2>2
<1>3. CASE handle_logout
  <2>1. CASE request' \in {request, Joint}
    BY <1>3, <2>1, LineEnds DEF handle_logout, TextInv, TextTypeOK
  <2>2. CASE request' \notin {request, Joint}
    <3>1. request' = Message("DISCONNECT", Empty, Empty, Empty, ~kept)
      BY <1>3, <2>2, SendsOne DEF handle_logout
    <3>2. request' \in Bodies /\ request' \notin {None, Joint} /\ request'.type = "DISCONNECT"
      BY <3>1, EmptyText, NotNone, <1>k DEF Message, Bodies, Types
    <3> QED BY <1>3, <3>2, LineEnds DEF handle_logout, TextInv, TextTypeOK
  <2> QED BY <2>1, <2>2
<1>4. CASE handle_status_client
  <2>1. CASE request' \in {request, Joint}
    BY <1>4, <2>1, LineEnds DEF handle_status_client, TextInv, TextTypeOK
  <2>2. CASE request' \notin {request, Joint}
    <3>1. request' = Message("STATUS", Empty, msg, msg, ~kept) /\ msg \in Text
      BY <1>4, <2>2, SendsOne DEF handle_status_client, TextInv, TextTypeOK
    <3>2. request' \in Bodies /\ request' \notin {None, Joint} /\ request'.type = "STATUS"
      BY <3>1, EmptyText, NotNone, <1>k DEF Message, Bodies, Types
    <3> QED BY <1>4, <3>2, LineEnds DEF handle_status_client, TextInv, TextTypeOK
  <2> QED BY <2>1, <2>2
<1>5. CASE handle_unknown
  BY <1>5, LineEnds DEF handle_unknown, TextInv, TextTypeOK
<1>6. CASE send_public_text
  <2> DEFINE str == Joined(command, msg)
  <2>1. CASE request' \in {request, Joint}
    BY <1>6, <2>1, LineEnds DEF send_public_text, TextInv, TextTypeOK
  <2>2. CASE request' \notin {request, Joint}
    <3>1. /\ request' = Message("PUBLIC_TEXT", Empty, str, Joined(line.first, line.rest), ~kept)
          /\ build_json_response("PUBLIC_TEXT", Empty, str, JSON)
      BY <1>6, <2>2, SendsOne DEF send_public_text
    <3>2. /\ command = line.first /\ username # Empty /\ ~fresh
          /\ ~kept => msg = line.rest
          /\ msg \in Text /\ Measured(msg) /\ msg.typed
      BY <1>6 DEF send_public_text, TextInv, TextTypeOK, Held, MainHeld, ArgumentsFresh
    <3>l. line \in Lines
      BY <1>6 DEF send_public_text, TextInv, Held, MainHeld
    <3>3. /\ str \in Text /\ Measured(str) /\ str.typed
          /\ Joined(line.first, line.rest) \in Text
      BY <3>2, <3>l, Pieces, JoinedText
    <3>4. request' \in Bodies /\ request' \notin {None, Joint} /\ request'.type = "PUBLIC_TEXT"
      BY <3>1, <3>3, EmptyText, NotNone, <1>k DEF Message, Bodies, Types
    <3>5. /\ TextFits(request'.text) /\ request'.text.typed
          /\ request'.own => request'.text = request'.typed
      <4>1. /\ request'.text = str /\ request'.typed = Joined(line.first, line.rest)
            /\ request'.own = (~kept)
        BY <3>1, Fields
      <4>2. TextFits(str)
        BY <3>1, <3>3 DEF TextFits, build_json_response, Around, Empty, Text
      <4>3. ~kept => str = Joined(line.first, line.rest)
        BY <3>2
      <4> QED BY <3>3, <4>1, <4>2, <4>3
    <3> QED BY <1>6, <3>2, <3>4, <3>5, LineEnds DEF send_public_text, TextInv, TextTypeOK
  <2> QED BY <2>1, <2>2
<1>7. CASE strcat_aborts
  <2>1. TextTypeOK'
    BY <1>7 DEF strcat_aborts, nameVars, TextInv, TextTypeOK
  <2>2. ArgumentsFresh' /\ ShownAsTyped'
    BY <1>7 DEF strcat_aborts, ArgumentsFresh, ShownAsTyped
  <2>3. MainHeld' /\ RequestHeld' /\ RelayHeld'
    BY <1>7 DEF strcat_aborts, nameVars, TextInv, Held, MainHeld, RequestHeld, RelayHeld,
                NameFits, TextFits, Measured
  <2>4. Held'
    BY <1>7, <2>3 DEF strcat_aborts, nameVars, TextInv, Held, NameFits, Measured
  <2> QED BY <2>1, <2>2, <2>4 DEF TextInv
<1>8. CASE login_first
  BY <1>8, LineEnds DEF login_first, TextInv, TextTypeOK
<1> QED
  BY <1>1, <1>2, <1>3, <1>4, <1>5, <1>6, <1>7, <1>8, <1>9 DEF MainStep

-----------------------------------------------------------------------------
\* A step of the server, from what it sends back and on.
LEMMA ServerStepKeeps ==
  ASSUME TextInv, NEW type, ServerTakes(type), freed' \in BOOLEAN,
         \/ username' = username
         \/ username' \in Text /\ NameFits(username') /\ username' # Empty,
         answer' \in {answer, Joint} \cup Answers,
         answer' \notin {answer, Joint} /\ answer'.type = "SUCCESS" => username' # Empty,
         relay' \in {relay, Joint} \cup Relays,
         relay' \notin {relay, Joint} =>
           /\ relay'.type = "NEW_USER" /\ relay'.own =>
                NameFits(relay'.name) /\ relay'.name = relay'.typed
           /\ relay'.type = "PUBLIC_TEXT_FROM" =>
                /\ TextFits(relay'.text) /\ relay'.text.typed
                /\ relay'.own => relay'.text = relay'.typed
  PROVE  TextInv'
<1> USE DEF ServerTakes, mainVars
<1>1. TextTypeOK'
  BY DEF TextInv, TextTypeOK
<1>2. ArgumentsFresh' /\ ShownAsTyped'
  BY DEF TextInv, ArgumentsFresh, ShownAsTyped
<1>3. Held'
  <2>1. NameFits(username')
    BY DEF TextInv, Held
  <2>2. MainHeld'
    BY DEF TextInv, Held, MainHeld, Measured
  <2>3. request' = None /\ ~fresh' /\ RequestHeld'
    BY DEF TextInv, Held, RequestHeld
  <2>4. RelayHeld'
    BY DEF TextInv, Held, RelayHeld, NameFits, TextFits, Measured
  <2>5. logged_in' \/ (answer' \notin {None, Joint} /\ answer'.type = "SUCCESS")
          => username' # Empty
    BY DEF TextInv, Held
  <2> QED BY <2>1, <2>2, <2>3, <2>4, <2>5 DEF Held, NameFits, Measured
<1> QED BY <1>1, <1>2, <1>3 DEF TextInv

\* What the server answers and announces.
LEMMA RepliesOne ==
  ASSUME NEW type, NEW n, Replies(type, n)
  PROVE  \/ answer' \in {answer, Joint}
         \/ answer' = Message(type, n, Empty, Empty, TRUE)
BY DEF Replies, Writes, Behind

LEMMA AnnouncesOne ==
  ASSUME NEW type, NEW n, NEW t, NEW u, NEW own, Announces(type, n, t, u, own)
  PROVE  \/ relay' \in {relay, Joint}
         \/ relay' = Message(type, n, t, u, own)
BY DEF Announces, Writes, Behind

\* Whatever memory the server reads a name from, it reads a text.
LEMMA ReadsText ==
  ASSUME NEW n \in Text, NEW is_freed
  PROVE  Reads(n, is_freed) \subseteq Text /\ (~is_freed => Reads(n, is_freed) = {n})
BY StrayText DEF Reads

\* The name the server extracts is the name the client sent.
LEMMA NameArrives ==
  ASSUME TextInv, request \notin {None, Joint}, request.type = "IDENTIFY",
         NEW user \in strncpy(request.name, USER_MAX_LENGHT), NEW n \in CutName(user)
  PROVE  n = request.name /\ n \in Text /\ NameFits(n) /\ n # Empty
<1>1. request.name \in Text /\ NameFits(request.name) /\ request.name.bytes >= 3
  BY DEF TextInv, TextTypeOK, Held, RequestHeld, Asks, Bodies
<1>2. user = request.name
  BY <1>1, CopyExact DEF NameFits, USER_MAX_LENGHT
<1>3. n = request.name
  BY <1>1, <1>2, CopyExact DEF NameFits
<1> QED BY <1>1, <1>3, EmptyText

\* The text the server extracts is the one main sent.
LEMMA TextArrives ==
  ASSUME TextInv, request \notin {None, Joint}, request.type = "PUBLIC_TEXT",
         NEW text \in strncpy(request.text, MAX_INPUT_MSG)
  PROVE  /\ text = request.text /\ text \in Text /\ TextFits(text) /\ text.typed
         /\ request.own => text = request.typed
         /\ username # Empty /\ request.typed \in Text /\ request.own \in BOOLEAN
<1>1. /\ request.text \in Text /\ TextFits(request.text) /\ request.text.typed
      /\ request.own => request.text = request.typed
      /\ username # Empty /\ request.typed \in Text /\ request.own \in BOOLEAN
  BY DEF TextInv, TextTypeOK, Held, RequestHeld, Asks, Bodies
<1>2. request.text.bytes < MAX_INPUT_MSG
  BY <1>1 DEF TextFits, Measured, Text, Around, JSON, MAX_INPUT_MSG
<1>3. text = request.text
  BY <1>1, <1>2, CopyExact DEF MAX_INPUT_MSG
<1> QED BY <1>1, <1>3

LEMMA ServerKeeps == TextInv /\ ServerStep => TextInv'
<1> SUFFICES ASSUME TextInv, ServerStep PROVE TextInv'
  OBVIOUS
<1>t. username \in Text /\ NameFits(username) /\ freed \in BOOLEAN
  BY DEF TextInv, TextTypeOK, Held
<1>1. CASE handle_identify
  <2>1. /\ ServerTakes("IDENTIFY")
        /\ request \notin {None, Joint} /\ request.type = "IDENTIFY"
    BY <1>1 DEF handle_identify, ServerTakes
  <2>0. PICK user \in strncpy(request.name, USER_MAX_LENGHT) : \E n \in CutName(user) :
          \/ /\ Replies("USER_ALREADY_EXISTS", n)
             /\ UNCHANGED <<nameVars, relay>>
          \/ /\ username' = n /\ freed' \in BOOLEAN
             /\ \E extra \in Reads(n, freed') : Replies("SUCCESS", extra)
             /\ \E name \in Reads(n, freed') :
                  Announces("NEW_USER", name, Empty, request.name, ~freed')
    BY <1>1 DEF handle_identify
  <2>2. PICK n \in CutName(user) :
          \/ /\ Replies("USER_ALREADY_EXISTS", n)
             /\ UNCHANGED <<nameVars, relay>>
          \/ /\ username' = n /\ freed' \in BOOLEAN
             /\ \E extra \in Reads(n, freed') : Replies("SUCCESS", extra)
             /\ \E name \in Reads(n, freed') :
                  Announces("NEW_USER", name, Empty, request.name, ~freed')
    BY <2>0
  <2>3. n = request.name /\ n \in Text /\ NameFits(n) /\ n # Empty
    BY <2>1, <2>2, NameArrives
  <2>4. CASE Replies("USER_ALREADY_EXISTS", n) /\ UNCHANGED <<nameVars, relay>>
    <3>1. \/ answer' \in {answer, Joint}
          \/ /\ answer' = Message("USER_ALREADY_EXISTS", n, Empty, Empty, TRUE)
             /\ answer'.type = "USER_ALREADY_EXISTS"
      BY <2>4, RepliesOne DEF Message
    <3>2. answer' \in {answer, Joint} \cup Answers
      BY <3>1, <2>3, AnAnswer
    <3> QED BY <1>t, <2>1, <2>4, <3>1, <3>2, ServerStepKeeps DEF nameVars
  <2>5. CASE /\ username' = n /\ freed' \in BOOLEAN
             /\ \E extra \in Reads(n, freed') : Replies("SUCCESS", extra)
             /\ \E name \in Reads(n, freed') :
                  Announces("NEW_USER", name, Empty, request.name, ~freed')
    <3>1. PICK extra \in Reads(n, freed') : Replies("SUCCESS", extra)
      BY <2>5
    <3>2. PICK name \in Reads(n, freed') :
            Announces("NEW_USER", name, Empty, request.name, ~freed')
      BY <2>5
    <3>3. extra \in Text /\ name \in Text /\ (~freed' => name = n)
      BY <2>3, <3>1, <3>2, ReadsText
    <3>4. answer' \in {answer, Joint} \cup Answers
      BY <3>1, <3>3, RepliesOne, AnAnswer
    <3>5. \/ relay' \in {relay, Joint}
          \/ relay' = Message("NEW_USER", name, Empty, n, ~freed')
      BY <2>3, <3>2, AnnouncesOne
    <3>o. (~freed') \in BOOLEAN
      BY <2>5
    <3>6. relay' \in {relay, Joint} \cup Relays
      <4>1. Message("NEW_USER", name, Empty, n, ~freed') \in Relays
        BY <2>3, <3>o, <3>3, EmptyText, ARelay
      <4> QED BY <3>5, <4>1
    <3>7. relay' \notin {relay, Joint} =>
            /\ relay'.type = "NEW_USER"
            /\ relay'.own => NameFits(relay'.name) /\ relay'.name = relay'.typed
      <4>1. CASE relay' = Message("NEW_USER", name, Empty, n, ~freed')
        <5>1. /\ relay'.type = "NEW_USER" /\ relay'.name = name /\ relay'.typed = n
              /\ relay'.own = (~freed')
          BY <4>1, Fields
        <5> QED BY <2>3, <3>3, <5>1
      <4> QED BY <3>5, <4>1
    <3> QED BY <2>1, <2>3, <2>5, <3>4, <3>6, <3>7, ServerStepKeeps
  <2> QED BY <2>2, <2>4, <2>5
<1>2. CASE handle_disconnect
  BY <1>2, <1>t, ServerStepKeeps DEF handle_disconnect
<1>3. CASE handle_status
  <2>1. /\ ServerTakes("STATUS") /\ UNCHANGED <<nameVars, answer>>
        /\ request \notin {None, Joint} /\ request.type = "STATUS"
    BY <1>3 DEF handle_status, ServerTakes
  <2>2. request.text \in Text /\ request.typed \in Text /\ request.own \in BOOLEAN
    BY <2>1 DEF TextInv, TextTypeOK, Asks, Bodies
  <2>3. PICK status \in strncpy(request.text, MAX_INPUT_MSG) :
          \/ Announces("STATUS", Empty, status, request.typed, request.own)
          \/ UNCHANGED relay
    BY <1>3 DEF handle_status
  <2>4. status \in Text
    BY <2>2, CopyText DEF MAX_INPUT_MSG
  <2>5. \/ relay' \in {relay, Joint}
        \/ /\ relay' = Message("STATUS", Empty, status, request.typed, request.own)
           /\ relay'.type = "STATUS"
    BY <2>3, AnnouncesOne DEF Message
  <2>6. relay' \in {relay, Joint} \cup Relays
    BY <2>2, <2>4, <2>5, EmptyText, ARelay
  <2> QED BY <1>t, <2>1, <2>5, <2>6, ServerStepKeeps DEF nameVars
<1>4. CASE handle_public_text
  <2>1. /\ ServerTakes("PUBLIC_TEXT") /\ UNCHANGED <<nameVars, answer>>
        /\ request \notin {None, Joint} /\ request.type = "PUBLIC_TEXT"
    BY <1>4 DEF handle_public_text, ServerTakes
  <2>2. PICK text \in strncpy(request.text, MAX_INPUT_MSG), name \in Reads(username, freed) :
          Announces("PUBLIC_TEXT_FROM", name, text, request.typed, request.own)
    BY <1>4 DEF handle_public_text
  <2>3. /\ text \in Text /\ TextFits(text) /\ text.typed
        /\ request.own => text = request.typed
        /\ request.typed \in Text /\ request.own \in BOOLEAN
    BY <2>1, TextArrives
  <2>4. name \in Text
    BY <1>t, ReadsText
  <2>5. \/ relay' \in {relay, Joint}
        \/ /\ relay' = Message("PUBLIC_TEXT_FROM", name, text, request.typed, request.own)
           /\ relay'.type = "PUBLIC_TEXT_FROM" /\ relay'.text = text
           /\ relay'.own = request.own /\ relay'.typed = request.typed
    BY <2>2, AnnouncesOne DEF Message
  <2>6. relay' \in {relay, Joint} \cup Relays
    BY <2>3, <2>4, <2>5, ARelay
  <2> QED BY <1>t, <2>1, <2>3, <2>5, <2>6, ServerStepKeeps DEF nameVars
<1>5. CASE server_listener_drops
  BY <1>5, <1>t, OthersKeep, TextAssumption DEF server_listener_drops, nameVars
<1> QED BY <1>1, <1>2, <1>3, <1>4, <1>5 DEF ServerStep

\* What another thread frees, no message holds.
LEMMA FreeingKeeps == TextInv /\ other_thread_frees => TextInv'
BY OthersKeep, TextAssumption DEF other_thread_frees

LEMMA AnswerKeeps == TextInv /\ handle_identify_response => TextInv'
<1> SUFFICES ASSUME TextInv, handle_identify_response PROVE TextInv'
  OBVIOUS
<1> USE DEF handle_identify_response, mainVars, nameVars
<1>1. TextTypeOK'
  BY DEF TextInv, TextTypeOK
<1>2. ArgumentsFresh' /\ ShownAsTyped'
  BY DEF TextInv, ArgumentsFresh, ShownAsTyped
<1>3. Held'
  <2>1. logged_in' => ~fresh /\ username # Empty
    BY DEF TextInv, Held
  <2>2. MainHeld' /\ RequestHeld' /\ RelayHeld'
    BY DEF TextInv, Held, MainHeld, RequestHeld, RelayHeld, NameFits, TextFits, Measured
  <2> QED BY <2>1, <2>2 DEF TextInv, Held, NameFits, Measured
<1> QED BY <1>1, <1>2, <1>3 DEF TextInv

LEMMA RelayKeeps == TextInv /\ handle_public_text_from => TextInv'
<1> SUFFICES ASSUME TextInv, handle_public_text_from PROVE TextInv'
  OBVIOUS
<1> USE DEF handle_public_text_from, mainVars, nameVars
<1>r. relay \notin {None, Joint} /\ relay \in Relays
  BY DEF TextInv, TextTypeOK
<1>h. ArgumentsFresh' /\ Held'
  <2>1. MainHeld' /\ RequestHeld' /\ RelayHeld'
    BY DEF TextInv, Held, MainHeld, RequestHeld, RelayHeld, NameFits, TextFits, Measured
  <2> QED BY <2>1 DEF TextInv, ArgumentsFresh, Held, NameFits, Measured
<1>1. CASE relay.type = "STATUS"
  <2>1. TextTypeOK' /\ ShownAsTyped'
    BY <1>1 DEF TextInv, TextTypeOK, ShownAsTyped
  <2> QED BY <2>1, <1>h DEF TextInv
<1>2. CASE relay.type # "STATUS"
  <2>1. PICK n \in strncpy(relay.name, USER_MAX_LENGHT), t \in strncpy(relay.text, MAX_INPUT_MSG) :
          shown' = Message(relay.type, n, t, relay.typed, relay.own)
    BY <1>2
  <2>2. n \in Text /\ t \in Text
    BY <1>r, CopyText DEF Relays, USER_MAX_LENGHT, MAX_INPUT_MSG
  <2>3. shown' \in Relays /\ shown' \notin {None, Joint}
    BY <1>r, <2>1, <2>2, NotNone DEF Message, Relays, Types
  <2>4. TextTypeOK'
    BY <2>3 DEF TextInv, TextTypeOK
  <2>5. relay.type = "NEW_USER" /\ relay.own => n = relay.name
    <3>1. relay.type = "NEW_USER" /\ relay.own => relay.name.bytes < USER_MAX_LENGHT
      BY <1>r DEF TextInv, Held, RelayHeld, NameFits
    <3> QED BY <1>r, <3>1, <2>1, CopyExact DEF Relays, USER_MAX_LENGHT
  <2>6. relay.type = "PUBLIC_TEXT_FROM" => t = relay.text
    <3>1. relay.type = "PUBLIC_TEXT_FROM" => relay.text.bytes < MAX_INPUT_MSG
      BY <1>r
      DEF TextInv, Held, RelayHeld, TextFits, Measured, Relays, Text, Around, JSON, MAX_INPUT_MSG
    <3> QED BY <1>r, <3>1, <2>1, CopyExact DEF Relays, MAX_INPUT_MSG
  <2>7. ShownAsTyped'
    BY <1>r, <2>1, <2>5, <2>6 DEF TextInv, Held, RelayHeld, ShownAsTyped, Message
  <2> QED BY <2>4, <2>7, <1>h DEF TextInv
<1> QED BY <1>1, <1>2

LEMMA DropsKeep == TextInv /\ client_listener_drops => TextInv'
<1> SUFFICES ASSUME TextInv, client_listener_drops PROVE TextInv'
  OBVIOUS
<1> USE DEF client_listener_drops, mainVars, nameVars
<1>1. TextTypeOK'
  BY DEF TextInv, TextTypeOK
<1>2. ArgumentsFresh' /\ ShownAsTyped'
  BY DEF TextInv, ArgumentsFresh, ShownAsTyped
<1>3. MainHeld' /\ RequestHeld' /\ RelayHeld'
  BY DEF TextInv, Held, MainHeld, RequestHeld, RelayHeld, NameFits, TextFits, Measured
<1>4. Held'
  BY <1>3 DEF TextInv, Held, NameFits, Measured
<1> QED BY <1>1, <1>2, <1>4 DEF TextInv

-----------------------------------------------------------------------------
\* TextInv holds in every reachable state.
THEOREM TextInvariance == TextSpec => []TextInv
<1>1. TextInit => TextInv
  <2> SUFFICES ASSUME TextInit PROVE TextInv
    OBVIOUS
  <2>1. TextTypeOK
    BY EmptyText, StrayText, TextAssumption DEF TextInit, TextTypeOK
  <2>2. Held
    BY EmptyText, StrayText
    DEF TextInit, Held, MainHeld, RequestHeld, RelayHeld, NameFits, USER_MAX_LENGHT
  <2>3. ArgumentsFresh /\ ShownAsTyped
    BY DEF TextInit, ArgumentsFresh, ShownAsTyped
  <2> QED BY <2>1, <2>2, <2>3 DEF TextInv
<1>2. TextInv /\ [TextNext]_textVars => TextInv'
  <2> SUFFICES ASSUME TextInv, [TextNext]_textVars PROVE TextInv'
    OBVIOUS
  <2>1. CASE UNCHANGED textVars
    BY <2>1, OthersKeep, TextAssumption DEF textVars, nameVars, TextInv, TextTypeOK
  <2> QED
    BY <2>1, MainKeeps, ServerKeeps, FreeingKeeps, AnswerKeeps, RelayKeeps, DropsKeep
    DEF TextNext, ListenerStep
<1> QED BY <1>1, <1>2, PTL DEF TextSpec

\* A client never asks for a name the server would have to cut, and every
\* variable keeps its type (client.c:171, server.c:309).
THEOREM TextTypes == TextSpec => []TextTypeOK
<1>1. TextInv => TextTypeOK
  BY DEF TextInv
<1> QED BY <1>1, TextInvariance, PTL

\* Whatever is typed and however messages run together, another user sees only
\* what was typed, and of the line alone, unless the one before was refused.
THEOREM ShownAsTypedAlways == TextSpec => []ShownAsTyped
<1>1. TextInv => ShownAsTyped
  BY DEF TextInv
<1> QED BY <1>1, TextInvariance, PTL

\* No command gets the argument of an earlier line, unless that was refused,
\* or there was none.
THEOREM ArgumentsFreshAlways == TextSpec => []ArgumentsFresh
<1>1. TextInv => ArgumentsFresh
  BY DEF TextInv
<1> QED BY <1>1, TextInvariance, PTL

-----------------------------------------------------------------------------
\* Around a name that fits there is room for each answer, and around such a
\* name and a text that fits for each announcement.
LEMMA RoomForAll ==
  ASSUME NEW n \in Text, NameFits(n), NEW t \in Text, TextFits(t)
  PROVE  /\ build_json_response("SUCCESS", n, Empty, JSON)
         /\ build_json_response("USER_ALREADY_EXISTS", n, Empty, JSON)
         /\ build_json_response("NEW_USER", n, Empty, BROADCAST)
         /\ build_json_response("PUBLIC_TEXT_FROM", n, t, BROADCAST)
<1>1. n.escaped \in Nat /\ n.escaped <= 48 /\ n.utf8
  BY DEF NameFits, Measured, Text, USER_MAX_LENGHT
<1>2. t.escaped \in Nat /\ t.escaped < 224 /\ t.utf8
  BY DEF TextFits, Text, Around, JSON
<1> QED
  BY <1>1, <1>2 DEF build_json_response, Around, JSON, BROADCAST, Empty

\* The server can always build what an identification or a text calls for,
\* while the memory of the name is not freed.
THEOREM NothingUnbuiltEver == TextSpec => NothingUnbuilt
<1> DEFINE Built ==
      (request \notin {None, Joint} /\ request' = None /\ ~freed') =>
        /\ request.type = "IDENTIFY" =>
             /\ answer = None => answer' # None
             /\ username' # username /\ relay = None => relay' # None
        /\ request.type = "PUBLIC_TEXT" =>
             username # Empty /\ (relay = None => relay' # None)
<1>1. TextInv /\ [TextNext]_textVars => Built
  <2> SUFFICES ASSUME TextInv, [TextNext]_textVars, request \notin {None, Joint},
                      request' = None, ~freed'
               PROVE  Built
    OBVIOUS
  <2>1. CASE MainStep
    <3>1. request' \in {request, Joint}
      BY <2>1 DEF MainStep, parse_command, invalid_input, Scanned, handle_login, handle_logout,
                  handle_status_client, handle_unknown, send_public_text, strcat_aborts,
                  login_first, Sends, Behind
    <3> QED BY <3>1, TextAssumption
  <2>2. CASE handle_identify
    <3>1. request.type = "IDENTIFY"
      BY <2>2 DEF handle_identify, ServerTakes
    <3>2. PICK user \in strncpy(request.name, USER_MAX_LENGHT) : \E n \in CutName(user) :
            \/ Replies("USER_ALREADY_EXISTS", n) /\ username' = username
            \/ /\ \E extra \in Reads(n, freed') : Replies("SUCCESS", extra)
               /\ \E name \in Reads(n, freed') :
                    Announces("NEW_USER", name, Empty, request.name, ~freed')
      BY <2>2 DEF handle_identify, nameVars
    <3>3. PICK n \in CutName(user) :
            \/ Replies("USER_ALREADY_EXISTS", n) /\ username' = username
            \/ /\ \E extra \in Reads(n, freed') : Replies("SUCCESS", extra)
               /\ \E name \in Reads(n, freed') :
                    Announces("NEW_USER", name, Empty, request.name, ~freed')
      BY <3>2
    <3>4. n = request.name /\ n \in Text /\ NameFits(n) /\ Reads(n, freed') = {n}
      BY <3>1, NameArrives, ReadsText
    <3>5. /\ build_json_response("SUCCESS", n, Empty, JSON)
          /\ build_json_response("USER_ALREADY_EXISTS", n, Empty, JSON)
          /\ build_json_response("NEW_USER", n, Empty, BROADCAST)
      <4>1. Empty \in Text /\ TextFits(Empty)
        BY EmptyText DEF TextFits, Around, JSON, Empty
      <4> QED BY <3>4, <4>1, RoomForAll
    <3>6. CASE Replies("USER_ALREADY_EXISTS", n) /\ username' = username
      <4>1. answer = None => answer' \in {Message("USER_ALREADY_EXISTS", n, Empty, Empty, TRUE), Joint}
        BY <3>5, <3>6 DEF Replies, Writes, Behind
      <4>2. answer = None => answer' # None
        BY <3>4, <4>1, EmptyText, NotNone, TextAssumption DEF Types
      <4> QED BY <3>1, <3>6, <4>2
    <3>7. CASE Replies("SUCCESS", n) /\ Announces("NEW_USER", n, Empty, n, TRUE)
      <4>1. /\ answer = None => answer' \in {Message("SUCCESS", n, Empty, Empty, TRUE), Joint}
            /\ relay = None => relay' \in {Message("NEW_USER", n, Empty, n, TRUE), Joint}
        BY <3>5, <3>7 DEF Replies, Announces, Writes, Behind
      <4>2. (answer = None => answer' # None) /\ (relay = None => relay' # None)
        BY <3>4, <4>1, EmptyText, NotNone, TextAssumption DEF Types
      <4> QED BY <3>1, <4>2
    <3> QED BY <3>3, <3>4, <3>6, <3>7
  <2>3. CASE handle_disconnect \/ handle_status \/ server_listener_drops
    BY <2>3 DEF handle_disconnect, handle_status, server_listener_drops, ServerTakes
  <2>4. CASE handle_public_text
    <3>1. request.type = "PUBLIC_TEXT" /\ username \in Text /\ NameFits(username) /\ ~freed
      BY <2>4 DEF handle_public_text, nameVars, ServerTakes, TextInv, TextTypeOK, Held
    <3>2. PICK text \in strncpy(request.text, MAX_INPUT_MSG) :
            Announces("PUBLIC_TEXT_FROM", username, text, request.typed, request.own)
      BY <2>4, <3>1, ReadsText DEF handle_public_text
    <3>3. /\ text \in Text /\ TextFits(text) /\ username # Empty
          /\ request.typed \in Text /\ request.own \in BOOLEAN
      BY <3>1, TextArrives
    <3>4. relay = None =>
            relay' \in {Message("PUBLIC_TEXT_FROM", username, text, request.typed, request.own),
                        Joint}
      BY <3>1, <3>2, <3>3, RoomForAll DEF Announces, Writes, Behind
    <3>5. relay = None => relay' # None
      BY <3>1, <3>3, <3>4, NotNone, TextAssumption DEF Types
    <3> QED BY <3>1, <3>3, <3>5
  <2>5. CASE \/ other_thread_frees \/ ListenerStep \/ UNCHANGED textVars
    BY <2>5 DEF other_thread_frees, ListenerStep, handle_identify_response,
                handle_public_text_from, client_listener_drops, textVars
  <2> QED BY <2>1, <2>2, <2>3, <2>4, <2>5 DEF TextNext, ServerStep
<1> QED BY <1>1, TextInvariance, PTL DEF TextSpec, NothingUnbuilt

=============================================================================
