------------------------------ MODULE Startup ------------------------------
(***************************************************************************)
(* How both programs arrive at the address they use: the first lines of    *)
(* main in server.c and client.c (they are the same), initialize_config    *)
(* and parse_arguments of connection.c.                                    *)
(*                                                                         *)
(* An argument is a flag, an address inet_pton accepts, a numeral, or any  *)
(* other word.  Numerals keep their value, because atoi narrows them: an   *)
(* int has IntSize values and a long LongSize.                             *)
(***************************************************************************)
EXTENDS Integers, Sequences

CONSTANTS
  Ips,          \* addresses in dotted form
  NoIp,         \* the empty string
  Numerals,     \* the numbers a user may write
  DEFAULT_IP,
  DEFAULT_PORT,
  MaxPort,      \* 65535
  IntSize,      \* 2^32
  LongSize      \* 2^64

ASSUME StartupAssumption ==
  /\ NoIp \notin Ips /\ DEFAULT_IP \in Ips
  /\ Numerals \subseteq Nat
  /\ MaxPort \in Nat /\ DEFAULT_PORT \in 1 .. MaxPort
  /\ IntSize \in Nat /\ 2 * MaxPort < IntSize
  /\ LongSize \in Nat /\ IntSize <= LongSize

Argument ==
  [kind : {"--ip", "--port", "word"}, ip : {NoIp}, value : {0}]
    \cup [kind : {"address"}, ip : Ips, value : {0}]
    \cup [kind : {"numeral"}, ip : {NoIp}, value : Numerals]

VARIABLES
  args,        \* argv without argv[0]
  stage,       \* "start", "parsing", "parsed", "refused", "crashed", "configured"
  i,           \* the loop variable of parse_arguments
  ip_address,  \* main's variables, which parse_arguments writes
  port,
  config       \* the configuration: ip_address and port

startupVars == <<args, stage, i, ip_address, port, config>>

-----------------------------------------------------------------------------
\* atoi: strtol, which stops at the largest long, cut down to an int.
atoi(a) ==
  LET long == IF a.value < LongSize \div 2 THEN a.value ELSE LongSize \div 2 - 1
      low == long % IntSize
  IN IF a.kind # "numeral" THEN 0
     ELSE IF low < IntSize \div 2 THEN low ELSE low - IntSize

is_valid_ip(a) == a.kind = "address"

\* Mutant: the upper limit is one too high.
is_valid_port_off(a) ==
  a.kind = "numeral" /\ atoi(a) > 0 /\ atoi(a) <= MaxPort + 1

\* The range is checked after the narrowing, and the digits one by one.
is_valid_port(a) ==
  a.kind = "numeral" /\ atoi(a) > 0 /\ atoi(a) <= MaxPort

-----------------------------------------------------------------------------
initialize_config == [ip_address |-> DEFAULT_IP, port |-> DEFAULT_PORT]

StartupInit ==
  /\ args \in UNION {[1 .. k -> Argument] : k \in 0 .. 5}
  /\ stage = "start"
  /\ i = 1
  /\ ip_address = NoIp
  /\ port = 0
  /\ config = initialize_config

\* argc is one more than the number of arguments.  Without any, main does
\* not call parse_arguments.
CountArguments ==
  /\ stage = "start"
  /\ stage' = CASE args = <<>> -> "configured"
                [] Len(args) + 1 > 5 \/ Len(args) + 1 = 3 -> "refused"
                [] OTHER -> "parsing"
  /\ UNCHANGED <<args, i, ip_address, port, config>>

\* A flag at the end of argv is followed by argv[argc], a null pointer, which
\* inet_pton and atoi read.
ParseNull ==
  /\ stage = "parsing" /\ i = Len(args)
  /\ args[i].kind \in {"--ip", "--port"}
  /\ stage' = "crashed"
  /\ UNCHANGED <<args, i, ip_address, port, config>>

ParseUnknown ==
  /\ stage = "parsing" /\ i <= Len(args)
  /\ args[i].kind \notin {"--ip", "--port"}
  /\ stage' = "refused"
  /\ UNCHANGED <<args, i, ip_address, port, config>>

ParseIp ==
  /\ stage = "parsing" /\ i < Len(args) /\ args[i].kind = "--ip"
  /\ IF is_valid_ip(args[i + 1])
     THEN ip_address' = args[i + 1].ip /\ i' = i + 2 /\ UNCHANGED stage
     ELSE stage' = "refused" /\ UNCHANGED <<ip_address, i>>
  /\ UNCHANGED <<args, port, config>>

\* Mutant: the loop variable stays.
ParsePort_stays ==
  /\ stage = "parsing" /\ i < Len(args) /\ args[i].kind = "--port"
  /\ IF is_valid_port(args[i + 1])
     THEN port' = atoi(args[i + 1]) /\ UNCHANGED <<stage, i>>
     ELSE stage' = "refused" /\ UNCHANGED <<port, i>>
  /\ UNCHANGED <<args, ip_address, config>>

ParsePort ==
  /\ stage = "parsing" /\ i < Len(args) /\ args[i].kind = "--port"
  /\ IF is_valid_port(args[i + 1])
     THEN port' = atoi(args[i + 1]) /\ i' = i + 2 /\ UNCHANGED stage
     ELSE stage' = "refused" /\ UNCHANGED <<port, i>>
  /\ UNCHANGED <<args, ip_address, config>>

ParseEnd ==
  /\ stage = "parsing" /\ i > Len(args)
  /\ stage' = "parsed"
  /\ UNCHANGED <<args, i, ip_address, port, config>>

\* Mutant: what was parsed before an error is used as well.
Configure_always ==
  /\ stage \in {"parsed", "refused"}
  /\ config' = CASE ip_address # NoIp -> [config EXCEPT !.ip_address = ip_address]
                 [] ip_address = NoIp /\ port # 0 -> [config EXCEPT !.port = port]
                 [] OTHER -> config
  /\ stage' = "configured"
  /\ UNCHANGED <<args, i, ip_address, port>>

\* main: an address is used, or else a port; after an error neither, and the
\* program goes on with the defaults.
Configure ==
  /\ stage \in {"parsed", "refused"}
  /\ config' = CASE stage = "parsed" /\ ip_address # NoIp ->
                      [config EXCEPT !.ip_address = ip_address]
                 [] stage = "parsed" /\ ip_address = NoIp /\ port # 0 ->
                      [config EXCEPT !.port = port]
                 [] OTHER -> config
  /\ stage' = "configured"
  /\ UNCHANGED <<args, i, ip_address, port>>

StartupNext ==
  \/ CountArguments
  \/ ParseNull \/ ParseUnknown \/ ParseIp \/ ParsePort \/ ParseEnd
  \/ Configure

StartupSpec == StartupInit /\ [][StartupNext]_startupVars /\ WF_startupVars(StartupNext)

-----------------------------------------------------------------------------
(* What a user gets, from the arguments alone.                             *)

\* Two flags, with operands the parser takes.
ValidPair(k) ==
  \/ args[k].kind = "--ip" /\ is_valid_ip(args[k + 1])
  \/ args[k].kind = "--port" /\ is_valid_port(args[k + 1])

Accepted == Len(args) = 4 /\ ValidPair(1) /\ ValidPair(3)

\* The flag that counts: the last --ip, or else the last --port.
Effective ==
  LET ipAt == {k \in {1, 3} : args[k].kind = "--ip"}
  IN IF ipAt = {1} THEN 1 ELSE 3

\* Types.
StartupTypeOK ==
  /\ args \in Seq(Argument)
  /\ stage \in {"start", "parsing", "parsed", "refused", "crashed", "configured"}
  /\ i \in 1 .. 5
  /\ ip_address \in Ips \cup {NoIp}
  /\ port \in 0 .. MaxPort
  /\ config \in [ip_address : Ips, port : 1 .. MaxPort]

\* A configured program uses the defaults, except when it was given exactly
\* two flags that are both fine; then one of them has its effect and the other
\* setting keeps its default (connection.c:134, server.c:34-40).
ConfiguredAsGiven ==
  stage = "configured" =>
    IF ~Accepted THEN config = initialize_config
    ELSE config =
           IF args[Effective].kind = "--ip"
           THEN [initialize_config EXCEPT !.ip_address = args[Effective + 1].ip]
           ELSE [initialize_config EXCEPT !.port = atoi(args[Effective + 1])]

\* What the flags before position n leave behind: the last one of a kind counts.
HasFlag(k, n, flag) == k < n /\ args[k].kind = flag

IpBefore(n) ==
  CASE HasFlag(3, n, "--ip") -> args[4].ip
    [] ~HasFlag(3, n, "--ip") /\ HasFlag(1, n, "--ip") -> args[2].ip
    [] OTHER -> NoIp

PortBefore(n) ==
  CASE HasFlag(3, n, "--port") -> atoi(args[4])
    [] ~HasFlag(3, n, "--port") /\ HasFlag(1, n, "--port") -> atoi(args[2])
    [] OTHER -> 0

\* While it parses, i stands at a flag or behind the last, what came before was
\* fine, and its effect has been stored.
ParsedSoFar ==
  /\ Len(args) \in {1, 3, 4} /\ i \in {1, 3, 5}
  /\ i \in {3, 5} => Len(args) \in {3, 4} /\ ValidPair(1)
  /\ i = 5 => Len(args) = 4 /\ ValidPair(3)
  /\ ip_address = IpBefore(i)
  /\ port = PortBefore(i)

\* What makes these inductive.  Nothing is configured before the end, the
\* parser keeps ParsedSoFar, and it refuses only what is not accepted.
StartupInv ==
  /\ StartupTypeOK /\ ConfiguredAsGiven
  /\ stage # "configured" => config = initialize_config
  /\ stage = "start" => i = 1 /\ ip_address = NoIp /\ port = 0
  /\ stage \in {"parsing", "parsed"} => ParsedSoFar
  /\ stage = "parsed" => i = 5
  /\ stage = "refused" => ~Accepted

\* Parsing ends: the program gets its configuration, or it crashed on a flag
\* without an operand.
StartupEnds ==
  <>(\/ stage = "configured"
     \/ /\ stage = "crashed"
        /\ args[Len(args)].kind \in {"--ip", "--port"})

-----------------------------------------------------------------------------
(* What the documentation says.                                            *)

\* README.md:37-40, "--ip 127.0.0.5 --port 1234 ... The flags are optional":
\* a flag that is given has its effect.
FlagsHonoured ==
  stage = "configured" =>
    \A k \in 1 .. (Len(args) - 1) :
      /\ args[k].kind = "--ip" /\ is_valid_ip(args[k + 1])
           => config.ip_address = args[k + 1].ip
      /\ args[k].kind = "--port" /\ is_valid_port(args[k + 1])
           => config.port = atoi(args[k + 1])
=============================================================================
