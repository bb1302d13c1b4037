--------------------------- MODULE StartupProofs ---------------------------
(***************************************************************************)
(* Theorems about Startup, for any addresses and numerals on the command   *)
(* line and any width of an int.                                           *)
(***************************************************************************)
EXTENDS Startup, TLAPS

\* atoi returns an int, of whatever an argument is.
LEMMA AtoiInt == \A a \in Argument : atoi(a) \in Int
<1> SUFFICES ASSUME NEW a \in Argument PROVE atoi(a) \in Int
  OBVIOUS
<1>1. IntSize \in Nat /\ IntSize > 0 /\ LongSize \in Nat /\ Numerals \subseteq Nat
  BY StartupAssumption
<1>2. a.value \in Nat
  <2>1. a.value \in {0} \cup Numerals
    BY DEF Argument
  <2>2. \A x \in Numerals : x \in Nat
    BY StartupAssumption
  <2> QED BY <2>1, <2>2
<1> DEFINE long == IF a.value < LongSize \div 2 THEN a.value ELSE LongSize \div 2 - 1
           low == long % IntSize
<1>3. LongSize \div 2 \in Int
  BY <1>1
<1>4. long \in Int
  BY <1>2, <1>3
<1> HIDE DEF long
<1>5. low \in Int
  BY <1>1, <1>4
<1>6. IntSize \div 2 \in Int
  BY <1>1
<1>7. atoi(a) = IF a.kind # "numeral" THEN 0
                ELSE IF low < IntSize \div 2 THEN low ELSE low - IntSize
  BY DEF atoi, long
<1> HIDE DEF low
<1> QED BY <1>1, <1>5, <1>6, <1>7

\* What the operands of the flags are, once they are valid.
LEMMA Operands ==
  \A a \in Argument :
    /\ is_valid_ip(a) => a.ip \in Ips /\ a.ip # NoIp
    /\ is_valid_port(a) => atoi(a) \in 1 .. MaxPort
<1> SUFFICES ASSUME NEW a \in Argument
             PROVE  /\ is_valid_ip(a) => a.ip \in Ips /\ a.ip # NoIp
                    /\ is_valid_port(a) => atoi(a) \in 1 .. MaxPort
  OBVIOUS
<1>1. is_valid_ip(a) => a.ip \in Ips /\ a.ip # NoIp
  BY StartupAssumption DEF is_valid_ip, Argument
<1>2. MaxPort \in Nat
  BY StartupAssumption
<1>3. is_valid_port(a) => atoi(a) \in 1 .. MaxPort
  BY <1>2, AtoiInt DEF is_valid_port
<1> QED BY <1>1, <1>3

\* The defaults are an address and a port.
LEMMA Defaults ==
  /\ initialize_config \in [ip_address : Ips, port : 1 .. MaxPort]
  /\ MaxPort \in Nat /\ NoIp \notin Ips
BY StartupAssumption DEF initialize_config

\* An index into args yields an argument.
LEMMA ArgAt ==
  ASSUME StartupTypeOK, NEW k \in 1 .. Len(args)
  PROVE  args[k] \in Argument
BY DEF StartupTypeOK

LEMMA InitKeeps == StartupInit => StartupInv
<1> SUFFICES ASSUME StartupInit PROVE StartupInv
  OBVIOUS
<1>1. args \in Seq(Argument)
  <2>1. PICK k \in 0 .. 5 : args \in [1 .. k -> Argument]
    BY DEF StartupInit
  <2> QED BY <2>1
<1>2. StartupTypeOK
  BY <1>1, Defaults DEF StartupInit, StartupTypeOK
<1> QED BY <1>2 DEF StartupInit, StartupInv, ConfiguredAsGiven

\* The shapes of a command line while it is parsed.
LEMMA Shape ==
  ASSUME StartupTypeOK, ParsedSoFar
  PROVE  \/ i = 1 /\ (Len(args) = 1 \/ Len(args) = 3 \/ Len(args) = 4)
         \/ i = 3 /\ (Len(args) = 3 \/ Len(args) = 4) /\ ValidPair(1)
         \/ i = 5 /\ Len(args) = 4 /\ ValidPair(1) /\ ValidPair(3)
BY DEF ParsedSoFar

LEMMA CountKeeps == StartupInv /\ CountArguments => StartupInv'
<1> SUFFICES ASSUME StartupInv, CountArguments PROVE StartupInv'
  OBVIOUS
<1>1. args' = args /\ i' = 1 /\ ip_address' = NoIp /\ port' = 0
      /\ config' = initialize_config /\ stage = "start"
  BY DEF CountArguments, StartupInv
<1>2. PICK n \in Nat : n = Len(args)
  BY DEF StartupInv, StartupTypeOK
<1>3. n = 0 <=> args = <<>>
  BY <1>2 DEF StartupInv, StartupTypeOK
<1>4. stage' = CASE n = 0 -> "configured"
                 [] n + 1 > 5 \/ n + 1 = 3 -> "refused"
                 [] OTHER -> "parsing"
  BY <1>2, <1>3 DEF CountArguments
<1>5. CASE args = <<>>
  BY <1>1, <1>2, <1>5 DEF CountArguments, StartupInv, StartupTypeOK, ConfiguredAsGiven,
     Accepted
<1>6. CASE n # 0 /\ (n > 4 \/ n = 2)
  <2>1. stage' = "refused"
    <3>1. n # 0 /\ (n + 1 > 5 \/ n + 1 = 3)
      BY <1>6
    <3> QED BY <1>4, <3>1
  <2>2. ~Accepted'
    <3>1. n # 4
      BY <1>6
    <3> QED BY <1>1, <1>2, <3>1 DEF Accepted
  <2> QED BY <1>1, <2>1, <2>2 DEF StartupInv, StartupTypeOK, ConfiguredAsGiven
<1>7. CASE n = 1 \/ n = 3 \/ n = 4
  <2>1. stage' = "parsing" /\ Len(args) \in {1, 3, 4}
    <3>1. n # 0 /\ ~(n + 1 > 5) /\ ~(n + 1 = 3)
      BY <1>7
    <3>2. Len(args) \in {1, 3, 4}
      BY <1>2, <1>7
    <3> QED BY <1>4, <3>1, <3>2
  <2>2. IpBefore(1)' = NoIp /\ PortBefore(1)' = 0
    BY <1>1 DEF IpBefore, PortBefore, HasFlag
  <2>3. ParsedSoFar'
    BY <1>1, <2>1, <2>2 DEF ParsedSoFar
  <2> QED BY <1>1, <2>1, <2>3 DEF StartupInv, StartupTypeOK, ConfiguredAsGiven
<1> QED BY <1>3, <1>5, <1>6, <1>7

\* The parser stands at a flag.
LEMMA AtFlag ==
  ASSUME StartupInv, stage = "parsing", i <= Len(args)
  PROVE  (i = 1 \/ i = 3) /\ i \in 1 .. Len(args)
<1>1. PICK n \in Nat : n = Len(args)
  BY DEF StartupInv, StartupTypeOK
<1>2. i <= n /\ (i = 1 \/ i = 3 \/ (i = 5 /\ n = 4))
  BY <1>1, Shape DEF StartupInv
<1>3. (i = 1 \/ i = 3) /\ i \in 1 .. n
  BY <1>2
<1> QED BY <1>1, <1>3

\* What the parser refuses at i is not accepted.
LEMMA RefusedIsWrong ==
  ASSUME StartupInv, stage = "parsing", i <= Len(args),
         \/ i = Len(args)
         \/ i < Len(args) /\ ~ValidPair(i)
  PROVE  ~Accepted
<1>1. CASE i = 1
  BY <1>1 DEF Accepted
<1>2. CASE i = 3
  BY <1>2 DEF Accepted
<1> QED BY <1>1, <1>2, AtFlag

LEMMA NullKeeps == StartupInv /\ ParseNull => StartupInv'
BY DEF ParseNull, StartupInv, StartupTypeOK, ConfiguredAsGiven

LEMMA RefuseKeeps ==
  ASSUME StartupInv, stage = "parsing", i <= Len(args),
         \/ i = Len(args)
         \/ i < Len(args) /\ ~ValidPair(i),
         stage' = "refused", UNCHANGED <<args, i, ip_address, port, config>>
  PROVE  StartupInv'
<1>1. ~Accepted'
  BY RefusedIsWrong DEF Accepted, ValidPair, is_valid_ip, is_valid_port, atoi
<1> QED BY <1>1 DEF StartupInv, StartupTypeOK, ConfiguredAsGiven

LEMMA UnknownKeeps == StartupInv /\ ParseUnknown => StartupInv'
<1> SUFFICES ASSUME StartupInv, ParseUnknown PROVE StartupInv'
  OBVIOUS
<1>1. ~ValidPair(i)
  BY DEF ParseUnknown, ValidPair
<1>2. i = Len(args) \/ i < Len(args)
  BY DEF ParseUnknown, StartupInv, StartupTypeOK
<1> QED BY <1>1, <1>2, RefuseKeeps DEF ParseUnknown

\* A pair of the right form moves i behind it.
LEMMA StepKeeps ==
  ASSUME StartupInv, stage = "parsing", i < Len(args), ValidPair(i),
         UNCHANGED <<args, stage, config>>, i' = i + 2,
         ip_address' = (IF args[i].kind = "--ip" THEN args[i + 1].ip ELSE ip_address),
         port' = (IF args[i].kind = "--port" THEN atoi(args[i + 1]) ELSE port)
  PROVE  StartupInv'
<1> DEFINE n == Len(args)
<1>1. n \in Nat /\ i < n /\ (i = 1 \/ i = 3) /\ (n = 1 \/ n = 3 \/ n = 4)
      /\ (i = 3 => ValidPair(1))
  BY AtFlag, Shape DEF StartupInv, StartupTypeOK
<1>2. /\ i + 1 \in 1 .. n /\ (n = 3 \/ n = 4) /\ (i = 3 => n = 4)
  <2> HIDE DEF n
  <2> QED BY <1>1
<1>3. /\ i \in {1, 3} /\ i + 1 \in 1 .. Len(args) /\ Len(args) \in {1, 3, 4}
      /\ i = 3 => Len(args) = 4 /\ ValidPair(1)
      /\ i = 1 => Len(args) \in {3, 4}
  BY <1>1, <1>2
<1>4. args[i + 1] \in Argument
  BY <1>3, ArgAt DEF StartupInv
<1>5. StartupTypeOK'
  <2>1. args[i].kind = "--ip" => ip_address' \in Ips
    BY <1>4, Operands DEF ValidPair
  <2>2. args[i].kind = "--port" => port' \in 1 .. MaxPort
    BY <1>4, Operands DEF ValidPair
  <2>3. i' \in 1 .. 5
    BY <1>3
  <2> QED BY <2>1, <2>2, <2>3, Defaults DEF StartupInv, StartupTypeOK
<1>6. ParsedSoFar'
  <2>1. ip_address = IpBefore(i) /\ port = PortBefore(i)
    BY DEF StartupInv, ParsedSoFar
  <2>2. ip_address' = IpBefore(i + 2) /\ port' = PortBefore(i + 2)
    BY <1>3, <2>1 DEF IpBefore, PortBefore, HasFlag
  <2>3. (\A k : ValidPair(k) <=> ValidPair(k)')
    BY DEF ValidPair, is_valid_ip, is_valid_port, atoi
  <2>4. ip_address' = IpBefore(i)' /\ port' = PortBefore(i)'
    BY <2>2 DEF IpBefore, PortBefore, HasFlag, atoi
  <2> QED BY <1>3, <2>3, <2>4 DEF ParsedSoFar
<1> QED BY <1>5, <1>6 DEF StartupInv, ConfiguredAsGiven

LEMMA IpKeeps == StartupInv /\ ParseIp => StartupInv'
<1> SUFFICES ASSUME StartupInv, ParseIp PROVE StartupInv'
  OBVIOUS
<1>1. CASE is_valid_ip(args[i + 1])
  BY <1>1, StepKeeps DEF ParseIp, ValidPair
<1>2. CASE ~is_valid_ip(args[i + 1])
  <2>1. ~ValidPair(i)
    BY <1>2 DEF ParseIp, ValidPair
  <2> QED BY <1>2, <2>1, RefuseKeeps DEF ParseIp, StartupInv, StartupTypeOK
<1> QED BY <1>1, <1>2

LEMMA PortKeeps == StartupInv /\ ParsePort => StartupInv'
<1> SUFFICES ASSUME StartupInv, ParsePort PROVE StartupInv'
  OBVIOUS
<1>1. CASE is_valid_port(args[i + 1])
  BY <1>1, StepKeeps DEF ParsePort, ValidPair
<1>2. CASE ~is_valid_port(args[i + 1])
  <2>1. ~ValidPair(i)
    BY <1>2 DEF ParsePort, ValidPair
  <2> QED BY <1>2, <2>1, RefuseKeeps DEF ParsePort, StartupInv, StartupTypeOK
<1> QED BY <1>1, <1>2

LEMMA EndKeeps == StartupInv /\ ParseEnd => StartupInv'
<1> SUFFICES ASSUME StartupInv, ParseEnd PROVE StartupInv'
  OBVIOUS
<1>1. i = 5
  <2>1. PICK n \in Nat : n = Len(args)
    BY DEF StartupInv, StartupTypeOK
  <2>2. i > n /\ ((i = 1 /\ (n = 1 \/ n = 3 \/ n = 4)) \/ (i = 3 /\ (n = 3 \/ n = 4)) \/ i = 5)
    BY <2>1, Shape DEF ParseEnd, StartupInv
  <2> QED BY <2>2
<1>2. ParsedSoFar'
  BY DEF ParseEnd, StartupInv, ParsedSoFar, IpBefore, PortBefore, HasFlag, ValidPair,
     is_valid_ip, is_valid_port, atoi
<1> QED BY <1>1, <1>2 DEF ParseEnd, StartupInv, StartupTypeOK, ConfiguredAsGiven

\* Two good pairs: what is stored decides as Effective does.
LEMMA ConfigureAccepted ==
  ASSUME StartupInv, Configure, stage = "parsed"
  PROVE  StartupInv'
<1>1. /\ i = 5 /\ Len(args) = 4 /\ ValidPair(1) /\ ValidPair(3) /\ config = initialize_config
      /\ ip_address = IpBefore(5) /\ port = PortBefore(5)
  BY DEF StartupInv, ParsedSoFar
<1>2. args[2] \in Argument /\ args[4] \in Argument
  BY <1>1, ArgAt DEF StartupInv
<1>3. /\ args[1].kind = "--ip" => args[2].ip \in Ips
      /\ args[3].kind = "--ip" => args[4].ip \in Ips
      /\ args[1].kind = "--port" => atoi(args[2]) \in 1 .. MaxPort
      /\ args[3].kind = "--port" => atoi(args[4]) \in 1 .. MaxPort
      /\ args[1].kind \in {"--ip", "--port"} /\ args[3].kind \in {"--ip", "--port"}
  BY <1>1, <1>2, Operands DEF ValidPair
<1>4. StartupTypeOK /\ stage' = "configured" /\ UNCHANGED <<args, i, ip_address, port>>
  BY DEF StartupInv, Configure
<1>5. Accepted'
  BY <1>1, <1>4 DEF Accepted, ValidPair, is_valid_ip, is_valid_port, atoi
<1>6. Effective' = Effective
  BY <1>4 DEF Effective
<1>7. CASE args[3].kind = "--ip" \/ args[1].kind = "--ip"
  <2>1. Effective = (IF args[3].kind = "--ip" THEN 3 ELSE 1)
    BY <1>7 DEF Effective
  <2>2. /\ ip_address = args[Effective + 1].ip /\ ip_address \in Ips
        /\ args[Effective].kind = "--ip"
    BY <1>1, <1>3, <1>7, <2>1 DEF IpBefore, HasFlag
  <2>3. config' = [initialize_config EXCEPT !.ip_address = args[Effective + 1].ip]
    BY <1>1, <2>2, Defaults DEF Configure
  <2>4. config' \in [ip_address : Ips, port : 1 .. MaxPort]
    BY <2>2, <2>3, Defaults
  <2>5. ConfiguredAsGiven'
    BY <1>4, <1>5, <1>6, <2>2, <2>3 DEF ConfiguredAsGiven, initialize_config
  <2> QED BY <1>4, <2>4, <2>5 DEF StartupInv, StartupTypeOK
<1>8. CASE args[3].kind = "--port" /\ args[1].kind = "--port"
  <2>1. Effective = 3
    BY <1>8 DEF Effective
  <2>2. ip_address = NoIp /\ port = atoi(args[4]) /\ port \in 1 .. MaxPort
    BY <1>1, <1>3, <1>8 DEF IpBefore, PortBefore, HasFlag
  <2>3. config' = [initialize_config EXCEPT !.port = atoi(args[4])]
    BY <1>1, <2>2, Defaults DEF Configure
  <2>4. config' \in [ip_address : Ips, port : 1 .. MaxPort]
    BY <2>2, <2>3, Defaults
  <2>5. ConfiguredAsGiven'
    BY <1>4, <1>5, <1>6, <1>8, <2>1, <2>3 DEF ConfiguredAsGiven, initialize_config, atoi
  <2> QED BY <1>4, <2>4, <2>5 DEF StartupInv, StartupTypeOK
<1> QED BY <1>3, <1>7, <1>8

LEMMA ConfigureKeeps == StartupInv /\ Configure => StartupInv'
<1> SUFFICES ASSUME StartupInv, Configure PROVE StartupInv'
  OBVIOUS
<1>1. CASE stage = "parsed"
  BY <1>1, ConfigureAccepted
<1>2. CASE stage = "refused"
  <2>1. /\ ~Accepted /\ config' = initialize_config /\ stage' = "configured"
        /\ UNCHANGED <<args, i, ip_address, port>>
    BY <1>2 DEF Configure, StartupInv
  <2>2. ~Accepted'
    BY <2>1 DEF Accepted, ValidPair, is_valid_ip, is_valid_port, atoi
  <2>3. initialize_config' = initialize_config
    BY DEF initialize_config
  <2> QED BY <2>1, <2>2, <2>3, Defaults DEF StartupInv, StartupTypeOK, ConfiguredAsGiven
<1> QED BY <1>1, <1>2 DEF Configure

LEMMA StutterKeeps == StartupInv /\ UNCHANGED startupVars => StartupInv'
<1> SUFFICES ASSUME StartupInv, UNCHANGED startupVars PROVE StartupInv'
  OBVIOUS
<1> USE DEF startupVars
<1>1. StartupTypeOK'
  BY DEF StartupInv, StartupTypeOK
<1>2. (Accepted <=> Accepted') /\ Effective' = Effective /\ initialize_config' = initialize_config
  BY DEF Accepted, Effective, ValidPair, is_valid_ip, is_valid_port, atoi, initialize_config
<1>3. ConfiguredAsGiven'
  BY <1>2 DEF StartupInv, ConfiguredAsGiven, atoi
<1>4. ParsedSoFar => ParsedSoFar'
  BY DEF ParsedSoFar, IpBefore, PortBefore, HasFlag, ValidPair, is_valid_ip, is_valid_port, atoi
<1> QED BY <1>1, <1>2, <1>3, <1>4 DEF StartupInv

-----------------------------------------------------------------------------
\* From any command line, start-up keeps StartupInv: the parser has stored
\* exactly what the flags before i ask for, and refuses only what is wrong
\* (parse_arguments, connection.c:133).
THEOREM StartupInvariance == StartupSpec => []StartupInv
<1>1. StartupInv /\ [StartupNext]_startupVars => StartupInv'
  BY CountKeeps, NullKeeps, UnknownKeeps, IpKeeps, PortKeeps, EndKeeps, ConfigureKeeps,
     StutterKeeps DEF StartupNext
<1> QED BY InitKeeps, <1>1, PTL DEF StartupSpec

\* No port outside 1 to MaxPort is ever stored, however wide an int is and
\* whatever atoi makes of a numeral.
THEOREM StartupTypes == StartupSpec => []StartupTypeOK
<1>1. StartupInv => StartupTypeOK
  BY DEF StartupInv
<1> QED BY <1>1, StartupInvariance, PTL

\* The configuration a program goes on with is the one its arguments ask for:
\* an address, or else a port, or the defaults (main of both programs).
THEOREM ConfiguredAsGivenAlways == StartupSpec => []ConfiguredAsGiven
<1>1. StartupInv => ConfiguredAsGiven
  BY DEF StartupInv
<1> QED BY <1>1, StartupInvariance, PTL
=============================================================================
